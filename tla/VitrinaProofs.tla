----------------------------- MODULE VitrinaProofs -----------------------------
(***************************************************************************)
(* Proofs about what the platform shows of people and businesses: pages,   *)
(* advertisements, skills, profiles, trust, hours and regions.  Each area  *)
(* has an inductive invariant of its own, which holds its properties and   *)
(* what the requests in flight know of the rows they read; the steps of    *)
(* the area preserve it, for any number of racing requests and of rows.    *)
(* PlataformaProofs puts the areas together.                               *)
(***************************************************************************)
EXTENDS Negocios, Anuncios, Habilidades, Perfil, Regiones, Lemas, SequenceTheorems

-----------------------------------------------------------------------------
(* A business: its ratings and its gallery *)

LEMMA PeticionesDeNegocio == DePeticiones(PeticionNegocio)
  BY NadaNoEsNegocio DEF DePeticiones, PeticionNegocio

VotosDelNegocio == [Autores -> Puntajes \cup {Nada}]

LEMMA ResumenEs ==
    ASSUME NEW votos \in VotosDelNegocio
    PROVE  /\ Promedio(votos) \in 0..500
           /\ Cardinality(Autoria(votos)) \in 0..Cardinality(Autores)
  <1>1. PICK s : s = Autoria(votos)
    OBVIOUS
  <1>2. s \in SUBSET Autores /\ \A a \in s : votos[a] \in Puntajes
    BY <1>1 DEF Autoria, VotosDelNegocio
  <1>3. /\ IsFiniteSet(s) /\ Cardinality(s) \in Nat /\ Cardinality(Autores) \in Nat
        /\ Cardinality(s) <= Cardinality(Autores)
    BY <1>2, FS_Subset, FS_CardinalityType, AutoresFinitos
  <1>4. \A a \in s : votos[a] \in 0..5
    <2>1. \A p \in Puntajes : p \in 0..5
      BY PuntajesHastaCinco
    <2>2. QED BY <1>2, <2>1
  <1>5. Promedio(votos) \in 0..500
    <2>1. PICK n : n = Cardinality(s)
      OBVIOUS
    <2>2. PICK v : v = SumFunctionOnSet(votos, s)
      OBVIOUS
    <2>3. n \in Nat /\ v \in Nat /\ v <= 5 * n
      BY <1>3, <1>4, <2>1, <2>2, SumaNat, SumaHasta
    <2>4. CASE n = 0
      BY <1>1, <2>1, <2>4 DEF Promedio
    <2>5. CASE n # 0
      <3>1. PICK a : a = 200 * v + n
        OBVIOUS
      <3>2. PICK m : m = 2 * n
        OBVIOUS
      <3>3. a \in Nat /\ m \in Nat /\ a < (500 + 1) * m
        BY <2>3, <2>5, <3>1, <3>2
      <3>4. a \div m \in 0..500
        BY <3>3, Cociente
      <3>5. QED BY <1>1, <2>1, <2>2, <2>5, <3>1, <3>2, <3>4 DEF Promedio
    <2>6. QED BY <2>4, <2>5
  <1>6. QED BY <1>1, <1>3, <1>5

\* What is in a list, once each.
Puestas(lista) == {lista[i] : i \in DOMAIN lista}
SinRepetir(lista) == \A i, j \in DOMAIN lista : lista[i] = lista[j] => i = j

LEMMA ListaConUna ==
    ASSUME NEW S, NEW lista \in Seq(S), NEW x \in S
    PROVE  LET otra == Append(lista, x)
           IN  /\ otra \in Seq(S) /\ Puestas(otra) = Puestas(lista) \cup {x}
               /\ SinRepetir(lista) /\ x \notin Puestas(lista) => SinRepetir(otra)
  <1>1. PICK n \in Nat : n = Len(lista)
    BY LenProperties
  <1>2. PICK otra : otra = Append(lista, x)
    OBVIOUS
  <1>3. /\ otra \in Seq(S) /\ Len(otra) = n + 1 /\ otra[n + 1] = x
        /\ \A i \in 1..n : otra[i] = lista[i]
    BY <1>1, <1>2, AppendProperties
  <1>4. DOMAIN otra = 1..(n + 1) /\ DOMAIN lista = 1..n
    BY <1>1, <1>3, LenProperties
  <1>5. \A i \in DOMAIN otra : (i \in DOMAIN lista /\ otra[i] = lista[i]) \/ (i = n + 1 /\ otra[i] = x)
    BY <1>3, <1>4
  <1>6. \A i \in DOMAIN lista : i \in DOMAIN otra /\ otra[i] = lista[i]
    BY <1>3, <1>4
  <1>7. n + 1 \in DOMAIN otra
    BY <1>4
  <1>8. Puestas(otra) = Puestas(lista) \cup {x}
    BY <1>3, <1>5, <1>6, <1>7 DEF Puestas
  <1>9. SinRepetir(lista) /\ x \notin Puestas(lista) => SinRepetir(otra)
    BY <1>5 DEF Puestas, SinRepetir
  <1>10. QED BY <1>2, <1>3, <1>8, <1>9

LEMMA ListaSinUna ==
    ASSUME NEW S, NEW lista \in Seq(S), NEW k \in DOMAIN lista
    PROVE  LET otra == SubSeq(lista, 1, k - 1) \o SubSeq(lista, k + 1, Len(lista))
           IN  /\ otra \in Seq(S)
               /\ Puestas(otra) \subseteq Puestas(lista)
               /\ Puestas(lista) \subseteq Puestas(otra) \cup {lista[k]}
               /\ SinRepetir(lista) => SinRepetir(otra) /\ lista[k] \notin Puestas(otra)
  <1>1. PICK n \in Nat : n = Len(lista)
    BY LenProperties
  <1>2. DOMAIN lista = 1..n /\ k \in 1..n /\ k \in Int /\ \A i \in 1..n : lista[i] \in S
    BY <1>1, LenProperties, ElementOfSeq
  <1>3. PICK a : a = SubSeq(lista, 1, k - 1)
    OBVIOUS
  <1>4. PICK b : b = SubSeq(lista, k + 1, n)
    OBVIOUS
  <1>5. a \in Seq(S) /\ Len(a) = k - 1 /\ \A i \in 1..(k - 1) : a[i] = lista[i]
    <2>1. 1 \in Int /\ k - 1 \in Int /\ \A i \in 1..(k - 1) : lista[i] \in S
      BY <1>2
    <2>2. /\ a \in Seq(S) /\ Len(a) = (IF 1 <= k - 1 THEN k - 1 - 1 + 1 ELSE 0)
          /\ \A i \in 1..(k - 1 - 1 + 1) : a[i] = lista[1 + i - 1]
      BY <1>3, <2>1, SubSeqProperties
    <2>3. QED BY <1>2, <2>2
  <1>6. b \in Seq(S) /\ Len(b) = n - k /\ \A i \in 1..(n - k) : b[i] = lista[k + i]
    <2>1. n \in Int /\ k + 1 \in Int /\ \A i \in (k + 1)..n : lista[i] \in S
      BY <1>2
    <2>2. /\ b \in Seq(S) /\ Len(b) = (IF k + 1 <= n THEN n - (k + 1) + 1 ELSE 0)
          /\ \A i \in 1..(n - (k + 1) + 1) : b[i] = lista[k + 1 + i - 1]
      BY <1>4, <2>1, SubSeqProperties
    <2>3. Len(b) = n - k /\ n - (k + 1) + 1 = n - k
      BY <1>2, <2>2
    <2>4. \A i \in 1..(n - k) : k + 1 + i - 1 = k + i
      BY <1>2
    <2>5. \A i \in 1..(n - k) : b[i] = lista[k + i]
      BY <2>2, <2>3, <2>4
    <2>6. QED BY <2>2, <2>3, <2>5
  <1>7. PICK otra : otra = a \o b
    OBVIOUS
  <1>8. /\ otra \in Seq(S) /\ Len(otra) = n - 1
        /\ \A i \in 1..(n - 1) : otra[i] = IF i <= k - 1 THEN a[i] ELSE b[i - (k - 1)]
    <2>1. /\ otra \in Seq(S) /\ Len(otra) = Len(a) + Len(b)
          /\ \A i \in 1..(Len(a) + Len(b)) : otra[i] = IF i <= Len(a) THEN a[i] ELSE b[i - Len(a)]
      BY <1>5, <1>6, <1>7, ConcatProperties
    <2>2. Len(a) + Len(b) = n - 1
      BY <1>2, <1>5, <1>6
    <2>3. QED BY <1>5, <2>1, <2>2
  <1>9. DOMAIN otra = 1..(n - 1)
    BY <1>8, LenProperties
  <1>10. \A i \in 1..(n - 1) : /\ i < k => otra[i] = lista[i]
                               /\ i >= k => otra[i] = lista[i + 1]
    <2> SUFFICES ASSUME NEW i \in 1..(n - 1)
                 PROVE  (i < k => otra[i] = lista[i]) /\ (i >= k => otra[i] = lista[i + 1])
      OBVIOUS
    <2>1. CASE i < k
      BY <1>2, <1>5, <1>8, <2>1
    <2>2. CASE i >= k
      <3>1. i - (k - 1) \in 1..(n - k) /\ k + (i - (k - 1)) = i + 1 /\ ~(i <= k - 1)
        BY <1>2, <2>2
      <3>2. b[i - (k - 1)] = lista[i + 1]
        BY <1>6, <3>1
      <3>3. QED BY <1>8, <2>2, <3>1, <3>2, <1>2
    <2>3. QED BY <1>2, <2>1, <2>2
  <1>11. \A i \in DOMAIN otra :
            \E j \in DOMAIN lista : j # k /\ otra[i] = lista[j] /\ (IF i < k THEN j = i ELSE j = i + 1)
    BY <1>2, <1>9, <1>10
  <1>12. \A j \in DOMAIN lista : j # k => \E i \in DOMAIN otra : otra[i] = lista[j]
    <2> SUFFICES ASSUME NEW j \in 1..n, j # k
                 PROVE  \E i \in 1..(n - 1) : otra[i] = lista[j]
      BY <1>2, <1>9
    <2>1. CASE j < k
      <3>1. j \in 1..(n - 1)
        BY <1>2, <2>1
      <3>2. QED BY <1>10, <2>1, <3>1
    <2>2. CASE j > k
      <3>1. j - 1 \in 1..(n - 1) /\ j - 1 >= k /\ (j - 1) + 1 = j
        BY <1>2, <2>2
      <3>2. QED BY <1>10, <3>1
    <2>3. QED BY <1>2, <2>1, <2>2
  <1>13. Puestas(otra) \subseteq Puestas(lista) /\ Puestas(lista) \subseteq Puestas(otra) \cup {lista[k]}
    BY <1>11, <1>12 DEF Puestas
  <1>14. ASSUME SinRepetir(lista)
         PROVE  SinRepetir(otra) /\ lista[k] \notin Puestas(otra)
    <2>1. lista[k] \notin Puestas(otra)
      BY <1>11, <1>14 DEF Puestas, SinRepetir
    <2>2. SinRepetir(otra)
      <3>1. ASSUME NEW i \in DOMAIN otra, NEW j \in DOMAIN otra, otra[i] = otra[j]
            PROVE  i = j
        <4>1. PICK x \in DOMAIN lista : otra[i] = lista[x] /\ (IF i < k THEN x = i ELSE x = i + 1)
          BY <1>11
        <4>2. PICK y \in DOMAIN lista : otra[j] = lista[y] /\ (IF j < k THEN y = j ELSE y = j + 1)
          BY <1>11
        <4>3. x = y
          BY <1>14, <3>1, <4>1, <4>2 DEF SinRepetir
        <4>4. i \in Nat /\ j \in Nat /\ k \in Nat
          BY <1>2, <1>9
        <4>5. QED BY <4>1, <4>2, <4>3, <4>4
      <3>2. QED BY <3>1 DEF SinRepetir
    <2>3. QED BY <2>1, <2>2
  <1>15. otra = SubSeq(lista, 1, k - 1) \o SubSeq(lista, k + 1, Len(lista))
    BY <1>1, <1>3, <1>4, <1>7
  <1>16. QED BY <1>8, <1>13, <1>14, <1>15

\* What a request that no commit overtook computed is right for the business and
\* the ratings as they are; a new list loses nothing but what it takes out.
SabeDelNegocio(h) ==
    LET p == peticion[h]
        d == p.dato
    IN  p # Nada =>
        /\ p.op = "calificar" =>
                /\ d \in [autor: Autores, puntaje: Puntajes, cargado: NegocioRow,
                          promedio: 0..500, total: 0..Cardinality(Autores)]
                /\ ~p.vieja /\ negocio # Nada =>
                    /\ {La("ratings"), La("resumen")} \subseteq p.lee
                    /\ d.promedio = Promedio([calificado EXCEPT ![d.autor] = d.puntaje])
                    /\ d.total = Cardinality(Autoria([calificado EXCEPT ![d.autor] = d.puntaje]))
                    /\ d.cargado.promedio = negocio.promedio
                    /\ d.cargado.total = negocio.total
        /\ p.op = "galeria" =>
                /\ d \in [lista: Seq(1..MaxSubidas), quita: SUBSET (1..MaxSubidas)]
                /\ Puestas(d.lista) \cup d.quita \subseteq 1..subidas
                /\ ~obsoleta /\ ~p.vieja /\ negocio # Nada =>
                    /\ La("galeria") \in p.lee
                    /\ Puestas(negocio.imagenes) \subseteq Puestas(d.lista) \cup d.quita
                    /\ Puestas(d.lista) \cap (quitadas \cup d.quita) = {}
                    /\ SinRepetir(d.lista)

\* An image on its way: in the list of some request.
EnCamino(x) == \E h \in Hilos : EnCurso(h, "galeria") /\ x \in Puestas(Dato(h).lista)

Cuadra ==
    ~obsoleta /\ negocio # Nada =>
        /\ negocio.promedio = Promedio(calificado)
        /\ negocio.total = Cardinality(Autoria(calificado))
        /\ \A x \in 1..subidas : x \in quitadas \/ EnCamino(x) \/ x \in Puestas(negocio.imagenes)
        /\ Puestas(negocio.imagenes) \cap quitadas = {}
        /\ SinRepetir(negocio.imagenes)

IInvNegocios ==
    /\ Ranuras(PeticionNegocio)
    /\ NegociosOK /\ Cuadra
    /\ \A h \in Hilos : SabeDelNegocio(h)
    /\ quitadas \subseteq 1..subidas
    /\ negocio # Nada => Puestas(negocio.imagenes) \subseteq 1..subidas

LEMMA PorSubirEs == \A x : x \in PorSubir <=> EnCamino(x)
  BY DEF PorSubir, EnCamino, Puestas

LEMMA NegocioFirme ==
    ASSUME IInvNegocios
    PROVE  NegociosOK /\ NegocioEnSerie
  <1>1. PICK b \in BOOLEAN : b <=> \A x \in 1..subidas : x \in quitadas \/ EnCamino(x)
                                        \/ x \in Puestas(negocio.imagenes)
    OBVIOUS
  <1>2. b <=> (1..subidas) \ (quitadas \cup PorSubir) \subseteq Puestas(negocio.imagenes)
    BY <1>1, PorSubirEs
  <1>3. NegocioEnSerie
    BY <1>1, <1>2 DEF NegocioEnSerie, IInvNegocios, Cuadra, Puestas, SinRepetir
  <1>4. QED BY <1>3 DEF IInvNegocios

LEMMA NegocioQueSigue ==
    ASSUME NEW h, NEW W, SabeDelNegocio(h), SigueIgual(h, W),
           ~obsoleta' => ~obsoleta, negocio' # Nada => negocio # Nada,
           subidas \in Nat, subidas' \in Nat, subidas' >= subidas,
           negocio' # Nada =>
               /\ \/ La("ratings") \in W
                  \/ (calificado' = calificado /\ negocio'.promedio = negocio.promedio
                            /\ negocio'.total = negocio.total)
               /\ \/ La("galeria") \in W
                  \/ (quitadas' = quitadas /\ negocio'.imagenes = negocio.imagenes)
    PROVE  SabeDelNegocio(h)'
  <1>1. 1..subidas \subseteq 1..subidas'
    OBVIOUS
  <1>2. NegocioRow' = NegocioRow /\ La("ratings")' = La("ratings") /\ La("resumen")' = La("resumen")
        /\ La("galeria")' = La("galeria")
    BY DEF NegocioRow, La
  <1>3. peticion[h] # Nada /\ ~peticion'[h].vieja =>
            /\ ~peticion[h].vieja
            /\ La("ratings") \in peticion[h].lee => La("ratings") \notin W
            /\ La("galeria") \in peticion[h].lee => La("galeria") \notin W
    BY DEF SigueIgual
  <1>4. calificado' = calificado => \A a, p :
            /\ Promedio([calificado EXCEPT ![a] = p])' = Promedio([calificado EXCEPT ![a] = p])
            /\ Autoria([calificado EXCEPT ![a] = p])' = Autoria([calificado EXCEPT ![a] = p])
    BY DEF Promedio, Autoria
  <1>5. \A l : Puestas(l)' = Puestas(l) /\ SinRepetir(l)' = SinRepetir(l)
    BY DEF Puestas, SinRepetir
  <1>6. ASSUME peticion[h] # Nada, peticion[h].op = "calificar"
        PROVE  SabeDelNegocio(h)'
    <2>1. PICK d : d = peticion[h].dato
      OBVIOUS
    <2>2. /\ peticion'[h] # Nada /\ peticion'[h].op = "calificar" /\ peticion'[h].dato = d
          /\ peticion'[h].lee = peticion[h].lee
      BY <1>6, <2>1 DEF SigueIgual
    <2>3. d \in [autor: Autores, puntaje: Puntajes, cargado: NegocioRow,
                 promedio: 0..500, total: 0..Cardinality(Autores)]
      BY <1>6, <2>1 DEF SabeDelNegocio
    <2>4. ASSUME ~peticion'[h].vieja, negocio' # Nada
          PROVE  /\ {La("ratings"), La("resumen")} \subseteq peticion[h].lee
                 /\ d.promedio = Promedio([calificado EXCEPT ![d.autor] = d.puntaje])'
                 /\ d.total = Cardinality(Autoria([calificado EXCEPT ![d.autor] = d.puntaje]))'
                 /\ d.cargado.promedio = negocio'.promedio
                 /\ d.cargado.total = negocio'.total
      <3>1. /\ {La("ratings"), La("resumen")} \subseteq peticion[h].lee
            /\ d.promedio = Promedio([calificado EXCEPT ![d.autor] = d.puntaje])
            /\ d.total = Cardinality(Autoria([calificado EXCEPT ![d.autor] = d.puntaje]))
            /\ d.cargado.promedio = negocio.promedio
            /\ d.cargado.total = negocio.total
        BY <1>3, <1>6, <2>1, <2>4 DEF SabeDelNegocio
      <3>2. calificado' = calificado /\ negocio'.promedio = negocio.promedio
            /\ negocio'.total = negocio.total
        BY <1>3, <1>6, <2>4, <3>1
      <3>3. QED BY <1>4, <3>1, <3>2
    <2>5. QED BY <1>2, <2>2, <2>3, <2>4 DEF SabeDelNegocio
  <1>7. ASSUME peticion[h] # Nada, peticion[h].op = "galeria"
        PROVE  SabeDelNegocio(h)'
    <2>1. PICK d : d = peticion[h].dato
      OBVIOUS
    <2>2. /\ peticion'[h] # Nada /\ peticion'[h].op = "galeria" /\ peticion'[h].dato = d
          /\ peticion'[h].lee = peticion[h].lee
      BY <1>7, <2>1 DEF SigueIgual
    <2>3. /\ d \in [lista: Seq(1..MaxSubidas), quita: SUBSET (1..MaxSubidas)]
          /\ Puestas(d.lista) \cup d.quita \subseteq 1..subidas'
      BY <1>1, <1>7, <2>1 DEF SabeDelNegocio
    <2>4. ASSUME ~obsoleta', ~peticion'[h].vieja, negocio' # Nada
          PROVE  /\ La("galeria") \in peticion[h].lee
                 /\ Puestas(negocio'.imagenes) \subseteq Puestas(d.lista) \cup d.quita
                 /\ Puestas(d.lista) \cap (quitadas' \cup d.quita) = {}
                 /\ SinRepetir(d.lista)
      <3>1. /\ La("galeria") \in peticion[h].lee
            /\ Puestas(negocio.imagenes) \subseteq Puestas(d.lista) \cup d.quita
            /\ Puestas(d.lista) \cap (quitadas \cup d.quita) = {}
            /\ SinRepetir(d.lista)
        BY <1>3, <1>7, <2>1, <2>4 DEF SabeDelNegocio
      <3>2. quitadas' = quitadas /\ negocio'.imagenes = negocio.imagenes
        BY <1>3, <1>7, <2>4, <3>1
      <3>3. QED BY <3>1, <3>2
    <2>5. Puestas(negocio.imagenes)' = Puestas(negocio'.imagenes)
      BY DEF Puestas
    <2>6. QED BY <1>2, <1>5, <2>2, <2>3, <2>4, <2>5 DEF SabeDelNegocio
  <1>8. QED BY <1>6, <1>7 DEF SabeDelNegocio, SigueIgual

LEMMA NegocioMismo ==
    ASSUME calificado' = calificado
    PROVE  /\ Promedio(calificado)' = Promedio(calificado)
           /\ Autoria(calificado)' = Autoria(calificado)
  BY DEF Promedio, Autoria

\* A request arrives; an image it adds is in its list.
LEMMA NegocioPedido ==
    ASSUME IInvNegocios, NEW h \in Hilos, NEW op \in {"calificar", "galeria"}, NEW lee, NEW d,
           PeticionNueva(op, lee, d) \in PeticionNegocio, negocio # Nada,
           Llega(h, op, lee, d), UNCHANGED <<negocio, calificado, quitadas>>,
           subidas' \in {subidas, subidas + 1}, subidas' \in 0..MaxSubidas,
           op = "calificar" =>
                /\ d \in [autor: Autores, puntaje: Puntajes, cargado: NegocioRow,
                          promedio: 0..500, total: 0..Cardinality(Autores)]
                /\ lee = {La("ratings"), La("resumen")} /\ d.cargado = negocio
                /\ d.promedio = Promedio([calificado EXCEPT ![d.autor] = d.puntaje])
                /\ d.total = Cardinality(Autoria([calificado EXCEPT ![d.autor] = d.puntaje]))
                /\ subidas' = subidas,
           op = "galeria" =>
                /\ d \in [lista: Seq(1..MaxSubidas), quita: SUBSET (1..MaxSubidas)]
                /\ lee = {La("galeria")}
                /\ Puestas(d.lista) \cup d.quita \subseteq 1..subidas'
                /\ Puestas(negocio.imagenes) \subseteq Puestas(d.lista) \cup d.quita
                /\ ~obsoleta => /\ Puestas(d.lista) \cap (quitadas \cup d.quita) = {}
                                /\ SinRepetir(d.lista)
                /\ subidas' # subidas => subidas' \in Puestas(d.lista)
    PROVE  IInvNegocios'
  <1>1. /\ Ranuras(PeticionNegocio)' /\ obsoleta' = obsoleta
        /\ peticion[h] = Nada /\ peticion'[h] # Nada
        /\ peticion'[h].op = op /\ peticion'[h].lee = lee /\ peticion'[h].dato = d
        /\ \A g \in Hilos \ {h} : peticion'[g] = peticion[g]
    BY AlLlegar, PeticionesDeNegocio DEF IInvNegocios
  <1>2. /\ subidas \in Nat /\ subidas' \in Nat /\ subidas' >= subidas
        /\ negocio' = negocio /\ calificado' = calificado /\ quitadas' = quitadas
    BY SubidasEnteras DEF IInvNegocios, NegociosOK
  <1>3. 1..subidas \subseteq 1..subidas'
    BY <1>2
  <1>4. /\ NegocioRow' = NegocioRow /\ La("ratings")' = La("ratings")
        /\ La("resumen")' = La("resumen") /\ La("galeria")' = La("galeria")
    BY DEF NegocioRow, La
  <1>5. \A l : Puestas(l)' = Puestas(l) /\ SinRepetir(l)' = SinRepetir(l)
    BY DEF Puestas, SinRepetir
  <1>6. \A a, p :
            /\ Promedio([calificado EXCEPT ![a] = p])' = Promedio([calificado EXCEPT ![a] = p])
            /\ Autoria([calificado EXCEPT ![a] = p])' = Autoria([calificado EXCEPT ![a] = p])
    BY <1>2 DEF Promedio, Autoria
  <1>7. \A g \in Hilos \ {h} : SabeDelNegocio(g)'
    <2> SUFFICES ASSUME NEW g \in Hilos \ {h}
                 PROVE  SabeDelNegocio(g)'
      OBVIOUS
    <2>1. SabeDelNegocio(g) /\ SigueIgual(g, {})
      BY <1>1, IgualSinAge DEF IInvNegocios
    <2>2. /\ calificado' = calificado /\ negocio'.promedio = negocio.promedio
          /\ negocio'.total = negocio.total /\ quitadas' = quitadas
          /\ negocio'.imagenes = negocio.imagenes
      BY <1>2
    <2>3. QED BY <1>1, <1>2, <2>1, <2>2, NegocioQueSigue
  <1>8. SabeDelNegocio(h)'
    <2>1. CASE op = "calificar"
      <3>1. /\ d \in [autor: Autores, puntaje: Puntajes, cargado: NegocioRow,
                      promedio: 0..500, total: 0..Cardinality(Autores)]
            /\ lee = {La("ratings"), La("resumen")} /\ d.cargado = negocio
            /\ d.promedio = Promedio([calificado EXCEPT ![d.autor] = d.puntaje])
            /\ d.total = Cardinality(Autoria([calificado EXCEPT ![d.autor] = d.puntaje]))
        BY <2>1
      <3>2. QED BY <1>1, <1>2, <1>4, <1>6, <2>1, <3>1 DEF SabeDelNegocio
    <2>2. CASE op = "galeria"
      <3>1. /\ d \in [lista: Seq(1..MaxSubidas), quita: SUBSET (1..MaxSubidas)]
            /\ lee = {La("galeria")}
            /\ Puestas(d.lista) \cup d.quita \subseteq 1..subidas'
            /\ Puestas(negocio.imagenes) \subseteq Puestas(d.lista) \cup d.quita
            /\ ~obsoleta => /\ Puestas(d.lista) \cap (quitadas \cup d.quita) = {}
                            /\ SinRepetir(d.lista)
        BY <2>2
      <3>2. Puestas(negocio.imagenes)' = Puestas(negocio.imagenes)
        BY <1>2 DEF Puestas
      <3>3. QED BY <1>1, <1>2, <1>4, <1>5, <2>2, <3>1, <3>2 DEF SabeDelNegocio
    <2>3. QED BY <2>1, <2>2
  <1>9. NegociosOK'
    BY <1>2, <1>4 DEF IInvNegocios, NegociosOK
  <1>10. \A x : EnCamino(x) => EnCamino(x)'
    BY <1>1, <1>5 DEF EnCamino, EnCurso, Dato
  <1>11. PICK n \in Nat : n = subidas'
    BY <1>2
  <1>12. n # subidas => EnCamino(n)'
    <2> SUFFICES ASSUME n # subidas
                 PROVE  EnCamino(n)'
      OBVIOUS
    <2>1. op = "galeria" /\ n \in Puestas(d.lista)
      BY <1>11
    <2>2. QED BY <1>1, <1>5, <2>1 DEF EnCamino, EnCurso, Dato
  <1>13. Cuadra'
    <2>1. Puestas(negocio.imagenes)' = Puestas(negocio.imagenes)
          /\ (SinRepetir(negocio.imagenes)' <=> SinRepetir(negocio.imagenes))
      BY <1>2 DEF Puestas, SinRepetir
    <2>2. \A x \in 1..subidas' : x \in 1..subidas \/ (x = n /\ n # subidas)
      BY <1>2, <1>11
    <2>3. ASSUME ~obsoleta', negocio' # Nada
          PROVE  /\ \A x \in 1..subidas' : x \in quitadas' \/ EnCamino(x)'
                                            \/ x \in Puestas(negocio.imagenes)'
                 /\ Puestas(negocio.imagenes)' \cap quitadas' = {}
                 /\ SinRepetir(negocio.imagenes)'
      <3>1. /\ \A x \in 1..subidas : x \in quitadas \/ EnCamino(x)
                                            \/ x \in Puestas(negocio.imagenes)
            /\ Puestas(negocio.imagenes) \cap quitadas = {}
            /\ SinRepetir(negocio.imagenes)
        BY <1>1, <2>3 DEF IInvNegocios, Cuadra
      <3>2. QED BY <1>2, <1>10, <1>12, <2>1, <2>2, <3>1
    <2>4. ASSUME ~obsoleta', negocio' # Nada
          PROVE  /\ negocio'.promedio = Promedio(calificado)'
                 /\ negocio'.total = Cardinality(Autoria(calificado))'
      <3>1. negocio.promedio = Promedio(calificado) /\ negocio.total = Cardinality(Autoria(calificado))
        BY <1>1, <2>4 DEF IInvNegocios, Cuadra
      <3>2. QED BY <1>2, <3>1, NegocioMismo
    <2>5. QED BY <2>3, <2>4 DEF Cuadra
  <1>14. quitadas' \subseteq 1..subidas' /\ (negocio' # Nada => Puestas(negocio.imagenes)' \subseteq 1..subidas')
    BY <1>2, <1>3 DEF IInvNegocios, Puestas
  <1>15. QED BY <1>1, <1>7, <1>8, <1>9, <1>13, <1>14 DEF IInvNegocios

LEMMA PasoPedirNegocio ==
    ASSUME IInvNegocios, NEW h \in Hilos,
           \/ \E a \in Autores, p \in Puntajes : CalificarNegocio(h, a, p)
           \/ \E b \in BOOLEAN : AgregarImagen(h, b)
           \/ \E i \in 1..MaxSubidas : QuitarImagen(h, i)
    PROVE  IInvNegocios'
  <1>1. /\ negocio # Nada => negocio \in NegocioRow
        /\ calificado \in VotosDelNegocio
        /\ subidas \in 0..MaxSubidas /\ subidas \in Nat /\ MaxSubidas \in Nat
        /\ quitadas \subseteq 1..subidas
        /\ negocio # Nada => /\ negocio.imagenes \in Seq(1..MaxSubidas)
                             /\ Puestas(negocio.imagenes) \subseteq 1..subidas
    BY SubidasEnteras DEF IInvNegocios, NegociosOK, VotosDelNegocio, NegocioRow
  <1>2. ASSUME NEW a \in Autores, NEW p \in Puntajes, CalificarNegocio(h, a, p)
        PROVE  IInvNegocios'
    <2>1. PICK votos : votos = [calificado EXCEPT ![a] = p]
      OBVIOUS
    <2>2. votos \in VotosDelNegocio
      BY <1>1, <2>1 DEF VotosDelNegocio
    <2>3. PICK d : d = [autor |-> a, puntaje |-> p, cargado |-> negocio,
                        promedio |-> Promedio(votos), total |-> Cardinality(Autoria(votos))]
      OBVIOUS
    <2>4. negocio # Nada /\ Llega(h, "calificar", {La("ratings"), La("resumen")}, d)
          /\ UNCHANGED negociosVars
      BY <1>2, <2>1, <2>3 DEF CalificarNegocio
    <2>5. /\ d \in [autor: Autores, puntaje: Puntajes, cargado: NegocioRow,
                    promedio: 0..500, total: 0..Cardinality(Autores)]
          /\ d.autor = a /\ d.puntaje = p /\ d.cargado = negocio
          /\ d.promedio = Promedio(votos) /\ d.total = Cardinality(Autoria(votos))
      BY <1>1, <2>2, <2>3, <2>4, ResumenEs
    <2>6. PeticionNueva("calificar", {La("ratings"), La("resumen")}, d) \in PeticionNegocio
      BY <2>5 DEF PeticionNueva, PeticionNegocio, Peticion
    <2>7. UNCHANGED <<negocio, calificado, quitadas>> /\ subidas' = subidas
      BY <2>4 DEF negociosVars
    <2>8. QED BY <1>1, <2>1, <2>4, <2>5, <2>6, <2>7, NegocioPedido
  <1>3. ASSUME NEW b \in BOOLEAN, AgregarImagen(h, b)
        PROVE  IInvNegocios'
    <2>1. PICK n \in Nat : n = subidas + 1
      BY <1>1
    <2>2. PICK l : l = Append(negocio.imagenes, n)
      OBVIOUS
    <2>3. PICK d : d = [lista |-> l, quita |-> {}]
      OBVIOUS
    <2>4. /\ negocio # Nada /\ subidas < MaxSubidas /\ subidas' = n
          /\ Llega(h, "galeria", {La("galeria")}, d)
          /\ UNCHANGED <<negocio, calificado, quitadas>>
      BY <1>3, <2>1, <2>2, <2>3 DEF AgregarImagen
    <2>5. n \in 1..MaxSubidas /\ n \notin 1..subidas /\ 1..subidas \subseteq 1..n /\ n \in 1..n
      BY <1>1, <2>1, <2>4
    <2>6. /\ l \in Seq(1..MaxSubidas) /\ Puestas(l) = Puestas(negocio.imagenes) \cup {n}
          /\ SinRepetir(negocio.imagenes) => SinRepetir(l)
      BY <1>1, <2>2, <2>4, <2>5, ListaConUna
    <2>7. d \in [lista: Seq(1..MaxSubidas), quita: SUBSET (1..MaxSubidas)]
          /\ d.lista = l /\ d.quita = {}
      BY <2>3, <2>6
    <2>8. PeticionNueva("galeria", {La("galeria")}, d) \in PeticionNegocio
      BY <2>7 DEF PeticionNueva, PeticionNegocio, Peticion
    <2>9. ~obsoleta => SinRepetir(l) /\ Puestas(l) \cap quitadas = {}
      BY <1>1, <2>4, <2>5, <2>6 DEF IInvNegocios, Cuadra
    <2>10. Puestas(l) \subseteq 1..n /\ n \in 0..MaxSubidas
      BY <1>1, <2>4, <2>5, <2>6
    <2>11. /\ d \in [lista: Seq(1..MaxSubidas), quita: SUBSET (1..MaxSubidas)]
           /\ Puestas(d.lista) \cup d.quita \subseteq 1..subidas'
           /\ Puestas(negocio.imagenes) \subseteq Puestas(d.lista) \cup d.quita
           /\ ~obsoleta => /\ Puestas(d.lista) \cap (quitadas \cup d.quita) = {}
                           /\ SinRepetir(d.lista)
           /\ subidas' \in Puestas(d.lista)
           /\ subidas' \in {subidas, subidas + 1} /\ subidas' \in 0..MaxSubidas
      BY <2>1, <2>4, <2>6, <2>7, <2>9, <2>10
    <2>12. QED BY <2>4, <2>8, <2>11, NegocioPedido
  <1>4. ASSUME NEW i \in 1..MaxSubidas, QuitarImagen(h, i)
        PROVE  IInvNegocios'
    <2>1. PICK m : m = negocio.imagenes
      OBVIOUS
    <2>2. PICK l : l = SubSeq(m, 1, i - 1) \o SubSeq(m, i + 1, Len(m))
      OBVIOUS
    <2>3. PICK d : d = [lista |-> l, quita |-> {m[i]}]
      OBVIOUS
    <2>4. /\ negocio # Nada /\ i \in DOMAIN m
          /\ Llega(h, "galeria", {La("galeria")}, d)
          /\ UNCHANGED negociosVars
      BY <1>4, <2>1, <2>2, <2>3 DEF QuitarImagen
    <2>5. m[i] \in Puestas(m) /\ m \in Seq(1..MaxSubidas) /\ Puestas(m) \subseteq 1..subidas
      BY <1>1, <2>1, <2>4 DEF Puestas
    <2>6. /\ l \in Seq(1..MaxSubidas)
          /\ Puestas(l) \subseteq Puestas(m) /\ Puestas(m) \subseteq Puestas(l) \cup {m[i]}
          /\ SinRepetir(m) => SinRepetir(l) /\ m[i] \notin Puestas(l)
      BY <2>2, <2>4, <2>5, ListaSinUna
    <2>7. 1..subidas \subseteq 1..MaxSubidas
      BY <1>1
    <2>8. d \in [lista: Seq(1..MaxSubidas), quita: SUBSET (1..MaxSubidas)]
          /\ d.lista = l /\ d.quita = {m[i]}
      BY <2>3, <2>5, <2>6, <2>7
    <2>9. PeticionNueva("galeria", {La("galeria")}, d) \in PeticionNegocio
      BY <2>8 DEF PeticionNueva, PeticionNegocio, Peticion
    <2>10. ~obsoleta => SinRepetir(m) /\ Puestas(m) \cap quitadas = {}
      BY <2>1, <2>4 DEF IInvNegocios, Cuadra
    <2>11. UNCHANGED <<negocio, calificado, quitadas>> /\ subidas' = subidas
      BY <2>4 DEF negociosVars
    <2>12. /\ Puestas(d.lista) \cup d.quita \subseteq 1..subidas'
           /\ Puestas(negocio.imagenes) \subseteq Puestas(d.lista) \cup d.quita
           /\ ~obsoleta => /\ Puestas(d.lista) \cap (quitadas \cup d.quita) = {}
                           /\ SinRepetir(d.lista)
      BY <2>1, <2>5, <2>6, <2>8, <2>10, <2>11
    <2>13. QED BY <1>1, <2>4, <2>8, <2>9, <2>11, <2>12, NegocioPedido
  <1>5. QED BY <1>2, <1>3, <1>4

LEMMA PasoCommitCalificar ==
    ASSUME IInvNegocios, NEW h \in Hilos, CommitCalificarNegocio(h)
    PROVE  IInvNegocios'
  <1>1. PICK d : d = peticion[h].dato
    OBVIOUS
  <1>2. /\ peticion[h] # Nada /\ peticion[h].op = "calificar" /\ negocio # Nada
        /\ Termina(h, {La("ratings"), La("resumen")})
        /\ calificado' = [calificado EXCEPT ![d.autor] = d.puntaje]
        /\ subidas' = subidas /\ quitadas' = quitadas
        /\ negocio' = [negocio EXCEPT
                !.promedio = IF d.promedio = d.cargado.promedio THEN @ ELSE d.promedio,
                !.total = IF d.total = d.cargado.total THEN @ ELSE d.total]
    BY <1>1 DEF CommitCalificarNegocio, EnCurso, Dato
  <1>3. /\ d \in [autor: Autores, puntaje: Puntajes, cargado: NegocioRow,
                  promedio: 0..500, total: 0..Cardinality(Autores)]
        /\ ~peticion[h].vieja =>
                /\ d.promedio = Promedio(calificado')
                /\ d.total = Cardinality(Autoria(calificado'))
                /\ d.cargado.promedio = negocio.promedio
                /\ d.cargado.total = negocio.total
    BY <1>1, <1>2 DEF IInvNegocios, SabeDelNegocio
  <1>4. /\ negocio \in NegocioRow /\ calificado \in [Autores -> Puntajes \cup {Nada}]
        /\ subidas \in 0..MaxSubidas /\ subidas \in Nat /\ quitadas \subseteq 1..MaxSubidas
        /\ quitadas \subseteq 1..subidas /\ Puestas(negocio.imagenes) \subseteq 1..subidas
    BY <1>2, SubidasEnteras DEF IInvNegocios, NegociosOK
  <1>5. PICK p : p = IF d.promedio = d.cargado.promedio THEN negocio.promedio ELSE d.promedio
    OBVIOUS
  <1>6. PICK n : n = IF d.total = d.cargado.total THEN negocio.total ELSE d.total
    OBVIOUS
  <1>7. negocio' = [negocio EXCEPT !.promedio = p, !.total = n]
    BY <1>2, <1>5, <1>6
  <1>8. /\ p \in 0..500 /\ n \in 0..Cardinality(Autores)
        /\ ~peticion[h].vieja => p = Promedio(calificado') /\ n = Cardinality(Autoria(calificado'))
    BY <1>3, <1>4, <1>5, <1>6 DEF NegocioRow
  <1>9. /\ negocio' \in NegocioRow /\ negocio'.promedio = p /\ negocio'.total = n
        /\ negocio'.imagenes = negocio.imagenes
    BY <1>4, <1>7, <1>8 DEF NegocioRow
  <1>10. negocio' # Nada
    BY <1>9, NadaNoEsNegocio
  <1>11. /\ Ranuras(PeticionNegocio)'
         /\ ~obsoleta' => ~obsoleta /\ ~peticion[h].vieja
         /\ peticion'[h] = Nada
         /\ \A g \in Hilos \ {h} : SigueIgual(g, {La("ratings"), La("resumen")})
    BY <1>2, AlTerminar, PeticionesDeNegocio DEF IInvNegocios
  <1>12. \A g \in Hilos : SabeDelNegocio(g)'
    <2>1. SabeDelNegocio(h)'
      BY <1>11 DEF SabeDelNegocio
    <2>2. ASSUME NEW g \in Hilos \ {h}
          PROVE  SabeDelNegocio(g)'
      <3>1. SabeDelNegocio(g) /\ SigueIgual(g, {La("ratings"), La("resumen")})
        BY <1>11 DEF IInvNegocios
      <3>2. /\ La("ratings") \in {La("ratings"), La("resumen")}
            /\ subidas' \in Nat /\ subidas' >= subidas
        BY <1>2, <1>4
      <3>3. QED BY <1>2, <1>4, <1>9, <1>11, <3>1, <3>2, NegocioQueSigue
    <2>3. QED BY <2>1, <2>2
  <1>13. NegociosOK'
    <2>1. calificado' \in [Autores -> Puntajes \cup {Nada}]
      BY <1>2, <1>3, <1>4
    <2>2. NegocioRow' = NegocioRow
      BY DEF NegocioRow
    <2>3. QED BY <1>2, <1>4, <1>9, <2>1, <2>2 DEF NegociosOK
  <1>14. \A x : EnCamino(x) => EnCamino(x)'
    <2>1. \A l : Puestas(l)' = Puestas(l)
      BY DEF Puestas
    <2>2. ~EnCurso(h, "galeria")
      BY <1>2 DEF EnCurso
    <2>3. QED BY <1>11, <2>1, <2>2 DEF EnCamino, EnCurso, Dato, SigueIgual
  <1>15. Puestas(negocio.imagenes)' = Puestas(negocio.imagenes)
         /\ (SinRepetir(negocio.imagenes)' <=> SinRepetir(negocio.imagenes))
    BY <1>9 DEF Puestas, SinRepetir
  <1>16. Cuadra'
    <2>1. Promedio(calificado)' = Promedio(calificado') /\ Autoria(calificado)' = Autoria(calificado')
      BY DEF Promedio, Autoria
    <2>2. ASSUME ~obsoleta'
          PROVE  /\ \A x \in 1..subidas' : x \in quitadas' \/ EnCamino(x)'
                                            \/ x \in Puestas(negocio.imagenes)'
                 /\ Puestas(negocio.imagenes)' \cap quitadas' = {}
                 /\ SinRepetir(negocio.imagenes)'
      <3>1. /\ \A x \in 1..subidas : x \in quitadas \/ EnCamino(x)
                                            \/ x \in Puestas(negocio.imagenes)
            /\ Puestas(negocio.imagenes) \cap quitadas = {}
            /\ SinRepetir(negocio.imagenes)
        BY <1>2, <1>11, <2>2 DEF IInvNegocios, Cuadra
      <3>2. QED BY <1>2, <1>14, <1>15, <3>1
    <2>3. ~obsoleta' => negocio'.promedio = Promedio(calificado)'
                        /\ negocio'.total = Cardinality(Autoria(calificado))'
      BY <1>8, <1>9, <1>11, <2>1
    <2>4. QED BY <2>2, <2>3 DEF Cuadra
  <1>17. quitadas' \subseteq 1..subidas' /\ Puestas(negocio.imagenes)' \subseteq 1..subidas'
    BY <1>2, <1>4, <1>15
  <1>18. QED BY <1>11, <1>12, <1>13, <1>16, <1>17 DEF IInvNegocios

\* A list is written: what it leaves out had been taken out, unless another
\* list was written meanwhile.
LEMMA PasoCommitGaleria ==
    ASSUME IInvNegocios, NEW h \in Hilos, CommitGaleria(h)
    PROVE  IInvNegocios'
  <1>1. PICK d : d = peticion[h].dato
    OBVIOUS
  <1>2. /\ peticion[h] # Nada /\ peticion[h].op = "galeria" /\ negocio # Nada
        /\ Termina(h, {La("galeria")})
        /\ calificado' = calificado /\ subidas' = subidas
        /\ quitadas' = quitadas \cup d.quita
        /\ negocio' = [negocio EXCEPT !.imagenes = d.lista]
    BY <1>1 DEF CommitGaleria, EnCurso, Dato
  <1>3. /\ d \in [lista: Seq(1..MaxSubidas), quita: SUBSET (1..MaxSubidas)]
        /\ Puestas(d.lista) \cup d.quita \subseteq 1..subidas
        /\ ~obsoleta /\ ~peticion[h].vieja =>
                /\ Puestas(negocio.imagenes) \subseteq Puestas(d.lista) \cup d.quita
                /\ Puestas(d.lista) \cap (quitadas \cup d.quita) = {}
                /\ SinRepetir(d.lista)
    BY <1>1, <1>2 DEF IInvNegocios, SabeDelNegocio
  <1>4. /\ negocio \in NegocioRow /\ calificado \in [Autores -> Puntajes \cup {Nada}]
        /\ subidas \in 0..MaxSubidas /\ subidas \in Nat /\ quitadas \subseteq 1..MaxSubidas
        /\ quitadas \subseteq 1..subidas
    BY <1>2, SubidasEnteras DEF IInvNegocios, NegociosOK
  <1>5. /\ negocio' \in NegocioRow /\ negocio'.promedio = negocio.promedio
        /\ negocio'.total = negocio.total /\ negocio'.imagenes = d.lista
    BY <1>2, <1>3, <1>4 DEF NegocioRow
  <1>6. negocio' # Nada
    BY <1>5, NadaNoEsNegocio
  <1>7. /\ Ranuras(PeticionNegocio)'
        /\ ~obsoleta' => ~obsoleta /\ ~peticion[h].vieja
        /\ peticion'[h] = Nada
        /\ \A g \in Hilos \ {h} : SigueIgual(g, {La("galeria")})
    BY <1>2, AlTerminar, PeticionesDeNegocio DEF IInvNegocios
  <1>8. \A g \in Hilos : SabeDelNegocio(g)'
    <2>1. SabeDelNegocio(h)'
      BY <1>7 DEF SabeDelNegocio
    <2>2. ASSUME NEW g \in Hilos \ {h}
          PROVE  SabeDelNegocio(g)'
      <3>1. SabeDelNegocio(g) /\ SigueIgual(g, {La("galeria")})
        BY <1>7 DEF IInvNegocios
      <3>2. /\ La("galeria") \in {La("galeria")}
            /\ subidas' \in Nat /\ subidas' >= subidas
        BY <1>2, <1>4
      <3>3. QED BY <1>2, <1>4, <1>5, <1>7, <3>1, <3>2, NegocioQueSigue
    <2>3. QED BY <2>1, <2>2
  <1>9. NegociosOK'
    <2>1. NegocioRow' = NegocioRow
      BY DEF NegocioRow
    <2>2. quitadas' \subseteq 1..MaxSubidas
      BY <1>2, <1>3, <1>4
    <2>3. QED BY <1>2, <1>4, <1>5, <2>1, <2>2 DEF NegociosOK
  <1>10. Puestas(negocio.imagenes)' = Puestas(d.lista)
         /\ (SinRepetir(negocio.imagenes)' <=> SinRepetir(d.lista))
    BY <1>5 DEF Puestas, SinRepetir
  <1>11. \A x : EnCamino(x) => EnCamino(x)' \/ x \in Puestas(d.lista)
    <2>1. \A l : Puestas(l)' = Puestas(l)
      BY DEF Puestas
    <2>2. QED BY <1>1, <1>7, <2>1 DEF EnCamino, EnCurso, Dato, SigueIgual
  <1>12. Cuadra'
    <2>1. ASSUME ~obsoleta'
          PROVE  /\ \A x \in 1..subidas' : x \in quitadas' \/ EnCamino(x)'
                                            \/ x \in Puestas(negocio.imagenes)'
                 /\ Puestas(negocio.imagenes)' \cap quitadas' = {}
                 /\ SinRepetir(negocio.imagenes)'
      <3>1. /\ \A x \in 1..subidas : x \in quitadas \/ EnCamino(x)
                                            \/ x \in Puestas(negocio.imagenes)
            /\ Puestas(negocio.imagenes) \subseteq Puestas(d.lista) \cup d.quita
            /\ Puestas(d.lista) \cap (quitadas \cup d.quita) = {}
            /\ SinRepetir(d.lista)
        BY <1>2, <1>3, <1>7, <2>1 DEF IInvNegocios, Cuadra
      <3>2. QED BY <1>2, <1>10, <1>11, <3>1
    <2>2. ~obsoleta' => negocio'.promedio = Promedio(calificado)'
                        /\ negocio'.total = Cardinality(Autoria(calificado))'
      BY <1>2, <1>5, <1>7, NegocioMismo DEF IInvNegocios, Cuadra
    <2>3. QED BY <2>1, <2>2 DEF Cuadra
  <1>13. quitadas' \subseteq 1..subidas' /\ Puestas(negocio.imagenes)' \subseteq 1..subidas'
    BY <1>2, <1>3, <1>4, <1>10
  <1>14. QED BY <1>7, <1>8, <1>9, <1>12, <1>13 DEF IInvNegocios

\* The business is deleted, or a request finds that it was.
LEMMA PasoSinNegocio ==
    ASSUME IInvNegocios, EliminarNegocio \/ \E h \in Hilos : NegocioEliminado(h)
    PROVE  IInvNegocios'
  <1>1. /\ negocio' = Nada /\ subidas' = subidas /\ quitadas' = quitadas
        /\ calificado' \in [Autores -> Puntajes \cup {Nada}]
    BY DEF EliminarNegocio, NegocioEliminado, IInvNegocios, NegociosOK, negociosVars
  <1>2. NegocioRow' = NegocioRow
    BY DEF NegocioRow
  <1>3. NegociosOK' /\ Cuadra'
    BY <1>1, <1>2 DEF IInvNegocios, NegociosOK, Cuadra
  <1>4. quitadas' \subseteq 1..subidas' /\ (negocio' # Nada => Puestas(negocio.imagenes)' \subseteq 1..subidas')
    BY <1>1 DEF IInvNegocios
  <1>5. Ranuras(PeticionNegocio)' /\ \A g \in Hilos : peticion'[g] \in {Nada, peticion[g]}
    <2>1. CASE EliminarNegocio
      BY <2>1 DEF EliminarNegocio, servidor, Ranuras, IInvNegocios
    <2>2. ASSUME NEW h \in Hilos, NegocioEliminado(h)
          PROVE  Ranuras(PeticionNegocio)' /\ \A g \in Hilos : peticion'[g] \in {Nada, peticion[g]}
      <3>1. Falla(h)
        BY <2>2 DEF NegocioEliminado
      <3>2. /\ Ranuras(PeticionNegocio)' /\ peticion'[h] = Nada
            /\ \A g \in Hilos \ {h} : peticion'[g] = peticion[g]
        BY <3>1, AlFallar DEF IInvNegocios
      <3>3. QED BY <3>2
    <2>3. QED BY <2>1, <2>2
  <1>6. ASSUME NEW g \in Hilos
        PROVE  SabeDelNegocio(g)'
    <2>1. /\ La("ratings")' = La("ratings") /\ La("galeria")' = La("galeria")
          /\ \A l : Puestas(l)' = Puestas(l)
      BY DEF La, Puestas
    <2>2. CASE peticion'[g] = Nada
      BY <2>2 DEF SabeDelNegocio
    <2>3. CASE peticion'[g] = peticion[g]
      <3>1. SabeDelNegocio(g)
        BY DEF IInvNegocios
      <3>2. QED BY <1>1, <1>2, <2>1, <2>3, <3>1 DEF SabeDelNegocio
    <2>4. QED BY <1>5, <2>2, <2>3
  <1>7. QED BY <1>3, <1>4, <1>5, <1>6 DEF IInvNegocios

LEMMA PasoNegocios ==
    ASSUME IInvNegocios, NextNegocios
    PROVE  IInvNegocios'
  <1>1. CASE EliminarNegocio
    BY <1>1, PasoSinNegocio
  <1>2. ASSUME NEW h \in Hilos,
               \/ CommitCalificarNegocio(h) \/ CommitGaleria(h) \/ NegocioEliminado(h)
               \/ \E a \in Autores, p \in Puntajes : CalificarNegocio(h, a, p)
               \/ \E b \in BOOLEAN : AgregarImagen(h, b)
               \/ \E i \in 1..MaxSubidas : QuitarImagen(h, i)
        PROVE  IInvNegocios'
    BY <1>2, PasoPedirNegocio, PasoCommitCalificar, PasoCommitGaleria, PasoSinNegocio
  <1>3. QED BY <1>1, <1>2 DEF NextNegocios

LEMMA NegociosQuietos ==
    ASSUME IInvNegocios, UNCHANGED <<negociosVars, servidor>>
    PROVE  IInvNegocios'
  <1>1. /\ negocio' = negocio /\ calificado' = calificado /\ subidas' = subidas
        /\ quitadas' = quitadas /\ peticion' = peticion /\ obsoleta' = obsoleta
    BY DEF negociosVars, servidor
  <1>2. /\ NegocioRow' = NegocioRow /\ La("ratings")' = La("ratings")
        /\ La("resumen")' = La("resumen") /\ La("galeria")' = La("galeria")
        /\ \A l : Puestas(l)' = Puestas(l) /\ (SinRepetir(l)' <=> SinRepetir(l))
    BY DEF NegocioRow, La, Puestas, SinRepetir
  <1>3. \A a, p :
            /\ Promedio([calificado EXCEPT ![a] = p])' = Promedio([calificado EXCEPT ![a] = p])
            /\ Autoria([calificado EXCEPT ![a] = p])' = Autoria([calificado EXCEPT ![a] = p])
    BY <1>1 DEF Promedio, Autoria
  <1>4. ASSUME NEW h \in Hilos
        PROVE  SabeDelNegocio(h)'
    <2>1. SabeDelNegocio(h) /\ SigueIgual(h, {})
      BY <1>1, IgualSinAge DEF IInvNegocios
    <2>2. subidas \in Nat /\ subidas' \in Nat /\ subidas' >= subidas
      BY <1>1, SubidasEnteras DEF IInvNegocios, NegociosOK
    <2>3. QED BY <1>1, <2>1, <2>2, NegocioQueSigue
  <1>5. Puestas(negocio.imagenes)' = Puestas(negocio.imagenes)
        /\ (SinRepetir(negocio.imagenes)' <=> SinRepetir(negocio.imagenes))
    BY <1>1 DEF Puestas, SinRepetir
  <1>6. \A x : EnCamino(x)' <=> EnCamino(x)
    BY <1>1, <1>2 DEF EnCamino, EnCurso, Dato
  <1>7. Cuadra'
    BY <1>1, <1>5, <1>6, NegocioMismo DEF IInvNegocios, Cuadra
  <1>8. NegociosOK'
    BY <1>1, <1>2 DEF IInvNegocios, NegociosOK
  <1>9. QED BY <1>1, <1>4, <1>5, <1>7, <1>8 DEF IInvNegocios, Ranuras

LEMMA NegociosAlInicio ==
    ASSUME InitNegocios
    PROVE  /\ NegociosOK /\ NegocioEnSerie
           /\ Ranuras(PeticionNegocio) /\ (\A h \in Hilos : peticion[h] = Nada) => IInvNegocios
  <1>1. /\ negocio = [promedio |-> 0, total |-> 0, imagenes |-> <<>>]
        /\ calificado = [a \in Autores |-> Nada]
        /\ subidas = 0 /\ quitadas = {}
    BY DEF InitNegocios
  <1>2. /\ negocio.promedio = 0 /\ negocio.total = 0 /\ negocio.imagenes = <<>>
    BY <1>1
  <1>3. IsFiniteSet(Autores) /\ Cardinality(Autores) \in Nat
    BY AutoresFinitos, FS_CardinalityType
  <1>4. <<>> \in Seq(1..MaxSubidas) /\ DOMAIN <<>> = {}
    BY EmptySeq
  <1>5. NegociosOK
    BY <1>1, <1>3, <1>4, SubidasEnteras DEF NegociosOK, NegocioRow
  <1>6. Autoria(calificado) = {}
    BY <1>1 DEF Autoria
  <1>7. Cardinality(Autoria(calificado)) = 0
    BY <1>6, FS_EmptySet
  <1>8. Promedio(calificado) = 0
    BY <1>7 DEF Promedio
  <1>9. NegocioEnSerie
    BY <1>1, <1>2, <1>4, <1>7, <1>8 DEF NegocioEnSerie
  <1>10. Puestas(negocio.imagenes) = {} /\ SinRepetir(negocio.imagenes)
    BY <1>2, <1>4 DEF Puestas, SinRepetir
  <1>11. Cuadra
    BY <1>1, <1>2, <1>7, <1>8, <1>10 DEF Cuadra
  <1>12. ASSUME \A h \in Hilos : peticion[h] = Nada
         PROVE  \A h \in Hilos : SabeDelNegocio(h)
    BY <1>12 DEF SabeDelNegocio
  <1>13. QED BY <1>1, <1>5, <1>9, <1>10, <1>11, <1>12 DEF IInvNegocios

-----------------------------------------------------------------------------
(* The advertisement and its postulations *)

LEMMA PeticionesDeAnuncios == DePeticiones(PeticionAnuncio)
  BY NadaNoEsAnuncio DEF DePeticiones, PeticionAnuncio

\* A postulation that is not behind finds the advertisement open and no other of
\* the same pds.
SabeDelAnuncio(h) ==
    LET p == peticion[h]
        d == p.dato
    IN  p # Nada =>
        /\ p.op = "anuncio" => d \in EstadoAnuncio
        /\ p.op = "postularse" =>
                /\ d \in Postulantes
                /\ <<"anuncio">> \in p.lee /\ <<"postulaciones">> \in p.lee
                /\ ~p.vieja => anuncio = "publicado" /\ PostuladosDe(d) = {}
        /\ p.op = "gestion" =>
                /\ d \in [fila: Nat, nuevo: EstadoPostulacion, era: EstadoPostulacion]
                /\ d.fila \in DOMAIN postulaciones

IInvAnuncios ==
    /\ Ranuras(PeticionAnuncio)
    /\ AnunciosOK
    /\ PostulacionEnSerie
    /\ \A h \in Hilos : SabeDelAnuncio(h)

LEMMA PostulacionesSon ==
    ASSUME AnunciosOK
    PROVE  /\ DOMAIN postulaciones = 1..Len(postulaciones) /\ Len(postulaciones) \in Nat
           /\ postulaciones \in Seq(PostulacionRow)
           /\ \A i \in DOMAIN postulaciones : postulaciones[i] \in PostulacionRow
  <1>1. postulaciones \in Seq(PostulacionRow)
    BY DEF AnunciosOK
  <1>2. DOMAIN postulaciones = 1..Len(postulaciones) /\ Len(postulaciones) \in Nat
    BY <1>1, LenProperties
  <1>3. QED BY <1>1, <1>2, ElementOfSeq

LEMMA PasoAnuncios ==
    ASSUME IInvAnuncios, NextAnuncios
    PROVE  IInvAnuncios'
  <1>0. /\ Ranuras(PeticionAnuncio) /\ DePeticiones(PeticionAnuncio)
        /\ AnunciosOK /\ PostulacionEnSerie
        /\ \A h \in Hilos : SabeDelAnuncio(h)
        /\ DOMAIN postulaciones = 1..Len(postulaciones) /\ Len(postulaciones) \in Nat
        /\ postulaciones \in Seq(PostulacionRow)
        /\ \A i \in DOMAIN postulaciones :
                postulaciones[i] \in [pds: Postulantes, avisos: 0..MaxAvisos, abierto: BOOLEAN,
                                      estado: EstadoPostulacion]
    BY PeticionesDeAnuncios, PostulacionesSon DEF IInvAnuncios, PostulacionRow
  <1>1. CASE PublicarAnuncio
    <2>1. /\ anuncio = Nada /\ anuncio' = "publicado" /\ postulaciones' = postulaciones
          /\ peticion' = peticion /\ obsoleta' = obsoleta
      BY <1>1 DEF PublicarAnuncio, servidor
    <2>2. AnunciosOK' /\ PostulacionEnSerie'
      BY <1>0, <2>1 DEF AnunciosOK, PostulacionEnSerie, EstadoAnuncio
    <2>3. \A h \in Hilos : SabeDelAnuncio(h)'
      BY <1>0, <2>1 DEF SabeDelAnuncio, PostuladosDe
    <2>4. QED BY <1>0, <2>1, <2>2, <2>3 DEF IInvAnuncios, Ranuras
  <1>2. ASSUME NEW h \in Hilos, NEW nuevo \in EstadoAnuncio, CambiarAnuncio(h, nuevo)
        PROVE  IInvAnuncios'
    <2>1. /\ Llega(h, "anuncio", {<<"anuncio">>}, nuevo)
          /\ anuncio' = anuncio /\ postulaciones' = postulaciones
      BY <1>2 DEF CambiarAnuncio, anunciosVars
    <2>2. PeticionNueva("anuncio", {<<"anuncio">>}, nuevo) \in PeticionAnuncio
      BY DEF PeticionNueva, PeticionAnuncio, Peticion
    <2>3. /\ Ranuras(PeticionAnuncio)' /\ obsoleta' = obsoleta
          /\ peticion'[h].op = "anuncio" /\ peticion'[h].dato = nuevo
          /\ \A g \in Hilos \ {h} : peticion'[g] = peticion[g]
      BY <1>0, <2>1, <2>2, AlLlegar
    <2>4. \A g \in Hilos : SabeDelAnuncio(g)'
      BY <1>0, <2>1, <2>3 DEF SabeDelAnuncio, PostuladosDe
    <2>5. QED BY <1>0, <2>1, <2>3, <2>4 DEF IInvAnuncios, AnunciosOK, PostulacionEnSerie
  <1>3. ASSUME NEW h \in Hilos, CommitAnuncio(h)
        PROVE  IInvAnuncios'
    <2>1. /\ peticion[h] # Nada /\ peticion[h].dato \in EstadoAnuncio
          /\ anuncio' = peticion[h].dato /\ postulaciones' = postulaciones
          /\ Termina(h, {<<"anuncio">>})
      BY <1>0, <1>3 DEF CommitAnuncio, EnCurso, Dato, SabeDelAnuncio
    <2>2. /\ Ranuras(PeticionAnuncio)' /\ peticion'[h] = Nada
          /\ ~obsoleta' => ~obsoleta
          /\ \A g \in Hilos \ {h} : SigueIgual(g, {<<"anuncio">>})
      BY <1>0, <2>1, AlTerminar
    <2>3. \A g \in Hilos : SabeDelAnuncio(g)'
      BY <1>0, <2>1, <2>2 DEF SabeDelAnuncio, PostuladosDe, SigueIgual
    <2>4. AnunciosOK' /\ PostulacionEnSerie'
      BY <1>0, <2>1, <2>2 DEF AnunciosOK, PostulacionEnSerie
    <2>5. QED BY <2>2, <2>3, <2>4 DEF IInvAnuncios
  <1>4. ASSUME NEW h \in Hilos, NEW p \in Postulantes, Postularse(h, p)
        PROVE  IInvAnuncios'
    <2>1. /\ anuncio = "publicado" /\ PostuladosDe(p) = {}
          /\ Llega(h, "postularse", {<<"anuncio">>, <<"postulaciones">>}, p)
          /\ anuncio' = anuncio /\ postulaciones' = postulaciones
      BY <1>4 DEF Postularse, anunciosVars
    <2>2. PeticionNueva("postularse", {<<"anuncio">>, <<"postulaciones">>}, p) \in PeticionAnuncio
      BY DEF PeticionNueva, PeticionAnuncio, Peticion
    <2>3. /\ Ranuras(PeticionAnuncio)' /\ obsoleta' = obsoleta
          /\ peticion'[h].op = "postularse" /\ peticion'[h].dato = p
          /\ peticion'[h].lee = {<<"anuncio">>, <<"postulaciones">>}
          /\ \A g \in Hilos \ {h} : peticion'[g] = peticion[g]
      BY <1>0, <2>1, <2>2, AlLlegar
    <2>4. \A g \in Hilos : SabeDelAnuncio(g)'
      BY <1>0, <2>1, <2>3 DEF SabeDelAnuncio, PostuladosDe
    <2>5. QED BY <1>0, <2>1, <2>3, <2>4 DEF IInvAnuncios, AnunciosOK, PostulacionEnSerie
  <1>5. ASSUME NEW h \in Hilos, CommitPostularse(h)
        PROVE  IInvAnuncios'
    <2>15. PICK b \in BOOLEAN : b <=> anuncio = "publicado"
      OBVIOUS
    <2>1. PICK p, r : /\ p = peticion[h].dato
                      /\ r = [pds |-> p, estado |-> "pendiente", avisos |-> 0, abierto |-> b]
      OBVIOUS
    <2>2. /\ peticion[h] # Nada /\ p \in Postulantes
          /\ ~peticion[h].vieja => b /\ \A i \in DOMAIN postulaciones : postulaciones[i].pds # p
      BY <1>0, <1>5, <2>1, <2>15 DEF CommitPostularse, EnCurso, SabeDelAnuncio, PostuladosDe
    <2>3. postulaciones' = Append(postulaciones, r) /\ anuncio' = anuncio
      <3>1. (anuncio = "publicado") = b
        BY <2>15
      <3>2. QED BY <1>5, <2>1, <3>1 DEF CommitPostularse, Dato
    <2>4. r \in PostulacionRow /\ r.pds = p /\ r.estado = "pendiente" /\ (r.abierto <=> b)
      <3>1. 0 \in 0..MaxAvisos
        BY MaxAvisosEsNatural
      <3>2. QED BY <2>1, <2>2, <3>1 DEF PostulacionRow, EstadoPostulacion
    <2>5. PICK n \in Nat : n = Len(postulaciones)
      BY <1>0
    <2>6. /\ postulaciones' \in Seq(PostulacionRow) /\ Len(postulaciones') = n + 1
          /\ \A i \in 1..n : postulaciones'[i] = postulaciones[i]
          /\ postulaciones'[n + 1] = r
      BY <1>0, <2>3, <2>4, <2>5, AppendProperties
    <2>7. Termina(h, {<<"postulaciones">>, Postulacion(n + 1)})
      BY <1>5, <2>6 DEF CommitPostularse
    <2>8. /\ Ranuras(PeticionAnuncio)' /\ peticion'[h] = Nada
          /\ ~obsoleta' => ~obsoleta /\ ~peticion[h].vieja
          /\ \A g \in Hilos \ {h} : SigueIgual(g, {<<"postulaciones">>, Postulacion(n + 1)})
      BY <1>0, <2>2, <2>7, AlTerminar
    <2>9. DOMAIN postulaciones' = 1..(n + 1) /\ DOMAIN postulaciones = 1..n
      BY <1>0, <2>5, <2>6, LenProperties
    <2>10. \A i \in DOMAIN postulaciones' :
                \/ (i \in DOMAIN postulaciones /\ postulaciones'[i] = postulaciones[i])
                \/ (i = n + 1 /\ postulaciones'[i] = r)
      BY <2>6, <2>9
    <2>11. \A g \in Hilos : SabeDelAnuncio(g)'
      <3>1. \A g \in Hilos \ {h} : SabeDelAnuncio(g)'
        BY <1>0, <2>8, <2>9 DEF SabeDelAnuncio, SigueIgual
      <3>2. QED BY <2>8, <3>1 DEF SabeDelAnuncio
    <2>12. AnunciosOK'
      BY <1>0, <2>3, <2>4, <2>6, <2>10 DEF AnunciosOK
    <2>13. PostulacionEnSerie'
      BY <1>0, <2>2, <2>4, <2>8, <2>10 DEF PostulacionEnSerie
    <2>14. QED BY <2>8, <2>11, <2>12, <2>13 DEF IInvAnuncios
  <1>6. ASSUME NEW h \in Hilos, NEW i \in DOMAIN postulaciones,
               NEW nuevo \in {"contactado", "descartado"}, GestionarPostulacion(h, i, nuevo)
        PROVE  IInvAnuncios'
    <2>1. PICK d : d = [fila |-> i, nuevo |-> nuevo, era |-> postulaciones[i].estado]
      OBVIOUS
    <2>2. /\ d \in [fila: Nat, nuevo: EstadoPostulacion, era: EstadoPostulacion]
          /\ d.fila = i /\ i \in Nat
      BY <1>0, <2>1 DEF EstadoPostulacion
    <2>3. /\ Llega(h, "gestion", {Postulacion(i)}, d)
          /\ anuncio' = anuncio /\ postulaciones' = postulaciones
      BY <1>6, <2>1 DEF GestionarPostulacion, anunciosVars
    <2>4. PeticionNueva("gestion", {Postulacion(i)}, d) \in PeticionAnuncio
      BY <2>2 DEF PeticionNueva, PeticionAnuncio, Peticion, Postulacion
    <2>5. /\ Ranuras(PeticionAnuncio)' /\ obsoleta' = obsoleta
          /\ peticion'[h].op = "gestion" /\ peticion'[h].dato = d
          /\ \A g \in Hilos \ {h} : peticion'[g] = peticion[g]
      BY <1>0, <2>3, <2>4, AlLlegar
    <2>6. \A g \in Hilos : SabeDelAnuncio(g)'
      BY <1>0, <2>2, <2>3, <2>5 DEF SabeDelAnuncio, PostuladosDe
    <2>7. QED BY <1>0, <2>3, <2>5, <2>6 DEF IInvAnuncios, AnunciosOK, PostulacionEnSerie
  <1>7. ASSUME NEW h \in Hilos, CommitGestion(h)
        PROVE  IInvAnuncios'
    <2>1. PICK d, i, avisa, nuevo :
            /\ d = peticion[h].dato /\ i = d.fila
            /\ avisa = (IF d.nuevo = "contactado" THEN 1 ELSE 0)
            /\ nuevo = (IF d.nuevo = d.era THEN postulaciones[i].estado ELSE d.nuevo)
      OBVIOUS
    <2>2. /\ peticion[h] # Nada
          /\ d \in [fila: Nat, nuevo: EstadoPostulacion, era: EstadoPostulacion]
          /\ i \in DOMAIN postulaciones
      BY <1>0, <1>7, <2>1 DEF CommitGestion, EnCurso, SabeDelAnuncio
    <2>3. PICK r : r = [postulaciones[i] EXCEPT !.estado = nuevo, !.avisos = @ + avisa]
      OBVIOUS
    <2>4. /\ postulaciones[i].avisos + avisa <= MaxAvisos
          /\ postulaciones' = [postulaciones EXCEPT ![i] = r]
          /\ anuncio' = anuncio /\ Termina(h, {Postulacion(i)})
      <3>1. /\ postulaciones[i].avisos + avisa <= MaxAvisos
            /\ postulaciones' = [postulaciones EXCEPT ![i] =
                    [postulaciones[i] EXCEPT !.estado = IF d.nuevo = d.era THEN @ ELSE d.nuevo,
                                             !.avisos = @ + avisa]]
            /\ anuncio' = anuncio /\ Termina(h, {Postulacion(i)})
        <4>1. d = Dato(h)
          BY <2>1 DEF Dato
        <4>2. QED BY <1>7, <2>1, <4>1 DEF CommitGestion
      <3>2. postulaciones[i] \in [pds: Postulantes, avisos: 0..MaxAvisos, abierto: BOOLEAN,
                                  estado: EstadoPostulacion]
        BY <1>0, <2>2
      <3>3. QED BY <2>1, <2>3, <3>1, <3>2
    <2>5. /\ r \in PostulacionRow /\ r.pds = postulaciones[i].pds
          /\ r.abierto = postulaciones[i].abierto
          /\ r.estado = "contactado" => r.avisos > 0
      <3>1. /\ postulaciones[i] \in [pds: Postulantes, avisos: 0..MaxAvisos, abierto: BOOLEAN,
                                     estado: EstadoPostulacion]
            /\ postulaciones[i].estado = "contactado" => postulaciones[i].avisos > 0
        BY <1>0, <2>2 DEF AnunciosOK
      <3>2. avisa \in {0, 1} /\ nuevo \in EstadoPostulacion
        BY <2>1, <2>2, <3>1
      <3>3. postulaciones[i].avisos + avisa \in 0..MaxAvisos
        BY <2>4, <3>1, <3>2, MaxAvisosEsNatural
      <3>4. /\ r \in PostulacionRow /\ r.pds = postulaciones[i].pds
            /\ r.abierto = postulaciones[i].abierto
            /\ r.estado = nuevo /\ r.avisos = postulaciones[i].avisos + avisa
        BY <2>3, <3>1, <3>2, <3>3 DEF PostulacionRow
      <3>5. nuevo = "contactado" => postulaciones[i].estado = "contactado" \/ avisa = 1
        BY <2>1
      <3>6. QED BY <3>1, <3>2, <3>4, <3>5, MaxAvisosEsNatural
    <2>6. /\ postulaciones' \in Seq(PostulacionRow) /\ DOMAIN postulaciones' = DOMAIN postulaciones
          /\ \A j \in DOMAIN postulaciones : postulaciones'[j] = IF j = i THEN r ELSE postulaciones[j]
      BY <1>0, <2>2, <2>4, <2>5, ExceptSeq
    <2>7. /\ Ranuras(PeticionAnuncio)' /\ peticion'[h] = Nada
          /\ ~obsoleta' => ~obsoleta
          /\ \A g \in Hilos \ {h} : SigueIgual(g, {Postulacion(i)})
      BY <1>0, <2>2, <2>4, AlTerminar
    <2>8. \A j \in DOMAIN postulaciones : /\ postulaciones'[j].pds = postulaciones[j].pds
                                          /\ postulaciones'[j].abierto = postulaciones[j].abierto
      BY <2>5, <2>6
    <2>9. \A p : PostuladosDe(p)' = PostuladosDe(p)
      BY <2>6, <2>8 DEF PostuladosDe
    <2>10. \A g \in Hilos : SabeDelAnuncio(g)'
      BY <1>0, <2>4, <2>6, <2>7, <2>9 DEF SabeDelAnuncio, SigueIgual
    <2>11. AnunciosOK'
      BY <1>0, <2>4, <2>5, <2>6 DEF AnunciosOK
    <2>12. PostulacionEnSerie'
      BY <1>0, <2>6, <2>7, <2>8 DEF PostulacionEnSerie
    <2>13. QED BY <2>7, <2>10, <2>11, <2>12 DEF IInvAnuncios
  <1>8. QED BY <1>1, <1>2, <1>3, <1>4, <1>5, <1>6, <1>7 DEF NextAnuncios

LEMMA AnunciosQuietos ==
    ASSUME IInvAnuncios, UNCHANGED <<anunciosVars, servidor>>
    PROVE  IInvAnuncios'
  <1>1. /\ anuncio' = anuncio /\ postulaciones' = postulaciones
        /\ peticion' = peticion /\ obsoleta' = obsoleta
    BY DEF anunciosVars, servidor
  <1>2. QED BY <1>1 DEF IInvAnuncios, Ranuras, AnunciosOK, PostulacionEnSerie, SabeDelAnuncio, PostuladosDe

LEMMA AnunciosAlInicio ==
    ASSUME InitAnuncios
    PROVE  /\ AnunciosOK /\ PostulacionEnSerie
           /\ Ranuras(PeticionAnuncio) /\ (\A h \in Hilos : peticion[h] = Nada) => IInvAnuncios
  <1>1. anuncio = Nada /\ postulaciones = <<>>
    BY DEF InitAnuncios
  <1>2. AnunciosOK /\ PostulacionEnSerie
    BY <1>1, EmptySeq DEF AnunciosOK, PostulacionEnSerie
  <1>3. QED BY <1>2 DEF IInvAnuncios, SabeDelAnuncio

-----------------------------------------------------------------------------
(* Skills *)

LEMMA PeticionesDeHabilidades == DePeticiones(PeticionHabilidad)
  BY NadaNoEsHabilidad DEF DePeticiones, PeticionHabilidad

\* What is certified of a level is what its route asks.
NivelesDeLaRuta == \A n \in DOMAIN Ruta : niveles[n] \in {Nada, Ruta[n]}

\* A request knows a level, or a competence, of the skill.
SabeDeLaHabilidad(h) ==
    LET p == peticion[h]
    IN  p # Nada =>
        /\ p.op = "nivel" => p.dato \in [nivel: DOMAIN Ruta, era: Metodos \cup {Nada}]
        /\ p.op = "endoso" => p.dato \in Competencias

IInvHabilidades ==
    /\ Ranuras(PeticionHabilidad)
    /\ HabilidadesOK /\ NivelesDeLaRuta
    /\ \A h \in Hilos : SabeDeLaHabilidad(h)

LEMMA HabilidadQueSigue ==
    ASSUME NEW h, NEW W, SabeDeLaHabilidad(h), SigueIgual(h, W)
    PROVE  SabeDeLaHabilidad(h)'
  BY DEF SabeDeLaHabilidad, SigueIgual

\* The rows stay, and the slots of others.
LEMMA HabilidadesIguales ==
    ASSUME IInvHabilidades, Ranuras(PeticionHabilidad)', UNCHANGED habilidadesVars,
           NEW h \in Hilos, SabeDeLaHabilidad(h)',
           \A g \in Hilos \ {h} : peticion'[g] = peticion[g]
    PROVE  IInvHabilidades'
  <1>1. habilidad' = habilidad /\ niveles' = niveles /\ endosos' = endosos
    BY DEF habilidadesVars
  <1>2. \A g \in Hilos : SabeDeLaHabilidad(g)'
    BY HabilidadQueSigue, IgualSinAge DEF IInvHabilidades
  <1>3. QED BY <1>1, <1>2 DEF IInvHabilidades, HabilidadesOK, NivelesDeLaRuta, Certificados

LEMMA PasoHabilidades ==
    ASSUME IInvHabilidades, NextHabilidades
    PROVE  IInvHabilidades'
  <1>0. /\ Ranuras(PeticionHabilidad) /\ DePeticiones(PeticionHabilidad)
        /\ HabilidadesOK /\ NivelesDeLaRuta
        /\ \A h \in Hilos : SabeDeLaHabilidad(h)
        /\ niveles \in [DOMAIN Ruta -> Metodos \cup {Nada}] /\ Nada \notin Metodos
    BY PeticionesDeHabilidades, NadaNoEsHabilidad DEF IInvHabilidades, HabilidadesOK
  <1>1. ASSUME NEW h \in Hilos, NEW op \in {"nivel", "endoso", "eliminar"},
               NEW lee \in SUBSET ({<<"habilidad">>, <<"endosos">>} \cup {"nivel"} \X DOMAIN Ruta),
               NEW d \in [nivel: DOMAIN Ruta, era: Metodos \cup {Nada}] \cup Competencias \cup {Nada},
               op = "nivel" => d \in [nivel: DOMAIN Ruta, era: Metodos \cup {Nada}],
               op = "endoso" => d \in Competencias,
               Llega(h, op, lee, d), UNCHANGED habilidadesVars
        PROVE  IInvHabilidades'
    <2>1. PeticionNueva(op, lee, d) \in PeticionHabilidad
      BY DEF PeticionNueva, PeticionHabilidad, Peticion
    <2>2. /\ Ranuras(PeticionHabilidad)'
          /\ peticion'[h].op = op /\ peticion'[h].dato = d
          /\ \A g \in Hilos \ {h} : peticion'[g] = peticion[g]
      BY <1>0, <1>1, <2>1, AlLlegar
    <2>3. SabeDeLaHabilidad(h)'
      BY <1>1, <2>2 DEF SabeDeLaHabilidad
    <2>4. QED BY <1>1, <2>2, <2>3, HabilidadesIguales
  <1>2. ASSUME NEW h \in Hilos, Falla(h), UNCHANGED habilidadesVars
        PROVE  IInvHabilidades'
    <2>1. /\ Ranuras(PeticionHabilidad)' /\ peticion'[h] = Nada
          /\ \A g \in Hilos \ {h} : peticion'[g] = peticion[g]
      BY <1>0, <1>2, AlFallar
    <2>2. SabeDeLaHabilidad(h)'
      BY <2>1 DEF SabeDeLaHabilidad
    <2>3. QED BY <1>2, <2>1, <2>2, HabilidadesIguales
  <1>3. ASSUME NEW h \in Hilos, NEW W, peticion[h] # Nada, Termina(h, W), HabilidadesOK', NivelesDeLaRuta'
        PROVE  IInvHabilidades'
    <2>1. /\ Ranuras(PeticionHabilidad)' /\ peticion'[h] = Nada
          /\ \A g \in Hilos \ {h} : SigueIgual(g, W)
      BY <1>0, <1>3, AlTerminar
    <2>2. \A g \in Hilos \ {h} : SabeDeLaHabilidad(g)'
      BY <1>0, <2>1, HabilidadQueSigue
    <2>3. SabeDeLaHabilidad(h)'
      BY <2>1 DEF SabeDeLaHabilidad
    <2>4. QED BY <1>3, <2>1, <2>2, <2>3 DEF IInvHabilidades
  <1>4. ASSUME NEW h \in Hilos, RegistrarNivel(h)
        PROVE  IInvHabilidades'
    <2>1. PICK d : d = peticion[h].dato
      OBVIOUS
    <2>2. /\ d.nivel \in DOMAIN Ruta /\ peticion[h] # Nada
          /\ habilidad /\ habilidad' = habilidad /\ endosos' = endosos
          /\ niveles' = [niveles EXCEPT ![d.nivel] = Ruta[d.nivel]]
          /\ Termina(h, {<<"nivel", d.nivel>>})
      BY <1>0, <1>4, <2>1 DEF RegistrarNivel, EnCurso, Dato, SabeDeLaHabilidad
    <2>3. HabilidadesOK'
      BY <1>0, <2>2, RutaDeMetodos DEF HabilidadesOK
    <2>4. NivelesDeLaRuta'
      BY <1>0, <2>2 DEF NivelesDeLaRuta
    <2>5. QED BY <1>3, <2>2, <2>3, <2>4
  <1>5. ASSUME NEW h \in Hilos, CommitEndoso(h)
        PROVE  IInvHabilidades'
    <2>1. /\ peticion[h].dato \in Competencias /\ peticion[h] # Nada
          /\ habilidad /\ habilidad' = habilidad /\ niveles' = niveles
          /\ endosos' = endosos \cup {peticion[h].dato} /\ Termina(h, {<<"endosos">>})
      BY <1>0, <1>5 DEF CommitEndoso, EnCurso, Dato, SabeDeLaHabilidad
    <2>2. HabilidadesOK' /\ NivelesDeLaRuta'
      BY <1>0, <2>1 DEF HabilidadesOK, NivelesDeLaRuta
    <2>3. QED BY <1>3, <2>1, <2>2
  <1>6. ASSUME NEW h \in Hilos, CommitEliminar(h)
        PROVE  IInvHabilidades'
    <2>1. CASE Certificados = {} /\ endosos = {}
      <3>1. /\ habilidad' = FALSE /\ niveles' = niveles /\ endosos' = endosos
            /\ Termina(h, {<<"habilidad">>}) /\ peticion[h] # Nada
        BY <1>6, <2>1 DEF CommitEliminar, EnCurso
      <3>2. HabilidadesOK' /\ NivelesDeLaRuta'
        BY <1>0, <2>1, <3>1 DEF HabilidadesOK, NivelesDeLaRuta, Certificados
      <3>3. QED BY <1>3, <3>1, <3>2
    <2>2. CASE ~(Certificados = {} /\ endosos = {})
      BY <1>2, <1>6, <2>2 DEF CommitEliminar, habilidadesVars
    <2>3. QED BY <2>1, <2>2
  <1>7. ASSUME NEW h \in Hilos, NEW n \in DOMAIN Ruta, NEW a \in 0..Preguntas, CertificarNivel(h, n, a)
        PROVE  IInvHabilidades'
    <2>1. PICK d : d = [nivel |-> n, era |-> niveles[n]]
      OBVIOUS
    <2>2. PICK lee : lee = {<<"nivel", n>>, <<"habilidad">>}
      OBVIOUS
    <2>3. d \in [nivel: DOMAIN Ruta, era: Metodos \cup {Nada}]
      BY <1>0, <2>1
    <2>4. lee \in SUBSET ({<<"habilidad">>, <<"endosos">>} \cup {"nivel"} \X DOMAIN Ruta)
      BY <2>2
    <2>5. Llega(h, "nivel", lee, d) /\ UNCHANGED habilidadesVars
      BY <1>7, <2>1, <2>2 DEF CertificarNivel
    <2>6. QED BY <1>1, <2>3, <2>4, <2>5
  <1>8. ASSUME NEW h \in Hilos, NEW c \in Competencias, Endosar(h, c)
        PROVE  IInvHabilidades'
    BY <1>1, <1>8 DEF Endosar
  <1>9. ASSUME NEW h \in Hilos, EliminarHabilidad(h)
        PROVE  IInvHabilidades'
    BY <1>1, <1>9 DEF EliminarHabilidad
  <1>10. ASSUME NEW h \in Hilos, FilaRechazada(h)
         PROVE  IInvHabilidades'
    BY <1>2, <1>10 DEF FilaRechazada
  <1>11. QED BY <1>4, <1>5, <1>6, <1>7, <1>8, <1>9, <1>10 DEF NextHabilidades

LEMMA HabilidadesQuietas ==
    ASSUME IInvHabilidades, UNCHANGED <<habilidadesVars, servidor>>
    PROVE  IInvHabilidades'
  <1>1. /\ habilidad' = habilidad /\ niveles' = niveles /\ endosos' = endosos
        /\ peticion' = peticion /\ obsoleta' = obsoleta
    BY DEF habilidadesVars, servidor
  <1>2. \A h \in Hilos : SabeDeLaHabilidad(h)'
    BY <1>1, HabilidadQueSigue, IgualSinAge DEF IInvHabilidades
  <1>3. QED BY <1>1, <1>2 DEF IInvHabilidades, Ranuras, HabilidadesOK, NivelesDeLaRuta, Certificados

LEMMA HabilidadesAlInicio ==
    ASSUME InitHabilidades
    PROVE  /\ HabilidadesOK /\ NivelesDeLaRuta
           /\ Ranuras(PeticionHabilidad) /\ (\A h \in Hilos : peticion[h] = Nada) => IInvHabilidades
  <1>1. HabilidadesOK /\ NivelesDeLaRuta
    BY DEF InitHabilidades, HabilidadesOK, NivelesDeLaRuta, Certificados
  <1>2. QED BY <1>1 DEF IInvHabilidades, SabeDeLaHabilidad

\* The quiz of a level, once passed, stays: only its own route writes it.
LEMMA ElQuizQueda ==
    ASSUME IInvHabilidades, NextHabilidades, NEW n \in DOMAIN Ruta, niveles[n] = "quiz"
    PROVE  niveles'[n] = "quiz"
  <1>1. CASE UNCHANGED niveles
    BY <1>1
  <1>2. ASSUME NEW h \in Hilos, RegistrarNivel(h)
        PROVE  niveles'[n] = "quiz"
    <2>1. PICK m : m = peticion[h].dato.nivel
      OBVIOUS
    <2>2. m \in DOMAIN Ruta /\ niveles' = [niveles EXCEPT ![m] = Ruta[m]]
      BY <1>2, <2>1 DEF IInvHabilidades, RegistrarNivel, EnCurso, Dato, SabeDeLaHabilidad
    <2>3. Ruta[n] = "quiz" /\ niveles \in [DOMAIN Ruta -> Metodos \cup {Nada}]
      BY NadaNoEsHabilidad DEF IInvHabilidades, NivelesDeLaRuta, HabilidadesOK, Metodos
    <2>4. QED BY <2>2, <2>3
  <1>3. QED BY <1>1, <1>2 DEF NextHabilidades, CommitEndoso, FilaRechazada, EliminarHabilidad,
                CommitEliminar, CertificarNivel, Endosar, habilidadesVars

LEMMA ElProgresoNoBaja ==
    ASSUME IInvHabilidades, NextHabilidades, NEW trabajos, NEW nota
    PROVE  Progreso(trabajos, nota)' >= Progreso(trabajos, nota)
  <1>1. (\E n \in DOMAIN Ruta : niveles[n] = "quiz") => (\E n \in DOMAIN Ruta : niveles'[n] = "quiz")
    BY ElQuizQueda
  <1>2. PICK q \in BOOLEAN : q <=> \E n \in DOMAIN Ruta : niveles[n] = "quiz"
    OBVIOUS
  <1>3. PICK r \in BOOLEAN : r <=> \E n \in DOMAIN Ruta : niveles'[n] = "quiz"
    OBVIOUS
  <1>4. NivelOficio(r, FALSE, trabajos, nota) >= NivelOficio(q, FALSE, trabajos, nota)
    BY <1>1, <1>2, <1>3 DEF NivelOficio
  <1>5. (\E n \in DOMAIN Ruta : niveles[n] = "quiz") = q /\ (\E n \in DOMAIN Ruta : niveles'[n] = "quiz") = r
    BY <1>2, <1>3
  <1>6. QED BY <1>4, <1>5 DEF Progreso

-----------------------------------------------------------------------------
(* Profiles *)

LEMMA PeticionesDePerfil == DePeticiones(PeticionPerfil)
  BY NadaNoEsPerfil DEF DePeticiones, PeticionPerfil

LEMMA PasosNaturales == \A x \in Pasos \cup {0, Ultimo} : x \in Nat
  <1>1. \A x \in Pasos : x \in Nat
    BY PasosEnteros
  <1>2. 0 \in Nat /\ Ultimo \in Nat
    BY DEF Ultimo
  <1>3. QED BY <1>1, <1>2

Votos == [Resenas -> Estrellas \cup {Nada}]

LEMMA MediaEs ==
    ASSUME NEW votos \in Votos
    PROVE  Media(votos) \in 0..300
  <1>1. PICK s : s = Hechas(votos)
    OBVIOUS
  <1>2. IsFiniteSet(s) /\ \A r \in s : votos[r] \in 0..5
    <2>1. s \in SUBSET Resenas /\ \A r \in s : votos[r] \in Estrellas
      BY <1>1 DEF Hechas, Votos
    <2>2. IsFiniteSet(s)
      BY <2>1, FS_Subset, ResenasFinitas
    <2>3. \A e \in Estrellas : e \in 0..5
      BY EstrellasHastaCinco
    <2>4. QED BY <2>1, <2>2, <2>3
  <1>3. CASE s = {}
    BY <1>1, <1>3 DEF Media
  <1>4. CASE s # {}
    <2>1. PICK n : n = Cardinality(s) /\ n \in Nat /\ n > 0
      <3>1. Cardinality(s) \in Nat /\ Cardinality(s) # 0
        BY <1>2, <1>4, FS_CardinalityType, FS_EmptySet
      <3>2. QED BY <3>1
    <2>2. PICK v : v = SumFunctionOnSet(votos, s)
      OBVIOUS
    <2>3. v \in Nat
      BY <1>2, <2>2, SumaNat
    <2>4. v <= 5 * n
      BY <1>2, <2>1, <2>2, SumaHasta
    <2>5. 60 * v \in Nat /\ 60 * v < (300 + 1) * n
      BY <2>1, <2>3, <2>4
    <2>6. (60 * v) \div n \in 0..300
      BY <2>1, <2>5, Cociente
    <2>7. QED BY <1>1, <1>4, <2>1, <2>2, <2>6 DEF Media
  <1>5. QED BY <1>3, <1>4

\* The badge that comes first, of those earned.
LEMMA PremiaEs ==
    ASSUME NEW ganadas, ganadas \subseteq {Notables[i] : i \in DOMAIN Notables},
           NEW v \in Vitrina
    PROVE  Premia(v, ganadas) \in Vitrina
  <1>1. CASE v = <<>> /\ ganadas # {}
    <2>1. PICK M : M = {i \in DOMAIN Notables : Notables[i] \in ganadas}
      OBVIOUS
    <2>2. M \in SUBSET Nat /\ M # {}
      BY <1>1, <2>1, NotablesEnOrden
    <2>3. PICK i \in M : \A j \in M : i <= j
      BY <2>2, Minimo
    <2>4. Primera(ganadas) \in DOMAIN Notables
      BY <2>1, <2>3 DEF Primera
    <2>5. QED BY <1>1, <2>4 DEF Premia, Vitrina
  <1>2. CASE ~(v = <<>> /\ ganadas # {})
    BY <1>2 DEF Premia
  <1>3. QED BY <1>1, <1>2

\* What a request that no commit overtook computed is right for the rows as they
\* are: the average for its rating and all others, the step and the end of the setup.
SabeDelPerfil(h) ==
    LET p == peticion[h]
        d == p.dato
    IN  p # Nada =>
        /\ p.op = "resena" =>
                /\ d \in [resena: Resenas, puntaje: Estrellas, promedio: 0..300, cargado: 0..300]
                /\ ~p.vieja =>
                    /\ {Del("resenas"), Del("promedio")} \subseteq p.lee
                    /\ d.promedio = Media([resenas EXCEPT ![d.resena] = d.puntaje])
                    /\ d.cargado = perfil.promedio
        /\ p.op = "paso" =>
                /\ d \in [cargado: Pasos \cup {0, Ultimo}, paso: Pasos \cup {0, Ultimo}]
                /\ ~p.vieja =>
                    /\ Del("paso") \in p.lee
                    /\ d.paso >= perfil.paso
        /\ p.op = "premio" =>
                /\ d \in [termina: BOOLEAN, paso: {Ultimo, Nada}, insignias: Vitrina \cup {Nada}]
                /\ ~p.vieja =>
                    /\ Del("paso") \in p.lee
                    /\ d.termina => (d.paso = Ultimo \/ perfil.paso = Ultimo)

IInvPerfil ==
    /\ Ranuras(PeticionPerfil)
    /\ PerfilOK /\ PerfilEnSerie
    /\ \A h \in Hilos : SabeDelPerfil(h)

LEMMA PerfilQueSigue ==
    ASSUME NEW h, NEW W, SabeDelPerfil(h), SigueIgual(h, W),
           resenas' = resenas \/ Del("resenas") \in W,
           perfil'.promedio = perfil.promedio \/ Del("promedio") \in W,
           perfil'.paso = perfil.paso \/ Del("paso") \in W
    PROVE  SabeDelPerfil(h)'
  <1>1. peticion[h] # Nada /\ ~peticion'[h].vieja =>
            /\ Del("resenas") \in peticion[h].lee => resenas' = resenas
            /\ Del("promedio") \in peticion[h].lee => perfil'.promedio = perfil.promedio
            /\ Del("paso") \in peticion[h].lee => perfil'.paso = perfil.paso
    BY DEF SigueIgual
  <1>2. Del("resenas")' = Del("resenas") /\ Del("promedio")' = Del("promedio")
        /\ Del("paso")' = Del("paso")
    BY DEF Del
  <1>3. resenas' = resenas => \A r, p : Media([resenas EXCEPT ![r] = p])' = Media([resenas EXCEPT ![r] = p])
    BY DEF Media, Hechas
  <1>4. QED BY <1>1, <1>2, <1>3 DEF SabeDelPerfil, SigueIgual

\* A request ends, and its commit declares what it writes.
LEMMA PerfilEscrito ==
    ASSUME IInvPerfil, NEW h \in Hilos, NEW W, peticion[h] # Nada, Termina(h, W),
           resenas' = resenas \/ Del("resenas") \in W,
           perfil'.promedio = perfil.promedio \/ Del("promedio") \in W,
           perfil'.paso = perfil.paso \/ Del("paso") \in W,
           PerfilOK', ~peticion[h].vieja /\ ~obsoleta =>
                        /\ moderada' \/ perfil'.promedio = Media(resenas')
                        /\ perfil'.terminado => perfil'.paso >= Ultimo
    PROVE  IInvPerfil'
  <1>1. Ranuras(PeticionPerfil) /\ DePeticiones(PeticionPerfil)
    BY PeticionesDePerfil DEF IInvPerfil
  <1>2. /\ Ranuras(PeticionPerfil)' /\ peticion'[h] = Nada
        /\ ~obsoleta' => ~obsoleta /\ ~peticion[h].vieja
        /\ \A g \in Hilos \ {h} : SigueIgual(g, W)
    BY <1>1, AlTerminar
  <1>3. \A g \in Hilos \ {h} : SabeDelPerfil(g)'
    BY <1>2, PerfilQueSigue DEF IInvPerfil
  <1>4. SabeDelPerfil(h)'
    BY <1>2 DEF SabeDelPerfil
  <1>5. PerfilEnSerie'
    BY <1>2 DEF PerfilEnSerie
  <1>6. QED BY <1>2, <1>3, <1>4, <1>5 DEF IInvPerfil

\* A request arrives.
LEMMA PerfilPedido ==
    ASSUME IInvPerfil, NEW h \in Hilos, NEW op, NEW lee, NEW d,
           PeticionNueva(op, lee, d) \in PeticionPerfil,
           Llega(h, op, lee, d), UNCHANGED perfilVars,
           peticion'[h].op = op /\ peticion'[h].dato = d /\ peticion'[h].lee = lee => SabeDelPerfil(h)'
    PROVE  IInvPerfil'
  <1>1. /\ Ranuras(PeticionPerfil)' /\ obsoleta' = obsoleta
        /\ peticion'[h].op = op /\ peticion'[h].lee = lee /\ peticion'[h].dato = d
        /\ \A g \in Hilos \ {h} : peticion'[g] = peticion[g]
    BY AlLlegar, PeticionesDePerfil DEF IInvPerfil
  <1>2. resenas' = resenas /\ perfil' = perfil /\ moderada' = moderada
    BY DEF perfilVars
  <1>3. \A g \in Hilos \ {h} : SabeDelPerfil(g)'
    BY <1>1, <1>2, PerfilQueSigue, IgualSinAge DEF IInvPerfil
  <1>4. PerfilOK' /\ PerfilEnSerie'
    BY <1>1, <1>2 DEF IInvPerfil, PerfilOK, PerfilEnSerie, Media, Hechas
  <1>5. QED BY <1>1, <1>3, <1>4 DEF IInvPerfil

LEMMA PasoResenar ==
    ASSUME IInvPerfil, NEW h \in Hilos, NEW r \in Resenas, NEW p \in Estrellas, Resenar(h, r, p)
    PROVE  IInvPerfil'
  <1>1. PICK m : m = Media([resenas EXCEPT ![r] = p])
    OBVIOUS
  <1>2. m \in 0..300 /\ perfil.promedio \in 0..300
    <2>1. [resenas EXCEPT ![r] = p] \in Votos
      BY DEF IInvPerfil, PerfilOK, Votos
    <2>2. QED BY <1>1, <2>1, MediaEs DEF IInvPerfil, PerfilOK, PerfilRow
  <1>3. PICK d : d = [resena |-> r, puntaje |-> p, promedio |-> m, cargado |-> perfil.promedio]
    OBVIOUS
  <1>4. /\ d \in [resena: Resenas, puntaje: Estrellas, promedio: 0..300, cargado: 0..300]
        /\ d.resena = r /\ d.puntaje = p /\ d.promedio = m /\ d.cargado = perfil.promedio
    BY <1>2, <1>3
  <1>5. PICK lee : lee = {Del("resenas"), Del("promedio")}
    OBVIOUS
  <1>6. Llega(h, "resena", lee, d) /\ UNCHANGED perfilVars
    BY <1>1, <1>3, <1>5 DEF Resenar
  <1>7. PeticionNueva("resena", lee, d) \in PeticionPerfil
    BY <1>4, <1>5 DEF PeticionNueva, PeticionPerfil, Peticion
  <1>8. m = Media([resenas EXCEPT ![r] = p])'
    BY <1>1, <1>6 DEF perfilVars, Media, Hechas
  <1>9. ASSUME peticion'[h].op = "resena", peticion'[h].dato = d, peticion'[h].lee = lee
        PROVE  SabeDelPerfil(h)'
    BY <1>4, <1>5, <1>6, <1>8, <1>9 DEF SabeDelPerfil, perfilVars, Del
  <1>10. QED BY <1>6, <1>7, <1>9, PerfilPedido

LEMMA PasoCommitResenar ==
    ASSUME IInvPerfil, NEW h \in Hilos, CommitResenar(h)
    PROVE  IInvPerfil'
  <1>1. PICK d : d = peticion[h].dato
    OBVIOUS
  <1>2. /\ peticion[h] # Nada
        /\ d \in [resena: Resenas, puntaje: Estrellas, promedio: 0..300, cargado: 0..300]
        /\ ~peticion[h].vieja =>
                /\ d.promedio = Media([resenas EXCEPT ![d.resena] = d.puntaje])
                /\ d.cargado = perfil.promedio
    BY <1>1 DEF CommitResenar, EnCurso, IInvPerfil, SabeDelPerfil
  <1>3. PICK m : m = IF d.promedio = d.cargado THEN perfil.promedio ELSE d.promedio
    OBVIOUS
  <1>4. perfil \in PerfilRow /\ m \in 0..300 /\ resenas \in Votos
    BY <1>2, <1>3 DEF IInvPerfil, PerfilOK, PerfilRow, Votos
  <1>5. /\ resenas' = [resenas EXCEPT ![d.resena] = d.puntaje]
        /\ perfil' = [perfil EXCEPT !.promedio = m]
        /\ moderada' = FALSE
        /\ Termina(h, {Del("resenas"), Del("promedio")})
    <2>1. perfil' = [perfil EXCEPT !.promedio = IF d.promedio = d.cargado THEN @ ELSE d.promedio]
      BY <1>1 DEF CommitResenar, Dato
    <2>2. perfil' = [perfil EXCEPT !.promedio = m]
      BY <1>3, <2>1
    <2>3. QED BY <1>1, <2>2 DEF CommitResenar, Dato
  <1>6. /\ perfil' \in PerfilRow /\ perfil'.promedio = m /\ perfil'.paso = perfil.paso
        /\ perfil'.terminado = perfil.terminado
    BY <1>4, <1>5 DEF PerfilRow
  <1>7. PerfilOK'
    BY <1>2, <1>4, <1>5, <1>6 DEF PerfilOK, Votos, PerfilRow, Vitrina
  <1>8. ~peticion[h].vieja => m = Media(resenas')
    BY <1>2, <1>3, <1>5
  <1>9. ~peticion[h].vieja /\ ~obsoleta =>
            /\ moderada' \/ perfil'.promedio = Media(resenas')
            /\ perfil'.terminado => perfil'.paso >= Ultimo
    BY <1>6, <1>8 DEF IInvPerfil, PerfilEnSerie
  <1>10. QED BY <1>2, <1>5, <1>6, <1>7, <1>9, PerfilEscrito

LEMMA PasoBorrarResena ==
    ASSUME IInvPerfil, NEW r \in Resenas, BorrarResena(r)
    PROVE  IInvPerfil'
  <1>1. Ranuras(PeticionPerfil) /\ DePeticiones(PeticionPerfil)
    BY PeticionesDePerfil DEF IInvPerfil
  <1>2. Escriben({Del("resenas")}) /\ perfil' = perfil /\ moderada' = TRUE
        /\ resenas' = [resenas EXCEPT ![r] = Nada]
    BY DEF BorrarResena
  <1>3. /\ Ranuras(PeticionPerfil)' /\ obsoleta' = obsoleta
        /\ \A g \in Hilos : SigueIgual(g, {Del("resenas")})
    BY <1>1, <1>2, AlEscribir
  <1>4. \A g \in Hilos : SabeDelPerfil(g)'
    BY <1>2, <1>3, PerfilQueSigue DEF IInvPerfil
  <1>5. PerfilOK'
    BY <1>2 DEF IInvPerfil, PerfilOK, PerfilRow, Vitrina
  <1>6. PerfilEnSerie'
    BY <1>2, <1>3 DEF IInvPerfil, PerfilEnSerie
  <1>7. QED BY <1>3, <1>4, <1>5, <1>6 DEF IInvPerfil

LEMMA PasoAvanzarPaso ==
    ASSUME IInvPerfil, NEW h \in Hilos, NEW n \in Pasos, AvanzarPaso(h, n)
    PROVE  IInvPerfil'
  <1>1. PICK m : m = IF n > perfil.paso THEN n ELSE perfil.paso
    OBVIOUS
  <1>2. /\ perfil.paso \in Pasos \cup {0, Ultimo} /\ m \in Pasos \cup {0, Ultimo}
        /\ m >= perfil.paso
    <2>1. perfil.paso \in Pasos \cup {0, Ultimo}
      BY DEF IInvPerfil, PerfilOK, PerfilRow
    <2>2. perfil.paso \in Nat /\ n \in Nat
      BY <2>1, PasosNaturales
    <2>3. QED BY <1>1, <2>1, <2>2
  <1>3. PICK d : d = [cargado |-> perfil.paso, paso |-> m]
    OBVIOUS
  <1>4. d \in [cargado: Pasos \cup {0, Ultimo}, paso: Pasos \cup {0, Ultimo}] /\ d.paso = m
    BY <1>2, <1>3
  <1>5. Llega(h, "paso", {Del("paso")}, d) /\ UNCHANGED perfilVars
    BY <1>1, <1>3 DEF AvanzarPaso
  <1>6. PeticionNueva("paso", {Del("paso")}, d) \in PeticionPerfil
    BY <1>4 DEF PeticionNueva, PeticionPerfil, Peticion
  <1>7. ASSUME peticion'[h].op = "paso", peticion'[h].dato = d, peticion'[h].lee = {Del("paso")}
        PROVE  SabeDelPerfil(h)'
    <2>1. perfil' = perfil
      BY <1>5 DEF perfilVars
    <2>2. Del("paso")' = Del("paso")
      BY DEF Del
    <2>3. QED BY <1>2, <1>4, <1>7, <2>1, <2>2 DEF SabeDelPerfil
  <1>8. QED BY <1>5, <1>6, <1>7, PerfilPedido

LEMMA PasoCommitPaso ==
    ASSUME IInvPerfil, NEW h \in Hilos, CommitPaso(h)
    PROVE  IInvPerfil'
  <1>1. PICK d : d = peticion[h].dato
    OBVIOUS
  <1>2. /\ peticion[h] # Nada
        /\ d \in [cargado: Pasos \cup {0, Ultimo}, paso: Pasos \cup {0, Ultimo}]
        /\ ~peticion[h].vieja => d.paso >= perfil.paso
    BY <1>1 DEF CommitPaso, EnCurso, IInvPerfil, SabeDelPerfil
  <1>3. PICK m : m = IF d.paso = d.cargado THEN perfil.paso ELSE d.paso
    OBVIOUS
  <1>4. perfil \in PerfilRow /\ m \in Pasos \cup {0, Ultimo} /\ perfil.paso \in Pasos \cup {0, Ultimo}
    BY <1>2, <1>3 DEF IInvPerfil, PerfilOK, PerfilRow
  <1>5. /\ resenas' = resenas /\ moderada' = moderada
        /\ perfil' = [perfil EXCEPT !.paso = m]
        /\ Termina(h, {Del("paso")})
    <2>1. perfil' = [perfil EXCEPT !.paso = IF d.paso = d.cargado THEN @ ELSE d.paso]
      BY <1>1 DEF CommitPaso, Dato
    <2>2. QED BY <1>3, <2>1 DEF CommitPaso
  <1>6. /\ perfil' \in PerfilRow /\ perfil'.promedio = perfil.promedio /\ perfil'.paso = m
        /\ perfil'.terminado = perfil.terminado
    BY <1>4, <1>5 DEF PerfilRow
  <1>7. PerfilOK'
    BY <1>5, <1>6 DEF IInvPerfil, PerfilOK, PerfilRow, Vitrina
  <1>8. ~peticion[h].vieja => m >= perfil.paso
    BY <1>2, <1>3, <1>4, PasosNaturales
  <1>9. ~peticion[h].vieja /\ ~obsoleta =>
            /\ moderada' \/ perfil'.promedio = Media(resenas')
            /\ perfil'.terminado => perfil'.paso >= Ultimo
    <2>1. perfil.paso \in Nat /\ m \in Nat /\ Ultimo \in Nat
      BY <1>4, PasosNaturales DEF Ultimo
    <2>2. QED BY <1>5, <1>6, <1>8, <2>1 DEF IInvPerfil, PerfilEnSerie
  <1>10. QED BY <1>2, <1>5, <1>6, <1>7, <1>9, PerfilEscrito

LEMMA PasoPremiar ==
    ASSUME IInvPerfil, NEW h \in Hilos, NEW b \in BOOLEAN,
           NEW ganadas, ganadas \subseteq {Notables[i] : i \in DOMAIN Notables}, Premiar(h, b, ganadas)
    PROVE  IInvPerfil'
  <1>1. PICK v : v = Premia(perfil.insignias, ganadas)
    OBVIOUS
  <1>2. perfil.insignias \in Vitrina /\ v \in Vitrina
    BY <1>1, PremiaEs DEF IInvPerfil, PerfilOK, PerfilRow
  <1>3. PICK m : m = IF b /\ perfil.paso # Ultimo THEN Ultimo ELSE Nada
    OBVIOUS
  <1>4. PICK w : w = IF v = perfil.insignias THEN Nada ELSE v
    OBVIOUS
  <1>5. m \in {Ultimo, Nada} /\ w \in Vitrina \cup {Nada} /\ (b => m = Ultimo \/ perfil.paso = Ultimo)
    BY <1>2, <1>3, <1>4
  <1>6. PICK d : d = [termina |-> b, paso |-> m, insignias |-> w]
    OBVIOUS
  <1>7. /\ d \in [termina: BOOLEAN, paso: {Ultimo, Nada}, insignias: Vitrina \cup {Nada}]
        /\ d.termina = b /\ d.paso = m
    BY <1>5, <1>6
  <1>8. PICK lee : lee = {Del("paso"), Del("insignias")}
    OBVIOUS
  <1>9. Llega(h, "premio", lee, d) /\ UNCHANGED perfilVars
    BY <1>1, <1>3, <1>4, <1>6, <1>8 DEF Premiar
  <1>10. PeticionNueva("premio", lee, d) \in PeticionPerfil
    BY <1>7, <1>8 DEF PeticionNueva, PeticionPerfil, Peticion
  <1>11. ASSUME peticion'[h].op = "premio", peticion'[h].dato = d, peticion'[h].lee = lee
         PROVE  SabeDelPerfil(h)'
    <2>1. perfil' = perfil
      BY <1>9 DEF perfilVars
    <2>2. Del("paso") \in lee /\ Del("paso")' = Del("paso") /\ Vitrina' = Vitrina /\ Ultimo' = Ultimo
      BY <1>8 DEF Del, Vitrina, Ultimo
    <2>3. QED BY <1>5, <1>7, <1>11, <2>1, <2>2 DEF SabeDelPerfil
  <1>12. QED BY <1>9, <1>10, <1>11, PerfilPedido

LEMMA PasoCommitPremiar ==
    ASSUME IInvPerfil, NEW h \in Hilos, CommitPremiar(h)
    PROVE  IInvPerfil'
  <1>1. PICK d : d = peticion[h].dato
    OBVIOUS
  <1>2. /\ peticion[h] # Nada
        /\ d \in [termina: BOOLEAN, paso: {Ultimo, Nada}, insignias: Vitrina \cup {Nada}]
        /\ ~peticion[h].vieja => (d.termina => d.paso = Ultimo \/ perfil.paso = Ultimo)
    BY <1>1 DEF CommitPremiar, EnCurso, IInvPerfil, SabeDelPerfil
  <1>3. perfil \in PerfilRow /\ perfil.paso \in Pasos \cup {0, Ultimo} /\ perfil.terminado \in BOOLEAN
        /\ perfil.insignias \in Vitrina
    BY DEF IInvPerfil, PerfilOK, PerfilRow
  <1>4. PICK m : m = IF d.paso = Nada THEN perfil.paso ELSE d.paso
    OBVIOUS
  <1>5. PICK w : w = IF d.insignias = Nada THEN perfil.insignias ELSE d.insignias
    OBVIOUS
  <1>6. PICK b : b = (perfil.terminado \/ d.termina)
    OBVIOUS
  <1>7. m \in Pasos \cup {0, Ultimo} /\ w \in Vitrina /\ b \in BOOLEAN
    BY <1>2, <1>3, <1>4, <1>5, <1>6
  <1>8. /\ resenas' = resenas /\ moderada' = moderada
        /\ perfil' = [perfil EXCEPT !.terminado = b, !.paso = m, !.insignias = w]
        /\ Termina(h, {Del("paso"), Del("insignias")})
    BY <1>1, <1>3, <1>4, <1>5, <1>6 DEF CommitPremiar, Dato, PerfilRow
  <1>9. /\ perfil' \in PerfilRow /\ perfil'.promedio = perfil.promedio /\ perfil'.paso = m
        /\ perfil'.terminado = b
    BY <1>3, <1>7, <1>8 DEF PerfilRow
  <1>10. PerfilOK'
    BY <1>8, <1>9 DEF IInvPerfil, PerfilOK, PerfilRow, Vitrina
  <1>11. Ultimo \in Nat /\ Ultimo # Nada
    BY NadaNoEsNumero DEF Ultimo
  <1>12. ~peticion[h].vieja /\ ~obsoleta /\ b => m >= Ultimo
    <2>1. CASE d.paso = Ultimo
      BY <1>4, <1>11, <2>1
    <2>2. CASE d.paso # Ultimo
      <3>1. m = perfil.paso
        BY <1>2, <1>4, <2>2
      <3>2. QED BY <1>2, <1>6, <1>11, <2>2, <3>1 DEF IInvPerfil, PerfilEnSerie
    <2>3. QED BY <2>1, <2>2
  <1>13. ~peticion[h].vieja /\ ~obsoleta =>
            /\ moderada' \/ perfil'.promedio = Media(resenas')
            /\ perfil'.terminado => perfil'.paso >= Ultimo
    BY <1>8, <1>9, <1>12 DEF IInvPerfil, PerfilEnSerie
  <1>14. QED BY <1>2, <1>8, <1>9, <1>10, <1>13, PerfilEscrito

LEMMA PasoPerfil ==
    ASSUME IInvPerfil, NextPerfil
    PROVE  IInvPerfil'
  <1>1. ASSUME NEW r \in Resenas, BorrarResena(r)
        PROVE  IInvPerfil'
    BY <1>1, PasoBorrarResena
  <1>2. ASSUME NEW h \in Hilos, CommitResenar(h) \/ CommitPaso(h) \/ CommitPremiar(h)
        PROVE  IInvPerfil'
    BY <1>2, PasoCommitResenar, PasoCommitPaso, PasoCommitPremiar
  <1>3. ASSUME NEW h \in Hilos, NEW r \in Resenas, NEW p \in Estrellas, Resenar(h, r, p)
        PROVE  IInvPerfil'
    BY <1>3, PasoResenar
  <1>4. ASSUME NEW h \in Hilos, NEW n \in Pasos, AvanzarPaso(h, n)
        PROVE  IInvPerfil'
    BY <1>4, PasoAvanzarPaso
  <1>5. ASSUME NEW h \in Hilos, NEW b \in BOOLEAN,
               NEW ganadas \in SUBSET {Notables[i] : i \in DOMAIN Notables}, Premiar(h, b, ganadas)
        PROVE  IInvPerfil'
    BY <1>5, PasoPremiar
  <1>6. QED BY <1>1, <1>2, <1>3, <1>4, <1>5 DEF NextPerfil

LEMMA PerfilQuieto ==
    ASSUME IInvPerfil, UNCHANGED <<perfilVars, servidor>>
    PROVE  IInvPerfil'
  <1>1. /\ resenas' = resenas /\ perfil' = perfil /\ moderada' = moderada
        /\ peticion' = peticion /\ obsoleta' = obsoleta
    BY DEF perfilVars, servidor
  <1>2. \A g \in Hilos : SabeDelPerfil(g)'
    BY <1>1, PerfilQueSigue, IgualSinAge DEF IInvPerfil
  <1>3. Ranuras(PeticionPerfil)' /\ PerfilOK' /\ PerfilEnSerie'
    BY <1>1 DEF IInvPerfil, Ranuras, PerfilOK, PerfilEnSerie, Media, Hechas
  <1>4. QED BY <1>2, <1>3 DEF IInvPerfil

LEMMA PerfilAlInicio ==
    ASSUME InitPerfil
    PROVE  /\ PerfilOK /\ PerfilEnSerie
           /\ Ranuras(PeticionPerfil) /\ (\A h \in Hilos : peticion[h] = Nada) => IInvPerfil
  <1>1. PerfilOK
    <2>1. perfil \in PerfilRow
      BY DEF InitPerfil, PerfilRow, Vitrina
    <2>2. QED BY <2>1 DEF InitPerfil, PerfilOK
  <1>2. PerfilEnSerie
    <2>1. Hechas(resenas) = {}
      BY DEF InitPerfil, Hechas
    <2>2. QED BY <2>1 DEF InitPerfil, PerfilEnSerie, Media
  <1>3. QED BY <1>1, <1>2 DEF IInvPerfil, SabeDelPerfil

-----------------------------------------------------------------------------
(* Trust *)

LEMMA PeticionesDeConfianza == DePeticiones(PeticionConfianza)
  BY NadaNoEsConfianza DEF DePeticiones, PeticionConfianza

Niveles == {"verificado", "confiable", "nuevo"}

LEMMA LosUmbrales ==
    /\ DOMAIN Umbral = Niveles \cup {"experto"} /\ DOMAIN Umbral \ {"experto"} = Niveles
    /\ Umbral["experto"] = 8000 /\ Umbral["verificado"] = 6000
    /\ Umbral["confiable"] = 4000 /\ Umbral["nuevo"] = 0
  BY DEF Umbral, Niveles

LEMMA EnCadaUmbral ==
    ASSUME NEW k \in DOMAIN Umbral
    PROVE  \/ k = "experto" /\ Umbral[k] = 8000
           \/ k = "verificado" /\ Umbral[k] = 6000
           \/ k = "confiable" /\ Umbral[k] = 4000
           \/ k = "nuevo" /\ Umbral[k] = 0
  <1>1. k \in {"verificado", "confiable", "nuevo", "experto"}
    BY LosUmbrales DEF Niveles
  <1>2. QED BY <1>1, LosUmbrales

LEMMA ElMenorDeDos ==
    ASSUME NEW a \in Nat, NEW b \in Nat
    PROVE  Menor(a, b) \in 0..b
  BY DEF Menor

LEMMA PuntuaEs ==
    ASSUME NEW x \in Situaciones
    PROVE  Puntua(x) \in Puntuaciones
  <1>1. PICK v : v = IF x.verificado THEN 2500 ELSE 0
    OBVIOUS
  <1>2. PICK a : a = Menor(x.promedio, 50)
    OBVIOUS
  <1>3. PICK c : c = Menor(x.contratos, 50)
    OBVIOUS
  <1>4. a \in 0..50 /\ c \in 0..50 /\ v \in {0, 2500}
    <2>1. x.promedio \in Nat /\ x.contratos \in Nat /\ 50 \in Nat
      BY DEF Situaciones
    <2>2. a \in 0..50 /\ c \in 0..50
      BY <1>2, <1>3, <2>1, ElMenorDeDos
    <2>3. QED BY <1>1, <2>2
  <1>5. Puntua(x) = v + 50 * a + 40 * c
    BY <1>1, <1>2, <1>3 DEF Puntua
  <1>6. v + 50 * a + 40 * c \in 0..7000
    <2>1. v \in Nat /\ v <= 2500 /\ a \in Nat /\ a <= 50 /\ c \in Nat /\ c <= 50
      BY <1>4
    <2>2. QED BY <2>1
  <1>7. QED BY <1>5, <1>6 DEF Puntuaciones

\* With what is known of a provider nobody is an expert.
LEMMA NivelEs ==
    ASSUME NEW puntos \in Puntuaciones
    PROVE  NivelDe(puntos) \in Niveles
  <1>0. puntos \in Nat /\ puntos <= 7000
    BY DEF Puntuaciones
  <1>1. PICK n : n = NivelDe(puntos)
    OBVIOUS
  <1>2. \E m \in DOMAIN Umbral :
            /\ puntos >= Umbral[m]
            /\ \A k \in DOMAIN Umbral : puntos >= Umbral[k] => Umbral[k] <= Umbral[m]
    <2>1. CASE puntos >= 6000
      <3>1. /\ puntos >= Umbral["verificado"]
            /\ \A k \in DOMAIN Umbral : puntos >= Umbral[k] => Umbral[k] <= Umbral["verificado"]
        BY <1>0, <2>1, EnCadaUmbral, LosUmbrales
      <3>2. QED BY <3>1, LosUmbrales DEF Niveles
    <2>2. CASE puntos < 6000 /\ puntos >= 4000
      <3>1. /\ puntos >= Umbral["confiable"]
            /\ \A k \in DOMAIN Umbral : puntos >= Umbral[k] => Umbral[k] <= Umbral["confiable"]
        BY <1>0, <2>2, EnCadaUmbral, LosUmbrales
      <3>2. QED BY <3>1, LosUmbrales DEF Niveles
    <2>3. CASE puntos < 4000
      <3>1. /\ puntos >= Umbral["nuevo"]
            /\ \A k \in DOMAIN Umbral : puntos >= Umbral[k] => Umbral[k] <= Umbral["nuevo"]
        BY <1>0, <2>3, EnCadaUmbral, LosUmbrales
      <3>2. QED BY <3>1, LosUmbrales DEF Niveles
    <2>4. QED BY <1>0, <2>1, <2>2, <2>3
  <1>3. n \in DOMAIN Umbral /\ puntos >= Umbral[n]
    BY <1>1, <1>2 DEF NivelDe
  <1>4. n # "experto"
    <2>1. puntos <= 7000 /\ puntos \in Nat
      BY DEF Puntuaciones
    <2>2. QED BY <1>3, <2>1, LosUmbrales
  <1>5. QED BY <1>1, <1>3, <1>4, LosUmbrales

LEMMA FilaNuevaEs ==
    /\ FilaNueva \in ConfianzaRow /\ FilaNueva.version = 1
    /\ FilaNueva.puntuacion = Puntua(FilaNueva.de)
    /\ FilaNueva.nivel = NivelDe(FilaNueva.puntuacion)
  <1>1. FilaNueva.de = SinHechos /\ FilaNueva.puntuacion = 0 /\ FilaNueva.nivel = "nuevo"
        /\ FilaNueva.version = 1
    BY DEF FilaNueva
  <1>2. FilaNueva \in ConfianzaRow
    BY LosUmbrales DEF FilaNueva, ConfianzaRow, SinHechos, Situaciones, Niveles, Puntuaciones
  <1>3. Puntua(SinHechos) = 0
    BY DEF Puntua, SinHechos, Menor
  <1>4. NivelDe(0) = "nuevo"
    <2>1. PICK n : n = NivelDe(0)
      OBVIOUS
    <2>2. /\ "nuevo" \in DOMAIN Umbral /\ 0 >= Umbral["nuevo"]
          /\ \A k \in DOMAIN Umbral : 0 >= Umbral[k] => Umbral[k] <= Umbral["nuevo"]
      BY EnCadaUmbral, LosUmbrales DEF Niveles
    <2>3. n \in DOMAIN Umbral /\ 0 >= Umbral[n]
      BY <2>1, <2>2 DEF NivelDe
    <2>4. QED BY <2>1, <2>3, EnCadaUmbral
  <1>5. QED BY <1>1, <1>2, <1>3, <1>4

Tarea == [para: Motivos, cargada: ConfianzaRow, de: Situaciones]

LEMMA RecalculadaEs ==
    ASSUME NEW d \in Tarea, NEW fila \in ConfianzaRow
    PROVE  LET n == Recalculada(d, fila)
           IN  /\ n \in ConfianzaRow /\ n.version = d.cargada.version + 1
               /\ fila = d.cargada => /\ n.puntuacion = Puntua(n.de)
                                      /\ n.nivel = NivelDe(n.puntuacion)
  <1>1. PICK n : n = Recalculada(d, fila)
    OBVIOUS
  <1>2. PICK c : c = d.cargada
    OBVIOUS
  <1>3. PICK p : p = Puntua(d.de)
    OBVIOUS
  <1>4. PICK e : e = Fundida(c.de, d.de, fila.de)
    OBVIOUS
  <1>5. /\ c \in ConfianzaRow /\ c.de \in Situaciones /\ d.de \in Situaciones
        /\ fila.de \in Situaciones /\ c.version \in Nat \ {0}
        /\ fila.puntuacion \in Puntuaciones /\ fila.nivel \in Niveles
    BY <1>2, LosUmbrales DEF Tarea, ConfianzaRow
  <1>6. e \in Situaciones
    BY <1>4, <1>5 DEF Fundida, Cambia, Situaciones
  <1>7. fila = c => e = d.de
    BY <1>4, <1>5 DEF Fundida, Cambia, Situaciones
  <1>8. p \in Puntuaciones /\ NivelDe(p) \in Niveles
    <2>1. p \in Puntuaciones
      BY <1>3, <1>5, PuntuaEs
    <2>2. NivelDe(p) \in Niveles
      BY <2>1, NivelEs
    <2>3. QED BY <2>1, <2>2
  <1>9. PICK q : q = Cambia(c.puntuacion, p, fila.puntuacion)
    OBVIOUS
  <1>10. PICK l : l = Cambia(c.nivel, NivelDe(p), fila.nivel)
    OBVIOUS
  <1>11. q \in Puntuaciones /\ l \in Niveles /\ (fila = c => q = p /\ l = NivelDe(p))
    BY <1>5, <1>8, <1>9, <1>10 DEF Cambia
  <1>12. n = [de |-> e, puntuacion |-> q, nivel |-> l, version |-> c.version + 1]
    BY <1>1, <1>2, <1>3, <1>4, <1>9, <1>10 DEF Recalculada
  <1>13. n.de = e /\ n.puntuacion = q /\ n.nivel = l /\ n.version = c.version + 1
    BY <1>12
  <1>14. n \in ConfianzaRow
    BY <1>5, <1>6, <1>11, <1>12, LosUmbrales DEF ConfianzaRow
  <1>15. fila = c => n.puntuacion = Puntua(n.de) /\ n.nivel = NivelDe(n.puntuacion)
    BY <1>3, <1>7, <1>11, <1>13
  <1>16. QED BY <1>1, <1>2, <1>13, <1>14, <1>15

Versiones == 1..(calculos.hechos + 1)

\* Before there is a row one request creates it and nothing else happens; what a
\* request that no commit overtook loaded is the row.
SabeDeLaConfianza(h) ==
    LET p == peticion[h]
        d == p.dato
    IN  p # Nada =>
        /\ p.op = "crear" => d \in Motivos /\ confianza = Nada
        /\ p.op = "calculo" =>
                /\ d \in Tarea
                /\ d.cargada.version \in Versiones
                /\ confianza # Nada
                /\ ~p.vieja => "confianza" \in p.lee /\ d.cargada = confianza
        /\ p.op = "respuesta" =>
                /\ d \in ConfianzaRow
                /\ confianza # Nada
                /\ ~p.vieja => "confianza" \in p.lee /\ d = confianza

IInvConfianza ==
    /\ Ranuras(PeticionConfianza)
    /\ ConfianzaOK /\ ConfianzaEnSerie
    /\ \A h \in Hilos : SabeDeLaConfianza(h)
    /\ \A g, h \in Hilos : EnCurso(g, "crear") /\ EnCurso(h, "crear") => g = h
    /\ confianza = Nada => memo = Nada /\ calculos.hechos = 0

LEMMA OperacionesDeConfianza ==
    ASSUME IInvConfianza, NEW h \in Hilos, peticion[h] # Nada
    PROVE  peticion[h].op \in {"crear", "calculo", "respuesta"}
  <1>1. peticion[h] \in PeticionConfianza
    BY DEF IInvConfianza, Ranuras
  <1>2. QED BY <1>1 DEF PeticionConfianza, Peticion

\* The row stays as it is.
LEMMA ConfianzaQueSigue ==
    ASSUME NEW h, NEW W, SabeDeLaConfianza(h), SigueIgual(h, W),
           confianza' = confianza, calculos \in [hechos: Nat, masivo: BOOLEAN],
           calculos' \in [hechos: Nat, masivo: BOOLEAN], calculos'.hechos >= calculos.hechos
    PROVE  SabeDeLaConfianza(h)'
  <1>1. calculos.hechos \in Nat /\ calculos'.hechos \in Nat
    OBVIOUS
  <1>2. \A v : v \in Versiones => v \in Versiones'
    BY <1>1 DEF Versiones
  <1>3. Tarea' = Tarea /\ ConfianzaRow' = ConfianzaRow /\ Motivos' = Motivos
    BY DEF Tarea, ConfianzaRow, Situaciones, Umbral, Motivos, Puntuaciones
  <1>4. QED BY <1>2, <1>3 DEF SabeDeLaConfianza, SigueIgual

\* A row that was there changes.
LEMMA ConfianzaQueCambia ==
    ASSUME NEW h, SabeDeLaConfianza(h), SigueIgual(h, {"confianza"}),
           confianza # Nada, confianza' # Nada, calculos \in [hechos: Nat, masivo: BOOLEAN],
           calculos' \in [hechos: Nat, masivo: BOOLEAN], calculos'.hechos >= calculos.hechos
    PROVE  SabeDeLaConfianza(h)'
  <1>1. calculos.hechos \in Nat /\ calculos'.hechos \in Nat
    OBVIOUS
  <1>2. \A v : v \in Versiones => v \in Versiones'
    BY <1>1 DEF Versiones
  <1>3. Tarea' = Tarea /\ ConfianzaRow' = ConfianzaRow /\ Motivos' = Motivos
    BY DEF Tarea, ConfianzaRow, Situaciones, Umbral, Motivos, Puntuaciones
  <1>4. QED BY <1>2, <1>3 DEF SabeDeLaConfianza, SigueIgual

\* The row stays and a request arrives, or one that only answers ends.
LEMMA ConfianzaPedida ==
    ASSUME IInvConfianza, NEW h \in Hilos, NEW op \in {"crear", "calculo", "respuesta"},
           NEW lee \in SUBSET {"confianza"}, NEW d,
           op = "crear" => d \in Motivos /\ confianza = Nada /\ \A g \in Hilos : ~EnCurso(g, "crear"),
           op = "calculo" => d \in Tarea /\ d.cargada = confianza,
           op = "respuesta" => d = confianza,
           op # "crear" => confianza # Nada /\ lee = {"confianza"},
           Llega(h, op, lee, d), UNCHANGED confianzaVars
    PROVE  IInvConfianza'
  <1>0. /\ calculos \in [hechos: Nat, masivo: BOOLEAN]
        /\ confianza # Nada => confianza \in ConfianzaRow /\ confianza.version \in Versiones
    BY DEF IInvConfianza, ConfianzaOK, Versiones
  <1>1. PeticionNueva(op, lee, d) \in PeticionConfianza
    BY <1>0 DEF PeticionNueva, PeticionConfianza, Peticion, Tarea
  <1>2. /\ Ranuras(PeticionConfianza)' /\ obsoleta' = obsoleta
        /\ peticion[h] = Nada /\ peticion'[h] # Nada
        /\ peticion'[h].op = op /\ peticion'[h].lee = lee /\ peticion'[h].dato = d
        /\ \A g \in Hilos \ {h} : peticion'[g] = peticion[g]
    BY <1>1, AlLlegar, PeticionesDeConfianza DEF IInvConfianza
  <1>3. /\ hechos' = hechos /\ confianza' = confianza /\ reciente' = reciente
        /\ memo' = memo /\ calculos' = calculos
    BY DEF confianzaVars
  <1>4. calculos'.hechos >= calculos.hechos
    BY <1>0, <1>3
  <1>5. \A g \in Hilos \ {h} : SabeDeLaConfianza(g)'
    BY <1>0, <1>2, <1>3, <1>4, ConfianzaQueSigue, IgualSinAge DEF IInvConfianza
  <1>6. Tarea' = Tarea /\ ConfianzaRow' = ConfianzaRow /\ Motivos' = Motivos /\ Versiones' = Versiones
    BY <1>3 DEF Tarea, ConfianzaRow, Situaciones, Umbral, Motivos, Puntuaciones, Versiones
  <1>7. SabeDeLaConfianza(h)'
    BY <1>0, <1>2, <1>3, <1>6 DEF SabeDeLaConfianza
  <1>8. \A g, k \in Hilos : EnCurso(g, "crear")' /\ EnCurso(k, "crear")' => g = k
    BY <1>2 DEF IInvConfianza, EnCurso
  <1>9. ConfianzaOK'
    BY <1>3 DEF IInvConfianza, ConfianzaOK, ConfianzaRow, Umbral, Situaciones, Puntuaciones
  <1>10. ConfianzaEnSerie'
    <2>1. \A g \in Hilos : EnCurso(g, "respuesta") /\ Dato(g) = confianza =>
                EnCurso(g, "respuesta")' /\ Dato(g)' = confianza
      BY <1>2 DEF EnCurso, Dato
    <2>2. QED BY <1>2, <1>3, <2>1 DEF IInvConfianza, ConfianzaEnSerie, Puntua, NivelDe
  <1>11. QED BY <1>2, <1>3, <1>5, <1>7, <1>8, <1>9, <1>10 DEF IInvConfianza

LEMMA PasoPedirConfianza ==
    ASSUME IInvConfianza, NEW h \in Hilos, NEW para \in Motivos,
           CrearFila(h, para) \/ Calcular(h, para) \/ Consultar(h)
    PROVE  IInvConfianza'
  <1>1. /\ hechos \in Situaciones
        /\ confianza # Nada => confianza \in ConfianzaRow
    BY HechosPosibles DEF IInvConfianza, ConfianzaOK
  <1>2. CASE CrearFila(h, para)
    BY <1>2, ConfianzaPedida DEF CrearFila
  <1>3. CASE Calcular(h, para)
    <2>1. PICK d : d = [para |-> para, cargada |-> confianza, de |-> hechos]
      OBVIOUS
    <2>2. d \in Tarea /\ d.cargada = confianza /\ confianza # Nada
      BY <1>1, <1>3, <2>1 DEF Tarea, Calcular
    <2>3. Llega(h, "calculo", {"confianza"}, d) /\ UNCHANGED confianzaVars
      BY <1>3, <2>1 DEF Calcular
    <2>4. QED BY <2>2, <2>3, ConfianzaPedida
  <1>4. CASE Consultar(h)
    BY <1>4, ConfianzaPedida DEF Consultar
  <1>5. QED BY <1>2, <1>3, <1>4

LEMMA PasoCommitFila ==
    ASSUME IInvConfianza, NEW h \in Hilos, CommitFila(h)
    PROVE  IInvConfianza'
  <1>0. /\ calculos \in [hechos: Nat, masivo: BOOLEAN] /\ hechos \in Situaciones
        /\ hechos \in Hechos
    BY HechosPosibles DEF IInvConfianza, ConfianzaOK
  <1>1. PICK para : para = peticion[h].dato
    OBVIOUS
  <1>2. /\ peticion[h] # Nada /\ peticion[h].op = "crear"
        /\ para \in Motivos /\ confianza = Nada /\ memo = Nada /\ calculos.hechos = 0
    BY <1>1 DEF CommitFila, EnCurso, IInvConfianza, SabeDeLaConfianza
  <1>3. /\ confianza' = FilaNueva /\ reciente' = TRUE
        /\ hechos' = hechos /\ memo' = memo /\ calculos' = calculos
    BY DEF CommitFila
  <1>4. PICK d : d = [para |-> para, cargada |-> FilaNueva, de |-> hechos]
    OBVIOUS
  <1>5. d \in Tarea /\ d.cargada = FilaNueva
    BY <1>0, <1>2, <1>4, FilaNuevaEs DEF Tarea
  <1>6. PICK op, x : /\ \/ op = "respuesta" /\ x = FilaNueva
                        \/ op = "calculo" /\ x = d
                     /\ Sigue(h, {}, op, {"confianza"}, x)
    BY <1>1, <1>4 DEF CommitFila, Dato
  <1>7. PeticionNueva(op, {"confianza"}, x) \in PeticionConfianza
    <2>1. x \in ConfianzaRow \cup Tarea /\ op \in {"crear", "calculo", "respuesta"}
      BY <1>5, <1>6, FilaNuevaEs
    <2>2. QED BY <2>1 DEF PeticionNueva, PeticionConfianza, Peticion, Tarea
  <1>8. /\ Ranuras(PeticionConfianza)' /\ (~obsoleta' => ~obsoleta)
        /\ peticion'[h] # Nada
        /\ peticion'[h].op = op /\ peticion'[h].lee = {"confianza"} /\ peticion'[h].dato = x
        /\ \A g \in Hilos \ {h} : SigueIgual(g, {})
    BY <1>2, <1>6, <1>7, AlSeguir, PeticionesDeConfianza DEF IInvConfianza
  <1>9. ConfianzaRow' = ConfianzaRow /\ Tarea' = Tarea
    BY DEF Tarea, ConfianzaRow, Situaciones, Umbral, Motivos, Puntuaciones
  <1>10. FilaNueva # Nada /\ confianza' # Nada
    BY <1>3, FilaNuevaEs, NadaNoEsConfianza
  <1>11. \A g \in Hilos \ {h} : peticion'[g] = Nada
    <2> SUFFICES ASSUME NEW g \in Hilos \ {h}, peticion[g] # Nada
                 PROVE  FALSE
      BY <1>8 DEF SigueIgual
    <2>1. peticion[g].op = "crear"
      BY <1>2, OperacionesDeConfianza DEF IInvConfianza, SabeDeLaConfianza
    <2>2. QED BY <1>2, <2>1 DEF IInvConfianza, EnCurso
  <1>12. 1 \in Versiones'
    BY <1>0, <1>3 DEF Versiones
  <1>13. \A g \in Hilos : SabeDeLaConfianza(g)'
    <2>1. SabeDeLaConfianza(h)'
      BY <1>3, <1>5, <1>6, <1>8, <1>9, <1>10, <1>12, FilaNuevaEs DEF SabeDeLaConfianza
    <2>2. QED BY <1>11, <2>1 DEF SabeDeLaConfianza
  <1>14. \A g, k \in Hilos : EnCurso(g, "crear")' /\ EnCurso(k, "crear")' => g = k
    BY <1>11 DEF EnCurso
  <1>15. ConfianzaOK'
    <2>1. confianza' \in ConfianzaRow /\ confianza'.version \in Versiones'
      BY <1>3, <1>12, FilaNuevaEs
    <2>2. memo' \in ConfianzaRow \cup {Nada}
      BY <1>2, <1>3
    <2>3. QED BY <1>0, <1>3, <1>9, <2>1, <2>2 DEF ConfianzaOK, Versiones
  <1>16. ConfianzaEnSerie'
    BY <1>2, <1>3, FilaNuevaEs DEF ConfianzaEnSerie, Puntua, NivelDe
  <1>17. QED BY <1>8, <1>10, <1>13, <1>14, <1>15, <1>16 DEF IInvConfianza

\* Whatever asked for a computation, its commit writes the row.
LEMMA ConfianzaEscrita ==
    ASSUME IInvConfianza, NEW h \in Hilos, CommitCalculo(h),
           Ranuras(PeticionConfianza)', \A g \in Hilos \ {h} : SigueIgual(g, {"confianza"}),
           ~obsoleta' => ~obsoleta /\ ~peticion[h].vieja,
           \/ peticion'[h] = Nada /\ peticion[h].dato.para # "consulta"
           \/ /\ peticion'[h] # Nada /\ peticion'[h].op = "respuesta"
              /\ peticion'[h].lee = {"confianza"} /\ peticion'[h].dato = confianza'
    PROVE  IInvConfianza'
  <1>0. /\ calculos \in [hechos: Nat, masivo: BOOLEAN] /\ hechos \in Hechos
        /\ memo \in ConfianzaRow \cup {Nada}
    BY DEF IInvConfianza, ConfianzaOK
  <1>1. PICK d : d = peticion[h].dato
    OBVIOUS
  <1>2. /\ peticion[h] # Nada /\ peticion[h].op = "calculo"
        /\ d \in Tarea /\ d.cargada.version \in Versiones /\ confianza # Nada
        /\ ~peticion[h].vieja => d.cargada = confianza
    BY <1>1 DEF CommitCalculo, EnCurso, IInvConfianza, SabeDeLaConfianza
  <1>3. confianza \in ConfianzaRow
    BY <1>2 DEF IInvConfianza, ConfianzaOK
  <1>4. PICK n : n = Recalculada(d, confianza)
    OBVIOUS
  <1>5. /\ n \in ConfianzaRow /\ n.version = d.cargada.version + 1 /\ n # Nada
        /\ confianza = d.cargada => n.puntuacion = Puntua(n.de) /\ n.nivel = NivelDe(n.puntuacion)
    BY <1>2, <1>3, <1>4, RecalculadaEs, NadaNoEsConfianza
  <1>6. PICK m : m = IF d.para = "peticion" THEN FALSE ELSE calculos.masivo \/ d.para = "masivo"
    OBVIOUS
  <1>7. m \in BOOLEAN
    BY <1>0, <1>6
  <1>8. /\ confianza' = n /\ reciente' = TRUE /\ hechos' = hechos
        /\ memo' = (IF d.para = "peticion" THEN Nada ELSE memo)
        /\ calculos' = [hechos |-> calculos.hechos + 1, masivo |-> m]
    BY <1>1, <1>4, <1>6 DEF CommitCalculo, Dato
  <1>9. /\ calculos' \in [hechos: Nat, masivo: BOOLEAN] /\ calculos'.hechos = calculos.hechos + 1
        /\ calculos'.masivo = m /\ calculos'.hechos >= calculos.hechos
        /\ calculos.hechos \in Nat
    BY <1>0, <1>7, <1>8
  <1>10. n.version \in Versiones'
    BY <1>2, <1>5, <1>9 DEF Versiones
  <1>11. ConfianzaRow' = ConfianzaRow /\ Tarea' = Tarea
    BY DEF Tarea, ConfianzaRow, Situaciones, Umbral, Motivos, Puntuaciones
  <1>12. \A g \in Hilos \ {h} : SabeDeLaConfianza(g)'
    BY <1>0, <1>2, <1>5, <1>8, <1>9, ConfianzaQueCambia DEF IInvConfianza
  <1>13. SabeDeLaConfianza(h)'
    BY <1>5, <1>8, <1>11 DEF SabeDeLaConfianza
  <1>14. \A g, k \in Hilos : EnCurso(g, "crear")' /\ EnCurso(k, "crear")' => g = k
    <2>1. \A g \in Hilos : ~EnCurso(g, "crear")'
      <3>1. ASSUME NEW g \in Hilos \ {h}, EnCurso(g, "crear")'
            PROVE  FALSE
        <4>1. peticion[g] # Nada /\ peticion[g].op = "crear"
          BY <3>1 DEF EnCurso, SigueIgual
        <4>2. QED BY <1>2, <4>1 DEF IInvConfianza, SabeDeLaConfianza
      <3>2. QED BY <3>1 DEF EnCurso
    <2>2. QED BY <2>1
  <1>15. ConfianzaOK'
    <2>1. memo' \in ConfianzaRow \cup {Nada}
      BY <1>0, <1>8
    <2>2. QED BY <1>0, <1>5, <1>8, <1>9, <1>10, <1>11, <2>1 DEF ConfianzaOK, Versiones
  <1>16. ASSUME ~obsoleta'
         PROVE  /\ n.puntuacion = Puntua(n.de) /\ n.nivel = NivelDe(n.puntuacion)
                /\ n.version = calculos'.hechos + 1
    <2>1. ~obsoleta /\ d.cargada = confianza
      BY <1>2, <1>16
    <2>2. d.cargada.version = calculos.hechos + 1
      BY <1>2, <2>1 DEF IInvConfianza, ConfianzaEnSerie
    <2>3. QED BY <1>5, <1>9, <2>1, <2>2
  <1>17. \/ memo' = Nada \/ calculos'.masivo
         \/ (EnCurso(h, "respuesta")' /\ Dato(h)' = confianza')
    <2>1. d.para \in Motivos
      BY <1>2 DEF Tarea
    <2>2. CASE d.para = "consulta"
      BY <1>1, <2>2 DEF EnCurso, Dato
    <2>3. CASE d.para = "peticion"
      BY <1>8, <2>3
    <2>4. CASE d.para = "masivo"
      BY <1>6, <1>9, <2>4
    <2>5. QED BY <2>1, <2>2, <2>3, <2>4 DEF Motivos
  <1>18. ConfianzaEnSerie'
    BY <1>8, <1>16, <1>17 DEF ConfianzaEnSerie, Puntua, NivelDe
  <1>19. QED BY <1>5, <1>8, <1>12, <1>13, <1>14, <1>15, <1>18 DEF IInvConfianza

LEMMA PasoCommitCalculo ==
    ASSUME IInvConfianza, NEW h \in Hilos, CommitCalculo(h)
    PROVE  IInvConfianza'
  <1>1. PICK d : d = peticion[h].dato
    OBVIOUS
  <1>2. /\ peticion[h] # Nada /\ d \in Tarea /\ confianza # Nada
        /\ Ranuras(PeticionConfianza) /\ DePeticiones(PeticionConfianza)
    BY <1>1, PeticionesDeConfianza DEF CommitCalculo, EnCurso, IInvConfianza, SabeDeLaConfianza
  <1>3. PICK n : n = Recalculada(d, confianza)
    OBVIOUS
  <1>4. n \in ConfianzaRow /\ confianza' = n
    <2>1. confianza \in ConfianzaRow
      BY <1>2 DEF IInvConfianza, ConfianzaOK
    <2>2. QED BY <1>1, <1>2, <1>3, <2>1, RecalculadaEs DEF CommitCalculo, Dato
  <1>5. CASE d.para = "consulta"
    <2>1. Sigue(h, {"confianza"}, "respuesta", {"confianza"}, n)
      BY <1>1, <1>4, <1>5 DEF CommitCalculo, Dato
    <2>2. PeticionNueva("respuesta", {"confianza"}, n) \in PeticionConfianza
      BY <1>4 DEF PeticionNueva, PeticionConfianza, Peticion
    <2>3. /\ Ranuras(PeticionConfianza)' /\ (~obsoleta' => ~obsoleta /\ ~peticion[h].vieja)
          /\ peticion'[h] # Nada /\ peticion'[h].op = "respuesta"
          /\ peticion'[h].lee = {"confianza"} /\ peticion'[h].dato = n
          /\ \A g \in Hilos \ {h} : SigueIgual(g, {"confianza"})
      BY <1>2, <2>1, <2>2, AlSeguir
    <2>4. QED BY <1>4, <2>3, ConfianzaEscrita
  <1>6. CASE d.para # "consulta"
    <2>1. Termina(h, {"confianza"})
      BY <1>1, <1>6 DEF CommitCalculo, Dato
    <2>2. /\ Ranuras(PeticionConfianza)' /\ (~obsoleta' => ~obsoleta /\ ~peticion[h].vieja)
          /\ peticion'[h] = Nada
          /\ \A g \in Hilos \ {h} : SigueIgual(g, {"confianza"})
      BY <1>2, <2>1, AlTerminar
    <2>3. QED BY <1>1, <1>6, <2>2, ConfianzaEscrita
  <1>7. QED BY <1>5, <1>6

LEMMA PasoMemorizar ==
    ASSUME IInvConfianza, NEW h \in Hilos, Memorizar(h)
    PROVE  IInvConfianza'
  <1>0. /\ calculos \in [hechos: Nat, masivo: BOOLEAN] /\ hechos \in Hechos
    BY DEF IInvConfianza, ConfianzaOK
  <1>1. PICK d : d = peticion[h].dato
    OBVIOUS
  <1>2. /\ peticion[h] # Nada /\ peticion[h].op = "respuesta"
        /\ d \in ConfianzaRow /\ confianza # Nada
        /\ ~peticion[h].vieja => d = confianza
        /\ Ranuras(PeticionConfianza) /\ DePeticiones(PeticionConfianza)
    BY <1>1, PeticionesDeConfianza DEF Memorizar, EnCurso, IInvConfianza, SabeDeLaConfianza
  <1>3. /\ memo' = d /\ calculos' = [calculos EXCEPT !.masivo = FALSE] /\ Termina(h, {})
        /\ hechos' = hechos /\ confianza' = confianza /\ reciente' = reciente
    BY <1>1 DEF Memorizar, Dato
  <1>4. /\ Ranuras(PeticionConfianza)' /\ (~obsoleta' => ~obsoleta /\ ~peticion[h].vieja)
        /\ peticion'[h] = Nada
        /\ \A g \in Hilos \ {h} : SigueIgual(g, {})
    BY <1>2, <1>3, AlTerminar
  <1>5. /\ calculos' \in [hechos: Nat, masivo: BOOLEAN] /\ calculos'.hechos = calculos.hechos
        /\ calculos'.hechos >= calculos.hechos
    <2>1. calculos' = [calculos EXCEPT !.masivo = FALSE]
      BY <1>3
    <2>2. calculos' \in [hechos: Nat, masivo: BOOLEAN] /\ calculos'.hechos = calculos.hechos
      BY <1>0, <2>1
    <2>3. QED BY <1>0, <2>2
  <1>6. \A g \in Hilos : SabeDeLaConfianza(g)'
    <2>1. \A g \in Hilos \ {h} : SabeDeLaConfianza(g)'
      BY <1>0, <1>3, <1>4, <1>5, ConfianzaQueSigue DEF IInvConfianza
    <2>2. QED BY <1>4, <2>1 DEF SabeDeLaConfianza
  <1>7. \A g, k \in Hilos : EnCurso(g, "crear")' /\ EnCurso(k, "crear")' => g = k
    <2>1. \A g \in Hilos : EnCurso(g, "crear")' => EnCurso(g, "crear")
      BY <1>4 DEF EnCurso, SigueIgual
    <2>2. QED BY <2>1 DEF IInvConfianza
  <1>8. ConfianzaOK'
    <2>1. ConfianzaRow' = ConfianzaRow
      BY DEF ConfianzaRow, Situaciones, Umbral, Puntuaciones
    <2>2. confianza' \in ConfianzaRow /\ confianza'.version \in 1..(calculos'.hechos + 1)
      BY <1>2, <1>3, <1>5 DEF IInvConfianza, ConfianzaOK
    <2>3. QED BY <1>0, <1>2, <1>3, <1>5, <2>1, <2>2 DEF IInvConfianza, ConfianzaOK
  <1>9. ConfianzaEnSerie'
    BY <1>1, <1>2, <1>3, <1>4, <1>5 DEF IInvConfianza, ConfianzaEnSerie, Puntua, NivelDe
  <1>10. QED BY <1>2, <1>3, <1>4, <1>6, <1>7, <1>8, <1>9 DEF IInvConfianza

\* The facts change, or an hour passes: no request moves.
LEMMA ConfianzaSinPeticion ==
    ASSUME IInvConfianza, UNCHANGED <<confianza, calculos, servidor>>,
           hechos' \in Hechos, reciente' \in BOOLEAN, memo' \in {memo, Nada}
    PROVE  IInvConfianza'
  <1>1. /\ confianza' = confianza /\ calculos' = calculos
        /\ peticion' = peticion /\ obsoleta' = obsoleta
    BY DEF servidor
  <1>2. calculos \in [hechos: Nat, masivo: BOOLEAN] /\ memo \in ConfianzaRow \cup {Nada}
    BY DEF IInvConfianza, ConfianzaOK
  <1>3. \A g \in Hilos : SabeDeLaConfianza(g)'
    <2>1. calculos'.hechos >= calculos.hechos
      BY <1>1, <1>2
    <2>2. QED BY <1>1, <1>2, <2>1, ConfianzaQueSigue, IgualSinAge DEF IInvConfianza
  <1>4. \A g, k \in Hilos : EnCurso(g, "crear")' /\ EnCurso(k, "crear")' => g = k
    BY <1>1 DEF EnCurso, IInvConfianza
  <1>5. ConfianzaOK'
    <2>1. ConfianzaRow' = ConfianzaRow
      BY DEF ConfianzaRow, Situaciones, Umbral, Puntuaciones
    <2>2. QED BY <1>1, <1>2, <2>1 DEF IInvConfianza, ConfianzaOK
  <1>6. ConfianzaEnSerie'
    BY <1>1 DEF IInvConfianza, ConfianzaEnSerie, EnCurso, Dato, Puntua, NivelDe
  <1>7. QED BY <1>1, <1>3, <1>4, <1>5, <1>6 DEF IInvConfianza, Ranuras

LEMMA PasoConfianza ==
    ASSUME IInvConfianza, NextConfianza
    PROVE  IInvConfianza'
  <1>0. hechos \in Hechos /\ reciente \in BOOLEAN
    BY DEF IInvConfianza, ConfianzaOK
  <1>1. CASE PasaUnaHora
    BY <1>0, <1>1, ConfianzaSinPeticion DEF PasaUnaHora
  <1>2. ASSUME NEW x \in Hechos, CambianHechos(x)
        PROVE  IInvConfianza'
    BY <1>0, <1>2, ConfianzaSinPeticion DEF CambianHechos
  <1>3. ASSUME NEW h \in Hilos, CommitFila(h) \/ CommitCalculo(h) \/ Memorizar(h)
        PROVE  IInvConfianza'
    BY <1>3, PasoCommitFila, PasoCommitCalculo, PasoMemorizar
  <1>4. ASSUME NEW h \in Hilos, Consultar(h)
        PROVE  IInvConfianza'
    <2>1. "consulta" \in Motivos
      BY DEF Motivos
    <2>2. QED BY <1>4, <2>1, PasoPedirConfianza
  <1>5. ASSUME NEW h \in Hilos, NEW para \in Motivos, CrearFila(h, para) \/ Calcular(h, para)
        PROVE  IInvConfianza'
    BY <1>5, PasoPedirConfianza
  <1>6. QED BY <1>1, <1>2, <1>3, <1>4, <1>5 DEF NextConfianza

LEMMA ConfianzaQuieta ==
    ASSUME IInvConfianza, UNCHANGED <<confianzaVars, servidor>>
    PROVE  IInvConfianza'
  <1>1. hechos \in Hechos /\ reciente \in BOOLEAN
    BY DEF IInvConfianza, ConfianzaOK
  <1>2. UNCHANGED <<confianza, calculos, servidor>> /\ hechos' = hechos /\ reciente' = reciente
        /\ memo' = memo
    BY DEF confianzaVars
  <1>3. QED BY <1>1, <1>2, ConfianzaSinPeticion

LEMMA ConfianzaAlInicio ==
    ASSUME InitConfianza
    PROVE  /\ ConfianzaOK /\ ConfianzaEnSerie
           /\ Ranuras(PeticionConfianza) /\ (\A h \in Hilos : peticion[h] = Nada) => IInvConfianza
  <1>1. ConfianzaOK
    BY HechosPosibles DEF InitConfianza, ConfianzaOK
  <1>2. ConfianzaEnSerie
    BY DEF InitConfianza, ConfianzaEnSerie
  <1>3. QED BY <1>1, <1>2 DEF InitConfianza, IInvConfianza, SabeDeLaConfianza, EnCurso

-----------------------------------------------------------------------------
(* The directory: addresses and hours *)

LEMMA PeticionesDelDirectorio == DePeticiones(PeticionDirectorio)
  BY NadaNoEsDirectorio DEF DePeticiones, PeticionDirectorio

Reservado == [slug: Slug, segundo: Nat]
Enviado == [cargado: [Dias -> Horario], nuevo: UNION {[ds -> Propuestas] : ds \in SUBSET Dias}]

\* What a day's row becomes is a row; if the one loaded was the row, the one sent.
LEMMA FilaEscrita ==
    ASSUME NEW antes \in Horario, NEW nueva \in Horario, NEW fila \in Horario
    PROVE  /\ SoloLoCambiado(antes, nueva, fila) \in Horario
           /\ antes = fila => SoloLoCambiado(antes, nueva, fila) = nueva
  <1>1. DOMAIN nueva = {"abierto", "apertura", "cierre"}
    BY DEF Horario
  <1>2. PICK r : r = SoloLoCambiado(antes, nueva, fila)
    OBVIOUS
  <1>3. r = [c \in {"abierto", "apertura", "cierre"} |->
                IF nueva[c] = antes[c] THEN fila[c] ELSE nueva[c]]
    BY <1>1, <1>2 DEF SoloLoCambiado
  <1>4. r = [abierto |-> r.abierto, apertura |-> r.apertura, cierre |-> r.cierre]
    BY <1>3
  <1>5. /\ nueva.abierto \in BOOLEAN /\ fila.abierto \in BOOLEAN
        /\ nueva.apertura \in Cuartos \cup {Nada} /\ fila.apertura \in Cuartos \cup {Nada}
        /\ nueva.cierre \in Cuartos \cup {Nada} /\ fila.cierre \in Cuartos \cup {Nada}
    BY DEF Horario
  <1>6. /\ r.abierto \in {nueva.abierto, fila.abierto}
        /\ r.apertura \in {nueva.apertura, fila.apertura}
        /\ r.cierre \in {nueva.cierre, fila.cierre}
    BY <1>3
  <1>7. r.abierto \in BOOLEAN /\ r.apertura \in Cuartos \cup {Nada} /\ r.cierre \in Cuartos \cup {Nada}
    BY <1>5, <1>6
  <1>8. r \in Horario
    BY <1>4, <1>7 DEF Horario
  <1>9. antes = fila => r = nueva
    <2>1. antes = fila => \A c \in {"abierto", "apertura", "cierre"} : r[c] = nueva[c]
      BY <1>3
    <2>2. nueva = [abierto |-> nueva.abierto, apertura |-> nueva.apertura, cierre |-> nueva.cierre]
      BY DEF Horario
    <2>3. QED BY <1>4, <2>1, <2>2
  <1>10. QED BY <1>2, <1>8, <1>9

\* Not told that it closes soon: open half an hour later.
LEMMA AvisaATiempo ==
    ASSUME NEW fila \in Horario, NEW t \in Cuartos,
           esta_abierto(fila, t), ~cierra_pronto(fila, t)
    PROVE  esta_abierto(fila, t + 2)
  <1>1. /\ fila.apertura \in Nat /\ fila.cierre \in Nat /\ t \in Nat
    BY CuartosNaturales DEF esta_abierto, Horario
  <1>2. PICK a \in Nat : a = fila.apertura
    BY <1>1
  <1>3. PICK c \in Nat : c = fila.cierre
    BY <1>1
  <1>4. a <= t /\ t <= c /\ ~(c - t <= 2)
    BY <1>2, <1>3 DEF esta_abierto, cierra_pronto
  <1>5. a <= t + 2 /\ t + 2 <= c
    BY <1>1, <1>4
  <1>6. QED BY <1>2, <1>3, <1>5 DEF esta_abierto

\* A request that nobody overtook: the slug it took is free, unless it has the
\* second for suffix; the rows it loaded of the days it sends are those there are.
SabeDelDirectorio(h) ==
    LET p == peticion[h]
        d == p.dato
    IN  p # Nada =>
        /\ p.op = "negocio" =>
                /\ d \in Reservado /\ p.lee = {<<"slug", d.slug.base>>}
                /\ ~p.vieja /\ d.slug.sufijo # d.segundo => d.slug \notin direcciones
        /\ p.op = "horario" =>
                /\ d \in Enviado /\ \A x \in DOMAIN d.nuevo : Fila(x) \in p.lee
                /\ ~p.vieja => \A x \in DOMAIN d.nuevo : d.cargado[x] = horario[x]

IInvDirectorio ==
    /\ Ranuras(PeticionDirectorio)
    /\ DirectorioOK /\ HorarioEnSerie
    /\ \A h \in Hilos : SabeDelDirectorio(h)
    /\ segundo \in Nat
    /\ enviado \in [Dias -> Horario]

LEMMA DirectorioQueSigue ==
    ASSUME NEW h, NEW W, SabeDelDirectorio(h), SigueIgual(h, W),
           \A s : s \in direcciones' => s \in direcciones \/ <<"slug", s.base>> \in W,
           \A x \in Dias : horario'[x] = horario[x] \/ Fila(x) \in W
    PROVE  SabeDelDirectorio(h)'
  <1>1. Reservado' = Reservado /\ Enviado' = Enviado /\ (\A x : Fila(x)' = Fila(x))
    BY DEF Reservado, Slug, Enviado, Horario, Fila
  <1>2. ASSUME peticion[h] # Nada, peticion[h].op = "negocio"
        PROVE  SabeDelDirectorio(h)'
    <2>1. PICK d : d = peticion[h].dato
      OBVIOUS
    <2>2. /\ peticion'[h] # Nada /\ peticion'[h].op = "negocio" /\ peticion'[h].dato = d
          /\ peticion'[h].lee = peticion[h].lee
          /\ ~peticion'[h].vieja => ~peticion[h].vieja /\ peticion[h].lee \cap W = {}
      BY <1>2, <2>1 DEF SigueIgual
    <2>3. d \in Reservado /\ peticion[h].lee = {<<"slug", d.slug.base>>}
          /\ (~peticion[h].vieja /\ d.slug.sufijo # d.segundo => d.slug \notin direcciones)
      BY <1>2, <2>1 DEF SabeDelDirectorio
    <2>4. ~peticion'[h].vieja /\ d.slug.sufijo # d.segundo => d.slug \notin direcciones'
      BY <2>2, <2>3
    <2>5. QED BY <1>1, <2>2, <2>3, <2>4 DEF SabeDelDirectorio
  <1>3. ASSUME peticion[h] # Nada, peticion[h].op = "horario"
        PROVE  SabeDelDirectorio(h)'
    <2>1. PICK d : d = peticion[h].dato
      OBVIOUS
    <2>2. /\ peticion'[h] # Nada /\ peticion'[h].op = "horario" /\ peticion'[h].dato = d
          /\ peticion'[h].lee = peticion[h].lee
          /\ ~peticion'[h].vieja => ~peticion[h].vieja /\ peticion[h].lee \cap W = {}
      BY <1>3, <2>1 DEF SigueIgual
    <2>3. d \in Enviado /\ (\A x \in DOMAIN d.nuevo : Fila(x) \in peticion[h].lee)
          /\ (~peticion[h].vieja => \A x \in DOMAIN d.nuevo : d.cargado[x] = horario[x])
      BY <1>3, <2>1 DEF SabeDelDirectorio
    <2>4. DOMAIN d.nuevo \subseteq Dias
      BY <2>3 DEF Enviado
    <2>5. ~peticion'[h].vieja => \A x \in DOMAIN d.nuevo : d.cargado[x] = horario'[x]
      BY <2>2, <2>3, <2>4
    <2>6. QED BY <1>1, <2>2, <2>3, <2>5 DEF SabeDelDirectorio
  <1>4. QED BY <1>2, <1>3 DEF SabeDelDirectorio, SigueIgual

\* The rows of the hours and the refusals stay as they were.
LEMMA DirectorioMismo ==
    ASSUME DirectorioOK, horario' = horario, ~rechazo'
    PROVE  DirectorioOK'
  <1>1. Horario' = Horario
    BY DEF Horario
  <1>2. \A d \in Dias, t \in Cuartos :
            esta_abierto(horario[d], t)' /\ ~cierra_pronto(horario[d], t)' =>
                esta_abierto(horario[d], t + 2)'
    BY DEF DirectorioOK, esta_abierto, cierra_pronto
  <1>3. QED BY <1>1, <1>2 DEF DirectorioOK

LEMMA PasoPedirDirectorio ==
    ASSUME IInvDirectorio, NEW h \in Hilos,
           \/ \E n \in Titulos : CrearNegocio(h, n)
           \/ \E ds \in SUBSET Dias \ {{}} : \E nuevo \in [ds -> Propuestas] : CambiarHorario(h, nuevo)
    PROVE  IInvDirectorio'
  <1>1. Reservado' = Reservado /\ Enviado' = Enviado /\ (\A x : Fila(x)' = Fila(x)) /\ Horario' = Horario
    BY DEF Reservado, Slug, Enviado, Horario, Fila
  <1>2. PICK op, lee, d :
            /\ Llega(h, op, lee, d)
            /\ \/ /\ op = "negocio" /\ d \in Reservado /\ lee = {<<"slug", d.slug.base>>}
                  /\ d.slug.sufijo # d.segundo => d.slug \notin direcciones
               \/ /\ op = "horario" /\ d \in Enviado /\ lee = {Fila(x) : x \in DOMAIN d.nuevo}
                  /\ d.cargado = horario
            /\ direcciones' = direcciones /\ segundo' = segundo /\ rechazo' = rechazo
            /\ horario' = horario /\ enviado' = enviado
    <2>1. ASSUME NEW n \in Titulos, CrearNegocio(h, n)
          PROVE  \E lee, d :
                    /\ Llega(h, "negocio", lee, d)
                    /\ d \in Reservado /\ lee = {<<"slug", d.slug.base>>}
                    /\ d.slug.sufijo # d.segundo => d.slug \notin direcciones
                    /\ UNCHANGED directorioVars
      <3>1. PICK s : s = generar_slug(n)
        OBVIOUS
      <3>2. PICK d : d = [slug |-> s, segundo |-> segundo]
        OBVIOUS
      <3>3. s \in Slug /\ s.base = n
            /\ (s.sufijo # segundo => s.sufijo = 0 /\ \A x \in direcciones : ~(x.base = n /\ x.sufijo = 0))
        BY <3>1 DEF generar_slug, Slug, IInvDirectorio
      <3>4. d \in Reservado /\ d.slug = s /\ d.segundo = segundo
        BY <3>2, <3>3 DEF Reservado, IInvDirectorio
      <3>5. Llega(h, "negocio", {<<"slug", n>>}, d) /\ UNCHANGED directorioVars
        BY <2>1, <3>1, <3>2 DEF CrearNegocio
      <3>6. QED BY <3>3, <3>4, <3>5
    <2>2. ASSUME NEW ds \in SUBSET Dias, NEW nuevo \in [ds -> Propuestas], CambiarHorario(h, nuevo)
          PROVE  \E lee, d :
                    /\ Llega(h, "horario", lee, d)
                    /\ d \in Enviado /\ lee = {Fila(x) : x \in DOMAIN d.nuevo}
                    /\ d.cargado = horario
                    /\ UNCHANGED <<direcciones, segundo, rechazo, horario, enviado>>
      <3>1. PICK d : d = [cargado |-> horario, nuevo |-> nuevo]
        OBVIOUS
      <3>2. horario \in [Dias -> Horario]
        BY DEF IInvDirectorio, DirectorioOK
      <3>3. d \in Enviado /\ d.cargado = horario /\ d.nuevo = nuevo
        BY <3>1, <3>2 DEF Enviado
      <3>4. Llega(h, "horario", {Fila(x) : x \in DOMAIN nuevo}, d)
            /\ UNCHANGED <<direcciones, segundo, rechazo, horario, enviado>>
        BY <2>2, <3>1 DEF CambiarHorario
      <3>5. QED BY <3>3, <3>4
    <2>3. CASE \E n \in Titulos : CrearNegocio(h, n)
      BY <2>1, <2>3 DEF directorioVars
    <2>4. CASE \E ds \in SUBSET Dias \ {{}} : \E nuevo \in [ds -> Propuestas] : CambiarHorario(h, nuevo)
      BY <2>2, <2>4
    <2>5. QED BY <2>3, <2>4
  <1>3. PeticionNueva(op, lee, d) \in PeticionDirectorio
    <2>1. op = "negocio" => lee \in SUBSET {<<"slug", n>> : n \in Titulos}
      BY <1>2 DEF Reservado, Slug
    <2>2. op = "horario" => lee \in SUBSET {Fila(x) : x \in Dias}
      BY <1>2 DEF Enviado
    <2>3. d \in Reservado \cup Enviado /\ op \in {"negocio", "horario"}
      BY <1>2
    <2>4. lee \in SUBSET ({<<"slug", n>> : n \in Titulos} \cup {Fila(x) : x \in Dias})
      BY <2>1, <2>2, <2>3
    <2>5. QED BY <2>3, <2>4 DEF PeticionNueva, PeticionDirectorio, Peticion, Reservado, Enviado
  <1>4. /\ Ranuras(PeticionDirectorio)' /\ obsoleta' = obsoleta
        /\ peticion'[h] # Nada
        /\ peticion'[h].op = op /\ peticion'[h].lee = lee /\ peticion'[h].dato = d
        /\ \A g \in Hilos \ {h} : peticion'[g] = peticion[g]
    BY <1>2, <1>3, AlLlegar, PeticionesDelDirectorio DEF IInvDirectorio
  <1>5. \A g \in Hilos \ {h} : SabeDelDirectorio(g)'
    BY <1>2, <1>4, DirectorioQueSigue, IgualSinAge DEF IInvDirectorio
  <1>6. SabeDelDirectorio(h)'
    BY <1>1, <1>2, <1>4 DEF SabeDelDirectorio
  <1>7. DirectorioOK' /\ HorarioEnSerie'
    BY <1>2, <1>4, DirectorioMismo DEF IInvDirectorio, DirectorioOK, HorarioEnSerie
  <1>8. QED BY <1>1, <1>2, <1>4, <1>5, <1>6, <1>7 DEF IInvDirectorio

LEMMA PasoCrear ==
    ASSUME IInvDirectorio, NEW h \in Hilos, CommitNegocio(h) \/ SlugRepetido(h)
    PROVE  IInvDirectorio'
  <1>1. PICK d : d = peticion[h].dato
    OBVIOUS
  <1>2. /\ peticion[h] # Nada /\ peticion[h].op = "negocio"
        /\ segundo' = segundo /\ horario' = horario /\ enviado' = enviado
    BY DEF CommitNegocio, SlugRepetido, EnCurso
  <1>3. ~peticion[h].vieja /\ d.slug.sufijo # d.segundo => d.slug \notin direcciones
    BY <1>1, <1>2 DEF IInvDirectorio, SabeDelDirectorio
  <1>4. ~rechazo
    BY DEF IInvDirectorio, DirectorioOK
  <1>5. PICK W : /\ W \in {{}, {<<"slug", d.slug.base>>}}
                 /\ \A s : s \in direcciones' => s \in direcciones \/ <<"slug", s.base>> \in W
                 /\ ~rechazo'
                 /\ Ranuras(PeticionDirectorio)' /\ (~obsoleta' => ~obsoleta)
                 /\ peticion'[h] = Nada
                 /\ \A g \in Hilos \ {h} : SigueIgual(g, W)
    <2>1. CASE CommitNegocio(h)
      <3>1. /\ direcciones' = direcciones \cup {d.slug} /\ rechazo' = rechazo
            /\ Termina(h, {<<"slug", d.slug.base>>})
        BY <1>1, <2>1 DEF CommitNegocio, Dato
      <3>2. /\ Ranuras(PeticionDirectorio)' /\ (~obsoleta' => ~obsoleta)
            /\ peticion'[h] = Nada
            /\ \A g \in Hilos \ {h} : SigueIgual(g, {<<"slug", d.slug.base>>})
        BY <1>2, <3>1, AlTerminar, PeticionesDelDirectorio DEF IInvDirectorio
      <3>3. \A s : s \in direcciones' => s \in direcciones \/ <<"slug", s.base>> \in {<<"slug", d.slug.base>>}
        BY <3>1
      <3>4. QED BY <1>4, <3>1, <3>2, <3>3
    <2>2. CASE SlugRepetido(h)
      <3>1. /\ direcciones' = direcciones /\ d.slug \in direcciones /\ Falla(h)
            /\ rechazo' = (rechazo \/ (~peticion[h].vieja /\ d.slug.sufijo # d.segundo))
        BY <1>1, <2>2 DEF SlugRepetido, Dato
      <3>2. ~rechazo'
        BY <1>3, <1>4, <3>1
      <3>3. /\ Ranuras(PeticionDirectorio)' /\ obsoleta' = obsoleta /\ peticion'[h] = Nada
            /\ \A g \in Hilos \ {h} : peticion'[g] = peticion[g]
        BY <3>1, AlFallar DEF IInvDirectorio
      <3>4. \A g \in Hilos \ {h} : SigueIgual(g, {})
        BY <3>3, IgualSinAge
      <3>5. QED BY <3>1, <3>2, <3>3, <3>4
    <2>3. QED BY <2>1, <2>2
  <1>6. \A g \in Hilos \ {h} : SabeDelDirectorio(g)'
    BY <1>2, <1>5, DirectorioQueSigue DEF IInvDirectorio
  <1>7. SabeDelDirectorio(h)'
    BY <1>5 DEF SabeDelDirectorio
  <1>8. DirectorioOK' /\ HorarioEnSerie'
    BY <1>2, <1>5, DirectorioMismo DEF IInvDirectorio, HorarioEnSerie
  <1>9. Horario' = Horario
    BY DEF Horario
  <1>10. QED BY <1>2, <1>5, <1>6, <1>7, <1>8, <1>9 DEF IInvDirectorio

LEMMA PasoHorario ==
    ASSUME IInvDirectorio, NEW h \in Hilos, CommitHorario(h)
    PROVE  IInvDirectorio'
  <1>1. PICK d : d = peticion[h].dato
    OBVIOUS
  <1>2. PICK W : W = {Fila(x) : x \in DOMAIN d.nuevo}
    OBVIOUS
  <1>3. /\ peticion[h] # Nada /\ peticion[h].op = "horario"
        /\ horario' = [x \in Dias |->
                IF x \in DOMAIN d.nuevo
                THEN SoloLoCambiado(d.cargado[x], d.nuevo[x], horario[x]) ELSE horario[x]]
        /\ enviado' = [x \in Dias |-> IF x \in DOMAIN d.nuevo THEN d.nuevo[x] ELSE enviado[x]]
        /\ Termina(h, W)
        /\ direcciones' = direcciones /\ segundo' = segundo /\ rechazo' = rechazo
    BY <1>1, <1>2 DEF CommitHorario, EnCurso, Dato
  <1>4. d \in Enviado /\ (~peticion[h].vieja => \A x \in DOMAIN d.nuevo : d.cargado[x] = horario[x])
    BY <1>1, <1>3 DEF IInvDirectorio, SabeDelDirectorio
  <1>5. /\ horario \in [Dias -> Horario] /\ enviado \in [Dias -> Horario] /\ ~rechazo
        /\ segundo \in Nat
    BY DEF IInvDirectorio, DirectorioOK
  <1>6. /\ d.cargado \in [Dias -> Horario] /\ DOMAIN d.nuevo \subseteq Dias
        /\ \A x \in DOMAIN d.nuevo : d.nuevo[x] \in Horario
    BY <1>4, PropuestasSonHorarios DEF Enviado
  <1>7. \A x \in DOMAIN d.nuevo :
            /\ SoloLoCambiado(d.cargado[x], d.nuevo[x], horario[x]) \in Horario
            /\ d.cargado[x] = horario[x] =>
                    SoloLoCambiado(d.cargado[x], d.nuevo[x], horario[x]) = d.nuevo[x]
    BY <1>5, <1>6, FilaEscrita
  <1>8. horario' \in [Dias -> Horario] /\ enviado' \in [Dias -> Horario]
    BY <1>3, <1>5, <1>6, <1>7
  <1>9. /\ Ranuras(PeticionDirectorio)'
        /\ ~obsoleta' => ~obsoleta /\ ~peticion[h].vieja
        /\ peticion'[h] = Nada
        /\ \A g \in Hilos \ {h} : SigueIgual(g, W)
    BY <1>3, AlTerminar, PeticionesDelDirectorio DEF IInvDirectorio
  <1>10. \A x \in Dias : horario'[x] = horario[x] \/ Fila(x) \in W
    BY <1>2, <1>3
  <1>11. \A g \in Hilos \ {h} : SabeDelDirectorio(g)'
    BY <1>3, <1>9, <1>10, DirectorioQueSigue DEF IInvDirectorio
  <1>12. SabeDelDirectorio(h)'
    BY <1>9 DEF SabeDelDirectorio
  <1>13. HorarioEnSerie'
    <2> SUFFICES ASSUME ~obsoleta'
                 PROVE  horario' = enviado'
      BY DEF HorarioEnSerie
    <2>1. horario = enviado /\ \A x \in DOMAIN d.nuevo : d.cargado[x] = horario[x]
      BY <1>4, <1>9 DEF IInvDirectorio, HorarioEnSerie
    <2>2. \A x \in Dias : horario'[x] = enviado'[x]
      BY <1>3, <1>7, <2>1
    <2>3. QED BY <1>8, <2>2
  <1>14. DirectorioOK'
    <2>1. Horario' = Horario
      BY DEF Horario
    <2>2. \A x \in Dias, t \in Cuartos :
            esta_abierto(horario'[x], t) /\ ~cierra_pronto(horario'[x], t) =>
                esta_abierto(horario'[x], t + 2)
      BY <1>8, AvisaATiempo
    <2>3. \A x \in Dias, t \in Cuartos :
            esta_abierto(horario[x], t)' /\ ~cierra_pronto(horario[x], t)' =>
                esta_abierto(horario[x], t + 2)'
      BY <2>2 DEF esta_abierto, cierra_pronto
    <2>4. QED BY <1>3, <1>5, <1>8, <2>1, <2>3 DEF DirectorioOK
  <1>15. Horario' = Horario
    BY DEF Horario
  <1>16. QED BY <1>3, <1>5, <1>8, <1>9, <1>11, <1>12, <1>13, <1>14, <1>15 DEF IInvDirectorio

LEMMA DirectorioConServidorIgual ==
    ASSUME IInvDirectorio, UNCHANGED <<direcciones, rechazo, horario, enviado, servidor>>,
           segundo' \in Nat
    PROVE  IInvDirectorio'
  <1>1. /\ direcciones' = direcciones /\ rechazo' = rechazo /\ horario' = horario
        /\ enviado' = enviado /\ peticion' = peticion /\ obsoleta' = obsoleta
    BY DEF servidor
  <1>2. \A h \in Hilos : SabeDelDirectorio(h)'
    BY <1>1, DirectorioQueSigue, IgualSinAge DEF IInvDirectorio
  <1>3. DirectorioOK' /\ HorarioEnSerie'
    BY <1>1, DirectorioMismo DEF IInvDirectorio, DirectorioOK, HorarioEnSerie
  <1>4. Horario' = Horario
    BY DEF Horario
  <1>5. QED BY <1>1, <1>2, <1>3, <1>4 DEF IInvDirectorio, Ranuras

LEMMA PasoDirectorio ==
    ASSUME IInvDirectorio, NextDirectorio
    PROVE  IInvDirectorio'
  <1>1. CASE PasaSegundo
    BY <1>1, DirectorioConServidorIgual DEF PasaSegundo, IInvDirectorio
  <1>2. ASSUME NEW h \in Hilos,
               \/ CommitNegocio(h) \/ SlugRepetido(h) \/ CommitHorario(h)
               \/ \E n \in Titulos : CrearNegocio(h, n)
               \/ \E ds \in SUBSET Dias \ {{}} : \E nuevo \in [ds -> Propuestas] : CambiarHorario(h, nuevo)
        PROVE  IInvDirectorio'
    BY <1>2, PasoCrear, PasoHorario, PasoPedirDirectorio
  <1>3. QED BY <1>1, <1>2 DEF NextDirectorio

LEMMA DirectorioQuieto ==
    ASSUME IInvDirectorio, UNCHANGED <<directorioVars, servidor>>
    PROVE  IInvDirectorio'
  BY DirectorioConServidorIgual DEF directorioVars, IInvDirectorio

LEMMA DirectorioAlInicio ==
    ASSUME InitDirectorio
    PROVE  /\ DirectorioOK /\ HorarioEnSerie
           /\ Ranuras(PeticionDirectorio) /\ (\A h \in Hilos : peticion[h] = Nada) => IInvDirectorio
  <1>1. /\ direcciones = {} /\ segundo = 1 /\ ~rechazo /\ enviado = horario
        /\ horario = [d \in Dias |-> [abierto |-> FALSE, apertura |-> Nada, cierre |-> Nada]]
    BY DEF InitDirectorio
  <1>2. [abierto |-> FALSE, apertura |-> Nada, cierre |-> Nada] \in Horario
    BY DEF Horario
  <1>3. horario \in [Dias -> Horario] /\ \A d \in Dias : ~horario[d].abierto
    BY <1>1, <1>2
  <1>4. DirectorioOK /\ HorarioEnSerie
    BY <1>1, <1>3 DEF DirectorioOK, HorarioEnSerie, esta_abierto
  <1>5. ASSUME \A h \in Hilos : peticion[h] = Nada
        PROVE  \A h \in Hilos : SabeDelDirectorio(h)
    BY <1>5 DEF SabeDelDirectorio
  <1>6. QED BY <1>1, <1>3, <1>4, <1>5 DEF IInvDirectorio

-----------------------------------------------------------------------------
(* Regions *)

LEMMA PeticionesDeRegion == DePeticiones(PeticionRegion)
  BY NadaNoEsRegion DEF DePeticiones, PeticionRegion

LEMMA LaRegionDeUnTexto == \A texto : match_region(texto) \in Region \cup {Nada}
  <1> SUFFICES ASSUME NEW texto
               PROVE  match_region(texto) \in Region \cup {Nada}
    OBVIOUS
  <1>1. PICK C : C = Coinciden(texto)
    OBVIOUS
  <1>2. C \in SUBSET Nat /\ C \subseteq Region
    BY <1>1, RegionesNumeradas DEF Coinciden
  <1>3. CASE texto = Nada \/ C = {}
    BY <1>1, <1>3 DEF match_region
  <1>4. CASE ~(texto = Nada \/ C = {})
    <2>1. \E r \in C : \A s \in C : r <= s
      BY <1>2, <1>4, Minimo
    <2>2. PICK r : r = CHOOSE q \in C : \A s \in C : q <= s
      OBVIOUS
    <2>3. r \in C
      BY <2>1, <2>2
    <2>4. match_region(texto) = r
      BY <1>1, <1>4, <2>2 DEF match_region
    <2>5. QED BY <1>2, <2>3, <2>4
  <1>5. QED BY <1>3, <1>4

LEMMA RegionAsignada ==
    ASSUME NEW p \in Persona, NEW texto
    PROVE  LET r == assign_region(p, texto)
           IN  /\ r \in Region \cup {Nada}
               /\ p.interno => r = p.region
               /\ ~p.interno /\ texto = Fuente(p) /\ match_region(texto) # Nada =>
                        r = match_region(texto)
  <1>1. PICK t : t = IF texto = Nada THEN p.zona ELSE texto
    OBVIOUS
  <1>2. PICK r : r = match_region(t)
    OBVIOUS
  <1>3. r \in Region \cup {Nada} /\ p.region \in Region \cup {Nada}
    BY <1>2, LaRegionDeUnTexto DEF Persona
  <1>4. assign_region(p, texto) = IF p.interno \/ r = Nada THEN p.region ELSE r
    BY <1>1, <1>2 DEF assign_region
  <1>5. match_region(texto) # Nada => texto # Nada
    BY DEF match_region
  <1>6. match_region(texto) # Nada => r = match_region(texto)
    BY <1>1, <1>2, <1>5
  <1>7. QED BY <1>3, <1>4, <1>6

Zona == [u: Gente, cargada: Persona, zona: Textos \cup {Nada},
         ubicacion: Textos \cup {Nada}, region: Region \cup {Nada}]
Decision == [u: Gente, cargada: Region \cup {Nada}, nueva: Region \cup {Nada}]
Indice == [cargadas: [Gente -> Persona], regiones: [Gente -> Region \cup {Nada}]]

\* What a request that no commit overtook loaded is what there is, and what it
\* will write follows from that.
SabeDeLaRegion(h) ==
    LET p == peticion[h]
        d == p.dato
    IN  p # Nada =>
        /\ p.op = "zona" =>
                /\ d \in Zona /\ (d.zona = Nada \/ d.ubicacion = Nada)
                /\ d.cargada.interno => d.region = d.cargada.region
                /\ ~p.vieja => /\ De("user", d.u) \in p.lee
                               /\ d.cargada.interno = personas[d.u].interno
                               /\ d.cargada.region = personas[d.u].region
        /\ p.op = "staff" =>
                /\ d \in Decision
                /\ ~p.vieja => /\ De("user", d.u) \in p.lee
                               /\ d.cargada = personas[d.u].region
        /\ p.op = "reindexar" =>
                /\ d \in Indice
                /\ \A u \in Gente :
                        d.regiones[u] = assign_region(d.cargadas[u], Fuente(d.cargadas[u]))
                /\ ~p.vieja => p.lee = FilasDeGente /\ d.cargadas = personas

IInvRegiones ==
    /\ Ranuras(PeticionRegion)
    /\ RegionesOK /\ RegionEnSerie
    /\ \A h \in Hilos : SabeDeLaRegion(h)

\* A step that declares what it writes.
Declara(W) ==
    \A u \in Gente :
        /\ De("user", u) \in W \/ (personas'[u].interno = personas[u].interno
                                    /\ personas'[u].region = personas[u].region)
        /\ De("perfil", u) \in W \/ personas'[u].zona = personas[u].zona
        /\ De("solicitudes", u) \in W \/ personas'[u].ubicacion = personas[u].ubicacion

LEMMA RegionesIguales ==
    /\ Zona' = Zona /\ Decision' = Decision /\ Indice' = Indice /\ FilasDeGente' = FilasDeGente
    /\ Persona' = Persona
    /\ \A f, u : De(f, u)' = De(f, u)
    /\ \A p, t : assign_region(p, t)' = assign_region(p, t)
    /\ \A p : Fuente(p)' = Fuente(p)
  BY DEF Zona, Decision, Indice, FilasDeGente, Persona, De, assign_region, Fuente, match_region,
         Coinciden, Region

LEMMA RegionQueSigue ==
    ASSUME NEW h, NEW W, SabeDeLaRegion(h), SigueIgual(h, W), Declara(W),
           personas \in [Gente -> Persona], personas' \in [Gente -> Persona]
    PROVE  SabeDeLaRegion(h)'
  <1>1. ASSUME peticion[h] # Nada
        PROVE  /\ peticion'[h] # Nada /\ peticion'[h].op = peticion[h].op
               /\ peticion'[h].dato = peticion[h].dato /\ peticion'[h].lee = peticion[h].lee
               /\ ~peticion'[h].vieja => ~peticion[h].vieja /\ peticion[h].lee \cap W = {}
    BY <1>1 DEF SigueIgual
  <1>2. ASSUME peticion[h] # Nada, peticion[h].op = "zona"
        PROVE  SabeDeLaRegion(h)'
    <2>1. PICK d : d = peticion[h].dato
      OBVIOUS
    <2>2. /\ d \in Zona /\ (d.zona = Nada \/ d.ubicacion = Nada)
          /\ d.cargada.interno => d.region = d.cargada.region
          /\ ~peticion[h].vieja => /\ De("user", d.u) \in peticion[h].lee
                                   /\ d.cargada.interno = personas[d.u].interno
                                   /\ d.cargada.region = personas[d.u].region
      BY <1>2, <2>1 DEF SabeDeLaRegion
    <2>3. d.u \in Gente
      BY <2>2 DEF Zona
    <2>4. ~peticion'[h].vieja => /\ De("user", d.u) \in peticion[h].lee
                                 /\ d.cargada.interno = personas'[d.u].interno
                                 /\ d.cargada.region = personas'[d.u].region
      BY <1>1, <1>2, <2>2, <2>3 DEF Declara
    <2>5. QED BY <1>1, <1>2, <2>1, <2>2, <2>4, RegionesIguales DEF SabeDeLaRegion
  <1>3. ASSUME peticion[h] # Nada, peticion[h].op = "staff"
        PROVE  SabeDeLaRegion(h)'
    <2>1. PICK d : d = peticion[h].dato
      OBVIOUS
    <2>2. /\ d \in Decision
          /\ ~peticion[h].vieja => /\ De("user", d.u) \in peticion[h].lee
                                   /\ d.cargada = personas[d.u].region
      BY <1>3, <2>1 DEF SabeDeLaRegion
    <2>3. d.u \in Gente
      BY <2>2 DEF Decision
    <2>4. ~peticion'[h].vieja => /\ De("user", d.u) \in peticion[h].lee
                                 /\ d.cargada = personas'[d.u].region
      BY <1>1, <1>3, <2>2, <2>3 DEF Declara
    <2>5. QED BY <1>1, <1>3, <2>1, <2>2, <2>4, RegionesIguales DEF SabeDeLaRegion
  <1>4. ASSUME peticion[h] # Nada, peticion[h].op = "reindexar"
        PROVE  SabeDeLaRegion(h)'
    <2>1. PICK d : d = peticion[h].dato
      OBVIOUS
    <2>2. /\ d \in Indice
          /\ \A u \in Gente : d.regiones[u] = assign_region(d.cargadas[u], Fuente(d.cargadas[u]))
          /\ ~peticion[h].vieja => peticion[h].lee = FilasDeGente /\ d.cargadas = personas
      BY <1>4, <2>1 DEF SabeDeLaRegion
    <2>3. ASSUME ~peticion'[h].vieja
          PROVE  peticion[h].lee = FilasDeGente /\ d.cargadas = personas'
      <3>1. peticion[h].lee = FilasDeGente /\ d.cargadas = personas /\ FilasDeGente \cap W = {}
        BY <1>1, <1>4, <2>2, <2>3
      <3>2. \A u \in Gente : De("user", u) \notin W /\ De("perfil", u) \notin W
                                /\ De("solicitudes", u) \notin W
        BY <3>1 DEF FilasDeGente
      <3>3. ASSUME NEW u \in Gente
            PROVE  personas'[u] = personas[u]
        <4>1. /\ personas'[u].interno = personas[u].interno
              /\ personas'[u].region = personas[u].region
              /\ personas'[u].zona = personas[u].zona
              /\ personas'[u].ubicacion = personas[u].ubicacion
          BY <3>2 DEF Declara
        <4>2. personas[u] \in Persona /\ personas'[u] \in Persona
          OBVIOUS
        <4>3. QED BY <4>1, <4>2 DEF Persona
      <3>4. personas' = personas
        BY <3>3
      <3>5. QED BY <3>1, <3>4
    <2>4. QED BY <1>1, <1>4, <2>1, <2>2, <2>3, RegionesIguales DEF SabeDeLaRegion
  <1>5. QED BY <1>2, <1>3, <1>4 DEF SabeDeLaRegion, SigueIgual

LEMMA RegionMismo ==
    ASSUME RegionesOK, RegionEnSerie, obsoleta' = obsoleta,
           personas' = personas, decidida' = decidida, indexada' = indexada
    PROVE  RegionesOK' /\ RegionEnSerie'
  <1>1. \A t : match_region(t)' = match_region(t)
    BY DEF match_region, Coinciden, Region
  <1>2. QED BY <1>1, RegionesIguales DEF RegionesOK, RegionEnSerie, Region, Fuente

LEMMA PasoPedirRegion ==
    ASSUME IInvRegiones, NEW h \in Hilos,
           \/ Reindexar(h)
           \/ \E u \in Gente, t \in Textos : EditarZona(h, u, t) \/ PublicarEn(h, u, t)
           \/ \E u \in Gente, r \in Region \cup {Nada} : DarRegion(h, u, r)
    PROVE  IInvRegiones'
  <1>1. personas \in [Gente -> Persona]
    BY DEF IInvRegiones, RegionesOK
  <1>2. PICK op, lee, d :
            /\ Llega(h, op, lee, d) /\ lee \subseteq FilasDeGente
            /\ \/ /\ op = "zona" /\ d \in Zona /\ (d.zona = Nada \/ d.ubicacion = Nada)
                  /\ d.cargada.interno => d.region = d.cargada.region
                  /\ De("user", d.u) \in lee /\ d.cargada = personas[d.u]
               \/ /\ op = "staff" /\ d \in Decision
                  /\ De("user", d.u) \in lee /\ d.cargada = personas[d.u].region
               \/ /\ op = "reindexar" /\ d \in Indice /\ lee = FilasDeGente /\ d.cargadas = personas
                  /\ \A u \in Gente :
                        d.regiones[u] = assign_region(d.cargadas[u], Fuente(d.cargadas[u]))
            /\ personas' = personas /\ decidida' = decidida /\ indexada' = indexada
    <2>1. ASSUME NEW u \in Gente, NEW t \in Textos, EditarZona(h, u, t) \/ PublicarEn(h, u, t)
          PROVE  \E lee, d :
                    /\ Llega(h, "zona", lee, d) /\ lee \subseteq FilasDeGente
                    /\ d \in Zona /\ (d.zona = Nada \/ d.ubicacion = Nada)
                    /\ d.cargada.interno => d.region = d.cargada.region
                    /\ De("user", d.u) \in lee /\ d.cargada = personas[d.u]
                    /\ UNCHANGED <<personas, decidida, indexada>>
      <3>1. PICK lee, z, b : /\ z \in Textos \cup {Nada} /\ b \in Textos \cup {Nada}
                             /\ z = Nada \/ b = Nada
                             /\ lee \subseteq {De("user", u), De("perfil", u)} /\ De("user", u) \in lee
                             /\ Llega(h, "zona", lee, Escribira(u, z, b))
                             /\ UNCHANGED <<personas, decidida, indexada>>
        BY <2>1 DEF EditarZona, PublicarEn
      <3>2. PICK p : p = IF z = Nada THEN personas[u] ELSE [personas[u] EXCEPT !.zona = z]
        OBVIOUS
      <3>3. p \in Persona /\ p.interno = personas[u].interno /\ p.region = personas[u].region
        BY <1>1, <3>1, <3>2 DEF Persona
      <3>4. PICK r : r = assign_region(p, IF z = Nada THEN b ELSE z)
        OBVIOUS
      <3>5. r \in Region \cup {Nada} /\ (p.interno => r = p.region)
        BY <3>3, <3>4, RegionAsignada
      <3>6. PICK d : d = Escribira(u, z, b)
        OBVIOUS
      <3>7. d = [u |-> u, cargada |-> personas[u], zona |-> z, ubicacion |-> b, region |-> r]
        BY <3>2, <3>4, <3>6 DEF Escribira
      <3>8. d \in Zona /\ d.u = u /\ d.cargada = personas[u] /\ d.zona = z /\ d.ubicacion = b
            /\ d.region = r
        BY <1>1, <3>1, <3>5, <3>7 DEF Zona
      <3>9. lee \subseteq FilasDeGente
        BY <3>1 DEF FilasDeGente
      <3>10. QED BY <3>1, <3>3, <3>5, <3>6, <3>8, <3>9
    <2>2. ASSUME NEW u \in Gente, NEW r \in Region \cup {Nada}, DarRegion(h, u, r)
          PROVE  \E lee, d :
                    /\ Llega(h, "staff", lee, d) /\ lee \subseteq FilasDeGente
                    /\ d \in Decision
                    /\ De("user", d.u) \in lee /\ d.cargada = personas[d.u].region
                    /\ UNCHANGED <<personas, decidida, indexada>>
      <3>1. PICK d : d = [u |-> u, cargada |-> personas[u].region, nueva |-> r]
        OBVIOUS
      <3>2. d \in Decision /\ d.u = u /\ d.cargada = personas[u].region
        BY <1>1, <3>1 DEF Decision, Persona
      <3>3. Llega(h, "staff", {De("user", u)}, d) /\ UNCHANGED regionesVars
        BY <2>2, <3>1 DEF DarRegion
      <3>4. {De("user", u)} \subseteq FilasDeGente
        BY DEF FilasDeGente
      <3>5. UNCHANGED <<personas, decidida, indexada>>
        BY <3>3 DEF regionesVars
      <3>6. QED BY <3>2, <3>3, <3>4, <3>5
    <2>3. ASSUME Reindexar(h)
          PROVE  \E d :
                    /\ Llega(h, "reindexar", FilasDeGente, d)
                    /\ d \in Indice /\ d.cargadas = personas
                    /\ \A u \in Gente :
                        d.regiones[u] = assign_region(d.cargadas[u], Fuente(d.cargadas[u]))
                    /\ UNCHANGED <<personas, decidida, indexada>>
      <3>1. PICK f : f = [u \in Gente |-> assign_region(personas[u], Fuente(personas[u]))]
        OBVIOUS
      <3>2. \A u \in Gente : assign_region(personas[u], Fuente(personas[u])) \in Region \cup {Nada}
        BY <1>1, RegionAsignada
      <3>3. f \in [Gente -> Region \cup {Nada}]
        BY <3>1, <3>2
      <3>4. PICK d : d = [cargadas |-> personas, regiones |-> f]
        OBVIOUS
      <3>5. d \in Indice /\ d.cargadas = personas /\ d.regiones = f
        BY <1>1, <3>3, <3>4 DEF Indice
      <3>6. Llega(h, "reindexar", FilasDeGente, d) /\ UNCHANGED regionesVars
        BY <2>3, <3>1, <3>4 DEF Reindexar, FilasDeGente
      <3>7. UNCHANGED <<personas, decidida, indexada>>
        BY <3>6 DEF regionesVars
      <3>8. QED BY <3>1, <3>5, <3>6, <3>7
    <2>4. CASE Reindexar(h)
      BY <2>3, <2>4
    <2>5. CASE \E u \in Gente, t \in Textos : EditarZona(h, u, t) \/ PublicarEn(h, u, t)
      BY <2>1, <2>5
    <2>6. CASE \E u \in Gente, r \in Region \cup {Nada} : DarRegion(h, u, r)
      BY <2>2, <2>6
    <2>7. QED BY <2>4, <2>5, <2>6
  <1>3. PeticionNueva(op, lee, d) \in PeticionRegion
    <2>1. d \in Zona \cup Decision \cup Indice /\ op \in {"zona", "staff", "reindexar"}
      BY <1>2
    <2>2. QED BY <1>2, <2>1 DEF PeticionNueva, PeticionRegion, Peticion, Zona, Decision, Indice, FilasDeGente
  <1>4. /\ Ranuras(PeticionRegion)' /\ obsoleta' = obsoleta
        /\ peticion'[h] # Nada
        /\ peticion'[h].op = op /\ peticion'[h].lee = lee /\ peticion'[h].dato = d
        /\ \A g \in Hilos \ {h} : peticion'[g] = peticion[g]
    BY <1>2, <1>3, AlLlegar, PeticionesDeRegion DEF IInvRegiones
  <1>5. Declara({})
    BY <1>2 DEF Declara
  <1>6. \A g \in Hilos \ {h} : SabeDeLaRegion(g)'
    BY <1>1, <1>2, <1>4, <1>5, RegionQueSigue, IgualSinAge DEF IInvRegiones
  <1>7. SabeDeLaRegion(h)'
    BY <1>2, <1>4, RegionesIguales DEF SabeDeLaRegion
  <1>8. RegionesOK' /\ RegionEnSerie'
    BY <1>2, <1>4, RegionMismo DEF IInvRegiones
  <1>9. QED BY <1>4, <1>6, <1>7, <1>8 DEF IInvRegiones

\* A commit that forgets that everybody was indexed, or comes after it.
LEMMA RegionEscrita ==
    ASSUME IInvRegiones, NEW W, Declara(W), NEW H \in SUBSET Hilos, Ranuras(PeticionRegion)',
           \A g \in H : SigueIgual(g, W), \A g \in Hilos \ H : peticion'[g] = Nada,
           personas' \in [Gente -> Persona], decidida' \in [Gente -> Region \cup {Nada}],
           ~obsoleta' => \A u \in Gente :
               /\ personas'[u].interno => personas'[u].region = decidida'[u]
               /\ indexada' /\ ~personas'[u].interno /\ match_region(Fuente(personas'[u])) # Nada =>
                     personas'[u].region = match_region(Fuente(personas'[u]))
    PROVE  IInvRegiones'
  <1>1. personas \in [Gente -> Persona]
    BY DEF IInvRegiones, RegionesOK
  <1>2. \A g \in H : SabeDeLaRegion(g)'
    BY <1>1, RegionQueSigue DEF IInvRegiones
  <1>3. \A g \in Hilos \ H : SabeDeLaRegion(g)'
    BY DEF SabeDeLaRegion
  <1>4. \A t : match_region(t)' = match_region(t)
    BY DEF match_region, Coinciden, Region
  <1>5. \A u : Fuente(personas[u])' = Fuente(personas'[u])
    BY DEF Fuente
  <1>6. RegionEnSerie'
    BY <1>4, <1>5 DEF RegionEnSerie
  <1>7. RegionesOK'
    BY RegionesIguales DEF RegionesOK, Region
  <1>8. QED BY <1>2, <1>3, <1>6, <1>7 DEF IInvRegiones

LEMMA LosDemas ==
    ASSUME NEW h \in Hilos, NEW W, \A g \in Hilos \ {h} : SigueIgual(g, W), peticion'[h] = Nada
    PROVE  \E H \in SUBSET Hilos : /\ \A g \in H : SigueIgual(g, W)
                                   /\ \A g \in Hilos \ H : peticion'[g] = Nada
  BY Hilos \ {h} \in SUBSET Hilos

LEMMA PasoCommitZona ==
    ASSUME IInvRegiones, NEW h \in Hilos, CommitZona(h)
    PROVE  IInvRegiones'
  <1>1. PICK d : d = peticion[h].dato
    OBVIOUS
  <1>2. PICK W : W = {De(IF d.zona = Nada THEN "solicitudes" ELSE "perfil", d.u)}
                        \cup (IF d.region = d.cargada.region THEN {} ELSE {De("user", d.u)})
    OBVIOUS
  <1>3. PICK p : p = personas[d.u]
    OBVIOUS
  <1>4. PICK z : z = IF d.zona \in {Nada, d.cargada.zona} THEN p.zona ELSE d.zona
    OBVIOUS
  <1>5. PICK b : b = IF d.ubicacion = Nada THEN p.ubicacion ELSE d.ubicacion
    OBVIOUS
  <1>6. PICK r : r = SiEscribe(d.cargada.region, d.region, p.region)
    OBVIOUS
  <1>7. /\ peticion[h] # Nada /\ peticion[h].op = "zona" /\ Termina(h, W)
        /\ personas' = [personas EXCEPT ![d.u] = [p EXCEPT !.zona = z, !.ubicacion = b, !.region = r]]
        /\ ~indexada' /\ decidida' = decidida
    BY <1>1, <1>2, <1>3, <1>4, <1>5, <1>6 DEF CommitZona, EnCurso, Dato
  <1>8. /\ d \in Zona /\ (d.zona = Nada \/ d.ubicacion = Nada)
        /\ d.cargada.interno => d.region = d.cargada.region
        /\ ~peticion[h].vieja => d.cargada.interno = p.interno /\ d.cargada.region = p.region
    BY <1>1, <1>3, <1>7 DEF IInvRegiones, SabeDeLaRegion
  <1>9. /\ personas \in [Gente -> Persona] /\ decidida \in [Gente -> Region \cup {Nada}]
        /\ d.u \in Gente /\ p \in Persona
    BY <1>3, <1>8 DEF IInvRegiones, RegionesOK, Zona
  <1>10. z \in Textos \cup {Nada} /\ b \in Textos \cup {Nada} /\ r \in Region \cup {Nada}
    BY <1>4, <1>5, <1>6, <1>8, <1>9 DEF Zona, Persona, SiEscribe
  <1>11. PICK q : q = [p EXCEPT !.zona = z, !.ubicacion = b, !.region = r]
    OBVIOUS
  <1>12. q \in Persona /\ q.interno = p.interno /\ q.zona = z /\ q.ubicacion = b /\ q.region = r
    BY <1>9, <1>10, <1>11 DEF Persona
  <1>13. /\ personas' \in [Gente -> Persona] /\ personas'[d.u] = q
         /\ \A u \in Gente \ {d.u} : personas'[u] = personas[u]
    BY <1>7, <1>9, <1>11, <1>12
  <1>14. Declara(W)
    <2>1. De("user", d.u) \in W \/ q.region = p.region
      BY <1>2, <1>6, <1>12 DEF SiEscribe
    <2>2. De("perfil", d.u) \in W \/ q.zona = p.zona
      BY <1>2, <1>4, <1>12
    <2>3. De("solicitudes", d.u) \in W \/ q.ubicacion = p.ubicacion
      BY <1>2, <1>5, <1>8, <1>12
    <2>4. QED BY <1>3, <1>12, <1>13, <2>1, <2>2, <2>3 DEF Declara
  <1>15. /\ Ranuras(PeticionRegion)' /\ (~obsoleta' => ~obsoleta /\ ~peticion[h].vieja)
         /\ peticion'[h] = Nada /\ \A g \in Hilos \ {h} : SigueIgual(g, W)
    BY <1>7, AlTerminar, PeticionesDeRegion DEF IInvRegiones
  <1>16. ~obsoleta' => \A u \in Gente : personas'[u].interno => personas'[u].region = decidida'[u]
    <2> SUFFICES ASSUME ~obsoleta', NEW u \in Gente, personas'[u].interno
                 PROVE  personas'[u].region = decidida[u]
      BY <1>7
    <2>1. personas[u].interno => personas[u].region = decidida[u]
      BY <1>15 DEF IInvRegiones, RegionEnSerie
    <2>2. CASE u = d.u
      <3>1. p.interno /\ d.region = d.cargada.region /\ q.region = p.region
        BY <1>6, <1>8, <1>12, <1>13, <1>15, <2>2 DEF SiEscribe
      <3>2. QED BY <1>3, <1>13, <2>1, <2>2, <3>1
    <2>3. QED BY <1>13, <2>1, <2>2
  <1>17. PICK H \in SUBSET Hilos : /\ \A g \in H : SigueIgual(g, W)
                                   /\ \A g \in Hilos \ H : peticion'[g] = Nada
    BY <1>15, LosDemas
  <1>18. QED BY <1>7, <1>9, <1>13, <1>14, <1>15, <1>16, <1>17, RegionEscrita

LEMMA PasoCommitStaff ==
    ASSUME IInvRegiones, NEW h \in Hilos, CommitDarRegion(h)
    PROVE  IInvRegiones'
  <1>1. PICK d : d = peticion[h].dato
    OBVIOUS
  <1>2. PICK r : r = SiEscribe(d.cargada, d.nueva, personas[d.u].region)
    OBVIOUS
  <1>3. /\ peticion[h] # Nada /\ peticion[h].op = "staff" /\ Termina(h, {De("user", d.u)})
        /\ personas' = [personas EXCEPT ![d.u].region = r]
        /\ decidida' = [decidida EXCEPT ![d.u] = d.nueva]
        /\ ~indexada'
    BY <1>1, <1>2 DEF CommitDarRegion, EnCurso, Dato
  <1>4. d \in Decision /\ (~peticion[h].vieja => d.cargada = personas[d.u].region)
    BY <1>1, <1>3 DEF IInvRegiones, SabeDeLaRegion
  <1>5. /\ personas \in [Gente -> Persona] /\ decidida \in [Gente -> Region \cup {Nada}]
        /\ d.u \in Gente /\ d.nueva \in Region \cup {Nada} /\ personas[d.u] \in Persona
    BY <1>4 DEF IInvRegiones, RegionesOK, Decision
  <1>6. r \in Region \cup {Nada} /\ (~peticion[h].vieja => r = d.nueva)
    BY <1>2, <1>4, <1>5 DEF SiEscribe, Persona
  <1>7. PICK q : q = [personas[d.u] EXCEPT !.region = r]
    OBVIOUS
  <1>8. /\ q \in Persona /\ q.region = r /\ q.interno = personas[d.u].interno
        /\ q.zona = personas[d.u].zona /\ q.ubicacion = personas[d.u].ubicacion
    BY <1>5, <1>6, <1>7 DEF Persona
  <1>9. /\ personas' \in [Gente -> Persona] /\ personas'[d.u] = q
        /\ \A u \in Gente \ {d.u} : personas'[u] = personas[u]
        /\ decidida' \in [Gente -> Region \cup {Nada}] /\ decidida'[d.u] = d.nueva
        /\ \A u \in Gente \ {d.u} : decidida'[u] = decidida[u]
    BY <1>3, <1>5, <1>7, <1>8
  <1>10. Declara({De("user", d.u)})
    BY <1>8, <1>9 DEF Declara
  <1>11. /\ Ranuras(PeticionRegion)' /\ (~obsoleta' => ~obsoleta /\ ~peticion[h].vieja)
         /\ peticion'[h] = Nada /\ \A g \in Hilos \ {h} : SigueIgual(g, {De("user", d.u)})
    BY <1>3, AlTerminar, PeticionesDeRegion DEF IInvRegiones
  <1>12. ~obsoleta' => \A u \in Gente : personas'[u].interno => personas'[u].region = decidida'[u]
    <2> SUFFICES ASSUME ~obsoleta', NEW u \in Gente, personas'[u].interno
                 PROVE  personas'[u].region = decidida'[u]
      OBVIOUS
    <2>1. personas[u].interno => personas[u].region = decidida[u]
      BY <1>11 DEF IInvRegiones, RegionEnSerie
    <2>2. QED BY <1>6, <1>8, <1>9, <1>11, <2>1
  <1>13. PICK H \in SUBSET Hilos : /\ \A g \in H : SigueIgual(g, {De("user", d.u)})
                                   /\ \A g \in Hilos \ H : peticion'[g] = Nada
    BY <1>11, LosDemas
  <1>14. QED BY <1>3, <1>9, <1>10, <1>11, <1>12, <1>13, RegionEscrita

LEMMA PasoCambiarRol ==
    ASSUME IInvRegiones, NEW u \in Gente, CambiarRol(u)
    PROVE  IInvRegiones'
  <1>1. /\ personas' = [personas EXCEPT ![u].interno = ~@]
        /\ decidida' = [decidida EXCEPT ![u] = personas[u].region]
        /\ ~indexada' /\ Escriben({De("user", u)})
    BY DEF CambiarRol
  <1>2. /\ personas \in [Gente -> Persona] /\ decidida \in [Gente -> Region \cup {Nada}]
        /\ personas[u] \in Persona /\ personas[u].region \in Region \cup {Nada}
    BY DEF IInvRegiones, RegionesOK, Persona
  <1>3. PICK b \in BOOLEAN : b <=> ~personas[u].interno
    OBVIOUS
  <1>4. PICK q : q = [personas[u] EXCEPT !.interno = b]
    OBVIOUS
  <1>5. /\ q \in Persona /\ q.region = personas[u].region
        /\ q.zona = personas[u].zona /\ q.ubicacion = personas[u].ubicacion
    BY <1>2, <1>4 DEF Persona
  <1>6. personas' = [personas EXCEPT ![u] = q]
    <2>1. (~personas[u].interno) = b
      BY <1>2, <1>3 DEF Persona
    <2>2. QED BY <1>1, <1>2, <1>4, <2>1 DEF Persona
  <1>7. /\ personas' \in [Gente -> Persona] /\ personas'[u] = q
        /\ \A v \in Gente \ {u} : personas'[v] = personas[v]
        /\ decidida' \in [Gente -> Region \cup {Nada}] /\ decidida'[u] = personas[u].region
        /\ \A v \in Gente \ {u} : decidida'[v] = decidida[v]
    BY <1>1, <1>2, <1>5, <1>6
  <1>8. Declara({De("user", u)})
    BY <1>5, <1>7 DEF Declara
  <1>9. /\ Ranuras(PeticionRegion)' /\ obsoleta' = obsoleta
        /\ \A g \in Hilos : SigueIgual(g, {De("user", u)})
    BY <1>1, AlEscribir, PeticionesDeRegion DEF IInvRegiones
  <1>10. ~obsoleta' => \A v \in Gente : personas'[v].interno => personas'[v].region = decidida'[v]
    <2> SUFFICES ASSUME ~obsoleta', NEW v \in Gente, personas'[v].interno
                 PROVE  personas'[v].region = decidida'[v]
      OBVIOUS
    <2>1. personas[v].interno => personas[v].region = decidida[v]
      BY <1>9 DEF IInvRegiones, RegionEnSerie
    <2>2. QED BY <1>5, <1>7, <2>1
  <1>11. Hilos \in SUBSET Hilos /\ Hilos \ Hilos = {}
    OBVIOUS
  <1>12. QED BY <1>1, <1>7, <1>8, <1>9, <1>10, <1>11, RegionEscrita

LEMMA PasoCommitReindexar ==
    ASSUME IInvRegiones, NEW h \in Hilos, CommitReindexar(h)
    PROVE  IInvRegiones'
  <1>1. PICK d : d = peticion[h].dato
    OBVIOUS
  <1>2. PICK C : C = {u \in Gente : d.regiones[u] # d.cargadas[u].region}
    OBVIOUS
  <1>3. PICK W : W = {De("user", u) : u \in C}
    OBVIOUS
  <1>4. /\ peticion[h] # Nada /\ peticion[h].op = "reindexar" /\ Termina(h, W)
        /\ personas' = [u \in Gente |->
                IF u \in C THEN [personas[u] EXCEPT !.region = d.regiones[u]] ELSE personas[u]]
        /\ decidida' = decidida
    BY <1>1, <1>2, <1>3 DEF CommitReindexar, EnCurso, Dato
  <1>5. /\ d \in Indice
        /\ \A u \in Gente : d.regiones[u] = assign_region(d.cargadas[u], Fuente(d.cargadas[u]))
        /\ ~peticion[h].vieja => d.cargadas = personas
    BY <1>1, <1>4 DEF IInvRegiones, SabeDeLaRegion
  <1>6. /\ personas \in [Gente -> Persona] /\ decidida \in [Gente -> Region \cup {Nada}]
        /\ \A u \in Gente : d.regiones[u] \in Region \cup {Nada}
    BY <1>5 DEF IInvRegiones, RegionesOK, Indice
  <1>7. \A u \in Gente :
            /\ personas'[u] \in Persona
            /\ personas'[u].interno = personas[u].interno
            /\ personas'[u].zona = personas[u].zona
            /\ personas'[u].ubicacion = personas[u].ubicacion
            /\ personas'[u].region = IF u \in C THEN d.regiones[u] ELSE personas[u].region
    <2> SUFFICES ASSUME NEW u \in Gente
                 PROVE  /\ personas'[u] \in Persona
                        /\ personas'[u].interno = personas[u].interno
                        /\ personas'[u].zona = personas[u].zona
                        /\ personas'[u].ubicacion = personas[u].ubicacion
                        /\ personas'[u].region = IF u \in C THEN d.regiones[u] ELSE personas[u].region
      OBVIOUS
    <2>1. personas[u] \in Persona /\ d.regiones[u] \in Region \cup {Nada}
      BY <1>6
    <2>2. personas'[u] = IF u \in C THEN [personas[u] EXCEPT !.region = d.regiones[u]] ELSE personas[u]
      BY <1>4
    <2>3. QED BY <2>1, <2>2 DEF Persona
  <1>8. personas' \in [Gente -> Persona]
    BY <1>4, <1>7
  <1>9. Declara(W)
    BY <1>3, <1>7 DEF Declara
  <1>10. /\ Ranuras(PeticionRegion)' /\ (~obsoleta' => ~obsoleta /\ ~peticion[h].vieja)
         /\ peticion'[h] = Nada /\ \A g \in Hilos \ {h} : SigueIgual(g, W)
    BY <1>4, AlTerminar, PeticionesDeRegion DEF IInvRegiones
  <1>11. ASSUME ~obsoleta', NEW u \in Gente
         PROVE  /\ personas'[u].interno => personas'[u].region = decidida'[u]
                /\ ~personas'[u].interno /\ match_region(Fuente(personas'[u])) # Nada =>
                        personas'[u].region = match_region(Fuente(personas'[u]))
    <2>1. personas[u].interno => personas[u].region = decidida[u]
      BY <1>10, <1>11 DEF IInvRegiones, RegionEnSerie
    <2>2. d.cargadas[u] = personas[u]
      BY <1>5, <1>10, <1>11
    <2>3. personas'[u].region = d.regiones[u]
      BY <1>2, <1>7, <2>2
    <2>4. PICK t : t = Fuente(personas[u])
      OBVIOUS
    <2>5. Fuente(personas'[u]) = t
      BY <1>7, <2>4 DEF Fuente
    <2>6. personas'[u].region = assign_region(personas[u], t)
      BY <1>5, <2>2, <2>3, <2>4
    <2>7. personas[u] \in Persona
      BY <1>6
    <2>8. /\ personas[u].interno => assign_region(personas[u], t) = personas[u].region
          /\ ~personas[u].interno /\ match_region(t) # Nada =>
                    assign_region(personas[u], t) = match_region(t)
      BY <2>4, <2>7, RegionAsignada
    <2>9. QED BY <1>4, <1>7, <2>1, <2>5, <2>6, <2>8
  <1>12. PICK H \in SUBSET Hilos : /\ \A g \in H : SigueIgual(g, W)
                                   /\ \A g \in Hilos \ H : peticion'[g] = Nada
    BY <1>10, LosDemas
  <1>13. QED BY <1>4, <1>6, <1>8, <1>9, <1>10, <1>11, <1>12, RegionEscrita

LEMMA PasoRegiones ==
    ASSUME IInvRegiones, NextRegiones
    PROVE  IInvRegiones'
  <1>1. ASSUME NEW u \in Gente, CambiarRol(u)
        PROVE  IInvRegiones'
    BY <1>1, PasoCambiarRol
  <1>2. ASSUME NEW h \in Hilos,
               \/ CommitZona(h) \/ CommitDarRegion(h) \/ Reindexar(h) \/ CommitReindexar(h)
               \/ \E u \in Gente, t \in Textos : EditarZona(h, u, t) \/ PublicarEn(h, u, t)
               \/ \E u \in Gente, r \in Region \cup {Nada} : DarRegion(h, u, r)
        PROVE  IInvRegiones'
    BY <1>2, PasoCommitZona, PasoCommitStaff, PasoCommitReindexar, PasoPedirRegion
  <1>3. QED BY <1>1, <1>2 DEF NextRegiones

LEMMA RegionesQuietas ==
    ASSUME IInvRegiones, UNCHANGED <<regionesVars, servidor>>
    PROVE  IInvRegiones'
  <1>1. /\ personas' = personas /\ decidida' = decidida /\ indexada' = indexada
        /\ peticion' = peticion /\ obsoleta' = obsoleta
    BY DEF regionesVars, servidor
  <1>2. Declara({}) /\ personas \in [Gente -> Persona]
    BY <1>1 DEF Declara, IInvRegiones, RegionesOK
  <1>3. \A h \in Hilos : SabeDeLaRegion(h)'
    BY <1>1, <1>2, RegionQueSigue, IgualSinAge DEF IInvRegiones
  <1>4. RegionesOK' /\ RegionEnSerie'
    BY <1>1, RegionMismo DEF IInvRegiones
  <1>5. QED BY <1>1, <1>3, <1>4 DEF IInvRegiones, Ranuras

LEMMA RegionesAlInicio ==
    ASSUME InitRegiones
    PROVE  /\ RegionesOK /\ RegionEnSerie
           /\ Ranuras(PeticionRegion) /\ (\A h \in Hilos : peticion[h] = Nada) => IInvRegiones
  <1>1. RegionesOK
    BY DEF InitRegiones, RegionesOK, Persona
  <1>2. RegionEnSerie
    BY DEF InitRegiones, RegionEnSerie
  <1>3. ASSUME \A h \in Hilos : peticion[h] = Nada
        PROVE  \A h \in Hilos : SabeDeLaRegion(h)
    BY <1>3 DEF SabeDeLaRegion
  <1>4. QED BY <1>1, <1>2, <1>3 DEF IInvRegiones
=============================================================================
