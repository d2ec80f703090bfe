--------------------------- MODULE PlataformaProofs ---------------------------
(***************************************************************************)
(* Proofs about Plataforma for any number of racing requests, and of codes,*)
(* messages, phases, users, levels and rows.                               *)
(*                                                                         *)
(* Each area has an inductive invariant of its own, proved from the steps  *)
(* of its module, here or in VitrinaProofs; at the end they are put        *)
(* together, since only the area that moves changes its rows.              *)
(***************************************************************************)
EXTENDS Plataforma, VitrinaProofs

(* Codes and links *)

CodigoRow == [pruebas: Nat, aceptado: Nat, enviado: BOOLEAN]

\* A code in store was not accepted yet and counts its comparisons; no code is
\* in two stores.
CodigosFirmes ==
    /\ guardado \in [Almacenes -> GuardadoRow \cup {Nada}]
    /\ codigos \in Seq(CodigoRow)
    /\ \A a \in Almacenes : guardado[a] # Nada =>
            /\ guardado[a].codigo \in DOMAIN codigos
            /\ guardado[a].intentos = codigos[guardado[a].codigo].pruebas
            /\ codigos[guardado[a].codigo].aceptado = 0
    /\ \A a, b \in Almacenes : guardado[a] # Nada /\ guardado[b] # Nada /\ a # b
            => guardado[a].codigo # guardado[b].codigo
    /\ \A c \in DOMAIN codigos : codigos[c].aceptado <= 1 /\ codigos[c].pruebas <= MaxIntentos

LEMMA CodigosEs ==
    ASSUME CodigosFirmes
    PROVE  /\ DOMAIN codigos = 1..Len(codigos) /\ Len(codigos) \in Nat
           /\ \A c \in DOMAIN codigos : codigos[c] \in CodigoRow
           /\ \A a \in Almacenes : guardado[a] # Nada => guardado[a] \in GuardadoRow
           /\ Nada \notin GuardadoRow
  <1>1. codigos \in Seq(CodigoRow) /\ guardado \in [Almacenes -> GuardadoRow \cup {Nada}]
    BY DEF CodigosFirmes
  <1>2. DOMAIN codigos = 1..Len(codigos) /\ Len(codigos) \in Nat
    BY <1>1, LenProperties
  <1>3. \A c \in DOMAIN codigos : codigos[c] \in CodigoRow
    BY <1>1, <1>2, ElementOfSeq
  <1>4. QED BY <1>1, <1>2, <1>3, NadaNoEsCodigo

LEMMA GeneraFirme ==
    ASSUME CodigosFirmes, NEW a \in Almacenes, Genera(a)
    PROVE  /\ CodigosFirmes'
           /\ Len(codigos') = Len(codigos) + 1 /\ Len(codigos') \in DOMAIN codigos'
           /\ guardado'[a] # Nada /\ guardado'[a].codigo = Len(codigos')
           /\ \A b \in Almacenes \ {a} : guardado'[b] = guardado[b]
           /\ \A c \in DOMAIN codigos :
                c \in DOMAIN codigos' /\ codigos'[c].enviado = codigos[c].enviado
  <1>0. /\ guardado \in [Almacenes -> GuardadoRow \cup {Nada}] /\ codigos \in Seq(CodigoRow)
        /\ DOMAIN codigos = 1..Len(codigos) /\ Len(codigos) \in Nat
        /\ \A c \in DOMAIN codigos : codigos[c] \in CodigoRow
        /\ \A b \in Almacenes : guardado[b] # Nada => guardado[b] \in GuardadoRow
        /\ Nada \notin GuardadoRow
    BY CodigosEs DEF CodigosFirmes
  <1>1. PICK r, n, g : /\ r = [pruebas |-> 0, aceptado |-> 0, enviado |-> FALSE]
                       /\ n = Len(codigos) + 1
                       /\ g = [codigo |-> n, intentos |-> 0, vencido |-> FALSE]
    OBVIOUS
  <1>15. n \in Nat /\ 0 \in Nat
    BY <1>0, <1>1
  <1>16. r \in CodigoRow
    BY <1>1, <1>15 DEF CodigoRow
  <1>17. g \in GuardadoRow
    BY <1>1, <1>15 DEF GuardadoRow
  <1>2. r \in CodigoRow /\ n \in Nat /\ g \in GuardadoRow /\ g # Nada
    BY <1>0, <1>15, <1>16, <1>17
  <1>3. codigos' = Append(codigos, r)
    BY <1>1 DEF Genera
  <1>4. /\ codigos' \in Seq(CodigoRow) /\ Len(codigos') = n /\ codigos'[n] = r
        /\ \A c \in 1..Len(codigos) : codigos'[c] = codigos[c]
    BY <1>0, <1>1, <1>2, <1>3, AppendProperties
  <1>5. DOMAIN codigos' = 1..n /\ n \in 1..n
    BY <1>0, <1>1, <1>4, LenProperties
  <1>6. guardado' = [guardado EXCEPT ![a] = g]
    BY <1>1, <1>4 DEF Genera
  <1>7. /\ guardado' \in [Almacenes -> GuardadoRow \cup {Nada}]
        /\ guardado'[a] = g /\ \A b \in Almacenes \ {a} : guardado'[b] = guardado[b]
    BY <1>0, <1>2, <1>6
  <1>8. \A c \in DOMAIN codigos : c \in DOMAIN codigos' /\ codigos'[c] = codigos[c] /\ c # n
    BY <1>0, <1>1, <1>4, <1>5
  <1>9. ASSUME NEW b \in Almacenes, guardado'[b] # Nada
        PROVE  /\ guardado'[b].codigo \in DOMAIN codigos'
               /\ guardado'[b].intentos = codigos'[guardado'[b].codigo].pruebas
               /\ codigos'[guardado'[b].codigo].aceptado = 0
    <2>1. CASE b = a
      BY <1>1, <1>4, <1>5, <1>7, <2>1
    <2>2. CASE b # a
      BY <1>7, <1>8, <1>9, <2>2 DEF CodigosFirmes
    <2>3. QED BY <2>1, <2>2
  <1>10. ASSUME NEW b \in Almacenes, NEW c \in Almacenes, guardado'[b] # Nada, guardado'[c] # Nada,
                b # c
         PROVE  guardado'[b].codigo # guardado'[c].codigo
    <2>1. \A x \in Almacenes \ {a} : guardado[x] # Nada => guardado[x].codigo # n
      BY <1>8 DEF CodigosFirmes
    <2>2. g.codigo = n
      BY <1>1
    <2>3. CASE b = a
      BY <1>7, <1>10, <2>1, <2>2, <2>3
    <2>4. CASE c = a
      BY <1>7, <1>10, <2>1, <2>2, <2>4
    <2>5. CASE b # a /\ c # a
      BY <1>7, <1>10, <2>5 DEF CodigosFirmes
    <2>6. QED BY <2>3, <2>4, <2>5
  <1>11. ASSUME NEW c \in DOMAIN codigos'
         PROVE  codigos'[c].aceptado <= 1 /\ codigos'[c].pruebas <= MaxIntentos
    <2>1. CASE c = n
      BY <1>1, <1>4, <2>1, MaxIntentosEsNatural
    <2>2. CASE c # n
      <3>1. c \in DOMAIN codigos
        BY <1>0, <1>1, <1>5, <1>11, <2>2
      <3>2. QED BY <1>8, <3>1 DEF CodigosFirmes
    <2>3. QED BY <2>1, <2>2
  <1>12. CodigosFirmes'
    BY <1>4, <1>7, <1>9, <1>10, <1>11 DEF CodigosFirmes
  <1>13. g.codigo = n
    BY <1>1
  <1>14. QED BY <1>1, <1>2, <1>4, <1>5, <1>7, <1>8, <1>12, <1>13

LEMMA PruebaFirme ==
    ASSUME CodigosFirmes, NEW a \in Almacenes, NEW acierta \in BOOLEAN, Prueba(a, acierta)
    PROVE  /\ CodigosFirmes'
           /\ guardado'[a] # Nada => guardado[a] # Nada /\ guardado'[a].codigo = guardado[a].codigo
           /\ \A b \in Almacenes \ {a} : guardado'[b] = guardado[b]
           /\ \A c \in DOMAIN codigos :
                c \in DOMAIN codigos' /\ codigos'[c].enviado = codigos[c].enviado
  <1>0. /\ guardado \in [Almacenes -> GuardadoRow \cup {Nada}] /\ codigos \in Seq(CodigoRow)
        /\ DOMAIN codigos = 1..Len(codigos) /\ Len(codigos) \in Nat
        /\ \A c \in DOMAIN codigos : codigos[c] \in CodigoRow
        /\ Nada \notin GuardadoRow
        /\ guardado[a] # Nada /\ guardado[a] \in GuardadoRow
    BY CodigosEs DEF CodigosFirmes, Prueba
  <1>1. CASE Agotado(guardado[a])
    <2>1. guardado' = [guardado EXCEPT ![a] = Nada] /\ codigos' = codigos
      BY <1>1 DEF Prueba
    <2>2. /\ guardado' \in [Almacenes -> GuardadoRow \cup {Nada}]
          /\ guardado'[a] = Nada /\ \A b \in Almacenes \ {a} : guardado'[b] = guardado[b]
      BY <1>0, <2>1
    <2>3. CodigosFirmes'
      BY <2>1, <2>2 DEF CodigosFirmes
    <2>4. QED BY <2>1, <2>2, <2>3
  <1>2. CASE ~Agotado(guardado[a])
    <2>1. PICK c, g, x : /\ c = guardado[a].codigo
                         /\ g = [guardado[a] EXCEPT !.intentos = @ + 1]
                         /\ x = (IF acierta THEN Nada ELSE g)
      OBVIOUS
    <2>16. PICK s : s = (IF acierta THEN 1 ELSE 0)
      OBVIOUS
    <2>17. s \in Nat
      BY <2>16
    <2>2. PICK r : r = [codigos[c] EXCEPT !.pruebas = @ + 1, !.aceptado = @ + s]
      OBVIOUS
    <2>3. /\ guardado' = [guardado EXCEPT ![a] = x]
          /\ codigos' = [codigos EXCEPT ![c] = r]
      <3>1. codigos' = [codigos EXCEPT ![c].pruebas = @ + 1, ![c].aceptado = @ + s]
        BY <1>2, <2>1, <2>16 DEF Prueba
      <3>2. guardado' = [guardado EXCEPT ![a] = x]
        BY <1>2, <2>1 DEF Prueba
      <3>3. c \in DOMAIN codigos /\ codigos[c] \in [pruebas: Nat, aceptado: Nat, enviado: BOOLEAN]
        BY <1>0, <2>1 DEF CodigosFirmes, CodigoRow
      <3>4. QED BY <2>2, <3>1, <3>2, <3>3
    <2>4. /\ c \in DOMAIN codigos /\ guardado[a].intentos = codigos[c].pruebas
          /\ codigos[c].aceptado = 0
          /\ codigos[c] \in [pruebas: Nat, aceptado: Nat, enviado: BOOLEAN]
      BY <1>0, <2>1 DEF CodigosFirmes, CodigoRow
    <2>5. codigos[c].pruebas + 1 <= MaxIntentos
      BY <1>0, <1>2, <2>4, MaxIntentosEsNatural DEF Agotado, GuardadoRow
    <2>6. /\ r \in CodigoRow /\ r.pruebas = codigos[c].pruebas + 1
          /\ r.aceptado = s /\ r.enviado = codigos[c].enviado
      <3>1. /\ codigos[c].pruebas + 1 \in Nat /\ codigos[c].aceptado + s = s
            /\ codigos[c].enviado \in BOOLEAN
        BY <2>4, <2>17
      <3>2. /\ r.pruebas = codigos[c].pruebas + 1 /\ r.aceptado = codigos[c].aceptado + s
            /\ r.enviado = codigos[c].enviado
        BY <2>2, <2>4
      <3>3. r \in [pruebas: Nat, aceptado: Nat, enviado: BOOLEAN]
        BY <2>2, <2>4, <2>17, <3>1
      <3>4. QED BY <3>1, <3>2, <3>3 DEF CodigoRow
    <2>7. /\ codigos' \in Seq(CodigoRow) /\ DOMAIN codigos' = DOMAIN codigos
          /\ \A d \in DOMAIN codigos : codigos'[d] = IF d = c THEN r ELSE codigos[d]
      BY <1>0, <2>3, <2>4, <2>6, ExceptSeq
    <2>8. /\ g \in GuardadoRow /\ g.codigo = c /\ g.intentos = guardado[a].intentos + 1
      BY <1>0, <2>1 DEF GuardadoRow
    <2>9. /\ guardado' \in [Almacenes -> GuardadoRow \cup {Nada}]
          /\ guardado'[a] = x /\ \A b \in Almacenes \ {a} : guardado'[b] = guardado[b]
      BY <1>0, <2>1, <2>3, <2>8
    <2>10. \A b \in Almacenes \ {a} : guardado[b] # Nada => guardado[b].codigo # c
      BY <1>0, <2>1 DEF CodigosFirmes
    <2>11. ASSUME NEW b \in Almacenes, guardado'[b] # Nada
           PROVE  /\ guardado'[b].codigo \in DOMAIN codigos'
                  /\ guardado'[b].intentos = codigos'[guardado'[b].codigo].pruebas
                  /\ codigos'[guardado'[b].codigo].aceptado = 0
                  /\ guardado[b] # Nada /\ guardado'[b].codigo = guardado[b].codigo
      <3>1. CASE b = a
        <4>1. ~acierta /\ guardado'[b] = g
          BY <2>1, <2>9, <2>11, <3>1
        <4>2. s = 0
          BY <2>16, <4>1
        <4>3. QED BY <1>0, <2>1, <2>4, <2>6, <2>7, <2>8, <3>1, <4>1, <4>2
      <3>2. CASE b # a
        BY <2>7, <2>9, <2>10, <2>11, <3>2 DEF CodigosFirmes
      <3>3. QED BY <3>1, <3>2
    <2>12. ASSUME NEW b \in Almacenes, NEW d \in Almacenes,
                  guardado'[b] # Nada, guardado'[d] # Nada, b # d
           PROVE  guardado'[b].codigo # guardado'[d].codigo
      BY <2>11, <2>12 DEF CodigosFirmes
    <2>13. ASSUME NEW d \in DOMAIN codigos'
           PROVE  codigos'[d].aceptado <= 1 /\ codigos'[d].pruebas <= MaxIntentos
      <3>1. CASE d = c
        BY <2>4, <2>5, <2>6, <2>7, <2>16, <3>1
      <3>2. CASE d # c
        BY <2>7, <3>2 DEF CodigosFirmes
      <3>3. QED BY <3>1, <3>2
    <2>14. CodigosFirmes'
      BY <2>7, <2>9, <2>11, <2>12, <2>13 DEF CodigosFirmes
    <2>15. QED BY <2>6, <2>7, <2>9, <2>11, <2>14
  <1>3. QED BY <1>1, <1>2

LEMMA VenceFirme ==
    ASSUME CodigosFirmes, NEW a \in Almacenes, CodigoVence(a)
    PROVE  /\ CodigosFirmes' /\ codigos' = codigos
           /\ guardado[a] # Nada /\ guardado'[a].codigo = guardado[a].codigo
           /\ \A b \in Almacenes \ {a} : guardado'[b] = guardado[b]
  <1>0. /\ guardado \in [Almacenes -> GuardadoRow \cup {Nada}]
        /\ Nada \notin GuardadoRow
        /\ guardado[a] # Nada /\ guardado[a] \in GuardadoRow
    BY CodigosEs DEF CodigosFirmes, CodigoVence
  <1>1. PICK g : g = [guardado[a] EXCEPT !.vencido = TRUE]
    OBVIOUS
  <1>2. guardado' = [guardado EXCEPT ![a] = g] /\ codigos' = codigos
    BY <1>1 DEF CodigoVence
  <1>3. /\ g \in GuardadoRow /\ g.codigo = guardado[a].codigo /\ g.intentos = guardado[a].intentos
    BY <1>0, <1>1 DEF GuardadoRow
  <1>4. /\ guardado' \in [Almacenes -> GuardadoRow \cup {Nada}]
        /\ guardado'[a] = g /\ \A b \in Almacenes \ {a} : guardado'[b] = guardado[b]
    BY <1>0, <1>2, <1>3
  <1>5. \A b \in Almacenes : guardado'[b] # Nada =>
            /\ guardado[b] # Nada /\ guardado'[b].codigo = guardado[b].codigo
            /\ guardado'[b].intentos = guardado[b].intentos
    BY <1>0, <1>3, <1>4
  <1>6. CodigosFirmes'
    <2>1. codigos' \in Seq(CodigoRow)
      BY <1>2 DEF CodigosFirmes
    <2>2. \A b \in Almacenes : guardado'[b] # Nada =>
            /\ guardado'[b].codigo \in DOMAIN codigos'
            /\ guardado'[b].intentos = codigos'[guardado'[b].codigo].pruebas
            /\ codigos'[guardado'[b].codigo].aceptado = 0
      BY <1>2, <1>5 DEF CodigosFirmes
    <2>3. \A b, d \in Almacenes : guardado'[b] # Nada /\ guardado'[d] # Nada /\ b # d
            => guardado'[b].codigo # guardado'[d].codigo
      BY <1>5 DEF CodigosFirmes
    <2>4. \A c \in DOMAIN codigos' : codigos'[c].aceptado <= 1 /\ codigos'[c].pruebas <= MaxIntentos
      BY <1>2 DEF CodigosFirmes
    <2>5. QED BY <1>4, <2>1, <2>2, <2>3, <2>4 DEF CodigosFirmes
  <1>7. QED BY <1>0, <1>2, <1>3, <1>4, <1>6

\* The stores are emptied, all of them or one.
LEMMA VaciaFirme ==
    ASSUME CodigosFirmes, codigos' = codigos,
           guardado' \in [Almacenes -> GuardadoRow \cup {Nada}],
           \A a \in Almacenes : guardado'[a] = Nada \/ guardado'[a] = guardado[a]
    PROVE  CodigosFirmes'
  <1>1. \A b \in Almacenes : guardado'[b] # Nada => guardado[b] # Nada /\ guardado'[b] = guardado[b]
    OBVIOUS
  <1>2. \A b \in Almacenes : guardado'[b] # Nada =>
            /\ guardado'[b].codigo \in DOMAIN codigos'
            /\ guardado'[b].intentos = codigos'[guardado'[b].codigo].pruebas
            /\ codigos'[guardado'[b].codigo].aceptado = 0
    BY <1>1 DEF CodigosFirmes
  <1>3. \A b, d \in Almacenes : guardado'[b] # Nada /\ guardado'[d] # Nada /\ b # d
            => guardado'[b].codigo # guardado'[d].codigo
    BY <1>1 DEF CodigosFirmes
  <1>4. QED BY <1>2, <1>3 DEF CodigosFirmes

\* An SMS was answered.
LEMMA EnviadoFirme ==
    ASSUME CodigosFirmes, NEW c \in DOMAIN codigos, guardado' = guardado,
           codigos' = [codigos EXCEPT ![c].enviado = TRUE]
    PROVE  /\ CodigosFirmes' /\ DOMAIN codigos' = DOMAIN codigos
           /\ codigos'[c].enviado
           /\ \A d \in DOMAIN codigos : codigos[d].enviado => codigos'[d].enviado
  <1>0. /\ codigos \in Seq(CodigoRow)
        /\ DOMAIN codigos = 1..Len(codigos) /\ Len(codigos) \in Nat
        /\ codigos[c] \in [pruebas: Nat, aceptado: Nat, enviado: BOOLEAN]
    BY CodigosEs DEF CodigosFirmes, CodigoRow
  <1>1. PICK r : r = [codigos[c] EXCEPT !.enviado = TRUE]
    OBVIOUS
  <1>2. /\ r \in CodigoRow /\ r.pruebas = codigos[c].pruebas
        /\ r.aceptado = codigos[c].aceptado /\ r.enviado
    BY <1>0, <1>1 DEF CodigoRow
  <1>3. codigos' = [codigos EXCEPT ![c] = r]
    BY <1>0, <1>1
  <1>4. /\ codigos' \in Seq(CodigoRow) /\ DOMAIN codigos' = DOMAIN codigos
        /\ \A d \in DOMAIN codigos : codigos'[d] = IF d = c THEN r ELSE codigos[d]
    <2>1. c \in 1..Len(codigos) /\ r \in CodigoRow
      BY <1>0, <1>2
    <2>2. codigos' \in Seq(CodigoRow) /\ Len(codigos') = Len(codigos)
      <3>1. /\ [codigos EXCEPT ![c] = r] \in Seq(CodigoRow)
            /\ Len([codigos EXCEPT ![c] = r]) = Len(codigos)
        BY <1>0, <2>1, ExceptSeq
      <3>2. QED BY <1>3, <3>1
    <2>3. DOMAIN codigos' = 1..Len(codigos)
      BY <2>2, LenProperties
    <2>4. QED BY <1>0, <1>3, <2>1, <2>2, <2>3
  <1>5. \A d \in DOMAIN codigos : /\ codigos'[d].pruebas = codigos[d].pruebas
                                  /\ codigos'[d].aceptado = codigos[d].aceptado
                                  /\ codigos[d].enviado => codigos'[d].enviado
    BY <1>2, <1>4
  <1>6. \A b \in Almacenes : guardado'[b] # Nada =>
            /\ guardado'[b].codigo \in DOMAIN codigos'
            /\ guardado'[b].intentos = codigos'[guardado'[b].codigo].pruebas
            /\ codigos'[guardado'[b].codigo].aceptado = 0
    BY <1>4, <1>5 DEF CodigosFirmes
  <1>7. \A d \in DOMAIN codigos' : codigos'[d].aceptado <= 1 /\ codigos'[d].pruebas <= MaxIntentos
    BY <1>4, <1>5 DEF CodigosFirmes
  <1>8. CodigosFirmes'
    BY <1>4, <1>6, <1>7 DEF CodigosFirmes
  <1>9. QED BY <1>2, <1>4, <1>5, <1>8

LEMMA PeticionesDeCodigos == DePeticiones(PeticionCodigo)
  BY NadaNoEsCodigo DEF DePeticiones, PeticionCodigo

EnlacesFirmes ==
    /\ enlaces \in Seq(EnlaceRow \cup {Nada}) /\ usos \in Seq(Nat)
    /\ Len(usos) = Len(enlaces)
    /\ \A i \in DOMAIN enlaces : enlaces[i] # Nada /\ ~enlaces[i].usado => usos[i] = 0
    /\ EnlaceUnaVezEnSerie

\* A request that uses a link and is not behind finds it as it was.
SabeDelCodigo(h) ==
    LET p == peticion[h]
    IN  p # Nada =>
        /\ p.op = "sms" => p.dato \in DOMAIN codigos
        /\ p.op = "enlace" =>
                /\ p.dato \in DOMAIN enlaces /\ enlaces[p.dato] # Nada
                /\ Enlace(p.dato) \in p.lee
                /\ ~p.vieja => ~enlaces[p.dato].usado

CelularEnviado ==
    guardado["celular"] # Nada =>
        LET c == guardado["celular"].codigo
        IN  codigos[c].enviado \/ \E h \in Hilos : EnCurso(h, "sms") /\ Dato(h) = c

IInvCodigos ==
    /\ Ranuras(PeticionCodigo)
    /\ CodigosFirmes
    /\ EnlacesFirmes
    /\ CelularEnviado
    /\ \A h \in Hilos : SabeDelCodigo(h)

LEMMA EnlacesEs ==
    ASSUME EnlacesFirmes
    PROVE  /\ DOMAIN enlaces = 1..Len(enlaces) /\ Len(enlaces) \in Nat
           /\ DOMAIN usos = DOMAIN enlaces
           /\ \A i \in DOMAIN enlaces : enlaces[i] \in EnlaceRow \cup {Nada} /\ usos[i] \in Nat
           /\ Nada \notin EnlaceRow
  <1>1. /\ enlaces \in Seq(EnlaceRow \cup {Nada}) /\ usos \in Seq(Nat)
        /\ Len(usos) = Len(enlaces)
    BY DEF EnlacesFirmes
  <1>2. /\ DOMAIN enlaces = 1..Len(enlaces) /\ Len(enlaces) \in Nat
        /\ DOMAIN usos = 1..Len(usos)
    BY <1>1, LenProperties
  <1>3. \A i \in DOMAIN enlaces : enlaces[i] \in EnlaceRow \cup {Nada} /\ usos[i] \in Nat
    BY <1>1, <1>2, ElementOfSeq
  <1>4. QED BY <1>1, <1>2, <1>3, NadaNoEsCodigo

\* Nothing of a link moves.
LEMMA EnlacesQuietos ==
    ASSUME EnlacesFirmes, enlaces' = enlaces, usos' = usos, obsoleta' = obsoleta
    PROVE  EnlacesFirmes'
  BY DEF EnlacesFirmes, EnlaceUnaVezEnSerie

LEMMA PasoCodigos ==
    ASSUME IInvCodigos, NextCodigos
    PROVE  IInvCodigos'
  <1>0. /\ Ranuras(PeticionCodigo) /\ DePeticiones(PeticionCodigo)
        /\ CodigosFirmes /\ EnlacesFirmes /\ CelularEnviado
        /\ \A h \in Hilos : SabeDelCodigo(h)
        /\ "celular" \in Almacenes
    BY PeticionesDeCodigos DEF IInvCodigos, Almacenes
  <1>00. /\ DOMAIN codigos = 1..Len(codigos) /\ Len(codigos) \in Nat
         /\ DOMAIN enlaces = 1..Len(enlaces) /\ Len(enlaces) \in Nat
         /\ DOMAIN usos = DOMAIN enlaces
         /\ \A i \in DOMAIN enlaces : enlaces[i] \in EnlaceRow \cup {Nada} /\ usos[i] \in Nat
         /\ Nada \notin EnlaceRow
    BY <1>0, CodigosEs, EnlacesEs
  <1>1. CASE Olvida
    <2>1. /\ guardado' = [a \in Almacenes |-> Nada] /\ codigos' = codigos
          /\ enlaces' = [i \in DOMAIN enlaces |-> Nada] /\ usos' = usos /\ SePierden
      BY <1>1 DEF Olvida
    <2>2. CodigosFirmes' /\ CelularEnviado'
      BY <1>0, <2>1, VaciaFirme DEF CelularEnviado
    <2>3. Ranuras(PeticionCodigo)' /\ obsoleta' = obsoleta /\ \A h \in Hilos : peticion'[h] = Nada
      BY <1>0, <2>1, AlPerderse
    <2>4. enlaces' \in [1..Len(enlaces) -> EnlaceRow \cup {Nada}] /\ \A i \in DOMAIN enlaces' : enlaces'[i] = Nada
      BY <1>00, <2>1
    <2>5. enlaces' \in Seq(EnlaceRow \cup {Nada}) /\ Len(enlaces') = Len(enlaces)
      BY <1>00, <2>4, SeqDef, LenProperties
    <2>6. EnlacesFirmes'
      BY <1>0, <2>1, <2>3, <2>4, <2>5 DEF EnlacesFirmes, EnlaceUnaVezEnSerie
    <2>7. QED BY <2>2, <2>3, <2>6 DEF IInvCodigos, SabeDelCodigo
  <1>2. CASE CodigoVence("celular")
    <2>1. enlaces' = enlaces /\ usos' = usos /\ peticion' = peticion /\ obsoleta' = obsoleta
      BY <1>2 DEF CodigoVence, servidor
    <2>2. /\ CodigosFirmes' /\ codigos' = codigos /\ guardado["celular"] # Nada
          /\ guardado'["celular"].codigo = guardado["celular"].codigo
      BY <1>0, <1>2, VenceFirme
    <2>3. CelularEnviado'
      BY <1>0, <2>1, <2>2 DEF CelularEnviado, EnCurso, Dato
    <2>4. \A h \in Hilos : SabeDelCodigo(h)'
      BY <1>0, <2>1, <2>2 DEF SabeDelCodigo
    <2>5. QED BY <1>0, <2>1, <2>2, <2>3, <2>4, EnlacesQuietos DEF IInvCodigos, Ranuras
  <1>3. CASE EmitirEnlace
    <2>1. PICK e : e = [usado |-> FALSE, vencido |-> FALSE]
      OBVIOUS
    <2>2. /\ enlaces' = Append(enlaces, e) /\ usos' = Append(usos, 0)
          /\ guardado' = guardado /\ codigos' = codigos
          /\ peticion' = peticion /\ obsoleta' = obsoleta
      BY <1>3, <2>1 DEF EmitirEnlace, servidor
    <2>3. e \in EnlaceRow \cup {Nada} /\ 0 \in Nat
      BY <2>1 DEF EnlaceRow
    <2>4. /\ enlaces' \in Seq(EnlaceRow \cup {Nada}) /\ Len(enlaces') = Len(enlaces) + 1
          /\ \A i \in 1..Len(enlaces) : enlaces'[i] = enlaces[i]
          /\ enlaces'[Len(enlaces) + 1] = e
      BY <2>2, <2>3, <1>0, AppendProperties DEF EnlacesFirmes
    <2>5. /\ usos' \in Seq(Nat) /\ Len(usos') = Len(usos) + 1
          /\ \A i \in 1..Len(usos) : usos'[i] = usos[i]
          /\ usos'[Len(usos) + 1] = 0
      BY <2>2, <2>3, <1>0, AppendProperties DEF EnlacesFirmes
    <2>6. Len(usos) = Len(enlaces)
      BY <1>0 DEF EnlacesFirmes
    <2>7. DOMAIN enlaces' = 1..(Len(enlaces) + 1) /\ DOMAIN usos' = 1..(Len(enlaces) + 1)
      BY <2>4, <2>5, <2>6, LenProperties
    <2>8. \A i \in DOMAIN enlaces' : \/ i \in DOMAIN enlaces /\ enlaces'[i] = enlaces[i] /\ usos'[i] = usos[i]
                                     \/ i = Len(enlaces) + 1 /\ usos'[i] = 0
      BY <1>00, <2>4, <2>5, <2>6, <2>7
    <2>9. \A i \in DOMAIN enlaces' : enlaces'[i] # Nada /\ ~enlaces'[i].usado => usos'[i] = 0
      BY <1>0, <2>8 DEF EnlacesFirmes
    <2>10. EnlaceUnaVezEnSerie'
      BY <1>0, <1>00, <2>2, <2>7, <2>8 DEF EnlacesFirmes, EnlaceUnaVezEnSerie
    <2>11. EnlacesFirmes'
      BY <2>4, <2>5, <2>6, <2>9, <2>10 DEF EnlacesFirmes
    <2>12. \A i \in DOMAIN enlaces : i \in DOMAIN enlaces' /\ enlaces'[i] = enlaces[i]
      BY <1>00, <2>4, <2>7
    <2>13. \A h \in Hilos : SabeDelCodigo(h)'
      BY <1>0, <2>2, <2>12 DEF SabeDelCodigo
    <2>14. CodigosFirmes' /\ CelularEnviado'
      BY <1>0, <2>2 DEF CodigosFirmes, CelularEnviado, EnCurso, Dato
    <2>15. QED BY <1>0, <2>2, <2>11, <2>13, <2>14 DEF IInvCodigos, Ranuras
  <1>4. ASSUME NEW acierta \in BOOLEAN, VerificarOtp(acierta)
        PROVE  IInvCodigos'
    <2>1. /\ enlaces' = enlaces /\ usos' = usos /\ peticion' = peticion /\ obsoleta' = obsoleta
          /\ Prueba("celular", acierta)
      BY <1>4 DEF VerificarOtp, servidor
    <2>2. /\ CodigosFirmes'
          /\ guardado'["celular"] # Nada => /\ guardado["celular"] # Nada
                                            /\ guardado'["celular"].codigo = guardado["celular"].codigo
          /\ \A c \in DOMAIN codigos :
                c \in DOMAIN codigos' /\ codigos'[c].enviado = codigos[c].enviado
      BY <1>0, <2>1, PruebaFirme
    <2>3. CelularEnviado'
      BY <1>0, <2>1, <2>2 DEF CelularEnviado, EnCurso, Dato, CodigosFirmes
    <2>4. \A h \in Hilos : SabeDelCodigo(h)'
      BY <1>0, <2>1, <2>2 DEF SabeDelCodigo
    <2>5. QED BY <1>0, <2>1, <2>2, <2>3, <2>4, EnlacesQuietos DEF IInvCodigos, Ranuras
  <1>5. ASSUME NEW i \in DOMAIN enlaces, EnlaceVence(i)
        PROVE  IInvCodigos'
    <2>1. /\ enlaces[i] \in [usado: BOOLEAN, vencido: BOOLEAN]
          /\ enlaces' = [enlaces EXCEPT ![i].vencido = TRUE]
          /\ usos' = usos /\ guardado' = guardado /\ codigos' = codigos
          /\ peticion' = peticion /\ obsoleta' = obsoleta
      BY <1>5, <1>00 DEF EnlaceVence, servidor, EnlaceRow
    <2>2. PICK e : e = [enlaces[i] EXCEPT !.vencido = TRUE]
      OBVIOUS
    <2>3. e \in EnlaceRow /\ e.usado = enlaces[i].usado /\ e # Nada
      BY <2>1, <2>2, <1>00 DEF EnlaceRow
    <2>4. enlaces' = [enlaces EXCEPT ![i] = e]
      BY <2>1, <2>2
    <2>5. /\ enlaces' \in Seq(EnlaceRow \cup {Nada}) /\ Len(enlaces') = Len(enlaces)
          /\ DOMAIN enlaces' = DOMAIN enlaces
          /\ \A j \in DOMAIN enlaces : enlaces'[j] = IF j = i THEN e ELSE enlaces[j]
      BY <1>0, <1>00, <2>3, <2>4, ExceptSeq DEF EnlacesFirmes
    <2>6. \A j \in DOMAIN enlaces : /\ enlaces'[j] = Nada <=> enlaces[j] = Nada
                                    /\ enlaces[j] # Nada => enlaces'[j].usado = enlaces[j].usado
      BY <1>00, <2>3, <2>5, <1>5 DEF EnlaceVence
    <2>7. \A j \in DOMAIN enlaces' : enlaces'[j] # Nada /\ ~enlaces'[j].usado => usos'[j] = 0
      BY <1>0, <2>1, <2>5, <2>6 DEF EnlacesFirmes
    <2>8. EnlacesFirmes'
      BY <1>0, <2>1, <2>5, <2>7 DEF EnlacesFirmes, EnlaceUnaVezEnSerie
    <2>9. \A h \in Hilos : SabeDelCodigo(h)'
      BY <1>0, <2>1, <2>5, <2>6 DEF SabeDelCodigo
    <2>10. CodigosFirmes' /\ CelularEnviado'
      BY <1>0, <2>1 DEF CodigosFirmes, CelularEnviado, EnCurso, Dato
    <2>11. QED BY <1>0, <2>1, <2>8, <2>9, <2>10 DEF IInvCodigos, Ranuras
  <1>6. ASSUME NEW h \in Hilos, EnviarOtp(h)
        PROVE  IInvCodigos'
    <2>1. /\ Genera("celular") /\ Llega(h, "sms", {}, Len(codigos'))
          /\ enlaces' = enlaces /\ usos' = usos
      BY <1>6 DEF EnviarOtp
    <2>2. /\ CodigosFirmes'
          /\ Len(codigos') = Len(codigos) + 1 /\ Len(codigos') \in DOMAIN codigos'
          /\ guardado'["celular"] # Nada /\ guardado'["celular"].codigo = Len(codigos')
          /\ \A c \in DOMAIN codigos :
                c \in DOMAIN codigos' /\ codigos'[c].enviado = codigos[c].enviado
      BY <1>0, <2>1, GeneraFirme
    <2>3. PICK n \in Nat : n = Len(codigos')
      BY <1>00, <2>2
    <2>4. Llega(h, "sms", {}, n)
      BY <2>1, <2>3
    <2>5. PeticionNueva("sms", {}, n) \in PeticionCodigo
      BY DEF PeticionNueva, PeticionCodigo, Peticion
    <2>6. /\ Ranuras(PeticionCodigo)' /\ obsoleta' = obsoleta
          /\ peticion'[h] # Nada /\ peticion'[h].op = "sms" /\ peticion'[h].dato = n
          /\ \A g \in Hilos \ {h} : peticion'[g] = peticion[g]
      BY <1>0, <2>4, <2>5, AlLlegar
    <2>7. CelularEnviado'
      BY <2>2, <2>3, <2>6 DEF CelularEnviado, EnCurso, Dato
    <2>8. \A g \in Hilos : SabeDelCodigo(g)'
      BY <1>0, <2>1, <2>2, <2>3, <2>6 DEF SabeDelCodigo
    <2>9. QED BY <1>0, <2>1, <2>2, <2>6, <2>7, <2>8, EnlacesQuietos DEF IInvCodigos
  <1>7. ASSUME NEW h \in Hilos, NEW exito \in BOOLEAN, RespuestaSms(h, exito)
        PROVE  IInvCodigos'
    <2>1. /\ enlaces' = enlaces /\ usos' = usos /\ Falla(h)
          /\ peticion[h] # Nada /\ peticion[h].op = "sms" /\ peticion[h].dato \in DOMAIN codigos
      BY <1>0, <1>7 DEF RespuestaSms, EnCurso, SabeDelCodigo
    <2>2. /\ Ranuras(PeticionCodigo)' /\ obsoleta' = obsoleta /\ peticion'[h] = Nada
          /\ \A g \in Hilos \ {h} : peticion'[g] = peticion[g]
      BY <1>0, <2>1, AlFallar
    <2>3. CASE exito
      <3>1. guardado' = guardado /\ codigos' = [codigos EXCEPT ![peticion[h].dato].enviado = TRUE]
        BY <1>7, <2>3 DEF RespuestaSms, Dato
      <3>2. /\ CodigosFirmes' /\ DOMAIN codigos' = DOMAIN codigos
            /\ codigos'[peticion[h].dato].enviado
            /\ \A d \in DOMAIN codigos : codigos[d].enviado => codigos'[d].enviado
        BY <1>0, <2>1, <3>1, EnviadoFirme
      <3>3. CelularEnviado'
        <4>1. SUFFICES ASSUME guardado'["celular"] # Nada, ~codigos'[guardado'["celular"].codigo].enviado
                       PROVE  \E g \in Hilos : EnCurso(g, "sms")' /\ Dato(g)' = guardado'["celular"].codigo
          BY DEF CelularEnviado
        <4>2. ~codigos[guardado["celular"].codigo].enviado
          BY <1>0, <3>1, <3>2, <4>1 DEF CodigosFirmes
        <4>3. PICK g \in Hilos : EnCurso(g, "sms") /\ Dato(g) = guardado["celular"].codigo
          BY <1>0, <3>1, <4>1, <4>2 DEF CelularEnviado
        <4>4. g # h
          BY <3>1, <3>2, <4>1, <4>3 DEF Dato
        <4>5. QED BY <2>2, <3>1, <4>3, <4>4 DEF EnCurso, Dato
      <3>4. \A g \in Hilos : SabeDelCodigo(g)'
        BY <1>0, <2>1, <2>2, <3>2 DEF SabeDelCodigo
      <3>5. QED BY <1>0, <2>1, <2>2, <3>2, <3>3, <3>4, EnlacesQuietos DEF IInvCodigos
    <2>4. CASE ~exito
      <3>1. guardado' = [guardado EXCEPT !["celular"] = Nada] /\ codigos' = codigos
        BY <1>7, <2>4 DEF RespuestaSms
      <3>2. CodigosFirmes' /\ guardado'["celular"] = Nada
        <4>1. guardado \in [Almacenes -> GuardadoRow \cup {Nada}]
          BY <1>0 DEF CodigosFirmes
        <4>2. /\ guardado' \in [Almacenes -> GuardadoRow \cup {Nada}]
              /\ guardado'["celular"] = Nada
              /\ \A a \in Almacenes : guardado'[a] = Nada \/ guardado'[a] = guardado[a]
          BY <1>0, <3>1, <4>1
        <4>3. QED BY <1>0, <3>1, <4>2, VaciaFirme
      <3>3. CelularEnviado'
        BY <3>2 DEF CelularEnviado
      <3>4. \A g \in Hilos : SabeDelCodigo(g)'
        BY <1>0, <2>1, <2>2, <3>1 DEF SabeDelCodigo
      <3>5. QED BY <1>0, <2>1, <2>2, <3>2, <3>3, <3>4, EnlacesQuietos DEF IInvCodigos
    <2>5. QED BY <2>3, <2>4
  <1>8. ASSUME NEW h \in Hilos, NEW i \in DOMAIN enlaces, UsarEnlace(h, i)
        PROVE  IInvCodigos'
    <2>1. /\ enlaces[i] # Nada /\ ~enlaces[i].usado
          /\ Llega(h, "enlace", {Enlace(i)}, i)
          /\ guardado' = guardado /\ codigos' = codigos /\ enlaces' = enlaces /\ usos' = usos
      BY <1>8 DEF UsarEnlace, codigosVars
    <2>2. PeticionNueva("enlace", {Enlace(i)}, i) \in PeticionCodigo
      BY <1>00 DEF PeticionNueva, PeticionCodigo, Peticion, Enlace
    <2>3. /\ Ranuras(PeticionCodigo)' /\ obsoleta' = obsoleta /\ peticion[h] = Nada
          /\ peticion'[h] # Nada /\ peticion'[h].op = "enlace" /\ peticion'[h].dato = i
          /\ peticion'[h].lee = {Enlace(i)}
          /\ \A g \in Hilos \ {h} : peticion'[g] = peticion[g]
      BY <1>0, <2>1, <2>2, AlLlegar
    <2>4. \A g \in Hilos : SabeDelCodigo(g)'
      BY <1>0, <2>1, <2>3 DEF SabeDelCodigo
    <2>5. CelularEnviado'
      BY <1>0, <2>1, <2>3 DEF CelularEnviado, EnCurso, Dato
    <2>6. CodigosFirmes'
      BY <1>0, <2>1 DEF CodigosFirmes
    <2>7. QED BY <1>0, <2>1, <2>3, <2>4, <2>5, <2>6, EnlacesQuietos DEF IInvCodigos
  <1>9. ASSUME NEW h \in Hilos, CommitEnlace(h) \/ EnlaceGastado(h)
        PROVE  IInvCodigos'
    <2>1. PICK i : i = peticion[h].dato
      OBVIOUS
    <2>2. /\ peticion[h] # Nada /\ peticion[h].op = "enlace" /\ i \in DOMAIN enlaces /\ enlaces[i] # Nada
          /\ ~peticion[h].vieja => ~enlaces[i].usado
      BY <1>0, <1>9, <2>1 DEF CommitEnlace, EnlaceGastado, EnCurso, SabeDelCodigo
    <2>3. /\ enlaces[i] \in [usado: BOOLEAN, vencido: BOOLEAN]
          /\ enlaces' = [enlaces EXCEPT ![i].usado = TRUE]
          /\ Termina(h, {Enlace(i)}) /\ guardado' = guardado /\ codigos' = codigos
          /\ usos' = usos \/ usos' = [usos EXCEPT ![i] = @ + 1]
      BY <1>9, <1>00, <2>1, <2>2 DEF CommitEnlace, EnlaceGastado, EnlaceRow, Dato
    <2>4. PICK e : e = [enlaces[i] EXCEPT !.usado = TRUE]
      OBVIOUS
    <2>5. e \in EnlaceRow /\ e.usado /\ e # Nada
      BY <2>3, <2>4, <1>00 DEF EnlaceRow
    <2>6. enlaces' = [enlaces EXCEPT ![i] = e]
      BY <2>3, <2>4
    <2>7. /\ enlaces' \in Seq(EnlaceRow \cup {Nada}) /\ Len(enlaces') = Len(enlaces)
          /\ DOMAIN enlaces' = DOMAIN enlaces
          /\ \A j \in DOMAIN enlaces : enlaces'[j] = IF j = i THEN e ELSE enlaces[j]
      BY <1>0, <1>00, <2>2, <2>5, <2>6, ExceptSeq DEF EnlacesFirmes
    <2>8. /\ usos' \in Seq(Nat) /\ Len(usos') = Len(usos) /\ DOMAIN usos' = DOMAIN usos
          /\ \A j \in DOMAIN usos : j # i => usos'[j] = usos[j]
          /\ usos'[i] <= usos[i] + 1
      <3>1. usos \in Seq(Nat) /\ usos[i] + 1 \in Nat /\ usos[i] \in Nat /\ i \in DOMAIN usos /\ i \in 1..Len(usos)
        BY <1>0, <1>00, <2>2 DEF EnlacesFirmes
      <3>2. CASE usos' = usos
        BY <3>1, <3>2
      <3>3. CASE usos' = [usos EXCEPT ![i] = @ + 1]
        <4>1. PICK n \in Nat : n = usos[i] + 1
          BY <3>1
        <4>2. usos' = [usos EXCEPT ![i] = n]
          BY <3>3, <4>1
        <4>3. /\ usos' \in Seq(Nat) /\ Len(usos') = Len(usos) /\ DOMAIN usos' = DOMAIN usos
              /\ \A j \in DOMAIN usos : usos'[j] = IF j = i THEN n ELSE usos[j]
          BY <3>1, <4>1, <4>2, ExceptSeq
        <4>4. QED BY <3>1, <4>1, <4>3
      <3>4. QED BY <2>3, <3>2, <3>3
    <2>9. /\ Ranuras(PeticionCodigo)' /\ peticion'[h] = Nada
          /\ ~obsoleta' => ~obsoleta /\ ~peticion[h].vieja
          /\ \A g \in Hilos \ {h} : SigueIgual(g, {Enlace(i)})
      BY <1>0, <2>2, <2>3, AlTerminar
    <2>10. \A j \in DOMAIN enlaces' : enlaces'[j] # Nada /\ ~enlaces'[j].usado => usos'[j] = 0
      BY <1>0, <1>00, <2>5, <2>7, <2>8 DEF EnlacesFirmes
    <2>11. EnlaceUnaVezEnSerie'
      <3>1. SUFFICES ASSUME ~obsoleta', NEW j \in DOMAIN usos'
                     PROVE  usos'[j] <= 1
        BY DEF EnlaceUnaVezEnSerie
      <3>2. usos[j] <= 1 /\ j \in DOMAIN usos
        BY <1>0, <2>8, <2>9, <3>1 DEF EnlacesFirmes, EnlaceUnaVezEnSerie
      <3>3. CASE j = i
        <4>1. usos[i] = 0
          BY <1>0, <2>2, <2>9, <3>1 DEF EnlacesFirmes
        <4>2. j \in 1..Len(usos) /\ usos'[j] \in Nat
          BY <1>00, <2>7, <2>8, <3>2, LenProperties, ElementOfSeq
        <4>3. QED BY <2>8, <3>3, <4>1, <4>2
      <3>4. QED BY <2>8, <3>2, <3>3
    <2>12. EnlacesFirmes'
      BY <1>0, <2>7, <2>8, <2>10, <2>11 DEF EnlacesFirmes
    <2>13. ASSUME NEW g \in Hilos \ {h}
           PROVE  SabeDelCodigo(g)'
      <3>1. CASE peticion[g] = Nada
        BY <2>9, <3>1 DEF SabeDelCodigo, SigueIgual
      <3>2. CASE peticion[g] # Nada /\ peticion[g].op = "enlace"
        <4>1. /\ peticion'[g].op = "enlace" /\ peticion'[g].dato = peticion[g].dato
              /\ peticion'[g].lee = peticion[g].lee
              /\ ~peticion'[g].vieja => ~peticion[g].vieja /\ Enlace(i) \notin peticion[g].lee
          BY <2>9, <3>2 DEF SigueIgual
        <4>2. ~peticion'[g].vieja => peticion[g].dato # i
          BY <1>0, <3>2, <4>1 DEF SabeDelCodigo
        <4>3. QED BY <1>0, <2>5, <2>7, <3>2, <4>1, <4>2 DEF SabeDelCodigo
      <3>3. CASE peticion[g] # Nada /\ peticion[g].op # "enlace"
        BY <1>0, <2>3, <2>9, <3>3 DEF SabeDelCodigo, SigueIgual
      <3>4. QED BY <3>1, <3>2, <3>3
    <2>14. \A g \in Hilos : SabeDelCodigo(g)'
      BY <2>9, <2>13 DEF SabeDelCodigo
    <2>15. CelularEnviado'
      <3>1. \A g \in Hilos : EnCurso(g, "sms") => EnCurso(g, "sms")' /\ Dato(g)' = Dato(g)
        BY <2>2, <2>9 DEF EnCurso, Dato, SigueIgual
      <3>2. QED BY <1>0, <2>3, <3>1 DEF CelularEnviado
    <2>16. CodigosFirmes'
      BY <1>0, <2>3 DEF CodigosFirmes
    <2>17. QED BY <2>9, <2>12, <2>14, <2>15, <2>16 DEF IInvCodigos
  <1>10. QED BY <1>1, <1>2, <1>3, <1>4, <1>5, <1>6, <1>7, <1>8, <1>9 DEF NextCodigos

LEMMA CodigosQuietos ==
    ASSUME IInvCodigos, UNCHANGED <<codigosVars, servidor>>
    PROVE  IInvCodigos'
  <1>1. /\ guardado' = guardado /\ codigos' = codigos /\ enlaces' = enlaces /\ usos' = usos
        /\ peticion' = peticion /\ obsoleta' = obsoleta
    BY DEF codigosVars, servidor
  <1>2. CelularEnviado' /\ CodigosFirmes'
    BY <1>1 DEF IInvCodigos, CelularEnviado, CodigosFirmes, EnCurso, Dato
  <1>3. QED BY <1>1, <1>2, EnlacesQuietos DEF IInvCodigos, Ranuras, SabeDelCodigo

LEMMA CodigosAlInicio ==
    ASSUME InitCodigos
    PROVE  /\ CodigosFirmes /\ guardado["celular"] = Nada /\ enlaces = <<>> /\ usos = <<>>
           /\ EnlacesFirmes /\ CelularEnviado
           /\ Ranuras(PeticionCodigo) /\ (\A h \in Hilos : peticion[h] = Nada) => IInvCodigos
  <1>1. /\ guardado = [a \in Almacenes |-> Nada] /\ codigos = <<>> /\ enlaces = <<>> /\ usos = <<>>
        /\ "celular" \in Almacenes
    BY DEF InitCodigos, Almacenes
  <1>2. CodigosFirmes
    BY <1>1, EmptySeq DEF CodigosFirmes
  <1>3. EnlacesFirmes
    BY <1>1, EmptySeq DEF EnlacesFirmes, EnlaceUnaVezEnSerie
  <1>4. QED BY <1>1, <1>2, <1>3 DEF CelularEnviado, IInvCodigos, SabeDelCodigo

LEMMA AlcanzaLosCodigos ==
    ASSUME CodigosFirmes, EnlacesFirmes
    PROVE  CodigosOK /\ EnlaceUnaVezEnSerie
           /\ (CelularEnviado => CodigoDeUnUso)
  <1>1. \A a \in Almacenes : guardado[a] # Nada => guardado[a] \in GuardadoRow
    BY CodigosEs
  <1>2. ASSUME NEW a \in Almacenes, guardado[a] # Nada
        PROVE  /\ guardado[a].codigo \in DOMAIN codigos
               /\ guardado[a].intentos \in 0..MaxIntentos
               /\ guardado[a].vencido \in BOOLEAN
    <2>1. /\ guardado[a].codigo \in DOMAIN codigos
          /\ guardado[a].intentos = codigos[guardado[a].codigo].pruebas
      BY <1>2 DEF CodigosFirmes
    <2>2. codigos[guardado[a].codigo].pruebas <= MaxIntentos
      BY <2>1 DEF CodigosFirmes
    <2>3. guardado[a].intentos \in Nat /\ guardado[a].vencido \in BOOLEAN
      BY <1>1, <1>2 DEF GuardadoRow
    <2>4. QED BY <2>1, <2>2, <2>3, MaxIntentosEsNatural
  <1>3. \A i \in DOMAIN enlaces : enlaces[i] = Nada \/ enlaces[i].usado \in BOOLEAN
    BY EnlacesEs DEF EnlaceRow
  <1>4. QED BY <1>2, <1>3 DEF CodigosOK, CodigoDeUnUso, CelularEnviado, CodigosFirmes, EnlacesFirmes

-----------------------------------------------------------------------------
(* The account and its tokens *)

LEMMA PeticionesDeAcceso == DePeticiones(PeticionAcceso)
  BY NadaNoEsAcceso DEF DePeticiones, PeticionAcceso

\* Claims of a version that is not ahead of the account's, and that are right if
\* it is the account's.
Vale(rol, v, alta) ==
    /\ v <= cuenta.version
    /\ v = cuenta.version => rol \in {Nada, cuenta.rol} /\ (alta \/ cuenta.status = "active")

\* The version a change will write is ahead of the account's, unless it is behind.
SabeDeCuenta(h) ==
    LET p == peticion[h]
        d == p.dato
    IN  p # Nada =>
        /\ p.op = "registrar" => d \in Roles
        /\ p.op # "registrar" => cuenta # Nada
        /\ p.op = "login" =>
                /\ d \in [rol: Roles, version: 1..MaxVersion]
                /\ ~obsoleta => Vale(d.rol, d.version, FALSE)
        /\ p.op = "gestionar" =>
                /\ d \in [rol: Roles \cup {Nada}, status: Estados \cup {Nada}, version: 1..MaxVersion]
                /\ p.lee = FilaCuenta
                /\ ~p.vieja => d.version > cuenta.version

TokensFirmes ==
    /\ cuenta = Nada => tokens = {}
    /\ ~obsoleta => \A t \in tokens : Vale(t.rol, t.v, t.alta)

SinEnlaces == guardado["celular"] = Nada /\ enlaces = <<>> /\ usos = <<>>

IInvAcceso ==
    /\ Ranuras(PeticionAcceso)
    /\ CodigosFirmes /\ SinEnlaces
    /\ AccesoOK /\ TokensFirmes
    /\ \A h \in Hilos : SabeDeCuenta(h)

\* The account stands as it was for whoever looks at role, status and version.
CuentaIgual ==
    /\ cuenta' = Nada <=> cuenta = Nada
    /\ cuenta # Nada => /\ cuenta'.rol = cuenta.rol /\ cuenta'.status = cuenta.status
                        /\ cuenta'.version = cuenta.version

LEMMA CuentaQueSigue ==
    ASSUME NEW h, NEW W, SabeDeCuenta(h), SigueIgual(h, W), CuentaIgual,
           ~obsoleta' => ~obsoleta
    PROVE  SabeDeCuenta(h)'
  <1>1. CASE peticion[h] = Nada
    BY <1>1 DEF SabeDeCuenta, SigueIgual
  <1>2. CASE peticion[h] # Nada
    <2>1. cuenta # Nada => \A rol, v, alta : Vale(rol, v, alta) => Vale(rol, v, alta)'
      BY DEF Vale, CuentaIgual
    <2>2. QED BY <1>2, <2>1 DEF SabeDeCuenta, SigueIgual, CuentaIgual
  <1>3. QED BY <1>1, <1>2

LEMMA TokensQueSiguen ==
    ASSUME TokensFirmes, CuentaIgual, ~obsoleta' => ~obsoleta, tokens' = tokens
    PROVE  TokensFirmes'
  <1>1. cuenta # Nada => \A rol, v, alta : Vale(rol, v, alta) => Vale(rol, v, alta)'
    BY DEF Vale, CuentaIgual
  <1>2. QED BY <1>1 DEF TokensFirmes, CuentaIgual

\* A pair of tokens with claims that are right.
LEMMA ParejaFirme ==
    ASSUME TokensFirmes, AccesoOK, cuenta # Nada, NEW rol \in Roles, NEW v \in 1..MaxVersion,
           NEW alta \in BOOLEAN,
           ~obsoleta => Vale(rol, v, alta),
           tokens' = tokens \cup Pareja(rol, v, alta),
           cuenta' = cuenta, ~obsoleta' => ~obsoleta
    PROVE  TokensFirmes' /\ AccesoOK'
  <1>1. ASSUME NEW t \in Pareja(rol, v, alta)
        PROVE  /\ t \in [rol: Roles \cup {Nada}, v: 1..MaxVersion, alta: BOOLEAN]
               /\ t.rol \in {rol, Nada} /\ t.v = v /\ t.alta = alta
    <2>1. PICK r \in {rol, Nada} : t = [rol |-> r, v |-> v, alta |-> alta]
      BY DEF Pareja
    <2>2. QED BY <2>1
  <1>2. ASSUME ~obsoleta', NEW t \in tokens'
        PROVE  Vale(t.rol, t.v, t.alta)'
    <2>1. CASE t \in tokens
      BY <1>2, <2>1 DEF TokensFirmes, Vale
    <2>2. CASE t \in Pareja(rol, v, alta)
      <3>1. Vale(rol, v, alta)
        BY <1>2
      <3>2. /\ t.rol \in {rol, Nada} /\ t.v = v /\ t.alta = alta
        BY <1>1, <2>2
      <3>3. QED BY <3>1, <3>2 DEF Vale
    <2>3. QED BY <1>2, <2>1, <2>2
  <1>3. TokensFirmes'
    BY <1>2 DEF TokensFirmes
  <1>4. AccesoOK'
    BY <1>1 DEF AccesoOK
  <1>5. QED BY <1>3, <1>4

\* A login, in one step or in two, remembers claims that are right.
LEMMA Identifica ==
    ASSUME IInvAcceso, NEW h \in Hilos, Activa, Identificado(h)
    PROVE  /\ Ranuras(PeticionAcceso)' /\ AccesoOK' /\ TokensFirmes'
           /\ \A g \in Hilos : SabeDeCuenta(g)'
  <1>0. /\ Ranuras(PeticionAcceso) /\ DePeticiones(PeticionAcceso) /\ AccesoOK /\ TokensFirmes
        /\ \A g \in Hilos : SabeDeCuenta(g)
        /\ cuenta # Nada /\ cuenta.status = "active"
        /\ cuenta \in [rol: Roles, status: Estados, version: 1..MaxVersion, dosPasos: BOOLEAN]
    BY PeticionesDeAcceso DEF IInvAcceso, Activa, AccesoOK, CuentaRow
  <1>1. PICK d : d = [rol |-> cuenta.rol, version |-> cuenta.version]
    OBVIOUS
  <1>2. d \in [rol: Roles, version: 1..MaxVersion] /\ d.rol = cuenta.rol /\ d.version = cuenta.version
    BY <1>0, <1>1
  <1>3. Llega(h, "login", {}, d) /\ cuenta' = cuenta /\ tokens' = tokens
    BY <1>1 DEF Identificado, accesoVars
  <1>4. PeticionNueva("login", {}, d) \in PeticionAcceso
    BY <1>2 DEF PeticionNueva, PeticionAcceso, Peticion
  <1>5. /\ Ranuras(PeticionAcceso)' /\ obsoleta' = obsoleta
        /\ peticion'[h].op = "login" /\ peticion'[h].dato = d
        /\ \A g \in Hilos \ {h} : peticion'[g] = peticion[g]
    BY <1>0, <1>3, <1>4, AlLlegar
  <1>6. CuentaIgual
    BY <1>3 DEF CuentaIgual
  <1>7. \A g \in Hilos \ {h} : SabeDeCuenta(g)'
    BY <1>0, <1>5, <1>6, CuentaQueSigue, IgualSinAge
  <1>8. Vale(d.rol, d.version, FALSE)'
    BY <1>0, <1>2, <1>3 DEF Vale
  <1>9. SabeDeCuenta(h)'
    BY <1>0, <1>2, <1>3, <1>5, <1>8 DEF SabeDeCuenta
  <1>10. TokensFirmes' /\ AccesoOK'
    BY <1>0, <1>3, <1>5, <1>6, TokensQueSiguen DEF AccesoOK
  <1>11. QED BY <1>5, <1>7, <1>9, <1>10

\* What a step needs that touches neither codes nor links.
LEMMA SinCodigos ==
    ASSUME CodigosFirmes, SinEnlaces, UNCHANGED codigosVars
    PROVE  CodigosFirmes' /\ SinEnlaces'
  BY DEF CodigosFirmes, SinEnlaces, codigosVars

LEMMA PasoAcceso ==
    ASSUME IInvAcceso, NextAcceso
    PROVE  IInvAcceso'
  <1>0. /\ Ranuras(PeticionAcceso) /\ DePeticiones(PeticionAcceso) /\ AccesoOK /\ TokensFirmes
        /\ \A g \in Hilos : SabeDeCuenta(g)
        /\ CodigosFirmes /\ SinEnlaces
        /\ cuenta # Nada =>
                cuenta \in [rol: Roles, status: Estados, version: 1..MaxVersion, dosPasos: BOOLEAN]
        /\ "celular" \in Almacenes /\ "desafio" \in Almacenes \ {"celular"}
        /\ Nada \notin CuentaRow
    BY PeticionesDeAcceso, NadaNoEsAcceso DEF IInvAcceso, AccesoOK, CuentaRow, Almacenes
  <1>1. CASE Reinicio
    <2>1. /\ guardado' = [a \in Almacenes |-> Nada] /\ codigos' = codigos
          /\ enlaces' = [i \in DOMAIN enlaces |-> Nada] /\ usos' = usos /\ SePierden
          /\ cuenta' = cuenta /\ tokens' = tokens
      BY <1>1 DEF Reinicio, Olvida, accesoVars
    <2>2. CodigosFirmes' /\ guardado'["celular"] = Nada
      BY <1>0, <2>1, VaciaFirme
    <2>3. Ranuras(PeticionAcceso)' /\ obsoleta' = obsoleta /\ \A h \in Hilos : peticion'[h] = Nada
      BY <1>0, <2>1, AlPerderse
    <2>4. enlaces' = <<>>
      <3>1. enlaces = <<>> /\ DOMAIN enlaces = {}
        BY <1>0 DEF SinEnlaces
      <3>2. QED BY <2>1, <3>1
    <2>5. CuentaIgual
      BY <2>1 DEF CuentaIgual
    <2>6. TokensFirmes' /\ AccesoOK'
      BY <1>0, <2>1, <2>3, <2>5, TokensQueSiguen DEF AccesoOK
    <2>7. \A h \in Hilos : SabeDeCuenta(h)'
      BY <2>3 DEF SabeDeCuenta
    <2>8. QED BY <1>0, <2>1, <2>2, <2>3, <2>4, <2>6, <2>7 DEF IInvAcceso, SinEnlaces
  <1>2. CASE LoginDosPasos
    <2>1. /\ Genera("desafio") /\ cuenta' = cuenta /\ tokens' = tokens
          /\ enlaces' = enlaces /\ usos' = usos /\ peticion' = peticion /\ obsoleta' = obsoleta
      BY <1>2 DEF LoginDosPasos, accesoVars, servidor
    <2>2. CodigosFirmes' /\ guardado'["celular"] = guardado["celular"]
      BY <1>0, <2>1, GeneraFirme
    <2>3. CuentaIgual
      BY <2>1 DEF CuentaIgual
    <2>4. TokensFirmes' /\ AccesoOK'
      BY <1>0, <2>1, <2>3, TokensQueSiguen DEF AccesoOK
    <2>5. \A h \in Hilos : SabeDeCuenta(h)'
      BY <1>0, <2>1, <2>3, CuentaQueSigue, IgualSinAge
    <2>6. QED BY <1>0, <2>1, <2>2, <2>4, <2>5 DEF IInvAcceso, SinEnlaces, Ranuras
  <1>3. CASE CodigoVence("desafio") /\ UNCHANGED accesoVars
    <2>1. /\ cuenta' = cuenta /\ tokens' = tokens
          /\ enlaces' = enlaces /\ usos' = usos /\ peticion' = peticion /\ obsoleta' = obsoleta
      BY <1>3 DEF CodigoVence, accesoVars, servidor
    <2>2. CodigosFirmes' /\ guardado'["celular"] = guardado["celular"]
      BY <1>0, <1>3, VenceFirme
    <2>3. CuentaIgual
      BY <2>1 DEF CuentaIgual
    <2>4. TokensFirmes' /\ AccesoOK'
      BY <1>0, <2>1, <2>3, TokensQueSiguen DEF AccesoOK
    <2>5. \A h \in Hilos : SabeDeCuenta(h)'
      BY <1>0, <2>1, <2>3, CuentaQueSigue, IgualSinAge
    <2>6. QED BY <1>0, <2>1, <2>2, <2>4, <2>5 DEF IInvAcceso, SinEnlaces, Ranuras
  <1>4. ASSUME NEW t \in tokens, Renovar(t)
        PROVE  IInvAcceso'
    <2>1. /\ cuenta # Nada /\ cuenta.status = "active"
          /\ tokens' = tokens \cup Pareja(cuenta.rol, cuenta.version, FALSE)
          /\ cuenta' = cuenta /\ UNCHANGED codigosVars /\ peticion' = peticion /\ obsoleta' = obsoleta
      BY <1>4 DEF Renovar, Activa, servidor
    <2>2. Vale(cuenta.rol, cuenta.version, FALSE)
      BY <1>0, <2>1 DEF Vale
    <2>3. TokensFirmes' /\ AccesoOK'
      BY <1>0, <2>1, <2>2, ParejaFirme
    <2>4. CuentaIgual
      BY <2>1 DEF CuentaIgual
    <2>5. \A h \in Hilos : SabeDeCuenta(h)'
      BY <1>0, <2>1, <2>4, CuentaQueSigue, IgualSinAge
    <2>6. QED BY <1>0, <2>1, <2>3, <2>5, SinCodigos DEF IInvAcceso, Ranuras
  <1>5. ASSUME NEW b \in BOOLEAN, CambiarDosPasos(b)
        PROVE  IInvAcceso'
    <2>1. /\ cuenta # Nada /\ cuenta' = [cuenta EXCEPT !.dosPasos = b]
          /\ tokens' = tokens /\ UNCHANGED codigosVars /\ peticion' = peticion /\ obsoleta' = obsoleta
      BY <1>5 DEF CambiarDosPasos, servidor
    <2>2. /\ cuenta' \in CuentaRow /\ cuenta'.rol = cuenta.rol /\ cuenta'.status = cuenta.status
          /\ cuenta'.version = cuenta.version
      BY <1>0, <2>1 DEF CuentaRow
    <2>3. CuentaIgual
      BY <1>0, <2>1, <2>2 DEF CuentaIgual
    <2>4. TokensFirmes' /\ AccesoOK'
      BY <1>0, <2>1, <2>2, <2>3, TokensQueSiguen DEF AccesoOK
    <2>5. \A h \in Hilos : SabeDeCuenta(h)'
      BY <1>0, <2>1, <2>3, CuentaQueSigue, IgualSinAge
    <2>6. QED BY <1>0, <2>1, <2>4, <2>5, SinCodigos DEF IInvAcceso, Ranuras
  <1>6. ASSUME NEW h \in Hilos, CommitRegistrar(h)
        PROVE  IInvAcceso'
    <2>1. /\ peticion[h] # Nada /\ cuenta = Nada /\ peticion[h].dato \in Roles
          /\ cuenta' = [rol |-> peticion[h].dato, status |-> "active", version |-> 1, dosPasos |-> FALSE]
          /\ tokens' = tokens /\ UNCHANGED codigosVars
          /\ Sigue(h, FilaCuenta, "entregar", {}, Nada) \/ Termina(h, FilaCuenta)
      BY <1>0, <1>6 DEF CommitRegistrar, EnCurso, Dato, SabeDeCuenta
    <2>2. cuenta' \in CuentaRow /\ cuenta' # Nada
      <3>1. 1 \in 1..MaxVersion
        BY MaxVersionEsPositivo
      <3>2. cuenta' \in CuentaRow
        BY <2>1, <3>1, ActivaEsEstado DEF CuentaRow
      <3>3. QED BY <1>0, <3>2
    <2>3. PeticionNueva("entregar", {}, Nada) \in PeticionAcceso
      BY DEF PeticionNueva, PeticionAcceso, Peticion
    <2>4. /\ Ranuras(PeticionAcceso)'
          /\ peticion'[h] = Nada \/ peticion'[h].op = "entregar"
          /\ \A g \in Hilos \ {h} : SigueIgual(g, FilaCuenta)
      BY <1>0, <2>1, <2>3, AlTerminar, AlSeguir
    <2>5. \A g \in Hilos \ {h} : SabeDeCuenta(g)'
      BY <1>0, <2>1, <2>4 DEF SabeDeCuenta, SigueIgual
    <2>6. SabeDeCuenta(h)'
      BY <2>2, <2>4 DEF SabeDeCuenta
    <2>7. TokensFirmes' /\ AccesoOK'
      BY <1>0, <2>1, <2>2 DEF TokensFirmes, AccesoOK
    <2>8. QED BY <1>0, <2>1, <2>4, <2>5, <2>6, <2>7, SinCodigos DEF IInvAcceso
  <1>7. ASSUME NEW h \in Hilos, EmailTomado(h)
        PROVE  IInvAcceso'
    <2>1. Falla(h) /\ cuenta' = cuenta /\ tokens' = tokens /\ UNCHANGED codigosVars
      BY <1>7 DEF EmailTomado, accesoVars
    <2>2. /\ Ranuras(PeticionAcceso)' /\ obsoleta' = obsoleta /\ peticion'[h] = Nada
          /\ \A g \in Hilos \ {h} : peticion'[g] = peticion[g]
      BY <1>0, <2>1, AlFallar
    <2>3. CuentaIgual
      BY <2>1 DEF CuentaIgual
    <2>4. TokensFirmes' /\ AccesoOK'
      BY <1>0, <2>1, <2>2, <2>3, TokensQueSiguen DEF AccesoOK
    <2>5. \A g \in Hilos \ {h} : SabeDeCuenta(g)'
      BY <1>0, <2>2, <2>3, CuentaQueSigue, IgualSinAge
    <2>6. SabeDeCuenta(h)'
      BY <2>2 DEF SabeDeCuenta
    <2>7. QED BY <1>0, <2>1, <2>2, <2>4, <2>5, <2>6, SinCodigos DEF IInvAcceso
  <1>8. ASSUME NEW h \in Hilos, Entregar(h) \/ CommitLogin(h)
        PROVE  IInvAcceso'
    <2>1. PICK rol, v, alta :
            \/ rol = cuenta.rol /\ v = cuenta.version /\ alta = TRUE /\ Entregar(h)
            \/ rol = peticion[h].dato.rol /\ v = peticion[h].dato.version /\ alta = FALSE /\ CommitLogin(h)
      BY <1>8
    <2>2. /\ peticion[h] # Nada /\ cuenta # Nada
          /\ tokens' = tokens \cup Pareja(rol, v, alta)
          /\ cuenta' = cuenta /\ UNCHANGED codigosVars /\ Termina(h, {})
      BY <1>0, <2>1 DEF Entregar, CommitLogin, EnCurso, Dato, SabeDeCuenta
    <2>3. rol \in Roles /\ v \in 1..MaxVersion /\ alta \in BOOLEAN
      BY <1>0, <2>1, <2>2 DEF Entregar, CommitLogin, EnCurso, SabeDeCuenta
    <2>4. ~obsoleta => Vale(rol, v, alta)
      <3>1. CASE Entregar(h) /\ rol = cuenta.rol /\ v = cuenta.version /\ alta = TRUE
        BY <1>0, <2>2, <3>1 DEF Vale
      <3>2. CASE CommitLogin(h) /\ rol = peticion[h].dato.rol /\ v = peticion[h].dato.version /\ alta = FALSE
        BY <1>0, <2>2, <3>2 DEF CommitLogin, EnCurso, SabeDeCuenta
      <3>3. QED BY <2>1, <3>1, <3>2
    <2>5. /\ Ranuras(PeticionAcceso)' /\ peticion'[h] = Nada
          /\ ~obsoleta' => ~obsoleta
          /\ \A g \in Hilos \ {h} : SigueIgual(g, {})
      BY <1>0, <2>2, AlTerminar
    <2>6. TokensFirmes' /\ AccesoOK'
      BY <1>0, <2>2, <2>3, <2>4, <2>5, ParejaFirme
    <2>7. CuentaIgual
      BY <2>2 DEF CuentaIgual
    <2>8. \A g \in Hilos \ {h} : SabeDeCuenta(g)'
      BY <1>0, <2>5, <2>7, CuentaQueSigue
    <2>9. SabeDeCuenta(h)'
      BY <2>5 DEF SabeDeCuenta
    <2>10. QED BY <1>0, <2>2, <2>5, <2>6, <2>8, <2>9, SinCodigos DEF IInvAcceso
  <1>9. ASSUME NEW h \in Hilos, Login(h)
        PROVE  IInvAcceso'
    <2>1. Activa /\ Identificado(h) /\ UNCHANGED codigosVars
      BY <1>9 DEF Login
    <2>2. QED BY <1>0, <2>1, Identifica, SinCodigos DEF IInvAcceso
  <1>10. ASSUME NEW h \in Hilos, NEW acierta \in BOOLEAN, VerificarDesafio(h, acierta)
         PROVE  IInvAcceso'
    <2>1. /\ Activa /\ Prueba("desafio", acierta) /\ enlaces' = enlaces /\ usos' = usos
          /\ Identificado(h) \/ UNCHANGED <<accesoVars, servidor>>
      BY <1>10 DEF VerificarDesafio
    <2>2. CodigosFirmes' /\ guardado'["celular"] = guardado["celular"]
      BY <1>0, <2>1, PruebaFirme
    <2>3. SinEnlaces'
      BY <1>0, <2>1, <2>2 DEF SinEnlaces
    <2>4. CASE Identificado(h)
      BY <2>1, <2>2, <2>3, <2>4, Identifica DEF IInvAcceso
    <2>5. CASE UNCHANGED <<accesoVars, servidor>>
      <3>1. cuenta' = cuenta /\ tokens' = tokens /\ peticion' = peticion /\ obsoleta' = obsoleta
        BY <2>5 DEF accesoVars, servidor
      <3>2. CuentaIgual
        BY <3>1 DEF CuentaIgual
      <3>3. TokensFirmes' /\ AccesoOK'
        BY <1>0, <3>1, <3>2, TokensQueSiguen DEF AccesoOK
      <3>4. \A g \in Hilos : SabeDeCuenta(g)'
        BY <1>0, <3>1, <3>2, CuentaQueSigue, IgualSinAge
      <3>5. QED BY <1>0, <2>2, <2>3, <3>1, <3>3, <3>4 DEF IInvAcceso, Ranuras
    <2>6. QED BY <2>1, <2>4, <2>5
  <1>11. ASSUME NEW h \in Hilos, NEW rol \in Roles, Registrar(h, rol)
         PROVE  IInvAcceso'
    <2>1. /\ cuenta = Nada /\ Llega(h, "registrar", FilaCuenta, rol)
          /\ cuenta' = cuenta /\ tokens' = tokens /\ UNCHANGED codigosVars
      BY <1>11 DEF Registrar, accesoVars
    <2>2. PeticionNueva("registrar", FilaCuenta, rol) \in PeticionAcceso
      BY DEF PeticionNueva, PeticionAcceso, Peticion, FilaCuenta
    <2>3. /\ Ranuras(PeticionAcceso)' /\ obsoleta' = obsoleta
          /\ peticion'[h].op = "registrar" /\ peticion'[h].dato = rol
          /\ \A g \in Hilos \ {h} : peticion'[g] = peticion[g]
      BY <1>0, <2>1, <2>2, AlLlegar
    <2>4. CuentaIgual
      BY <2>1 DEF CuentaIgual
    <2>5. \A g \in Hilos \ {h} : SabeDeCuenta(g)'
      BY <1>0, <2>3, <2>4, CuentaQueSigue, IgualSinAge
    <2>6. SabeDeCuenta(h)'
      BY <2>3 DEF SabeDeCuenta
    <2>7. TokensFirmes' /\ AccesoOK'
      BY <1>0, <2>1, <2>3, <2>4, TokensQueSiguen DEF AccesoOK
    <2>8. QED BY <1>0, <2>1, <2>3, <2>5, <2>6, <2>7, SinCodigos DEF IInvAcceso
  <1>12. ASSUME NEW h \in Hilos, NEW c \in Cambios, Gestionar(h, c)
         PROVE  IInvAcceso'
    <2>1. /\ cuenta # Nada /\ Sube(c) > 0 /\ cuenta.version + Sube(c) <= MaxVersion
          /\ Llega(h, "gestionar", FilaCuenta,
                   [rol |-> SiCambiaCuenta(c.rol, cuenta.rol),
                    status |-> SiCambiaCuenta(c.status, cuenta.status),
                    version |-> cuenta.version + Sube(c)])
          /\ cuenta' = cuenta /\ tokens' = tokens /\ UNCHANGED codigosVars
      <3>1. Sube(c) \in Nat
        BY DEF Sube
      <3>2. QED BY <1>12, <3>1 DEF Gestionar, Admisible, accesoVars
    <2>2. PICK v : v = cuenta.version + Sube(c)
      OBVIOUS
    <2>3. v \in 1..MaxVersion /\ v > cuenta.version
      <3>1. Sube(c) \in Nat
        BY DEF Sube
      <3>2. cuenta.version \in 1..MaxVersion
        BY <1>0, <2>1
      <3>3. QED BY <2>1, <2>2, <3>1, <3>2, MaxVersionEsPositivo
    <2>4. PICK r \in Roles \cup {Nada} : r = SiCambiaCuenta(c.rol, cuenta.rol)
      BY DEF SiCambiaCuenta, Cambios
    <2>5. PICK s \in Estados \cup {Nada} : s = SiCambiaCuenta(c.status, cuenta.status)
      BY DEF SiCambiaCuenta, Cambios
    <2>6. PICK d : d = [rol |-> r, status |-> s, version |-> v]
      OBVIOUS
    <2>7. /\ d \in [rol: Roles \cup {Nada}, status: Estados \cup {Nada}, version: 1..MaxVersion]
          /\ d.version = v
      BY <2>3, <2>6
    <2>8. Llega(h, "gestionar", FilaCuenta, d)
      BY <2>1, <2>2, <2>4, <2>5, <2>6
    <2>9. PeticionNueva("gestionar", FilaCuenta, d) \in PeticionAcceso
      BY <2>7 DEF PeticionNueva, PeticionAcceso, Peticion, FilaCuenta
    <2>10. /\ Ranuras(PeticionAcceso)' /\ obsoleta' = obsoleta
           /\ peticion'[h].op = "gestionar" /\ peticion'[h].dato = d /\ peticion'[h].lee = FilaCuenta
           /\ \A g \in Hilos \ {h} : peticion'[g] = peticion[g]
      BY <1>0, <2>8, <2>9, AlLlegar
    <2>11. CuentaIgual
      BY <2>1 DEF CuentaIgual
    <2>12. \A g \in Hilos \ {h} : SabeDeCuenta(g)'
      BY <1>0, <2>10, <2>11, CuentaQueSigue, IgualSinAge
    <2>13. SabeDeCuenta(h)'
      BY <2>1, <2>3, <2>7, <2>10 DEF SabeDeCuenta, FilaCuenta
    <2>14. TokensFirmes' /\ AccesoOK'
      BY <1>0, <2>1, <2>10, <2>11, TokensQueSiguen DEF AccesoOK
    <2>15. QED BY <1>0, <2>1, <2>10, <2>12, <2>13, <2>14, SinCodigos DEF IInvAcceso
  <1>13. ASSUME NEW h \in Hilos, CommitGestionar(h)
         PROVE  IInvAcceso'
    <2>1. PICK d : d = peticion[h].dato
      OBVIOUS
    <2>2. /\ peticion[h] # Nada /\ cuenta # Nada
          /\ d \in [rol: Roles \cup {Nada}, status: Estados \cup {Nada}, version: 1..MaxVersion]
          /\ ~peticion[h].vieja => d.version > cuenta.version
          /\ cuenta' = [cuenta EXCEPT !.rol = IF d.rol = Nada THEN @ ELSE d.rol,
                                      !.status = IF d.status = Nada THEN @ ELSE d.status,
                                      !.version = d.version]
          /\ Termina(h, FilaCuenta) /\ tokens' = tokens /\ UNCHANGED codigosVars
      BY <1>0, <1>13, <2>1 DEF CommitGestionar, EnCurso, Dato, SabeDeCuenta
    <2>3. cuenta' \in CuentaRow /\ cuenta'.version = d.version /\ cuenta' # Nada
      <3>1. PICK r \in Roles : r = IF d.rol = Nada THEN cuenta.rol ELSE d.rol
        BY <1>0, <2>2
      <3>2. PICK s \in Estados : s = IF d.status = Nada THEN cuenta.status ELSE d.status
        BY <1>0, <2>2
      <3>3. cuenta' = [cuenta EXCEPT !.rol = r, !.status = s, !.version = d.version]
        BY <1>0, <2>2, <3>1, <3>2
      <3>4. cuenta' \in CuentaRow /\ cuenta'.version = d.version
        BY <1>0, <2>2, <3>3 DEF CuentaRow
      <3>5. QED BY <1>0, <3>4
    <2>4. /\ Ranuras(PeticionAcceso)' /\ peticion'[h] = Nada
          /\ ~obsoleta' => ~obsoleta /\ ~peticion[h].vieja
          /\ \A g \in Hilos \ {h} : SigueIgual(g, FilaCuenta)
      BY <1>0, <2>2, AlTerminar
    <2>5. cuenta.version \in Nat /\ d.version \in Nat
      BY <1>0, <2>2, MaxVersionEsPositivo
    <2>6. ~obsoleta' => \A rol, alta : \A v \in Nat : Vale(rol, v, alta) => Vale(rol, v, alta)'
      BY <2>2, <2>3, <2>4, <2>5 DEF Vale
    <2>7. TokensFirmes'
      <3>1. \A t \in tokens : t.v \in Nat
        BY <1>0, MaxVersionEsPositivo DEF AccesoOK
      <3>2. QED BY <1>0, <2>2, <2>3, <2>4, <2>6, <3>1 DEF TokensFirmes
    <2>8. ASSUME NEW g \in Hilos \ {h}
          PROVE  SabeDeCuenta(g)'
      <3>1. SabeDeCuenta(g) /\ SigueIgual(g, FilaCuenta)
        BY <1>0, <2>4
      <3>2. FilaCuenta \cap FilaCuenta # {}
        BY DEF FilaCuenta
      <3>3. CASE peticion[g] = Nada
        BY <3>1, <3>3 DEF SabeDeCuenta, SigueIgual
      <3>4. CASE peticion[g] # Nada /\ peticion[g].op = "gestionar"
        BY <2>3, <3>1, <3>2, <3>4 DEF SabeDeCuenta, SigueIgual
      <3>5. CASE peticion[g] # Nada /\ peticion[g].op = "login"
        <4>0. peticion[g].dato \in [rol: Roles, version: 1..MaxVersion]
          BY <3>1, <3>5 DEF SabeDeCuenta
        <4>1. peticion[g].dato.version \in Nat
          BY <4>0, MaxVersionEsPositivo
        <4>2. QED BY <2>3, <2>4, <2>6, <3>1, <3>5, <4>1 DEF SabeDeCuenta, SigueIgual
      <3>6. CASE peticion[g] # Nada /\ peticion[g].op \notin {"login", "gestionar"}
        BY <2>3, <3>1, <3>6 DEF SabeDeCuenta, SigueIgual
      <3>7. QED BY <3>3, <3>4, <3>5, <3>6
    <2>9. SabeDeCuenta(h)'
      BY <2>4 DEF SabeDeCuenta
    <2>10. AccesoOK'
      BY <1>0, <2>2, <2>3 DEF AccesoOK
    <2>11. QED BY <1>0, <2>2, <2>4, <2>7, <2>8, <2>9, <2>10, SinCodigos DEF IInvAcceso
  <1>14. QED BY <1>1, <1>2, <1>3, <1>4, <1>5, <1>6, <1>7, <1>8, <1>9, <1>10, <1>11, <1>12, <1>13
             DEF NextAcceso

LEMMA AccesoQuieto ==
    ASSUME IInvAcceso, UNCHANGED <<accesoVars, codigosVars, servidor>>
    PROVE  IInvAcceso'
  <1>1. /\ cuenta' = cuenta /\ tokens' = tokens /\ peticion' = peticion /\ obsoleta' = obsoleta
        /\ UNCHANGED codigosVars
    BY DEF accesoVars, servidor
  <1>2. CuentaIgual
    BY <1>1 DEF CuentaIgual
  <1>3. TokensFirmes' /\ AccesoOK'
    BY <1>1, <1>2, TokensQueSiguen DEF AccesoOK, IInvAcceso
  <1>4. \A g \in Hilos : SabeDeCuenta(g)'
    BY <1>1, <1>2, CuentaQueSigue, IgualSinAge DEF IInvAcceso
  <1>5. QED BY <1>1, <1>3, <1>4, SinCodigos DEF IInvAcceso, Ranuras

LEMMA AccesoAlInicio ==
    ASSUME InitAcceso, InitCodigos
    PROVE  /\ AccesoOK /\ TokenVigenteEnSerie
           /\ Ranuras(PeticionAcceso) /\ (\A h \in Hilos : peticion[h] = Nada) => IInvAcceso
  <1>1. cuenta = Nada /\ tokens = {}
    BY DEF InitAcceso
  <1>2. AccesoOK /\ TokensFirmes
    BY <1>1 DEF AccesoOK, TokensFirmes
  <1>3. QED BY <1>1, <1>2, CodigosAlInicio DEF IInvAcceso, SabeDeCuenta, SinEnlaces, TokenVigenteEnSerie

LEMMA AlcanzaElAcceso ==
    ASSUME IInvAcceso
    PROVE  /\ AccesoOK /\ TokenVigenteEnSerie
           /\ CodigosFirmes /\ EnlacesFirmes /\ CelularEnviado
  <1>1. TokenVigenteEnSerie
    BY DEF IInvAcceso, TokensFirmes, TokenVigenteEnSerie, Vale
  <1>2. EnlacesFirmes /\ CelularEnviado
    BY EmptySeq DEF IInvAcceso, SinEnlaces, EnlacesFirmes, EnlaceUnaVezEnSerie, CelularEnviado
  <1>3. QED BY <1>1, <1>2 DEF IInvAcceso

-----------------------------------------------------------------------------
(* Documents of identity *)

LEMMA PeticionesDeDocumentos == DePeticiones(PeticionVerificacion)
  BY NadaNoEsDocumento DEF DePeticiones, PeticionVerificacion

\* The documents once row i has estado e.
ConEstado(docs, i, e) == [docs EXCEPT ![i].estado = e]

\* A request points at a row there is; a decision that no commit overtook has
\* read every row, and its flag is the one the documents will deserve.
SabeDelDocumento(h) ==
    LET p == peticion[h]
        d == p.dato
    IN  p # Nada =>
        /\ p.op = "subir" =>
                /\ d \in [doc: Documentos, fila: Nat, era: EstadoDocumento \cup {Nada}]
                /\ d.fila # 0 => d.fila \in DOMAIN documentos
        /\ p.op = "revisar" =>
                /\ d \in [fila: Nat, decision: EstadoDocumento, era: EstadoDocumento]
                /\ d.fila \in DOMAIN documentos
        /\ p.op = "revision" =>
                /\ d \in [fila: Nat, estado: EstadoDocumento, verificado: BOOLEAN, cargado: BOOLEAN]
                /\ d.fila \in DOMAIN documentos
                /\ ~p.vieja =>
                    /\ TodosLosDocumentos \cup {<<"perfil">>} \subseteq p.lee
                    /\ d.verificado <=> Completos(ConEstado(documentos, d.fila, d.estado))
                    /\ d.cargado = verificado

IInvVerificacion ==
    /\ Ranuras(PeticionVerificacion)
    /\ VerificacionOK /\ VerificadoEnSerie
    /\ \A h \in Hilos : SabeDelDocumento(h)

LEMMA DocumentosSon ==
    ASSUME VerificacionOK
    PROVE  /\ documentos \in Seq(DocumentoRow) /\ Len(documentos) \in Nat
           /\ DOMAIN documentos = 1..Len(documentos)
           /\ \A i \in DOMAIN documentos : documentos[i] \in DocumentoRow
  <1>1. documentos \in Seq(DocumentoRow)
    BY DEF VerificacionOK
  <1>2. QED BY <1>1, LenProperties, ElementOfSeq

LEMMA ConEstadoEs ==
    ASSUME NEW docs \in Seq(DocumentoRow), NEW i \in DOMAIN docs, NEW e \in EstadoDocumento
    PROVE  /\ ConEstado(docs, i, e) \in Seq(DocumentoRow)
           /\ Len(ConEstado(docs, i, e)) = Len(docs)
           /\ DOMAIN ConEstado(docs, i, e) = DOMAIN docs
           /\ \A j \in DOMAIN docs :
                /\ ConEstado(docs, i, e)[j].doc = docs[j].doc
                /\ j = i => ConEstado(docs, i, e)[j].estado = e
                /\ j # i => ConEstado(docs, i, e)[j].estado = docs[j].estado
  <1>1. docs[i] \in DocumentoRow
    BY ElementOfSeq
  <1>2. PICK r : r = [docs[i] EXCEPT !.estado = e]
    OBVIOUS
  <1>3. r \in DocumentoRow /\ r.doc = docs[i].doc /\ r.estado = e
    BY <1>1, <1>2 DEF DocumentoRow
  <1>4. DOMAIN docs = 1..Len(docs) /\ Len(docs) \in Nat
    BY LenProperties
  <1>5. /\ [docs EXCEPT ![i] = r] \in Seq(DocumentoRow)
        /\ Len([docs EXCEPT ![i] = r]) = Len(docs)
        /\ \A j \in 1..Len(docs) : [docs EXCEPT ![i] = r][j] = IF i = j THEN r ELSE docs[j]
    BY <1>3, <1>4, ExceptSeq
  <1>6. ConEstado(docs, i, e) = [docs EXCEPT ![i] = r]
    BY <1>2 DEF ConEstado
  <1>7. DOMAIN ConEstado(docs, i, e) = 1..Len(docs)
    BY <1>4, <1>5, <1>6, LenProperties
  <1>8. QED BY <1>3, <1>4, <1>5, <1>6, <1>7

\* What a step needs that leaves alone the rows and the flag, or declares one.
LEMMA DocumentoQueSigue ==
    ASSUME NEW h, NEW W, SabeDelDocumento(h), SigueIgual(h, W),
           DOMAIN documentos \subseteq DOMAIN documentos',
           \/ documentos' = documentos /\ verificado' = verificado
           \/ (TodosLosDocumentos \cup {<<"perfil">>}) \cap W # {}
    PROVE  SabeDelDocumento(h)'
  <1>1. CASE documentos' = documentos /\ verificado' = verificado
    BY <1>1 DEF SabeDelDocumento, SigueIgual, TodosLosDocumentos
  <1>2. CASE (TodosLosDocumentos \cup {<<"perfil">>}) \cap W # {}
    BY <1>2 DEF SabeDelDocumento, SigueIgual
  <1>3. QED BY <1>1, <1>2

\* The rows and the flag stay.
LEMMA DocumentosIguales ==
    ASSUME IInvVerificacion, Ranuras(PeticionVerificacion)', documentos' = documentos,
           verificado' = verificado, ~obsoleta' => ~obsoleta,
           NEW h \in Hilos, SabeDelDocumento(h)',
           \A g \in Hilos \ {h} : peticion'[g] = peticion[g]
    PROVE  IInvVerificacion'
  <1>1. \A g \in Hilos : SabeDelDocumento(g)'
    BY DocumentoQueSigue, IgualSinAge DEF IInvVerificacion
  <1>2. VerificacionOK' /\ VerificadoEnSerie'
    BY DEF IInvVerificacion, VerificacionOK, VerificadoEnSerie, FilasDe, Completos
  <1>3. QED BY <1>1, <1>2 DEF IInvVerificacion

\* The rows change as W declares.
LEMMA DocumentosEscritos ==
    ASSUME IInvVerificacion, NEW h \in Hilos, NEW W, peticion[h] # Nada, Termina(h, W),
           DOMAIN documentos \subseteq DOMAIN documentos',
           (TodosLosDocumentos \cup {<<"perfil">>}) \cap W # {},
           VerificacionOK', ~peticion[h].vieja => VerificadoEnSerie'
    PROVE  IInvVerificacion'
  <1>1. Ranuras(PeticionVerificacion) /\ DePeticiones(PeticionVerificacion)
    BY PeticionesDeDocumentos DEF IInvVerificacion
  <1>2. /\ Ranuras(PeticionVerificacion)' /\ peticion'[h] = Nada
        /\ ~obsoleta' => ~obsoleta /\ ~peticion[h].vieja
        /\ \A g \in Hilos \ {h} : SigueIgual(g, W)
    BY <1>1, AlTerminar
  <1>3. \A g \in Hilos \ {h} : SabeDelDocumento(g)'
    BY <1>2, DocumentoQueSigue DEF IInvVerificacion
  <1>4. SabeDelDocumento(h)'
    BY <1>2 DEF SabeDelDocumento
  <1>5. VerificadoEnSerie'
    BY <1>2 DEF VerificadoEnSerie
  <1>6. QED BY <1>2, <1>3, <1>4, <1>5 DEF IInvVerificacion

\* A request arrives with what it loads.
LEMMA DocumentosPedidos ==
    ASSUME IInvVerificacion, NEW h \in Hilos, NEW op \in {"subir", "revisar"},
           NEW lee \in SUBSET ({<<"documentos">>, <<"perfil">>} \cup {"documento"} \X Nat),
           NEW d, op = "subir" =>
                    /\ d \in [doc: Documentos, fila: Nat, era: EstadoDocumento \cup {Nada}]
                    /\ d.fila # 0 => d.fila \in DOMAIN documentos,
           op = "revisar" =>
                    /\ d \in [fila: Nat, decision: EstadoDocumento, era: EstadoDocumento]
                    /\ d.fila \in DOMAIN documentos,
           Llega(h, op, lee, d), UNCHANGED verificacionVars
    PROVE  IInvVerificacion'
  <1>1. PeticionNueva(op, lee, d) \in PeticionVerificacion
    BY DEF PeticionNueva, PeticionVerificacion, Peticion
  <1>2. /\ Ranuras(PeticionVerificacion)' /\ obsoleta' = obsoleta
        /\ peticion'[h].op = op /\ peticion'[h].dato = d
        /\ \A g \in Hilos \ {h} : peticion'[g] = peticion[g]
    BY <1>1, AlLlegar, PeticionesDeDocumentos DEF IInvVerificacion
  <1>3. documentos' = documentos /\ verificado' = verificado
    BY DEF verificacionVars
  <1>4. SabeDelDocumento(h)'
    BY <1>2, <1>3 DEF SabeDelDocumento
  <1>5. QED BY <1>2, <1>3, <1>4, DocumentosIguales

LEMMA PasoSubir ==
    ASSUME IInvVerificacion, NEW h \in Hilos, CommitSubir(h)
    PROVE  IInvVerificacion'
  <1>0. /\ documentos \in Seq(DocumentoRow) /\ Len(documentos) \in Nat
        /\ DOMAIN documentos = 1..Len(documentos)
        /\ \A i \in DOMAIN documentos : documentos[i] \in DocumentoRow
        /\ VerificacionOK /\ VerificadoEnSerie
    BY DocumentosSon DEF IInvVerificacion
  <1>1. PICK d : d = peticion[h].dato
    OBVIOUS
  <1>2. /\ peticion[h] # Nada
        /\ d \in [doc: Documentos, fila: Nat, era: EstadoDocumento \cup {Nada}]
        /\ d.fila # 0 => d.fila \in DOMAIN documentos
        /\ verificado' = verificado
    BY <1>1 DEF CommitSubir, EnCurso, IInvVerificacion, SabeDelDocumento
  <1>3. CASE d.fila = 0
    <2>1. PICK r : r = [doc |-> d.doc, estado |-> "enviado"]
      OBVIOUS
    <2>2. r \in DocumentoRow /\ r.doc = d.doc /\ r.estado = "enviado"
      BY <1>2, <2>1 DEF DocumentoRow, EstadoDocumento
    <2>3. PICK n \in Nat : n = Len(documentos)
      BY <1>0
    <2>4. /\ ~Repetido(d.doc) /\ documentos' = Append(documentos, r)
          /\ Termina(h, {<<"documentos">>, Documento(Len(documentos'))})
      BY <1>1, <1>3, <2>1 DEF CommitSubir, Dato
    <2>5. /\ documentos' \in Seq(DocumentoRow) /\ Len(documentos') = n + 1
          /\ \A i \in 1..n : documentos'[i] = documentos[i]
          /\ documentos'[n + 1] = r
      BY <1>0, <2>2, <2>3, <2>4, AppendProperties
    <2>6. DOMAIN documentos' = 1..(n + 1) /\ DOMAIN documentos = 1..n
      BY <1>0, <2>3, <2>5, LenProperties
    <2>7. \A i \in DOMAIN documentos' :
            \/ i \in DOMAIN documentos /\ documentos'[i] = documentos[i]
            \/ i = n + 1 /\ documentos'[i] = r
      BY <2>5, <2>6
    <2>8. VerificacionOK'
      <3>1. ASSUME NEW doc \in Multiples \X Instancias, NEW i \in DOMAIN documentos',
                   NEW j \in DOMAIN documentos', documentos'[i].doc = doc, documentos'[j].doc = doc
            PROVE  i = j
        <4>1. CASE doc = d.doc
          <5>1. doc[2] # Nada
            BY NadaNoEsDocumento
          <5>2. \A k \in DOMAIN documentos : documentos[k].doc # doc
            BY <2>4, <4>1, <5>1 DEF Repetido, FilasDe
          <5>3. QED BY <2>7, <3>1, <5>2
        <4>2. CASE doc # d.doc
          <5>1. i \in DOMAIN documentos /\ j \in DOMAIN documentos
                /\ documentos[i].doc = doc /\ documentos[j].doc = doc
            BY <2>2, <2>7, <3>1, <4>2
          <5>2. QED BY <1>0, <5>1 DEF VerificacionOK, FilasDe
        <4>3. QED BY <4>1, <4>2
      <3>2. QED BY <1>0, <1>2, <2>5, <3>1 DEF VerificacionOK, FilasDe
    <2>9. ~obsoleta => (Completos(documentos') => Completos(documentos))
      BY <2>2, <2>7 DEF Completos
    <2>10. \A i \in DOMAIN documentos : i \in DOMAIN documentos' /\ documentos'[i] = documentos[i]
      BY <2>5, <2>6
    <2>11. ~obsoleta => /\ Completos(documentos') => verificado'
                        /\ verificado' => \A clave \in Unicos \cup Multiples :
                                \E i \in DOMAIN documentos' :
                                    documentos'[i].doc[1] = clave /\ documentos'[i].estado # "rechazado"
      BY <1>0, <1>2, <2>9, <2>10 DEF VerificadoEnSerie
    <2>12. ~peticion[h].vieja => VerificadoEnSerie'
      <3>1. ~obsoleta' => ~obsoleta
        BY <2>4, AlTerminar, PeticionesDeDocumentos, <1>2 DEF IInvVerificacion
      <3>2. QED BY <2>11, <3>1 DEF VerificadoEnSerie
    <2>13. (TodosLosDocumentos \cup {<<"perfil">>})
                \cap {<<"documentos">>, Documento(Len(documentos'))} # {}
      BY DEF TodosLosDocumentos
    <2>14. DOMAIN documentos \subseteq DOMAIN documentos'
      BY <2>6
    <2>15. QED BY <1>2, <2>4, <2>8, <2>12, <2>13, <2>14, DocumentosEscritos
  <1>4. CASE d.fila # 0
    <2>1. d.fila \in DOMAIN documentos
      BY <1>2, <1>4
    <2>2. PICK e : e = IF d.era = "enviado" THEN documentos[d.fila].estado ELSE "enviado"
      OBVIOUS
    <2>3. e \in EstadoDocumento /\ (e # "enviado" => e = documentos[d.fila].estado)
      BY <1>0, <2>1, <2>2 DEF EstadoDocumento, DocumentoRow
    <2>4. Termina(h, {Documento(d.fila)})
      BY <1>1, <1>4 DEF CommitSubir, Dato
    <2>5. documentos' = ConEstado(documentos, d.fila, e)
      <3>1. documentos' = [documentos EXCEPT ![d.fila].estado = IF d.era = "enviado" THEN @ ELSE "enviado"]
        BY <1>1, <1>4 DEF CommitSubir, Dato
      <3>2. QED BY <2>1, <2>2, <3>1, <1>0 DEF ConEstado
    <2>6. /\ documentos' \in Seq(DocumentoRow) /\ DOMAIN documentos' = DOMAIN documentos
          /\ \A j \in DOMAIN documentos :
                /\ documentos'[j].doc = documentos[j].doc
                /\ j = d.fila => documentos'[j].estado = e
                /\ j # d.fila => documentos'[j].estado = documentos[j].estado
      <3>1. PICK i \in DOMAIN documentos : i = d.fila
        BY <2>1
      <3>2. PICK docs : docs = ConEstado(documentos, i, e)
        OBVIOUS
      <3>3. /\ docs \in Seq(DocumentoRow) /\ DOMAIN docs = DOMAIN documentos
            /\ \A j \in DOMAIN documentos :
                /\ docs[j].doc = documentos[j].doc
                /\ j = i => docs[j].estado = e
                /\ j # i => docs[j].estado = documentos[j].estado
        BY <1>0, <2>3, <3>2, ConEstadoEs
      <3>4. QED BY <2>5, <3>1, <3>2, <3>3
    <2>7. VerificacionOK'
      BY <1>0, <1>2, <2>6 DEF VerificacionOK, FilasDe
    <2>8. \A j \in DOMAIN documentos :
            /\ documentos'[j].estado = "aprobado" => documentos[j].estado = "aprobado"
            /\ documentos[j].estado # "rechazado" => documentos'[j].estado # "rechazado"
      BY <2>3, <2>6
    <2>9. Completos(documentos') => Completos(documentos)
      BY <2>6, <2>8 DEF Completos
    <2>10. ~obsoleta => /\ Completos(documentos') => verificado'
                        /\ verificado' => \A clave \in Unicos \cup Multiples :
                                \E i \in DOMAIN documentos' :
                                    documentos'[i].doc[1] = clave /\ documentos'[i].estado # "rechazado"
      BY <1>0, <1>2, <2>6, <2>8, <2>9 DEF VerificadoEnSerie
    <2>11. ~peticion[h].vieja => VerificadoEnSerie'
      <3>1. ~obsoleta' => ~obsoleta
        BY <2>4, AlTerminar, PeticionesDeDocumentos, <1>2 DEF IInvVerificacion
      <3>2. QED BY <2>10, <3>1 DEF VerificadoEnSerie
    <2>12. (TodosLosDocumentos \cup {<<"perfil">>}) \cap {Documento(d.fila)} # {}
      BY <2>1 DEF TodosLosDocumentos
    <2>13. QED BY <1>2, <2>4, <2>6, <2>7, <2>11, <2>12, DocumentosEscritos
  <1>5. QED BY <1>3, <1>4

LEMMA PasoRecalcular ==
    ASSUME IInvVerificacion, NEW h \in Hilos, Recalcular(h)
    PROVE  IInvVerificacion'
  <1>0. /\ documentos \in Seq(DocumentoRow)
        /\ DOMAIN documentos = 1..Len(documentos) /\ Len(documentos) \in Nat
        /\ \A i \in DOMAIN documentos : documentos[i] \in DocumentoRow
        /\ verificado \in BOOLEAN
    BY DocumentosSon DEF IInvVerificacion, VerificacionOK
  <1>1. PICK d : d = peticion[h].dato
    OBVIOUS
  <1>2. /\ peticion[h] # Nada
        /\ d \in [fila: Nat, decision: EstadoDocumento, era: EstadoDocumento]
        /\ d.fila \in DOMAIN documentos
        /\ documentos' = documentos /\ verificado' = verificado
    BY <1>1 DEF Recalcular, EnCurso, IInvVerificacion, SabeDelDocumento, verificacionVars
  <1>3. PICK e : e = IF d.era = d.decision THEN documentos[d.fila].estado ELSE d.decision
    OBVIOUS
  <1>4. e \in EstadoDocumento
    BY <1>0, <1>2, <1>3 DEF DocumentoRow
  <1>5. PICK vistos : vistos = ConEstado(documentos, d.fila, e)
    OBVIOUS
  <1>6. vistos[d.fila].estado = e
    <2>1. ConEstado(documentos, d.fila, e)[d.fila].estado = e
      BY <1>0, <1>2, <1>4, ConEstadoEs
    <2>2. QED BY <1>5, <2>1
  <1>7. vistos = [documentos EXCEPT ![d.fila].estado = IF d.era = d.decision THEN @ ELSE d.decision]
    BY <1>0, <1>2, <1>3, <1>5 DEF ConEstado
  <1>8. PICK b \in BOOLEAN : b <=> Completos(vistos)
    OBVIOUS
  <1>9. b = Completos(vistos)
    BY <1>8 DEF Completos
  <1>10. PICK n : n = [fila |-> d.fila, estado |-> e, verificado |-> b, cargado |-> verificado]
    OBVIOUS
  <1>11. /\ n \in [fila: Nat, estado: EstadoDocumento, verificado: BOOLEAN, cargado: BOOLEAN]
         /\ n.fila = d.fila /\ n.estado = e /\ n.verificado = b /\ n.cargado = verificado
    BY <1>0, <1>2, <1>4, <1>10
  <1>12. PICK lee : lee = TodosLosDocumentos \cup {<<"perfil">>}
    OBVIOUS
  <1>13. lee \in SUBSET ({<<"documentos">>, <<"perfil">>} \cup {"documento"} \X Nat)
    BY <1>0, <1>12 DEF TodosLosDocumentos, Documento
  <1>14. Avanza(h, "revision", lee, n)
    BY <1>1, <1>6, <1>7, <1>9, <1>10, <1>12 DEF Recalcular, Dato
  <1>15. PeticionNueva("revision", lee, n) \in PeticionVerificacion
    BY <1>11, <1>13 DEF PeticionNueva, PeticionVerificacion, Peticion
  <1>16. /\ Ranuras(PeticionVerificacion)' /\ obsoleta' = obsoleta
         /\ peticion'[h].op = "revision" /\ peticion'[h].lee = peticion[h].lee \cup lee
         /\ peticion'[h].dato = n
         /\ \A g \in Hilos \ {h} : peticion'[g] = peticion[g]
    BY <1>2, <1>14, <1>15, AlAvanzar, PeticionesDeDocumentos DEF IInvVerificacion
  <1>17. TodosLosDocumentos' = TodosLosDocumentos
    BY <1>2 DEF TodosLosDocumentos
  <1>18. SabeDelDocumento(h)'
    BY <1>2, <1>5, <1>8, <1>11, <1>12, <1>16, <1>17 DEF SabeDelDocumento
  <1>19. QED BY <1>2, <1>16, <1>18, DocumentosIguales

LEMMA PasoRevision ==
    ASSUME IInvVerificacion, NEW h \in Hilos, CommitRevision(h)
    PROVE  IInvVerificacion'
  <1>0. documentos \in Seq(DocumentoRow) /\ VerificacionOK
    BY DocumentosSon DEF IInvVerificacion
  <1>1. PICK d : d = peticion[h].dato
    OBVIOUS
  <1>2. /\ peticion[h] # Nada
        /\ d \in [fila: Nat, estado: EstadoDocumento, verificado: BOOLEAN, cargado: BOOLEAN]
        /\ d.fila \in DOMAIN documentos
        /\ ~peticion[h].vieja =>
                /\ d.verificado <=> Completos(ConEstado(documentos, d.fila, d.estado))
                /\ d.cargado = verificado
    BY <1>1 DEF CommitRevision, EnCurso, IInvVerificacion, SabeDelDocumento
  <1>3. /\ documentos' = ConEstado(documentos, d.fila, d.estado)
        /\ verificado' = (IF d.verificado = d.cargado THEN verificado ELSE d.verificado)
        /\ Termina(h, {Documento(d.fila), <<"perfil">>})
    BY <1>1 DEF CommitRevision, Dato, ConEstado
  <1>4. /\ documentos' \in Seq(DocumentoRow) /\ DOMAIN documentos' = DOMAIN documentos
        /\ \A j \in DOMAIN documentos : documentos'[j].doc = documentos[j].doc
    BY <1>0, <1>2, <1>3, ConEstadoEs
  <1>5. verificado' \in BOOLEAN
    BY <1>0, <1>2, <1>3 DEF VerificacionOK
  <1>6. VerificacionOK'
    BY <1>0, <1>4, <1>5 DEF VerificacionOK, FilasDe
  <1>7. ~peticion[h].vieja => (verificado' <=> Completos(documentos'))
    BY <1>0, <1>2, <1>3 DEF VerificacionOK
  <1>8. ~peticion[h].vieja => VerificadoEnSerie'
    BY <1>7 DEF VerificadoEnSerie, Completos
  <1>9. (TodosLosDocumentos \cup {<<"perfil">>}) \cap {Documento(d.fila), <<"perfil">>} # {}
    OBVIOUS
  <1>10. QED BY <1>2, <1>3, <1>4, <1>6, <1>8, <1>9, DocumentosEscritos

LEMMA PasoVerificacion ==
    ASSUME IInvVerificacion, NextVerificacion
    PROVE  IInvVerificacion'
  <1>0. /\ documentos \in Seq(DocumentoRow)
        /\ DOMAIN documentos = 1..Len(documentos) /\ Len(documentos) \in Nat
        /\ \A i \in DOMAIN documentos : documentos[i] \in DocumentoRow
    BY DocumentosSon DEF IInvVerificacion
  <1>1. ASSUME NEW h \in Hilos, NEW doc \in Documentos, Subir(h, doc)
        PROVE  IInvVerificacion'
    <2>1. CASE FilasDe(doc) = {}
      <3>1. PICK d : d = [doc |-> doc, fila |-> 0, era |-> Nada]
        OBVIOUS
      <3>2. d \in [doc: Documentos, fila: Nat, era: EstadoDocumento \cup {Nada}] /\ d.fila = 0
        BY <3>1
      <3>3. Llega(h, "subir", {<<"documentos">>}, d) /\ UNCHANGED verificacionVars
        BY <1>1, <2>1, <3>1 DEF Subir
      <3>4. QED BY <3>2, <3>3, DocumentosPedidos
    <2>2. CASE FilasDe(doc) # {}
      <3>1. PICK i \in FilasDe(doc) : Llega(h, "subir", {Documento(i)},
                      [doc |-> doc, fila |-> i, era |-> documentos[i].estado])
        BY <1>1, <2>2 DEF Subir
      <3>2. i \in DOMAIN documentos /\ i \in Nat
        BY <1>0, <3>1 DEF FilasDe
      <3>3. PICK d : d = [doc |-> doc, fila |-> i, era |-> documentos[i].estado]
        OBVIOUS
      <3>4. d \in [doc: Documentos, fila: Nat, era: EstadoDocumento \cup {Nada}] /\ d.fila = i
        BY <1>0, <3>2, <3>3 DEF DocumentoRow
      <3>5. {Documento(i)} \in SUBSET ({<<"documentos">>, <<"perfil">>} \cup {"documento"} \X Nat)
        BY <3>2 DEF Documento
      <3>6. Llega(h, "subir", {Documento(i)}, d) /\ UNCHANGED verificacionVars
        BY <1>1, <3>1, <3>3 DEF Subir
      <3>7. QED BY <3>2, <3>4, <3>5, <3>6, DocumentosPedidos
    <2>3. QED BY <2>1, <2>2
  <1>2. ASSUME NEW h \in Hilos, NEW i \in DOMAIN documentos,
               NEW decision \in {"aprobado", "rechazado"}, Revisar(h, i, decision)
        PROVE  IInvVerificacion'
    <2>1. PICK d : d = [fila |-> i, decision |-> decision, era |-> documentos[i].estado]
      OBVIOUS
    <2>2. d \in [fila: Nat, decision: EstadoDocumento, era: EstadoDocumento] /\ d.fila = i
      BY <1>0, <2>1 DEF DocumentoRow, EstadoDocumento
    <2>3. {Documento(i)} \in SUBSET ({<<"documentos">>, <<"perfil">>} \cup {"documento"} \X Nat)
      BY <1>0 DEF Documento
    <2>4. Llega(h, "revisar", {Documento(i)}, d) /\ UNCHANGED verificacionVars
      BY <1>2, <2>1 DEF Revisar
    <2>5. QED BY <2>2, <2>3, <2>4, DocumentosPedidos
  <1>3. ASSUME NEW h \in Hilos, SubidaRepetida(h)
        PROVE  IInvVerificacion'
    <2>1. Falla(h) /\ documentos' = documentos /\ verificado' = verificado
      BY <1>3 DEF SubidaRepetida, verificacionVars
    <2>2. /\ Ranuras(PeticionVerificacion)' /\ obsoleta' = obsoleta /\ peticion'[h] = Nada
          /\ \A g \in Hilos \ {h} : peticion'[g] = peticion[g]
      BY <2>1, AlFallar DEF IInvVerificacion
    <2>3. SabeDelDocumento(h)'
      BY <2>2 DEF SabeDelDocumento
    <2>4. QED BY <2>1, <2>2, <2>3, DocumentosIguales
  <1>4. QED BY <1>1, <1>2, <1>3, PasoSubir, PasoRecalcular, PasoRevision DEF NextVerificacion

LEMMA VerificacionQuieta ==
    ASSUME IInvVerificacion, UNCHANGED <<verificacionVars, servidor>>
    PROVE  IInvVerificacion'
  <1>1. /\ documentos' = documentos /\ verificado' = verificado
        /\ peticion' = peticion /\ obsoleta' = obsoleta
    BY DEF verificacionVars, servidor
  <1>2. \A h \in Hilos : SabeDelDocumento(h)'
    BY <1>1, DocumentoQueSigue, IgualSinAge DEF IInvVerificacion
  <1>3. VerificacionOK' /\ VerificadoEnSerie'
    BY <1>1 DEF IInvVerificacion, VerificacionOK, VerificadoEnSerie, FilasDe, Completos
  <1>4. QED BY <1>1, <1>2, <1>3 DEF IInvVerificacion, Ranuras

LEMMA VerificacionAlInicio ==
    ASSUME InitVerificacion
    PROVE  /\ VerificacionOK /\ VerificadoEnSerie
           /\ Ranuras(PeticionVerificacion) /\ (\A h \in Hilos : peticion[h] = Nada) => IInvVerificacion
  <1>1. documentos = <<>> /\ verificado = FALSE
    BY DEF InitVerificacion
  <1>2. ~Completos(documentos)
    BY <1>1, HayObligatorios DEF Completos
  <1>3. documentos \in Seq(DocumentoRow) /\ DOMAIN documentos = {}
    BY <1>1, EmptySeq
  <1>4. VerificacionOK
    BY <1>1, <1>3 DEF VerificacionOK, FilasDe
  <1>5. VerificadoEnSerie
    BY <1>1, <1>2 DEF VerificadoEnSerie
  <1>6. QED BY <1>4, <1>5 DEF IInvVerificacion, SabeDelDocumento

-----------------------------------------------------------------------------
(* The desk of the staff *)

LEMMA PeticionesDeSoporte == DePeticiones(PeticionSoporte)
  BY NadaNoEsSoporte DEF DePeticiones, PeticionSoporte

CambioDeTicket == [antes: Fotos, despues: Fotos]
CambioDeTyC == [antes: Nat, despues: Nat]
CambioDeAjuste == [antes: Valores \cup {Nada}, despues: Valores]
CambioDeRevision == [antes: {"pending"} \cup Dictamenes, despues: Dictamenes, quien: Hilos]

BitacoraOK ==
    /\ DOMAIN bitacora = {"ticket", "tyc", "ajuste", "revision"}
    /\ bitacora.ticket \in Seq(CambioDeTicket) /\ bitacora.tyc \in Seq(CambioDeTyC)
    /\ bitacora.ajuste \in Seq(CambioDeAjuste) /\ bitacora.revision \in Seq(CambioDeRevision)
    /\ bitacora = [ticket |-> bitacora.ticket, tyc |-> bitacora.tyc,
                   ajuste |-> bitacora.ajuste, revision |-> bitacora.revision]

\* Of each thing, that the log is a chain which ends in what the row says.
TicketCuadra ==
    /\ ticket # Nada => (ticket.resuelto <=> ticket.estado = "closed")
    /\ Encadenada(bitacora.ticket)
    /\ bitacora.ticket # <<>> =>
            ticket # Nada /\ Ultima(bitacora.ticket).despues = Foto(ticket.estado, ticket.prioridad)
TyCCuadran ==
    /\ Encadenada(bitacora.tyc)
    /\ bitacora.tyc # <<>> => tyc = Ultima(bitacora.tyc).despues
    /\ \A i \in DOMAIN bitacora.tyc : bitacora.tyc[i].despues <= tyc
    /\ \A i, j \in DOMAIN bitacora.tyc :
            bitacora.tyc[i].despues = bitacora.tyc[j].despues => i = j
AjusteCuadra ==
    /\ Encadenada(bitacora.ajuste)
    /\ bitacora.ajuste # <<>> => ajuste = Ultima(bitacora.ajuste).despues
RevisionCuadra ==
    /\ Encadenada(bitacora.revision)
    /\ bitacora.revision # <<>> =>
            /\ revision.status = Ultima(bitacora.revision).despues
            /\ revision.revisor = Ultima(bitacora.revision).quien

\* A request that no commit overtook has the row as it is.
SabeDeLaMesa(h) ==
    LET p == peticion[h]
        d == p.dato
    IN  p # Nada =>
        /\ p.op = "atender" =>
                /\ d \in [cargado: TicketRow, estado: EstadoTicket \cup {Nada}, nuevo: Fotos]
                /\ ticket # Nada /\ <<"ticket">> \in p.lee
                /\ d.nuevo.estado = IF d.estado = Nada THEN d.cargado.estado ELSE d.estado
                /\ ~p.vieja => d.cargado = ticket
        /\ p.op = "tyc" => d \in Nat /\ <<"tyc">> \in p.lee /\ (~p.vieja => d = tyc)
        /\ p.op = "ajuste" =>
                /\ d \in [cargado: Valores \cup {Nada}, valor: Valores] /\ <<"ajuste">> \in p.lee
                /\ ~p.vieja => d.cargado = ajuste
        /\ p.op = "revisar" =>
                /\ d \in [cargada: RevisionRow, status: Dictamenes] /\ <<"revision">> \in p.lee
                /\ ~p.vieja => d.cargada = revision

IInvSoporte ==
    /\ Ranuras(PeticionSoporte)
    /\ SoporteOK /\ BitacoraOK
    /\ ~obsoleta => TicketCuadra /\ TyCCuadran /\ AjusteCuadra /\ RevisionCuadra
    /\ \A h \in Hilos : SabeDeLaMesa(h)

\* An entry that starts from what the last one left extends the chain.
LEMMA UnApunteMas ==
    ASSUME NEW R, NEW log \in Seq(R), NEW r \in R, Encadenada(log),
           log # <<>> => Ultima(log).despues = r.antes
    PROVE  /\ Append(log, r) \in Seq(R) /\ Append(log, r) # <<>>
           /\ Encadenada(Append(log, r)) /\ Ultima(Append(log, r)) = r
  <1>1. PICK n \in Nat : n = Len(log)
    BY LenProperties
  <1>2. PICK t : t = Append(log, r)
    OBVIOUS
  <1>3. /\ t \in Seq(R) /\ Len(t) = n + 1
        /\ \A i \in 1..n : t[i] = log[i]
        /\ t[n + 1] = r
    BY <1>1, <1>2, AppendProperties
  <1>4. ASSUME NEW i \in 1..(Len(t) - 1)
        PROVE  t[i].despues = t[i + 1].antes
    <2>1. i \in 1..n
      BY <1>3
    <2>2. CASE i = n
      <3>1. log # <<>> /\ Ultima(log) = log[n]
        BY <1>1, <2>1, EmptySeq DEF Ultima
      <3>2. QED BY <1>3, <2>1, <2>2, <3>1
    <2>3. CASE i # n
      <3>1. i \in 1..(Len(log) - 1) /\ i + 1 \in 1..n
        BY <1>1, <2>1, <2>3
      <3>2. QED BY <1>3, <2>1, <3>1 DEF Encadenada
    <2>4. QED BY <2>2, <2>3
  <1>5. t # <<>>
    BY <1>3, EmptySeq
  <1>6. QED BY <1>2, <1>3, <1>4, <1>5 DEF Encadenada, Ultima

LEMMA CadenaAlgo ==
    ASSUME NEW R, NEW log \in Seq(R), NEW r \in R
    PROVE  Append(log, r) \in Seq(R)
  BY AppendProperties

LEMMA MesaQueSigue ==
    ASSUME NEW h, NEW W, SabeDeLaMesa(h), SigueIgual(h, W),
           ticket' = ticket \/ (ticket' # Nada /\ (<<"ticket">> \in W \/ ticket = Nada)),
           tyc' = tyc \/ <<"tyc">> \in W,
           ajuste' = ajuste \/ <<"ajuste">> \in W,
           revision' = revision \/ <<"revision">> \in W
    PROVE  SabeDeLaMesa(h)'
  <1>1. CASE peticion[h] = Nada
    BY <1>1 DEF SabeDeLaMesa, SigueIgual
  <1>2. CASE peticion[h] # Nada
    <2>1. /\ peticion'[h].op = peticion[h].op /\ peticion'[h].lee = peticion[h].lee
          /\ peticion'[h].dato = peticion[h].dato
          /\ ~peticion'[h].vieja => ~peticion[h].vieja /\ peticion[h].lee \cap W = {}
      BY <1>2 DEF SigueIgual
    <2>2. CASE peticion[h].op = "atender"
      BY <1>2, <2>1, <2>2 DEF SabeDeLaMesa
    <2>3. CASE peticion[h].op = "tyc"
      BY <1>2, <2>1, <2>3 DEF SabeDeLaMesa
    <2>4. CASE peticion[h].op = "ajuste"
      BY <1>2, <2>1, <2>4 DEF SabeDeLaMesa
    <2>5. CASE peticion[h].op = "revisar"
      BY <1>2, <2>1, <2>5 DEF SabeDeLaMesa
    <2>6. CASE peticion[h].op \notin {"atender", "tyc", "ajuste", "revisar"}
      BY <2>1, <2>6 DEF SabeDeLaMesa
    <2>7. QED BY <2>2, <2>3, <2>4, <2>5, <2>6
  <1>3. QED BY <1>1, <1>2

\* A request arrives: the rows stay.
LEMMA MesaPedida ==
    ASSUME IInvSoporte, NEW h \in Hilos, NEW op, NEW lee, NEW d,
           PeticionNueva(op, lee, d) \in PeticionSoporte,
           Llega(h, op, lee, d), UNCHANGED soporteVars,
           op = "atender" =>
                /\ d \in [cargado: TicketRow, estado: EstadoTicket \cup {Nada}, nuevo: Fotos]
                /\ ticket # Nada /\ <<"ticket">> \in lee
                /\ d.nuevo.estado = IF d.estado = Nada THEN d.cargado.estado ELSE d.estado
                /\ d.cargado = ticket,
           op = "tyc" => d \in Nat /\ <<"tyc">> \in lee /\ d = tyc,
           op = "ajuste" =>
                /\ d \in [cargado: Valores \cup {Nada}, valor: Valores] /\ <<"ajuste">> \in lee
                /\ d.cargado = ajuste,
           op = "revisar" =>
                /\ d \in [cargada: RevisionRow, status: Dictamenes] /\ <<"revision">> \in lee
                /\ d.cargada = revision
    PROVE  IInvSoporte'
  <1>1. /\ ticket' = ticket /\ tyc' = tyc /\ ajuste' = ajuste /\ revision' = revision
        /\ bitacora' = bitacora
    BY DEF soporteVars
  <1>2. /\ Ranuras(PeticionSoporte)' /\ obsoleta' = obsoleta
        /\ peticion'[h].op = op /\ peticion'[h].lee = lee /\ peticion'[h].dato = d
        /\ \A g \in Hilos \ {h} : peticion'[g] = peticion[g]
    BY AlLlegar, PeticionesDeSoporte DEF IInvSoporte
  <1>3. \A g \in Hilos \ {h} : SabeDeLaMesa(g)'
    BY <1>1, <1>2, MesaQueSigue, IgualSinAge DEF IInvSoporte
  <1>4. SabeDeLaMesa(h)'
    BY <1>1, <1>2 DEF SabeDeLaMesa
  <1>5. SoporteOK' /\ BitacoraOK'
    BY <1>1 DEF IInvSoporte, SoporteOK, BitacoraOK
  <1>6. ~obsoleta' => TicketCuadra' /\ TyCCuadran' /\ AjusteCuadra' /\ RevisionCuadra'
    BY <1>1, <1>2 DEF IInvSoporte, TicketCuadra, TyCCuadran, AjusteCuadra, RevisionCuadra
  <1>7. QED BY <1>2, <1>3, <1>4, <1>5, <1>6 DEF IInvSoporte

\* A request fails: the rows stay.
LEMMA MesaRechazada ==
    ASSUME IInvSoporte, NEW h \in Hilos, Falla(h), UNCHANGED soporteVars
    PROVE  IInvSoporte'
  <1>1. /\ ticket' = ticket /\ tyc' = tyc /\ ajuste' = ajuste /\ revision' = revision
        /\ bitacora' = bitacora
    BY DEF soporteVars
  <1>2. /\ Ranuras(PeticionSoporte)' /\ obsoleta' = obsoleta /\ peticion'[h] = Nada
        /\ \A g \in Hilos \ {h} : peticion'[g] = peticion[g]
    BY AlFallar DEF IInvSoporte
  <1>3. \A g \in Hilos \ {h} : SabeDeLaMesa(g)'
    BY <1>1, <1>2, MesaQueSigue, IgualSinAge DEF IInvSoporte
  <1>4. SabeDeLaMesa(h)'
    BY <1>2 DEF SabeDeLaMesa
  <1>5. SoporteOK' /\ BitacoraOK'
    BY <1>1 DEF IInvSoporte, SoporteOK, BitacoraOK
  <1>6. ~obsoleta' => TicketCuadra' /\ TyCCuadran' /\ AjusteCuadra' /\ RevisionCuadra'
    BY <1>1, <1>2 DEF IInvSoporte, TicketCuadra, TyCCuadran, AjusteCuadra, RevisionCuadra
  <1>7. QED BY <1>2, <1>3, <1>4, <1>5, <1>6 DEF IInvSoporte

\* A request commits one row, and its entry in the log.
LEMMA MesaEscrita ==
    ASSUME IInvSoporte, NEW h \in Hilos, NEW W, peticion[h] # Nada, Termina(h, W),
           ticket' = ticket \/ (ticket' # Nada /\ (<<"ticket">> \in W \/ ticket = Nada)),
           tyc' = tyc \/ <<"tyc">> \in W,
           ajuste' = ajuste \/ <<"ajuste">> \in W,
           revision' = revision \/ <<"revision">> \in W,
           SoporteOK', BitacoraOK',
           ~obsoleta /\ ~peticion[h].vieja =>
                TicketCuadra' /\ TyCCuadran' /\ AjusteCuadra' /\ RevisionCuadra'
    PROVE  IInvSoporte'
  <1>1. /\ Ranuras(PeticionSoporte)' /\ peticion'[h] = Nada
        /\ ~obsoleta' => ~obsoleta /\ ~peticion[h].vieja
        /\ \A g \in Hilos \ {h} : SigueIgual(g, W)
    BY AlTerminar, PeticionesDeSoporte DEF IInvSoporte
  <1>2. \A g \in Hilos \ {h} : SabeDeLaMesa(g)'
    BY <1>1, MesaQueSigue DEF IInvSoporte
  <1>3. SabeDeLaMesa(h)'
    BY <1>1 DEF SabeDeLaMesa
  <1>4. QED BY <1>1, <1>2, <1>3 DEF IInvSoporte

\* One log grows.
LEMMA BitacoraCrece ==
    ASSUME BitacoraOK, NEW r
    PROVE  /\ r \in CambioDeTicket /\ bitacora' = [bitacora EXCEPT !.ticket = Append(@, r)] =>
                /\ BitacoraOK' /\ bitacora'.ticket = Append(bitacora.ticket, r)
                /\ bitacora'.tyc = bitacora.tyc /\ bitacora'.ajuste = bitacora.ajuste
                /\ bitacora'.revision = bitacora.revision
           /\ r \in CambioDeTyC /\ bitacora' = [bitacora EXCEPT !.tyc = Append(@, r)] =>
                /\ BitacoraOK' /\ bitacora'.tyc = Append(bitacora.tyc, r)
                /\ bitacora'.ticket = bitacora.ticket /\ bitacora'.ajuste = bitacora.ajuste
                /\ bitacora'.revision = bitacora.revision
           /\ r \in CambioDeAjuste /\ bitacora' = [bitacora EXCEPT !.ajuste = Append(@, r)] =>
                /\ BitacoraOK' /\ bitacora'.ajuste = Append(bitacora.ajuste, r)
                /\ bitacora'.ticket = bitacora.ticket /\ bitacora'.tyc = bitacora.tyc
                /\ bitacora'.revision = bitacora.revision
           /\ r \in CambioDeRevision /\ bitacora' = [bitacora EXCEPT !.revision = Append(@, r)] =>
                /\ BitacoraOK' /\ bitacora'.revision = Append(bitacora.revision, r)
                /\ bitacora'.ticket = bitacora.ticket /\ bitacora'.tyc = bitacora.tyc
                /\ bitacora'.ajuste = bitacora.ajuste
  <1>0. PICK t, y, a, v : bitacora = [ticket |-> t, tyc |-> y, ajuste |-> a, revision |-> v]
    BY DEF BitacoraOK
  <1>1. /\ t \in Seq(CambioDeTicket) /\ y \in Seq(CambioDeTyC)
        /\ a \in Seq(CambioDeAjuste) /\ v \in Seq(CambioDeRevision)
        /\ bitacora.ticket = t /\ bitacora.tyc = y /\ bitacora.ajuste = a /\ bitacora.revision = v
    BY <1>0 DEF BitacoraOK
  <1>2. ASSUME r \in CambioDeTicket, bitacora' = [bitacora EXCEPT !.ticket = Append(@, r)]
        PROVE  BitacoraOK' /\ bitacora' = [ticket |-> Append(t, r), tyc |-> y, ajuste |-> a, revision |-> v]
    <2>1. bitacora' = [ticket |-> Append(t, r), tyc |-> y, ajuste |-> a, revision |-> v]
      BY <1>0, <1>2
    <2>2. Append(t, r) \in Seq(CambioDeTicket)
      BY <1>1, <1>2, CadenaAlgo
    <2>3. QED BY <1>1, <2>1, <2>2 DEF BitacoraOK
  <1>3. ASSUME r \in CambioDeTyC, bitacora' = [bitacora EXCEPT !.tyc = Append(@, r)]
        PROVE  BitacoraOK' /\ bitacora' = [ticket |-> t, tyc |-> Append(y, r), ajuste |-> a, revision |-> v]
    <2>1. bitacora' = [ticket |-> t, tyc |-> Append(y, r), ajuste |-> a, revision |-> v]
      BY <1>0, <1>3
    <2>2. Append(y, r) \in Seq(CambioDeTyC)
      BY <1>1, <1>3, CadenaAlgo
    <2>3. QED BY <1>1, <2>1, <2>2 DEF BitacoraOK
  <1>4. ASSUME r \in CambioDeAjuste, bitacora' = [bitacora EXCEPT !.ajuste = Append(@, r)]
        PROVE  BitacoraOK' /\ bitacora' = [ticket |-> t, tyc |-> y, ajuste |-> Append(a, r), revision |-> v]
    <2>1. bitacora' = [ticket |-> t, tyc |-> y, ajuste |-> Append(a, r), revision |-> v]
      BY <1>0, <1>4
    <2>2. Append(a, r) \in Seq(CambioDeAjuste)
      BY <1>1, <1>4, CadenaAlgo
    <2>3. QED BY <1>1, <2>1, <2>2 DEF BitacoraOK
  <1>5. ASSUME r \in CambioDeRevision, bitacora' = [bitacora EXCEPT !.revision = Append(@, r)]
        PROVE  BitacoraOK' /\ bitacora' = [ticket |-> t, tyc |-> y, ajuste |-> a, revision |-> Append(v, r)]
    <2>1. bitacora' = [ticket |-> t, tyc |-> y, ajuste |-> a, revision |-> Append(v, r)]
      BY <1>0, <1>5
    <2>2. Append(v, r) \in Seq(CambioDeRevision)
      BY <1>1, <1>5, CadenaAlgo
    <2>3. QED BY <1>1, <2>1, <2>2 DEF BitacoraOK
  <1>6. QED BY <1>1, <1>2, <1>3, <1>4, <1>5

LEMMA PasoAtender ==
    ASSUME IInvSoporte, NEW h \in Hilos, CommitAtender(h)
    PROVE  IInvSoporte'
  <1>1. PICK d : d = peticion[h].dato
    OBVIOUS
  <1>2. PICK c : c = d.cargado
    OBVIOUS
  <1>3. /\ peticion[h] # Nada /\ SoporteOK /\ BitacoraOK
        /\ d \in [cargado: TicketRow, estado: EstadoTicket \cup {Nada}, nuevo: Fotos]
        /\ ticket # Nada /\ ticket \in TicketRow
        /\ d.nuevo.estado = IF d.estado = Nada THEN c.estado ELSE d.estado
        /\ ~peticion[h].vieja => c = ticket
    BY <1>1, <1>2 DEF CommitAtender, EnCurso, IInvSoporte, SabeDeLaMesa, SoporteOK
  <1>4. c \in TicketRow /\ d.nuevo \in Fotos
    BY <1>2, <1>3
  <1>5. PICK b \in BOOLEAN : b <=> (d.estado = "closed" \/ (ticket.resuelto /\ (d.estado = Nada \/ ~c.resuelto)))
    OBVIOUS
  <1>6. (d.estado = "closed" \/ (ticket.resuelto /\ (d.estado = Nada \/ ~c.resuelto))) = b
    BY <1>5
  <1>7. PICK t : t = [estado |-> IF d.nuevo.estado = c.estado THEN ticket.estado ELSE d.nuevo.estado,
                      prioridad |-> IF d.nuevo.prioridad = c.prioridad THEN ticket.prioridad
                                    ELSE d.nuevo.prioridad,
                      resuelto |-> b]
    OBVIOUS
  <1>8. /\ t \in TicketRow /\ t.resuelto = b
        /\ t.estado = (IF d.nuevo.estado = c.estado THEN ticket.estado ELSE d.nuevo.estado)
        /\ t.prioridad = (IF d.nuevo.prioridad = c.prioridad THEN ticket.prioridad ELSE d.nuevo.prioridad)
    BY <1>3, <1>4, <1>7 DEF TicketRow, Fotos
  <1>9. PICK r : r = [antes |-> Foto(c.estado, c.prioridad), despues |-> d.nuevo]
    OBVIOUS
  <1>10. r \in CambioDeTicket /\ r.antes = Foto(c.estado, c.prioridad) /\ r.despues = d.nuevo
    BY <1>4, <1>9 DEF CambioDeTicket, Foto, Fotos, TicketRow
  <1>11. /\ ticket' = t /\ bitacora' = [bitacora EXCEPT !.ticket = Append(@, r)]
         /\ Termina(h, {<<"ticket">>})
         /\ tyc' = tyc /\ ajuste' = ajuste /\ revision' = revision
    BY <1>1, <1>2, <1>6, <1>7, <1>9 DEF CommitAtender, Dato
  <1>12. /\ BitacoraOK' /\ bitacora'.ticket = Append(bitacora.ticket, r)
         /\ bitacora'.tyc = bitacora.tyc /\ bitacora'.ajuste = bitacora.ajuste
         /\ bitacora'.revision = bitacora.revision
    BY <1>3, <1>10, <1>11, BitacoraCrece
  <1>13. SoporteOK' /\ ticket' # Nada
    BY <1>3, <1>8, <1>11, NadaNoEsSoporte DEF SoporteOK
  <1>14. ASSUME ~obsoleta, ~peticion[h].vieja
         PROVE  TicketCuadra' /\ TyCCuadran' /\ AjusteCuadra' /\ RevisionCuadra'
    <2>1. TicketCuadra /\ TyCCuadran /\ AjusteCuadra /\ RevisionCuadra
      BY <1>14 DEF IInvSoporte
    <2>2. c = ticket
      BY <1>3, <1>14
    <2>3. t.estado = d.nuevo.estado /\ t.prioridad = d.nuevo.prioridad
      BY <1>8, <2>2
    <2>4. Foto(t.estado, t.prioridad) = d.nuevo
      BY <1>4, <2>3 DEF Foto, Fotos
    <2>5. b <=> t.estado = "closed"
      <3>1. ticket.resuelto <=> ticket.estado = "closed"
        BY <1>3, <2>1 DEF TicketCuadra
      <3>2. d.estado = Nada => d.estado # "closed"
        BY NadaNoEsSoporte DEF EstadoTicket
      <3>3. CASE d.estado = Nada
        BY <1>3, <1>5, <2>2, <2>3, <3>1, <3>2, <3>3
      <3>4. CASE d.estado # Nada
        BY <1>3, <1>5, <2>2, <2>3, <3>1, <3>4
      <3>5. QED BY <3>3, <3>4
    <2>6. /\ bitacora.ticket \in Seq(CambioDeTicket) /\ Encadenada(bitacora.ticket)
          /\ bitacora.ticket # <<>> => Ultima(bitacora.ticket).despues = r.antes
      BY <1>3, <1>10, <2>1, <2>2 DEF TicketCuadra, BitacoraOK
    <2>7. /\ Encadenada(Append(bitacora.ticket, r)) /\ Ultima(Append(bitacora.ticket, r)) = r
      BY <1>10, <2>6, UnApunteMas
    <2>8. TicketCuadra'
      BY <1>8, <1>10, <1>11, <1>12, <1>13, <2>4, <2>5, <2>7 DEF TicketCuadra
    <2>9. TyCCuadran' /\ AjusteCuadra' /\ RevisionCuadra'
      BY <1>11, <1>12, <2>1 DEF TyCCuadran, AjusteCuadra, RevisionCuadra
    <2>10. QED BY <2>8, <2>9
  <1>15. QED BY <1>3, <1>11, <1>12, <1>13, <1>14, MesaEscrita

LEMMA PasoTyC ==
    ASSUME IInvSoporte, NEW h \in Hilos, CommitTyC(h)
    PROVE  IInvSoporte'
  <1>1. PICK d : d = peticion[h].dato
    OBVIOUS
  <1>2. /\ peticion[h] # Nada /\ SoporteOK /\ BitacoraOK
        /\ d \in Nat
        /\ ~peticion[h].vieja => d = tyc
    BY <1>1 DEF CommitTyC, EnCurso, IInvSoporte, SabeDeLaMesa
  <1>3. PICK r : r = [antes |-> d, despues |-> d + 1]
    OBVIOUS
  <1>4. r \in CambioDeTyC /\ r.antes = d /\ r.despues = d + 1
    BY <1>2, <1>3 DEF CambioDeTyC
  <1>5. /\ tyc' = d + 1 /\ bitacora' = [bitacora EXCEPT !.tyc = Append(@, r)]
        /\ Termina(h, {<<"tyc">>})
        /\ ticket' = ticket /\ ajuste' = ajuste /\ revision' = revision
    BY <1>1, <1>3 DEF CommitTyC, Dato
  <1>6. /\ BitacoraOK' /\ bitacora'.tyc = Append(bitacora.tyc, r)
        /\ bitacora'.ticket = bitacora.ticket /\ bitacora'.ajuste = bitacora.ajuste
        /\ bitacora'.revision = bitacora.revision
    BY <1>2, <1>4, <1>5, BitacoraCrece
  <1>7. SoporteOK'
    BY <1>2, <1>5 DEF SoporteOK
  <1>8. ASSUME ~obsoleta, ~peticion[h].vieja
        PROVE  TicketCuadra' /\ TyCCuadran' /\ AjusteCuadra' /\ RevisionCuadra'
    <2>1. TicketCuadra /\ TyCCuadran /\ AjusteCuadra /\ RevisionCuadra /\ d = tyc
      BY <1>2, <1>8 DEF IInvSoporte
    <2>2. PICK log : log = bitacora.tyc
      OBVIOUS
    <2>3. /\ log \in Seq(CambioDeTyC) /\ Encadenada(log)
          /\ log # <<>> => Ultima(log).despues = r.antes
      BY <1>2, <1>4, <2>1, <2>2 DEF TyCCuadran, BitacoraOK
    <2>4. Encadenada(Append(log, r)) /\ Ultima(Append(log, r)) = r
      BY <1>4, <2>3, UnApunteMas
    <2>5. PICK n \in Nat : n = Len(log)
      BY <2>3, LenProperties
    <2>6. DOMAIN log = 1..n /\ \A i \in 1..n : log[i] \in CambioDeTyC
      BY <2>3, <2>5, LenProperties, ElementOfSeq
    <2>7. PICK t : t = Append(log, r)
      OBVIOUS
    <2>8. /\ t \in Seq(CambioDeTyC) /\ Len(t) = n + 1
          /\ \A i \in 1..n : t[i] = log[i]
          /\ t[n + 1] = r
      BY <1>4, <2>3, <2>5, <2>7, AppendProperties
    <2>9. DOMAIN t = 1..(n + 1)
      BY <2>8, LenProperties
    <2>10. \A i \in 1..n : t[i].despues \in Nat /\ t[i].despues <= d
      BY <2>1, <2>2, <2>6, <2>8 DEF TyCCuadran, CambioDeTyC
    <2>11. \A i \in 1..(n + 1) : t[i].despues <= d + 1
      <3>1. ASSUME NEW i \in 1..(n + 1)
            PROVE  t[i].despues <= d + 1
        <4>1. CASE i \in 1..n
          BY <1>2, <2>10, <4>1
        <4>2. CASE i = n + 1
          BY <1>2, <1>4, <2>8, <4>2
        <4>3. QED BY <4>1, <4>2
      <3>2. QED BY <3>1
    <2>12. ASSUME NEW i \in 1..(n + 1), NEW j \in 1..(n + 1), t[i].despues = t[j].despues
           PROVE  i = j
      <3>1. CASE i \in 1..n /\ j \in 1..n
        BY <2>1, <2>2, <2>6, <2>8, <2>12, <3>1 DEF TyCCuadran
      <3>2. CASE i = n + 1 /\ j \in 1..n
        BY <1>2, <1>4, <2>8, <2>10, <2>12, <3>2
      <3>3. CASE i \in 1..n /\ j = n + 1
        BY <1>2, <1>4, <2>8, <2>10, <2>12, <3>3
      <3>4. CASE i = n + 1 /\ j = n + 1
        BY <3>4
      <3>5. QED BY <3>1, <3>2, <3>3, <3>4
    <2>13. bitacora'.tyc = t
      BY <1>6, <2>2, <2>7
    <2>14. TyCCuadran'
      BY <1>4, <1>5, <2>4, <2>7, <2>9, <2>11, <2>12, <2>13 DEF TyCCuadran
    <2>15. TicketCuadra' /\ AjusteCuadra' /\ RevisionCuadra'
      BY <1>5, <1>6, <2>1 DEF TicketCuadra, AjusteCuadra, RevisionCuadra
    <2>16. QED BY <2>14, <2>15
  <1>9. QED BY <1>2, <1>5, <1>6, <1>7, <1>8, MesaEscrita

LEMMA PasoAjuste ==
    ASSUME IInvSoporte, NEW h \in Hilos, CommitAjuste(h)
    PROVE  IInvSoporte'
  <1>1. PICK d : d = peticion[h].dato
    OBVIOUS
  <1>2. /\ peticion[h] # Nada /\ SoporteOK /\ BitacoraOK
        /\ d \in [cargado: Valores \cup {Nada}, valor: Valores]
        /\ ~peticion[h].vieja => d.cargado = ajuste
        /\ ticket' = ticket /\ tyc' = tyc /\ revision' = revision
    BY <1>1 DEF CommitAjuste, EnCurso, IInvSoporte, SabeDeLaMesa
  <1>3. CASE d.cargado = Nada /\ ajuste # Nada
    <2>1. Falla(h) /\ UNCHANGED soporteVars
      BY <1>1, <1>2, <1>3 DEF CommitAjuste, Dato, soporteVars
    <2>2. QED BY <2>1, MesaRechazada
  <1>4. CASE ~(d.cargado = Nada /\ ajuste # Nada)
    <2>1. PICK r : r = [antes |-> d.cargado, despues |-> d.valor]
      OBVIOUS
    <2>2. r \in CambioDeAjuste /\ r.antes = d.cargado /\ r.despues = d.valor
      BY <1>2, <2>1 DEF CambioDeAjuste
    <2>3. /\ ajuste' = (IF d.valor = d.cargado THEN ajuste ELSE d.valor)
          /\ bitacora' = [bitacora EXCEPT !.ajuste = Append(@, r)]
          /\ Termina(h, {<<"ajuste">>})
      BY <1>1, <1>4, <2>1 DEF CommitAjuste, Dato
    <2>4. /\ BitacoraOK' /\ bitacora'.ajuste = Append(bitacora.ajuste, r)
          /\ bitacora'.ticket = bitacora.ticket /\ bitacora'.tyc = bitacora.tyc
          /\ bitacora'.revision = bitacora.revision
      BY <1>2, <2>2, <2>3, BitacoraCrece
    <2>5. SoporteOK'
      BY <1>2, <2>3 DEF SoporteOK
    <2>6. ASSUME ~obsoleta, ~peticion[h].vieja
          PROVE  TicketCuadra' /\ TyCCuadran' /\ AjusteCuadra' /\ RevisionCuadra'
      <3>1. TicketCuadra /\ TyCCuadran /\ AjusteCuadra /\ RevisionCuadra
        BY <2>6 DEF IInvSoporte
      <3>2. /\ bitacora.ajuste \in Seq(CambioDeAjuste) /\ Encadenada(bitacora.ajuste)
            /\ bitacora.ajuste # <<>> => Ultima(bitacora.ajuste).despues = r.antes
        BY <1>2, <2>2, <2>6, <3>1 DEF AjusteCuadra, BitacoraOK
      <3>3. Encadenada(Append(bitacora.ajuste, r)) /\ Ultima(Append(bitacora.ajuste, r)) = r
        BY <2>2, <3>2, UnApunteMas
      <3>4. AjusteCuadra'
        BY <1>2, <2>2, <2>3, <2>4, <2>6, <3>3 DEF AjusteCuadra
      <3>5. TicketCuadra' /\ TyCCuadran' /\ RevisionCuadra'
        BY <1>2, <2>4, <3>1 DEF TicketCuadra, TyCCuadran, RevisionCuadra
      <3>6. QED BY <3>4, <3>5
    <2>7. QED BY <1>2, <2>3, <2>4, <2>5, <2>6, MesaEscrita
  <1>5. QED BY <1>3, <1>4

LEMMA PasoDictamen ==
    ASSUME IInvSoporte, NEW h \in Hilos, CommitDictamen(h)
    PROVE  IInvSoporte'
  <1>1. PICK d : d = peticion[h].dato
    OBVIOUS
  <1>2. PICK c : c = d.cargada
    OBVIOUS
  <1>3. /\ peticion[h] # Nada /\ SoporteOK /\ BitacoraOK /\ revision \in RevisionRow
        /\ d \in [cargada: RevisionRow, status: Dictamenes]
        /\ ~peticion[h].vieja => c = revision
        /\ ticket' = ticket /\ tyc' = tyc /\ ajuste' = ajuste
    BY <1>1, <1>2 DEF CommitDictamen, EnCurso, IInvSoporte, SabeDeLaMesa, SoporteOK
  <1>4. c \in RevisionRow /\ d.status \in Dictamenes
    BY <1>2, <1>3
  <1>5. PICK v : v = [status |-> IF d.status = c.status THEN revision.status ELSE d.status,
                      revisor |-> IF c.revisor = h THEN revision.revisor ELSE h]
    OBVIOUS
  <1>6. /\ v \in RevisionRow
        /\ v.status = (IF d.status = c.status THEN revision.status ELSE d.status)
        /\ v.revisor = (IF c.revisor = h THEN revision.revisor ELSE h)
    BY <1>3, <1>4, <1>5 DEF RevisionRow
  <1>7. PICK r : r = [antes |-> c.status, despues |-> d.status, quien |-> h]
    OBVIOUS
  <1>8. r \in CambioDeRevision /\ r.antes = c.status /\ r.despues = d.status /\ r.quien = h
    BY <1>4, <1>7 DEF CambioDeRevision, RevisionRow
  <1>9. /\ revision' = v /\ bitacora' = [bitacora EXCEPT !.revision = Append(@, r)]
        /\ Termina(h, {<<"revision">>})
    BY <1>1, <1>2, <1>5, <1>7 DEF CommitDictamen, Dato
  <1>10. /\ BitacoraOK' /\ bitacora'.revision = Append(bitacora.revision, r)
         /\ bitacora'.ticket = bitacora.ticket /\ bitacora'.tyc = bitacora.tyc
         /\ bitacora'.ajuste = bitacora.ajuste
    BY <1>3, <1>8, <1>9, BitacoraCrece
  <1>11. SoporteOK'
    BY <1>3, <1>6, <1>9 DEF SoporteOK
  <1>12. ASSUME ~obsoleta, ~peticion[h].vieja
         PROVE  TicketCuadra' /\ TyCCuadran' /\ AjusteCuadra' /\ RevisionCuadra'
    <2>1. TicketCuadra /\ TyCCuadran /\ AjusteCuadra /\ RevisionCuadra
      BY <1>12 DEF IInvSoporte
    <2>2. c = revision
      BY <1>3, <1>12
    <2>3. v.status = d.status /\ v.revisor = h
      BY <1>6, <2>2
    <2>4. /\ bitacora.revision \in Seq(CambioDeRevision) /\ Encadenada(bitacora.revision)
          /\ bitacora.revision # <<>> => Ultima(bitacora.revision).despues = r.antes
      BY <1>3, <1>8, <2>1, <2>2 DEF RevisionCuadra, BitacoraOK
    <2>5. Encadenada(Append(bitacora.revision, r)) /\ Ultima(Append(bitacora.revision, r)) = r
      BY <1>8, <2>4, UnApunteMas
    <2>6. RevisionCuadra'
      BY <1>8, <1>9, <1>10, <2>3, <2>5 DEF RevisionCuadra
    <2>7. TicketCuadra' /\ TyCCuadran' /\ AjusteCuadra'
      BY <1>3, <1>10, <2>1 DEF TicketCuadra, TyCCuadran, AjusteCuadra
    <2>8. QED BY <2>6, <2>7
  <1>13. QED BY <1>3, <1>9, <1>10, <1>11, <1>12, MesaEscrita

LEMMA PasoSoporte ==
    ASSUME IInvSoporte, NextMesa \/ NextPanel
    PROVE  IInvSoporte'
  <1>1. ASSUME NEW p \in Prioridad, AbrirTicket(p)
        PROVE  IInvSoporte'
    <2>1. PICK t : t = [estado |-> "open", prioridad |-> p, resuelto |-> FALSE]
      OBVIOUS
    <2>2. t \in TicketRow /\ t.estado = "open" /\ ~t.resuelto
      BY <2>1 DEF TicketRow, EstadoTicket
    <2>3. /\ ticket = Nada /\ ticket' = t /\ t # Nada
          /\ tyc' = tyc /\ ajuste' = ajuste /\ revision' = revision /\ bitacora' = bitacora
          /\ peticion' = peticion /\ obsoleta' = obsoleta
      BY <1>1, <2>1, <2>2, NadaNoEsSoporte DEF AbrirTicket, servidor
    <2>4. \A g \in Hilos : SabeDeLaMesa(g)'
      BY <2>3, MesaQueSigue, IgualSinAge DEF IInvSoporte
    <2>5. SoporteOK' /\ BitacoraOK'
      BY <2>2, <2>3 DEF IInvSoporte, SoporteOK, BitacoraOK
    <2>6. ~obsoleta' => TicketCuadra'
      BY <2>2, <2>3 DEF IInvSoporte, TicketCuadra
    <2>7. ~obsoleta' => TyCCuadran' /\ AjusteCuadra' /\ RevisionCuadra'
      BY <2>3 DEF IInvSoporte, TyCCuadran, AjusteCuadra, RevisionCuadra
    <2>8. Ranuras(PeticionSoporte)'
      BY <2>3 DEF IInvSoporte, Ranuras
    <2>9. QED BY <2>4, <2>5, <2>6, <2>7, <2>8 DEF IInvSoporte
  <1>2. ASSUME NEW h \in Hilos, NEW estado \in EstadoTicket \cup {Nada},
               NEW p \in Prioridad \cup {Nada}, AtenderTicket(h, estado, p)
        PROVE  IInvSoporte'
    <2>1. PICK f : f = Foto(IF estado = Nada THEN ticket.estado ELSE estado,
                            IF p = Nada THEN ticket.prioridad ELSE p)
      OBVIOUS
    <2>2. ticket # Nada /\ ticket \in TicketRow
      BY <1>2 DEF AtenderTicket, IInvSoporte, SoporteOK
    <2>3. f \in Fotos /\ f.estado = (IF estado = Nada THEN ticket.estado ELSE estado)
      BY <2>1, <2>2 DEF Foto, Fotos, TicketRow
    <2>4. PICK d : d = [cargado |-> ticket, estado |-> estado, nuevo |-> f]
      OBVIOUS
    <2>5. /\ d \in [cargado: TicketRow, estado: EstadoTicket \cup {Nada}, nuevo: Fotos]
          /\ d.cargado = ticket /\ d.estado = estado /\ d.nuevo = f
      BY <2>2, <2>3, <2>4
    <2>6. Llega(h, "atender", {<<"ticket">>}, d) /\ UNCHANGED soporteVars
      BY <1>2, <2>1, <2>4 DEF AtenderTicket
    <2>7. PeticionNueva("atender", {<<"ticket">>}, d) \in PeticionSoporte
      BY <2>5 DEF PeticionNueva, PeticionSoporte, Peticion
    <2>8. QED BY <2>2, <2>3, <2>5, <2>6, <2>7, MesaPedida
  <1>3. ASSUME NEW h \in Hilos, PublicarTyC(h)
        PROVE  IInvSoporte'
    <2>1. tyc \in Nat /\ Llega(h, "tyc", {<<"tyc">>}, tyc) /\ UNCHANGED soporteVars
      BY <1>3 DEF PublicarTyC, IInvSoporte, SoporteOK
    <2>2. PeticionNueva("tyc", {<<"tyc">>}, tyc) \in PeticionSoporte
      BY <2>1 DEF PeticionNueva, PeticionSoporte, Peticion
    <2>3. QED BY <2>1, <2>2, MesaPedida
  <1>4. ASSUME NEW h \in Hilos, TyCRepetidos(h)
        PROVE  IInvSoporte'
    BY <1>4, MesaRechazada DEF TyCRepetidos
  <1>5. ASSUME NEW h \in Hilos, NEW valor \in Valores, NEW crea \in BOOLEAN, FijarAjuste(h, valor, crea)
        PROVE  IInvSoporte'
    <2>1. PICK d : d = [cargado |-> ajuste, valor |-> valor]
      OBVIOUS
    <2>2. d \in [cargado: Valores \cup {Nada}, valor: Valores] /\ d.cargado = ajuste
      BY <2>1 DEF IInvSoporte, SoporteOK
    <2>3. Llega(h, "ajuste", {<<"ajuste">>}, d) /\ UNCHANGED soporteVars
      BY <1>5, <2>1 DEF FijarAjuste
    <2>4. PeticionNueva("ajuste", {<<"ajuste">>}, d) \in PeticionSoporte
      BY <2>2 DEF PeticionNueva, PeticionSoporte, Peticion
    <2>5. QED BY <2>2, <2>3, <2>4, MesaPedida
  <1>6. ASSUME NEW h \in Hilos, NEW status \in Dictamenes, RevisarIdentidad(h, status)
        PROVE  IInvSoporte'
    <2>1. PICK d : d = [cargada |-> revision, status |-> status]
      OBVIOUS
    <2>2. d \in [cargada: RevisionRow, status: Dictamenes] /\ d.cargada = revision
      BY <2>1 DEF IInvSoporte, SoporteOK
    <2>3. Llega(h, "revisar", {<<"revision">>}, d) /\ UNCHANGED soporteVars
      BY <1>6, <2>1 DEF RevisarIdentidad
    <2>4. PeticionNueva("revisar", {<<"revision">>}, d) \in PeticionSoporte
      BY <2>2 DEF PeticionNueva, PeticionSoporte, Peticion
    <2>5. QED BY <2>2, <2>3, <2>4, MesaPedida
  <1>7. QED BY <1>1, <1>2, <1>3, <1>4, <1>5, <1>6, PasoAtender, PasoTyC, PasoAjuste, PasoDictamen
            DEF NextMesa, NextPanel

LEMMA SoporteQuieto ==
    ASSUME IInvSoporte, UNCHANGED <<soporteVars, servidor>>
    PROVE  IInvSoporte'
  <1>1. /\ ticket' = ticket /\ tyc' = tyc /\ ajuste' = ajuste /\ revision' = revision
        /\ bitacora' = bitacora /\ peticion' = peticion /\ obsoleta' = obsoleta
    BY DEF soporteVars, servidor
  <1>2. \A h \in Hilos : SabeDeLaMesa(h)'
    BY <1>1, MesaQueSigue, IgualSinAge DEF IInvSoporte
  <1>3. SoporteOK' /\ BitacoraOK'
    BY <1>1 DEF IInvSoporte, SoporteOK, BitacoraOK
  <1>4. ~obsoleta' => TicketCuadra' /\ TyCCuadran' /\ AjusteCuadra' /\ RevisionCuadra'
    BY <1>1 DEF IInvSoporte, TicketCuadra, TyCCuadran, AjusteCuadra, RevisionCuadra
  <1>5. QED BY <1>1, <1>2, <1>3, <1>4 DEF IInvSoporte, Ranuras

LEMMA SoporteAlInicio ==
    ASSUME InitSoporte
    PROVE  /\ SoporteOK /\ AuditoriaEnSerie
           /\ Ranuras(PeticionSoporte) /\ (\A h \in Hilos : peticion[h] = Nada) => IInvSoporte
  <1>1. /\ ticket = Nada /\ tyc = 0 /\ ajuste = Nada
        /\ revision = [status |-> "pending", revisor |-> Nada]
        /\ bitacora = [ticket |-> <<>>, tyc |-> <<>>, ajuste |-> <<>>, revision |-> <<>>]
    BY DEF InitSoporte
  <1>2. SoporteOK
    BY <1>1 DEF SoporteOK, RevisionRow
  <1>3. /\ bitacora.ticket = <<>> /\ bitacora.tyc = <<>> /\ bitacora.ajuste = <<>>
        /\ bitacora.revision = <<>>
    BY <1>1
  <1>4. BitacoraOK
    BY <1>1, <1>3, EmptySeq DEF BitacoraOK
  <1>5. Encadenada(<<>>)
    BY DEF Encadenada
  <1>6. DOMAIN bitacora.tyc = {}
    BY <1>3
  <1>7. TicketCuadra /\ TyCCuadran /\ AjusteCuadra /\ RevisionCuadra
    BY <1>1, <1>3, <1>5, <1>6 DEF TicketCuadra, TyCCuadran, AjusteCuadra, RevisionCuadra
  <1>8. AuditoriaEnSerie
    BY <1>7 DEF AuditoriaEnSerie, TicketCuadra, TyCCuadran, AjusteCuadra, RevisionCuadra
  <1>9. QED BY <1>2, <1>4, <1>7, <1>8 DEF IInvSoporte, SabeDeLaMesa

LEMMA AlcanzaElSoporte ==
    ASSUME IInvSoporte
    PROVE  SoporteOK /\ AuditoriaEnSerie
  BY DEF IInvSoporte, AuditoriaEnSerie, TicketCuadra, TyCCuadran, AjusteCuadra, RevisionCuadra

-----------------------------------------------------------------------------
(* The conversation and the notifications *)

LEMMA PeticionesDeMensajes == DePeticiones(PeticionMensajeria)
  BY NadaNoEsMensajeria DEF DePeticiones, PeticionMensajeria

\* A reader takes messages of the other; whoever is about to tell of the
\* formalization and is not behind finds that nobody has.
SabeDelMensaje(h) ==
    LET p == peticion[h]
        d == p.dato
    IN  p # Nada =>
        /\ p.op = "leer" =>
                /\ d \in [lector: Participantes, cuales: SUBSET Nat]
                /\ d.cuales \subseteq DOMAIN mensajes
                /\ \A i \in d.cuales : mensajes[i].autor # d.lector
        /\ p.op = "formalizar" =>
                /\ <<"formalizacion">> \in p.lee
                /\ ~p.vieja => ~HayFormalizacion

\* Only the other participant is among the readers of a message.
MensajesFirmes ==
    /\ mensajes \in Seq(MensajeRow)
    /\ \A i \in DOMAIN mensajes :
            /\ mensajes[i].autor \notin mensajes[i].lectores
            /\ mensajes[i].leido => mensajes[i].lectores # {}

AvisosFirmes ==
    /\ avisos \in Seq(AvisoRow)
    /\ FormalizacionUnaVezEnSerie

IInvMensajeria ==
    /\ Ranuras(PeticionMensajeria)
    /\ MensajesFirmes /\ AvisosFirmes
    /\ \A h \in Hilos : SabeDelMensaje(h)

LEMMA MensajesSon ==
    ASSUME MensajesFirmes
    PROVE  /\ DOMAIN mensajes = 1..Len(mensajes) /\ Len(mensajes) \in Nat
           /\ mensajes \in Seq(MensajeRow)
           /\ \A i \in DOMAIN mensajes : mensajes[i] \in MensajeRow
  <1>1. mensajes \in Seq(MensajeRow)
    BY DEF MensajesFirmes
  <1>2. DOMAIN mensajes = 1..Len(mensajes) /\ Len(mensajes) \in Nat
    BY <1>1, LenProperties
  <1>3. QED BY <1>1, <1>2, ElementOfSeq

LEMMA AvisosSon ==
    ASSUME AvisosFirmes
    PROVE  /\ DOMAIN avisos = 1..Len(avisos) /\ Len(avisos) \in Nat
           /\ avisos \in Seq(AvisoRow)
           /\ \A i \in DOMAIN avisos : avisos[i] \in AvisoRow
  <1>1. avisos \in Seq(AvisoRow)
    BY DEF AvisosFirmes
  <1>2. DOMAIN avisos = 1..Len(avisos) /\ Len(avisos) \in Nat
    BY <1>1, LenProperties
  <1>3. QED BY <1>1, <1>2, ElementOfSeq

\* One more notification.
LEMMA UnAvisoMas ==
    ASSUME AvisosFirmes, NEW r \in AvisoRow, avisos' = Append(avisos, r),
           ~obsoleta' => ~obsoleta,
           r.tipo = "formalizacion" => (~obsoleta' => ~HayFormalizacion)
    PROVE  /\ AvisosFirmes'
           /\ r.tipo # "formalizacion" => (HayFormalizacion' <=> HayFormalizacion)
  <1>1. PICK n \in Nat : n = Len(avisos)
    BY AvisosSon
  <1>2. /\ avisos' \in Seq(AvisoRow) /\ Len(avisos') = n + 1
        /\ \A i \in 1..n : avisos'[i] = avisos[i]
        /\ avisos'[n + 1] = r
    BY <1>1, AvisosSon, AppendProperties
  <1>3. DOMAIN avisos' = 1..(n + 1) /\ DOMAIN avisos = 1..n
    BY <1>1, <1>2, AvisosSon, LenProperties
  <1>4. \A i \in DOMAIN avisos' : \/ (i \in DOMAIN avisos /\ avisos'[i] = avisos[i])
                                  \/ (i = n + 1 /\ avisos'[i] = r)
    BY <1>2, <1>3
  <1>5. \A i \in DOMAIN avisos : i \in DOMAIN avisos' /\ avisos'[i] = avisos[i]
    BY <1>2, <1>3
  <1>6. FormalizacionUnaVezEnSerie'
    BY <1>4 DEF FormalizacionUnaVezEnSerie, HayFormalizacion, AvisosFirmes
  <1>7. QED BY <1>2, <1>4, <1>5, <1>6 DEF AvisosFirmes, HayFormalizacion

\* Some are marked read.
LEMMA AvisosMarcados ==
    ASSUME AvisosFirmes, NEW C, MarcarLeidas(C)
    PROVE  AvisosFirmes' /\ (HayFormalizacion' <=> HayFormalizacion)
  <1>0. /\ DOMAIN avisos = 1..Len(avisos) /\ Len(avisos) \in Nat
        /\ \A i \in DOMAIN avisos : avisos[i] \in [tipo: {"otro", "formalizacion"}, leida: BOOLEAN]
    BY AvisosSon DEF AvisoRow
  <1>1. /\ avisos' = [i \in DOMAIN avisos |->
                IF i \in C THEN [avisos[i] EXCEPT !.leida = TRUE] ELSE avisos[i]]
        /\ obsoleta' = obsoleta
    BY DEF MarcarLeidas, servidor
  <1>2. \A i \in DOMAIN avisos : avisos'[i] \in AvisoRow /\ avisos'[i].tipo = avisos[i].tipo
    BY <1>0, <1>1 DEF AvisoRow
  <1>3. DOMAIN avisos' = DOMAIN avisos /\ avisos' \in [1..Len(avisos) -> AvisoRow]
    BY <1>0, <1>1, <1>2
  <1>4. avisos' \in Seq(AvisoRow)
    BY <1>0, <1>3, SeqDef
  <1>5. QED BY <1>1, <1>2, <1>3, <1>4
            DEF AvisosFirmes, FormalizacionUnaVezEnSerie, HayFormalizacion

\* What a step needs that leaves the messages, or the notifications, alone.
LEMMA SinMensajes ==
    ASSUME MensajesFirmes, mensajes' = mensajes
    PROVE  MensajesFirmes'
  BY DEF MensajesFirmes

LEMMA SinAvisos ==
    ASSUME AvisosFirmes, avisos' = avisos, ~obsoleta' => ~obsoleta
    PROVE  AvisosFirmes' /\ (HayFormalizacion' <=> HayFormalizacion)
  BY DEF AvisosFirmes, FormalizacionUnaVezEnSerie, HayFormalizacion

LEMMA MensajeQueSigue ==
    ASSUME NEW h, NEW W, SabeDelMensaje(h), SigueIgual(h, W),
           HayFormalizacion' => HayFormalizacion \/ <<"formalizacion">> \in W,
           \A i \in DOMAIN mensajes : i \in DOMAIN mensajes' /\ mensajes'[i].autor = mensajes[i].autor
    PROVE  SabeDelMensaje(h)'
  BY DEF SabeDelMensaje, SigueIgual

LEMMA PasoMensajeria ==
    ASSUME IInvMensajeria, NextMensajeria
    PROVE  IInvMensajeria'
  <1>0. /\ Ranuras(PeticionMensajeria) /\ DePeticiones(PeticionMensajeria)
        /\ MensajesFirmes /\ AvisosFirmes
        /\ \A h \in Hilos : SabeDelMensaje(h)
    BY PeticionesDeMensajes DEF IInvMensajeria
  <1>1. CASE Avisar
    <2>1. PICK r : r = [tipo |-> "otro", leida |-> FALSE]
      OBVIOUS
    <2>2. r \in AvisoRow /\ r.tipo # "formalizacion"
      BY <2>1 DEF AvisoRow
    <2>3. /\ avisos' = Append(avisos, r) /\ mensajes' = mensajes
          /\ peticion' = peticion /\ obsoleta' = obsoleta
      BY <1>1, <2>1 DEF Avisar, servidor
    <2>4. AvisosFirmes' /\ (HayFormalizacion' <=> HayFormalizacion)
      BY <1>0, <2>2, <2>3, UnAvisoMas
    <2>5. \A h \in Hilos : SabeDelMensaje(h)'
      BY <1>0, <2>3, <2>4, MensajeQueSigue, IgualSinAge
    <2>6. QED BY <1>0, <2>3, <2>4, <2>5, SinMensajes DEF IInvMensajeria, Ranuras
  <1>2. ASSUME NEW C, MarcarLeidas(C)
        PROVE  IInvMensajeria'
    <2>1. mensajes' = mensajes /\ peticion' = peticion /\ obsoleta' = obsoleta
      BY <1>2 DEF MarcarLeidas, servidor
    <2>2. AvisosFirmes' /\ (HayFormalizacion' <=> HayFormalizacion)
      BY <1>0, <1>2, AvisosMarcados
    <2>3. \A h \in Hilos : SabeDelMensaje(h)'
      BY <1>0, <2>1, <2>2, MensajeQueSigue, IgualSinAge
    <2>4. QED BY <1>0, <2>1, <2>2, <2>3, SinMensajes DEF IInvMensajeria, Ranuras
  <1>3. ASSUME NEW p \in Participantes, Enviar(p)
        PROVE  IInvMensajeria'
    <2>1. PICK r : r = [autor |-> p, leido |-> FALSE, lectores |-> {}]
      OBVIOUS
    <2>2. r \in MensajeRow /\ r.autor \notin r.lectores /\ ~r.leido
      BY <2>1 DEF MensajeRow
    <2>3. /\ mensajes' = Append(mensajes, r) /\ avisos' = avisos
          /\ peticion' = peticion /\ obsoleta' = obsoleta
      BY <1>3, <2>1 DEF Enviar, servidor
    <2>4. PICK n \in Nat : n = Len(mensajes)
      BY <1>0, MensajesSon
    <2>5. /\ mensajes' \in Seq(MensajeRow) /\ Len(mensajes') = n + 1
          /\ \A i \in 1..n : mensajes'[i] = mensajes[i]
          /\ mensajes'[n + 1] = r
      BY <1>0, <2>2, <2>3, <2>4, MensajesSon, AppendProperties
    <2>6. DOMAIN mensajes' = 1..(n + 1) /\ DOMAIN mensajes = 1..n
      BY <1>0, <2>4, <2>5, MensajesSon, LenProperties
    <2>7. MensajesFirmes'
      BY <1>0, <2>2, <2>5, <2>6 DEF MensajesFirmes
    <2>8. \A i \in DOMAIN mensajes : i \in DOMAIN mensajes' /\ mensajes'[i].autor = mensajes[i].autor
      BY <2>5, <2>6
    <2>9. AvisosFirmes' /\ (HayFormalizacion' <=> HayFormalizacion)
      BY <1>0, <2>3, SinAvisos
    <2>10. \A h \in Hilos : SabeDelMensaje(h)'
      BY <1>0, <2>3, <2>8, <2>9, MensajeQueSigue, IgualSinAge
    <2>11. QED BY <1>0, <2>3, <2>7, <2>9, <2>10 DEF IInvMensajeria, Ranuras
  <1>4. ASSUME NEW h \in Hilos, Conversar(h) \/ Formalizar(h)
        PROVE  IInvMensajeria'
    <2>1. PICK op, fila : \/ (op = "conversar" /\ fila = <<"conversacion">> /\ Conversar(h))
                          \/ (op = "formalizar" /\ fila = <<"formalizacion">> /\ Formalizar(h))
      BY <1>4
    <2>2. /\ Llega(h, op, {fila}, Nada) /\ mensajes' = mensajes /\ avisos' = avisos
          /\ op = "formalizar" => ~HayFormalizacion /\ fila = <<"formalizacion">>
          /\ op \in {"conversar", "formalizar"}
          /\ fila \in {<<"conversacion">>, <<"formalizacion">>}
      BY <2>1 DEF Conversar, Formalizar, mensajeriaVars
    <2>3. PeticionNueva(op, {fila}, Nada) \in PeticionMensajeria
      BY <2>2 DEF PeticionNueva, PeticionMensajeria, Peticion
    <2>4. /\ Ranuras(PeticionMensajeria)' /\ obsoleta' = obsoleta
          /\ peticion'[h].op = op /\ peticion'[h].lee = {fila}
          /\ \A g \in Hilos \ {h} : peticion'[g] = peticion[g]
      BY <1>0, <2>2, <2>3, AlLlegar
    <2>5. AvisosFirmes' /\ (HayFormalizacion' <=> HayFormalizacion)
      BY <1>0, <2>2, <2>4, SinAvisos
    <2>6. \A g \in Hilos \ {h} : SabeDelMensaje(g)'
      BY <1>0, <2>2, <2>4, <2>5, MensajeQueSigue, IgualSinAge
    <2>7. SabeDelMensaje(h)'
      BY <2>2, <2>4, <2>5 DEF SabeDelMensaje
    <2>8. QED BY <1>0, <2>2, <2>4, <2>5, <2>6, <2>7, SinMensajes DEF IInvMensajeria
  <1>5. ASSUME NEW h \in Hilos, CommitConversar(h)
        PROVE  IInvMensajeria'
    <2>1. /\ peticion[h] # Nada /\ Termina(h, {<<"conversacion">>})
          /\ mensajes' = mensajes /\ avisos' = avisos
      BY <1>5 DEF CommitConversar, EnCurso
    <2>2. /\ Ranuras(PeticionMensajeria)' /\ peticion'[h] = Nada
          /\ ~obsoleta' => ~obsoleta
          /\ \A g \in Hilos \ {h} : SigueIgual(g, {<<"conversacion">>})
      BY <1>0, <2>1, AlTerminar
    <2>3. AvisosFirmes' /\ (HayFormalizacion' <=> HayFormalizacion)
      BY <1>0, <2>1, <2>2, SinAvisos
    <2>4. \A g \in Hilos \ {h} : SabeDelMensaje(g)'
      BY <1>0, <2>1, <2>2, <2>3, MensajeQueSigue
    <2>5. SabeDelMensaje(h)'
      BY <2>2 DEF SabeDelMensaje
    <2>6. QED BY <1>0, <2>1, <2>2, <2>3, <2>4, <2>5, SinMensajes DEF IInvMensajeria
  <1>6. ASSUME NEW h \in Hilos, ParRepetido(h) \/ FormalizarFalla(h)
        PROVE  IInvMensajeria'
    <2>1. Falla(h) /\ mensajes' = mensajes /\ avisos' = avisos
      BY <1>6 DEF ParRepetido, FormalizarFalla, mensajeriaVars
    <2>2. /\ Ranuras(PeticionMensajeria)' /\ obsoleta' = obsoleta /\ peticion'[h] = Nada
          /\ \A g \in Hilos \ {h} : peticion'[g] = peticion[g]
      BY <1>0, <2>1, AlFallar
    <2>3. AvisosFirmes' /\ (HayFormalizacion' <=> HayFormalizacion)
      BY <1>0, <2>1, <2>2, SinAvisos
    <2>4. \A g \in Hilos \ {h} : SabeDelMensaje(g)'
      BY <1>0, <2>1, <2>2, <2>3, MensajeQueSigue, IgualSinAge
    <2>5. SabeDelMensaje(h)'
      BY <2>2 DEF SabeDelMensaje
    <2>6. QED BY <1>0, <2>1, <2>2, <2>3, <2>4, <2>5, SinMensajes DEF IInvMensajeria
  <1>7. ASSUME NEW h \in Hilos, NEW p \in Participantes, Leer(h, p)
        PROVE  IInvMensajeria'
    <2>1. PICK C : C = {i \in DOMAIN mensajes : ~mensajes[i].leido /\ mensajes[i].autor # p}
      OBVIOUS
    <2>2. PICK d : d = [lector |-> p, cuales |-> C]
      OBVIOUS
    <2>3. C \in SUBSET Nat /\ C \subseteq DOMAIN mensajes /\ \A i \in C : mensajes[i].autor # p
      BY <1>0, <2>1, MensajesSon
    <2>4. d \in [lector: Participantes, cuales: SUBSET Nat] /\ d.lector = p /\ d.cuales = C
      BY <2>2, <2>3
    <2>5. Llega(h, "leer", {}, d) /\ mensajes' = mensajes /\ avisos' = avisos
      BY <1>7, <2>1, <2>2 DEF Leer, mensajeriaVars
    <2>6. PeticionNueva("leer", {}, d) \in PeticionMensajeria
      BY <2>4 DEF PeticionNueva, PeticionMensajeria, Peticion
    <2>7. /\ Ranuras(PeticionMensajeria)' /\ obsoleta' = obsoleta
          /\ peticion'[h].op = "leer" /\ peticion'[h].dato = d
          /\ \A g \in Hilos \ {h} : peticion'[g] = peticion[g]
      BY <1>0, <2>5, <2>6, AlLlegar
    <2>8. AvisosFirmes' /\ (HayFormalizacion' <=> HayFormalizacion)
      BY <1>0, <2>5, <2>7, SinAvisos
    <2>9. \A g \in Hilos \ {h} : SabeDelMensaje(g)'
      BY <1>0, <2>5, <2>7, <2>8, MensajeQueSigue, IgualSinAge
    <2>10. SabeDelMensaje(h)'
      BY <2>3, <2>4, <2>5, <2>7 DEF SabeDelMensaje
    <2>11. QED BY <1>0, <2>5, <2>7, <2>8, <2>9, <2>10, SinMensajes DEF IInvMensajeria
  <1>8. ASSUME NEW h \in Hilos, CommitLeer(h)
        PROVE  IInvMensajeria'
    <2>1. PICK d : d = peticion[h].dato
      OBVIOUS
    <2>2. /\ peticion[h] # Nada
          /\ d \in [lector: Participantes, cuales: SUBSET Nat]
          /\ \A i \in d.cuales : mensajes[i].autor # d.lector
      BY <1>0, <1>8, <2>1 DEF CommitLeer, EnCurso, SabeDelMensaje
    <2>3. /\ mensajes' = [i \in DOMAIN mensajes |->
                IF i \in d.cuales
                THEN [mensajes[i] EXCEPT !.leido = TRUE, !.lectores = @ \cup {d.lector}]
                ELSE mensajes[i]]
          /\ Termina(h, {}) /\ avisos' = avisos
      BY <1>8, <2>1 DEF CommitLeer, Dato
    <2>4. /\ DOMAIN mensajes = 1..Len(mensajes) /\ Len(mensajes) \in Nat
          /\ \A i \in DOMAIN mensajes :
                /\ mensajes[i] \in [autor: Participantes, leido: BOOLEAN, lectores: SUBSET Participantes]
                /\ mensajes[i].autor \notin mensajes[i].lectores
                /\ mensajes[i].leido => mensajes[i].lectores # {}
      BY <1>0, MensajesSon DEF MensajeRow, MensajesFirmes
    <2>5. ASSUME NEW i \in DOMAIN mensajes
          PROVE  /\ mensajes'[i] \in MensajeRow
                 /\ mensajes'[i].autor = mensajes[i].autor
                 /\ mensajes'[i].autor \notin mensajes'[i].lectores
                 /\ mensajes'[i].leido => mensajes'[i].lectores # {}
      <3>1. CASE i \in d.cuales
        <4>1. mensajes'[i] = [mensajes[i] EXCEPT !.leido = TRUE, !.lectores = @ \cup {d.lector}]
          BY <2>3, <3>1
        <4>2. PICK L : L = mensajes[i].lectores \cup {d.lector}
          OBVIOUS
        <4>3. L \in SUBSET Participantes /\ L # {} /\ mensajes[i].autor \notin L
          BY <2>2, <2>4, <3>1, <4>2
        <4>4. mensajes'[i] = [mensajes[i] EXCEPT !.leido = TRUE, !.lectores = L]
          BY <2>4, <4>1, <4>2
        <4>5. QED BY <2>4, <4>3, <4>4 DEF MensajeRow
      <3>2. CASE i \notin d.cuales
        BY <2>3, <2>4, <3>2 DEF MensajeRow
      <3>3. QED BY <3>1, <3>2
    <2>6. DOMAIN mensajes' = DOMAIN mensajes /\ mensajes' \in [1..Len(mensajes) -> MensajeRow]
      BY <2>3, <2>4, <2>5
    <2>7. mensajes' \in Seq(MensajeRow)
      BY <2>4, <2>6, SeqDef
    <2>8. MensajesFirmes'
      BY <2>5, <2>6, <2>7 DEF MensajesFirmes
    <2>9. /\ Ranuras(PeticionMensajeria)' /\ peticion'[h] = Nada
          /\ ~obsoleta' => ~obsoleta
          /\ \A g \in Hilos \ {h} : SigueIgual(g, {})
      BY <1>0, <2>2, <2>3, AlTerminar
    <2>10. AvisosFirmes' /\ (HayFormalizacion' <=> HayFormalizacion)
      BY <1>0, <2>3, <2>9, SinAvisos
    <2>11. \A g \in Hilos \ {h} : SabeDelMensaje(g)'
      BY <1>0, <2>5, <2>6, <2>9, <2>10, MensajeQueSigue
    <2>12. SabeDelMensaje(h)'
      BY <2>9 DEF SabeDelMensaje
    <2>13. QED BY <2>8, <2>9, <2>10, <2>11, <2>12 DEF IInvMensajeria
  <1>9. ASSUME NEW h \in Hilos, CommitFormalizar(h)
        PROVE  IInvMensajeria'
    <2>1. PICK r : r = [tipo |-> "formalizacion", leida |-> FALSE]
      OBVIOUS
    <2>2. r \in AvisoRow
      BY <2>1 DEF AvisoRow
    <2>3. /\ peticion[h] # Nada
          /\ ~peticion[h].vieja => ~HayFormalizacion
          /\ avisos' = Append(avisos, r) /\ mensajes' = mensajes
          /\ Termina(h, {<<"formalizacion">>})
      BY <1>0, <1>9, <2>1 DEF CommitFormalizar, EnCurso, SabeDelMensaje
    <2>4. /\ Ranuras(PeticionMensajeria)' /\ peticion'[h] = Nada
          /\ ~obsoleta' => ~obsoleta /\ ~peticion[h].vieja
          /\ \A g \in Hilos \ {h} : SigueIgual(g, {<<"formalizacion">>})
      BY <1>0, <2>3, AlTerminar
    <2>5. AvisosFirmes'
      BY <1>0, <2>2, <2>3, <2>4, UnAvisoMas
    <2>6. \A g \in Hilos \ {h} : SabeDelMensaje(g)'
      BY <1>0, <2>3, <2>4, MensajeQueSigue
    <2>7. SabeDelMensaje(h)'
      BY <2>4 DEF SabeDelMensaje
    <2>8. QED BY <1>0, <2>3, <2>4, <2>5, <2>6, <2>7, SinMensajes DEF IInvMensajeria
  <1>10. QED BY <1>1, <1>2, <1>3, <1>4, <1>5, <1>6, <1>7, <1>8, <1>9 DEF NextMensajeria

LEMMA MensajeriaQuieta ==
    ASSUME IInvMensajeria, UNCHANGED <<mensajeriaVars, servidor>>
    PROVE  IInvMensajeria'
  <1>1. /\ mensajes' = mensajes /\ avisos' = avisos
        /\ peticion' = peticion /\ obsoleta' = obsoleta
    BY DEF mensajeriaVars, servidor
  <1>2. \A h \in Hilos : SabeDelMensaje(h)'
    BY <1>1, MensajeQueSigue, IgualSinAge, SinAvisos DEF IInvMensajeria
  <1>3. QED BY <1>1, <1>2, SinMensajes, SinAvisos DEF IInvMensajeria, Ranuras

LEMMA MensajeriaAlInicio ==
    ASSUME InitMensajeria
    PROVE  /\ MensajesFirmes /\ AvisosFirmes
           /\ Ranuras(PeticionMensajeria) /\ (\A h \in Hilos : peticion[h] = Nada) => IInvMensajeria
  <1>1. mensajes = <<>> /\ avisos = <<>>
    BY DEF InitMensajeria
  <1>2. MensajesFirmes /\ AvisosFirmes
    BY <1>1, EmptySeq DEF MensajesFirmes, AvisosFirmes, FormalizacionUnaVezEnSerie
  <1>3. QED BY <1>2 DEF IInvMensajeria, SabeDelMensaje

LEMMA AlcanzaLaMensajeria ==
    ASSUME MensajesFirmes, AvisosFirmes
    PROVE  MensajeriaOK /\ FormalizacionUnaVezEnSerie
  <1>1. ASSUME NEW i \in DOMAIN mensajes, mensajes[i].leido
        PROVE  mensajes[i].lectores = Participantes \ {mensajes[i].autor}
    <2>1. PICK a, b \in Participantes : a # b /\ Participantes = {a, b}
      BY SonDos
    <2>2. /\ mensajes[i].autor \in Participantes /\ mensajes[i].lectores \subseteq Participantes
          /\ mensajes[i].autor \notin mensajes[i].lectores /\ mensajes[i].lectores # {}
      BY <1>1, MensajesSon DEF MensajeRow, MensajesFirmes
    <2>3. QED BY <2>1, <2>2
  <1>2. QED BY <1>1, MensajesSon, AvisosSon DEF MensajeriaOK, AvisosFirmes

-----------------------------------------------------------------------------
(* The cascade *)

LEMMA PeticionesDeCascada == DePeticiones(PeticionCascada)
  BY NadaNoEsCascada DEF DePeticiones, PeticionCascada

\* What works on a phase, from the start of the cascade to the commit.
Tramo == {"encolar", "notificar", "registrar", "seguir", "cerrar"}
Notificada == {"registrar", "seguir", "cerrar"}
EnTramo(h) == peticion[h] # Nada /\ peticion[h].op \in Tramo

\* The phase at work is the one of the row.
SabeDeLaFase(h) ==
    LET p == peticion[h]
        d == p.dato
    IN  p # Nada =>
        /\ p.op \in Tramo \cup {"cancelar"} => cascada # Nada
        /\ p.op = "notificar" => d = cascada.fase
        /\ p.op \in Notificada =>
                /\ d \in CascadaRow
                /\ d.fase = cascada.fase /\ d.estado # "completada"
                /\ enviadas[cascada.fase] > 0

\* One task, in the broker or in a process: the next is queued by the one that
\* has not committed its phase.
UnaTarea ==
    /\ cola \in {0, 1}
    /\ cola = 1 => cascada # Nada
    /\ \A g, h \in Hilos : EnTramo(g) /\ EnTramo(h) => g = h
    /\ \A h \in Hilos : EnTramo(h) =>
            (cola = 1 <=> peticion[h].op = "cerrar" /\ peticion[h].dato.fase < NumFases)

FasesFirmes ==
    /\ cascada \in CascadaRow \cup {Nada}
    /\ enviadas \in [1..NumFases -> Nat] /\ caidas \in Nat
    /\ cascada = Nada => \A f \in 1..NumFases : enviadas[f] = 0
    /\ cascada # Nada =>
            /\ \A f \in 1..NumFases : /\ f < cascada.fase => enviadas[f] > 0
                                      /\ f > cascada.fase => enviadas[f] = 0
            /\ cascada.estado = "completada" =>
                    enviadas[NumFases] > 0 /\ cola = 0 /\ \A h \in Hilos : ~EnTramo(h)

\* While no process has died, what is still to be notified was not.
SinCaidas ==
    caidas = 0 =>
        /\ \A f \in 1..NumFases : enviadas[f] <= 1
        /\ cola = 1 /\ (\A h \in Hilos : ~EnTramo(h)) => enviadas[cascada.fase] = 0
        /\ \A h \in Hilos : EnTramo(h) /\ peticion[h].op \notin Notificada => enviadas[cascada.fase] = 0
        /\ cascada # Nada /\ cascada.estado = "activa" => cola = 1 \/ \E h \in Hilos : EnTramo(h)

IInvCascada ==
    /\ Ranuras(PeticionCascada)
    /\ FasesFirmes /\ UnaTarea /\ SinCaidas
    /\ \A h \in Hilos : SabeDeLaFase(h)

\* Whoever is not at work on a phase.
LEMMA FueraDelTramo ==
    ASSUME IInvCascada, NEW h \in Hilos, ~EnTramo(h), ~EnTramo(h)',
           \A g \in Hilos \ {h} : \E W : SigueIgual(g, W),
           cola' = cola, enviadas' = enviadas, caidas' = caidas,
           cascada # Nada => /\ cascada' \in CascadaRow /\ cascada' # Nada
                             /\ cascada'.fase = cascada.fase
                             /\ cascada'.estado \in {cascada.estado, "cancelada"},
           cascada = Nada => cascada' = Nada
    PROVE  /\ FasesFirmes' /\ UnaTarea' /\ SinCaidas'
           /\ \A g \in Hilos \ {h} : SabeDeLaFase(g)'
  <1>1. \A g \in Hilos : EnTramo(g)' <=> EnTramo(g)
    BY DEF EnTramo, SigueIgual
  <1>2. \A g \in Hilos : EnTramo(g) => peticion'[g].op = peticion[g].op /\ peticion'[g].dato = peticion[g].dato
    BY DEF EnTramo, SigueIgual
  <1>3. FasesFirmes'
    <2>1. CASE cascada = Nada
      BY <2>1 DEF IInvCascada, FasesFirmes
    <2>2. CASE cascada # Nada
      BY <1>1, <2>2 DEF IInvCascada, FasesFirmes
    <2>3. QED BY <2>1, <2>2
  <1>4. UnaTarea'
    BY <1>1, <1>2 DEF IInvCascada, UnaTarea
  <1>5. SinCaidas'
    <2>1. cola = 1 => cascada # Nada
      BY DEF IInvCascada, UnaTarea
    <2>2. \A g \in Hilos : EnTramo(g) => cascada # Nada
      BY DEF IInvCascada, SabeDeLaFase, EnTramo
    <2>3. cascada # Nada => cascada'.fase = cascada.fase /\ (cascada'.estado = "activa" => cascada.estado = "activa")
      OBVIOUS
    <2>4. SinCaidas
      BY DEF IInvCascada
    <2>5. QED BY <1>1, <1>2, <2>1, <2>2, <2>3, <2>4 DEF SinCaidas
  <1>6. ASSUME NEW g \in Hilos \ {h}
        PROVE  SabeDeLaFase(g)'
    <2>1. SabeDeLaFase(g)
      BY DEF IInvCascada
    <2>2. CASE peticion[g] = Nada
      BY <2>2 DEF SabeDeLaFase, SigueIgual
    <2>3. CASE peticion[g] # Nada /\ peticion[g].op \in Tramo \cup {"cancelar"}
      <3>1. cascada # Nada /\ cascada'.fase = cascada.fase /\ cascada' # Nada
        BY <2>1, <2>3 DEF SabeDeLaFase
      <3>2. /\ peticion'[g] # Nada /\ peticion'[g].op = peticion[g].op /\ peticion'[g].dato = peticion[g].dato
        BY <2>3 DEF SigueIgual
      <3>3. QED BY <2>1, <2>3, <3>1, <3>2 DEF SabeDeLaFase
    <2>4. CASE peticion[g] # Nada /\ peticion[g].op \notin Tramo \cup {"cancelar"}
      BY <2>4 DEF SabeDeLaFase, SigueIgual, Tramo, Notificada
    <2>5. QED BY <2>2, <2>3, <2>4
  <1>7. QED BY <1>3, <1>4, <1>5, <1>6

\* The one at work goes on: no other is.
LEMMA NadieMas ==
    ASSUME IInvCascada, NEW h \in Hilos, EnTramo(h)
    PROVE  \A g \in Hilos \ {h} : ~EnTramo(g)
  BY DEF IInvCascada, UnaTarea

\* Whoever is about to start, cancel, or is free, when the row still exists.
LEMMA LosDemasDeLaCascada ==
    ASSUME NEW g, NEW W, SabeDeLaFase(g), SigueIgual(g, W), ~EnTramo(g),
           cascada # Nada => cascada' # Nada
    PROVE  SabeDeLaFase(g)' /\ ~EnTramo(g)'
  BY DEF SabeDeLaFase, SigueIgual, EnTramo, Tramo, Notificada

LEMMA PasoCascada ==
    ASSUME IInvCascada, NextCascada
    PROVE  IInvCascada'
  <1>0. /\ Ranuras(PeticionCascada) /\ DePeticiones(PeticionCascada)
        /\ FasesFirmes /\ UnaTarea /\ SinCaidas
        /\ \A h \in Hilos : SabeDeLaFase(h)
        /\ Nada \notin CascadaRow
        /\ cascada # Nada => cascada \in CascadaRow
        /\ NumFases \in Nat /\ NumFases > 0
    BY PeticionesDeCascada, NadaNoEsCascada, NumFasesEsPositivo DEF IInvCascada, FasesFirmes
  <1>00. cascada # Nada =>
            cascada \in [fase: 1..NumFases, estado: {"activa", "cancelada", "completada"},
                         registro: Seq(1..NumFases)]
    BY <1>0 DEF CascadaRow
  <1>1. ASSUME NEW h \in Hilos, IniciarCascada(h) \/ CancelarCascada(h)
        PROVE  IInvCascada'
    <2>1. PICK op : \/ (op = "iniciar" /\ IniciarCascada(h))
                    \/ (op = "cancelar" /\ CancelarCascada(h))
      BY <1>1
    <2>2. /\ Llega(h, op, FilaCascada, Nada) /\ op \in {"iniciar", "cancelar"}
          /\ op = "cancelar" => cascada # Nada
          /\ cascada' = cascada /\ cola' = cola /\ enviadas' = enviadas /\ caidas' = caidas
      BY <2>1 DEF IniciarCascada, CancelarCascada, cascadaVars
    <2>3. PeticionNueva(op, FilaCascada, Nada) \in PeticionCascada
      BY <2>2 DEF PeticionNueva, PeticionCascada, Peticion, FilaCascada
    <2>4. /\ Ranuras(PeticionCascada)' /\ obsoleta' = obsoleta
          /\ peticion[h] = Nada /\ peticion'[h].op = op
          /\ \A g \in Hilos \ {h} : peticion'[g] = peticion[g]
      BY <1>0, <2>2, <2>3, AlLlegar
    <2>5. ~EnTramo(h) /\ ~EnTramo(h)' /\ \A g \in Hilos \ {h} : SigueIgual(g, {})
      BY <2>2, <2>4, IgualSinAge DEF EnTramo, Tramo
    <2>6. /\ FasesFirmes' /\ UnaTarea' /\ SinCaidas' /\ \A g \in Hilos \ {h} : SabeDeLaFase(g)'
      BY <1>0, <2>2, <2>5, FueraDelTramo
    <2>7. SabeDeLaFase(h)'
      BY <2>2, <2>4 DEF SabeDeLaFase, Tramo, Notificada
    <2>8. QED BY <2>4, <2>6, <2>7 DEF IInvCascada
  <1>2. ASSUME NEW h \in Hilos, CommitIniciar(h)
        PROVE  IInvCascada'
    <2>0. /\ peticion[h] # Nada /\ peticion[h].op = "iniciar" /\ ~EnTramo(h)
          /\ cola' = cola /\ enviadas' = enviadas /\ caidas' = caidas
      BY <1>2 DEF CommitIniciar, EnCurso, EnTramo, Tramo
    <2>1. CASE cascada = Nada
      <3>1. /\ cascada' = [fase |-> 1, estado |-> "activa", registro |-> <<>>]
            /\ Sigue(h, FilaCascada, "encolar", {}, Nada)
        BY <1>2, <2>1 DEF CommitIniciar
      <3>2. cascada' \in CascadaRow /\ cascada' # Nada /\ cascada'.fase = 1 /\ cascada'.estado = "activa"
        <4>1. 1 \in 1..NumFases /\ <<>> \in Seq(1..NumFases)
          BY <1>0, EmptySeq
        <4>2. cascada' \in CascadaRow /\ cascada'.fase = 1 /\ cascada'.estado = "activa"
          BY <3>1, <4>1 DEF CascadaRow
        <4>3. QED BY <1>0, <4>2
      <3>3. PeticionNueva("encolar", {}, Nada) \in PeticionCascada
        BY DEF PeticionNueva, PeticionCascada, Peticion
      <3>4. /\ Ranuras(PeticionCascada)'
            /\ peticion'[h] # Nada /\ peticion'[h].op = "encolar"
            /\ \A g \in Hilos \ {h} : SigueIgual(g, FilaCascada)
        BY <1>0, <2>0, <3>1, <3>3, AlSeguir
      <3>5. \A g \in Hilos : ~EnTramo(g)
        BY <1>0, <2>1 DEF SabeDeLaFase, EnTramo
      <3>6. \A g \in Hilos \ {h} : SabeDeLaFase(g)' /\ ~EnTramo(g)'
        BY <1>0, <2>1, <3>4, <3>5, LosDemasDeLaCascada
      <3>7. SabeDeLaFase(h)' /\ EnTramo(h)'
        BY <3>2, <3>4 DEF SabeDeLaFase, EnTramo, Tramo, Notificada
      <3>8. cola = 0 /\ \A f \in 1..NumFases : enviadas[f] = 0
        BY <1>0, <2>1 DEF UnaTarea, FasesFirmes
      <3>9. UnaTarea'
        BY <2>0, <3>4, <3>6, <3>8 DEF UnaTarea
      <3>10. FasesFirmes'
        BY <1>0, <2>0, <3>2, <3>8 DEF FasesFirmes
      <3>11. SinCaidas'
        <4>1. 1 \in 1..NumFases
          BY <1>0
        <4>2. \A f \in 1..NumFases : enviadas'[f] = 0
          BY <2>0, <3>8
        <4>3. QED BY <3>2, <3>7, <4>1, <4>2 DEF SinCaidas
      <3>12. QED BY <3>4, <3>6, <3>7, <3>9, <3>10, <3>11 DEF IInvCascada
    <2>2. CASE cascada # Nada
      <3>1. Falla(h) /\ cascada' = cascada
        BY <1>2, <2>2 DEF CommitIniciar
      <3>2. /\ Ranuras(PeticionCascada)' /\ peticion'[h] = Nada
            /\ \A g \in Hilos \ {h} : peticion'[g] = peticion[g]
        BY <1>0, <3>1, AlFallar
      <3>3. ~EnTramo(h)' /\ SabeDeLaFase(h)' /\ \A g \in Hilos \ {h} : SigueIgual(g, {})
        BY <3>2, IgualSinAge DEF EnTramo, SabeDeLaFase
      <3>4. /\ FasesFirmes' /\ UnaTarea' /\ SinCaidas' /\ \A g \in Hilos \ {h} : SabeDeLaFase(g)'
        BY <1>0, <2>0, <3>1, <3>3, FueraDelTramo
      <3>5. QED BY <3>2, <3>3, <3>4 DEF IInvCascada
    <2>3. QED BY <2>1, <2>2
  <1>3. ASSUME NEW h \in Hilos, Encolar(h)
        PROVE  IInvCascada'
    <2>1. /\ peticion[h] # Nada /\ peticion[h].op = "encolar" /\ EnTramo(h) /\ cascada # Nada
          /\ cola' = cola + 1 /\ Termina(h, {})
          /\ cascada' = cascada /\ enviadas' = enviadas /\ caidas' = caidas
      BY <1>0, <1>3 DEF Encolar, EnCurso, EnTramo, Tramo, SabeDeLaFase
    <2>2. cola = 0 /\ cola' = 1
      BY <1>0, <2>1 DEF UnaTarea
    <2>3. /\ Ranuras(PeticionCascada)' /\ peticion'[h] = Nada
          /\ \A g \in Hilos \ {h} : SigueIgual(g, {})
      BY <1>0, <2>1, AlTerminar
    <2>4. \A g \in Hilos \ {h} : ~EnTramo(g)
      BY <2>1, NadieMas
    <2>5. \A g \in Hilos \ {h} : SabeDeLaFase(g)' /\ ~EnTramo(g)'
      BY <1>0, <2>1, <2>3, <2>4, LosDemasDeLaCascada
    <2>6. SabeDeLaFase(h)' /\ ~EnTramo(h)'
      BY <2>3 DEF SabeDeLaFase, EnTramo
    <2>7. UnaTarea'
      BY <2>1, <2>2, <2>5, <2>6 DEF UnaTarea
    <2>8. cascada.estado # "completada"
      BY <1>0, <2>1 DEF FasesFirmes
    <2>9. FasesFirmes'
      BY <1>0, <2>1, <2>8 DEF FasesFirmes
    <2>10. SinCaidas'
      <3>1. caidas = 0 => enviadas[cascada.fase] = 0 /\ \A f \in 1..NumFases : enviadas[f] <= 1
        BY <1>0, <2>1 DEF SinCaidas, Notificada
      <3>2. QED BY <2>1, <2>2, <2>5, <2>6, <3>1 DEF SinCaidas
    <2>11. QED BY <2>3, <2>5, <2>6, <2>7, <2>9, <2>10 DEF IInvCascada
  <1>4. ASSUME NEW h \in Hilos, CommitCancelar(h)
        PROVE  IInvCascada'
    <2>1. /\ peticion[h] # Nada /\ ~EnTramo(h) /\ cascada # Nada
          /\ cascada' = [cascada EXCEPT !.estado = "cancelada"] /\ Termina(h, FilaCascada)
          /\ cola' = cola /\ enviadas' = enviadas /\ caidas' = caidas
      BY <1>0, <1>4 DEF CommitCancelar, EnCurso, EnTramo, Tramo, SabeDeLaFase
    <2>2. /\ cascada' \in CascadaRow /\ cascada'.fase = cascada.fase /\ cascada'.estado = "cancelada"
      BY <1>00, <2>1 DEF CascadaRow
    <2>3. /\ Ranuras(PeticionCascada)' /\ peticion'[h] = Nada
          /\ \A g \in Hilos \ {h} : SigueIgual(g, FilaCascada)
      BY <1>0, <2>1, AlTerminar
    <2>4. ~EnTramo(h)' /\ SabeDeLaFase(h)'
      BY <2>3 DEF EnTramo, SabeDeLaFase
    <2>5. /\ FasesFirmes' /\ UnaTarea' /\ SinCaidas' /\ \A g \in Hilos \ {h} : SabeDeLaFase(g)'
      BY <1>0, <2>1, <2>2, <2>3, <2>4, FueraDelTramo
    <2>6. QED BY <2>3, <2>4, <2>5 DEF IInvCascada
  <1>5. ASSUME NEW h \in Hilos, TomarTarea(h)
        PROVE  IInvCascada'
    <2>1. /\ cola > 0 /\ (\A g \in Hilos : ~EnCurso(g, "cerrar")) /\ cola' = cola - 1
          /\ cascada' = cascada /\ enviadas' = enviadas /\ caidas' = caidas
      BY <1>5 DEF TomarTarea
    <2>2. cola = 1 /\ cola' = 0 /\ cascada # Nada /\ \A g \in Hilos : ~EnTramo(g)
      BY <1>0, <2>1 DEF UnaTarea, EnTramo, EnCurso
    <2>3. caidas = 0 => enviadas[cascada.fase] = 0 /\ \A f \in 1..NumFases : enviadas[f] <= 1
      BY <1>0, <2>2 DEF SinCaidas
    <2>4. cascada.estado # "completada"
      BY <1>0, <2>2 DEF FasesFirmes
    <2>5. CASE cascada.estado = "activa"
      <3>1. PICK f \in 1..NumFases : f = cascada.fase
        BY <1>00, <2>2
      <3>2. Llega(h, "notificar", FilaCascada, f)
        BY <1>5, <2>5, <3>1 DEF TomarTarea
      <3>3. PeticionNueva("notificar", FilaCascada, f) \in PeticionCascada
        BY DEF PeticionNueva, PeticionCascada, Peticion, FilaCascada
      <3>4. /\ Ranuras(PeticionCascada)'
            /\ peticion'[h] # Nada /\ peticion'[h].op = "notificar" /\ peticion'[h].dato = f
            /\ \A g \in Hilos \ {h} : peticion'[g] = peticion[g]
        BY <1>0, <3>2, <3>3, AlLlegar
      <3>5. \A g \in Hilos \ {h} : SabeDeLaFase(g)' /\ ~EnTramo(g)'
        BY <1>0, <2>1, <2>2, <3>4, LosDemasDeLaCascada, IgualSinAge
      <3>6. SabeDeLaFase(h)' /\ EnTramo(h)'
        BY <2>1, <2>2, <3>1, <3>4 DEF SabeDeLaFase, EnTramo, Tramo, Notificada
      <3>7. UnaTarea'
        BY <2>1, <2>2, <3>4, <3>5 DEF UnaTarea
      <3>8. FasesFirmes'
        BY <1>0, <2>1, <2>2, <2>4 DEF FasesFirmes
      <3>9. SinCaidas'
        BY <2>1, <2>2, <2>3, <3>6 DEF SinCaidas
      <3>10. QED BY <3>4, <3>5, <3>6, <3>7, <3>8, <3>9 DEF IInvCascada
    <2>6. CASE cascada.estado # "activa"
      <3>1. peticion' = peticion /\ obsoleta' = obsoleta
        BY <1>5, <2>6 DEF TomarTarea, servidor
      <3>2. \A g \in Hilos : SabeDeLaFase(g)' /\ ~EnTramo(g)'
        BY <1>0, <2>1, <2>2, <3>1, LosDemasDeLaCascada, IgualSinAge
      <3>3. UnaTarea'
        BY <2>2, <3>2 DEF UnaTarea
      <3>4. FasesFirmes'
        BY <1>0, <2>1, <2>2, <2>4 DEF FasesFirmes
      <3>5. SinCaidas'
        BY <2>1, <2>2, <2>3, <2>6, <3>2 DEF SinCaidas
      <3>6. QED BY <1>0, <3>1, <3>2, <3>3, <3>4, <3>5 DEF IInvCascada, Ranuras
    <2>7. QED BY <2>5, <2>6
  <1>6. ASSUME NEW h \in Hilos, NotificarFase(h)
        PROVE  IInvCascada'
    <2>1. /\ peticion[h] # Nada /\ peticion[h].op = "notificar" /\ EnTramo(h) /\ cascada # Nada
          /\ peticion[h].dato = cascada.fase
          /\ enviadas' = [enviadas EXCEPT ![cascada.fase] = @ + 1]
          /\ Sigue(h, {}, "registrar", FilaCascada, cascada)
          /\ cascada' = cascada /\ cola' = cola /\ caidas' = caidas
      BY <1>0, <1>6 DEF NotificarFase, EnCurso, EnTramo, Tramo, SabeDeLaFase, Dato
    <2>2. /\ cascada.fase \in 1..NumFases /\ enviadas \in [1..NumFases -> Nat]
          /\ cascada \in CascadaRow
      BY <1>0, <1>00, <2>1 DEF FasesFirmes
    <2>3. PeticionNueva("registrar", FilaCascada, cascada) \in PeticionCascada
      BY <2>2 DEF PeticionNueva, PeticionCascada, Peticion, FilaCascada
    <2>4. PICK c : c = cascada
      OBVIOUS
    <2>5. /\ Ranuras(PeticionCascada)'
          /\ peticion'[h] # Nada /\ peticion'[h].op = "registrar" /\ peticion'[h].dato = c
          /\ \A g \in Hilos \ {h} : SigueIgual(g, {})
      BY <1>0, <2>1, <2>3, <2>4, AlSeguir
    <2>6. \A g \in Hilos \ {h} : ~EnTramo(g)
      BY <2>1, NadieMas
    <2>7. \A g \in Hilos \ {h} : SabeDeLaFase(g)' /\ ~EnTramo(g)'
      BY <1>0, <2>1, <2>5, <2>6, LosDemasDeLaCascada
    <2>8. cola = 0
      BY <1>0, <2>1 DEF UnaTarea
    <2>9. cascada.estado # "completada"
      BY <1>0, <2>1 DEF FasesFirmes
    <2>10. /\ enviadas' \in [1..NumFases -> Nat]
           /\ enviadas'[cascada.fase] = enviadas[cascada.fase] + 1
           /\ \A f \in 1..NumFases : f # cascada.fase => enviadas'[f] = enviadas[f]
      BY <2>1, <2>2
    <2>11. enviadas'[cascada'.fase] > 0
      BY <2>1, <2>2, <2>10
    <2>12. SabeDeLaFase(h)' /\ EnTramo(h)'
      BY <2>1, <2>2, <2>4, <2>5, <2>9, <2>11 DEF SabeDeLaFase, EnTramo, Tramo, Notificada
    <2>13. UnaTarea'
      BY <2>1, <2>5, <2>7, <2>8 DEF UnaTarea
    <2>14. FasesFirmes'
      BY <1>0, <2>1, <2>2, <2>9, <2>10 DEF FasesFirmes
    <2>15. SinCaidas'
      <3>1. caidas = 0 => enviadas[cascada.fase] = 0 /\ \A f \in 1..NumFases : enviadas[f] <= 1
        BY <1>0, <2>1 DEF SinCaidas, Notificada
      <3>2. caidas = 0 => \A f \in 1..NumFases : enviadas'[f] <= 1
        BY <2>2, <2>10, <3>1
      <3>3. QED BY <2>1, <2>5, <2>7, <2>8, <2>12, <3>2 DEF SinCaidas, Notificada
    <2>16. QED BY <2>5, <2>7, <2>12, <2>13, <2>14, <2>15 DEF IInvCascada
  <1>7. ASSUME NEW h \in Hilos, RegistrarFase(h)
        PROVE  IInvCascada'
    <2>1. /\ peticion[h] # Nada /\ peticion[h].op = "registrar" /\ EnTramo(h) /\ cascada # Nada
          /\ peticion[h].dato \in CascadaRow /\ peticion[h].dato.fase = cascada.fase
          /\ enviadas[cascada.fase] > 0
          /\ cascada' = [cascada EXCEPT !.registro =
                IF peticion[h].dato.registro = <<>> THEN <<peticion[h].dato.fase>> ELSE @]
          /\ Sigue(h, {<<"registro">>}, "seguir", FilaCascada, cascada')
          /\ cola' = cola /\ enviadas' = enviadas /\ caidas' = caidas
      BY <1>0, <1>7 DEF RegistrarFase, EnCurso, EnTramo, Tramo, Notificada, SabeDeLaFase, Dato
    <2>2. /\ cascada' \in CascadaRow /\ cascada'.fase = cascada.fase /\ cascada'.estado = cascada.estado
      <3>1. PICK R : R = IF peticion[h].dato.registro = <<>> THEN <<peticion[h].dato.fase>> ELSE cascada.registro
        OBVIOUS
      <3>2. R \in Seq(1..NumFases)
        <4>1. PICK f \in 1..NumFases : f = peticion[h].dato.fase
          BY <2>1 DEF CascadaRow
        <4>2. <<f>> \in Seq(1..NumFases)
          OBVIOUS
        <4>3. cascada.registro \in Seq(1..NumFases)
          BY <1>00, <2>1
        <4>4. R = <<f>> \/ R = cascada.registro
          BY <3>1, <4>1
        <4>5. QED BY <4>2, <4>3, <4>4
      <3>3. cascada' = [cascada EXCEPT !.registro = R]
        BY <1>00, <2>1, <3>1
      <3>4. QED BY <1>00, <2>1, <3>2, <3>3 DEF CascadaRow
    <2>3. PICK c : c = cascada'
      OBVIOUS
    <2>4. PeticionNueva("seguir", FilaCascada, c) \in PeticionCascada
      BY <2>2, <2>3 DEF PeticionNueva, PeticionCascada, Peticion, FilaCascada
    <2>5. /\ Ranuras(PeticionCascada)'
          /\ peticion'[h] # Nada /\ peticion'[h].op = "seguir" /\ peticion'[h].dato = c
          /\ \A g \in Hilos \ {h} : SigueIgual(g, {<<"registro">>})
      BY <1>0, <2>1, <2>3, <2>4, AlSeguir
    <2>6. \A g \in Hilos \ {h} : ~EnTramo(g)
      BY <2>1, NadieMas
    <2>7. cascada' # Nada
      BY <1>0, <2>2
    <2>8. \A g \in Hilos \ {h} : SabeDeLaFase(g)' /\ ~EnTramo(g)'
      BY <1>0, <2>5, <2>6, <2>7, LosDemasDeLaCascada
    <2>9. cola = 0
      BY <1>0, <2>1 DEF UnaTarea
    <2>10. cascada.estado # "completada"
      BY <1>0, <2>1 DEF FasesFirmes
    <2>11. SabeDeLaFase(h)' /\ EnTramo(h)'
      BY <2>1, <2>2, <2>3, <2>5, <2>7, <2>10 DEF SabeDeLaFase, EnTramo, Tramo, Notificada
    <2>12. UnaTarea'
      BY <2>1, <2>5, <2>8, <2>9 DEF UnaTarea
    <2>13. FasesFirmes'
      BY <1>0, <2>1, <2>2, <2>7, <2>10 DEF FasesFirmes
    <2>14. SinCaidas'
      <3>1. caidas = 0 => \A f \in 1..NumFases : enviadas[f] <= 1
        BY <1>0 DEF SinCaidas
      <3>2. QED BY <2>1, <2>5, <2>8, <2>9, <2>11, <3>1 DEF SinCaidas, Notificada
    <2>15. QED BY <2>5, <2>8, <2>11, <2>12, <2>13, <2>14 DEF IInvCascada
  <1>8. ASSUME NEW h \in Hilos, EncolarSiguiente(h)
        PROVE  IInvCascada'
    <2>1. PICK d : d = peticion[h].dato
      OBVIOUS
    <2>2. /\ peticion[h] # Nada /\ peticion[h].op = "seguir" /\ EnTramo(h) /\ cascada # Nada
          /\ d \in CascadaRow /\ d.fase = cascada.fase /\ d.estado # "completada"
          /\ enviadas[cascada.fase] > 0
          /\ cola' = (IF d.fase < NumFases THEN cola + 1 ELSE cola)
          /\ Avanza(h, "cerrar", {}, d)
          /\ cascada' = cascada /\ enviadas' = enviadas /\ caidas' = caidas
      BY <1>0, <1>8, <2>1
         DEF EncolarSiguiente, EnCurso, EnTramo, Tramo, Notificada, SabeDeLaFase, Dato
    <2>3. PeticionNueva("cerrar", {}, d) \in PeticionCascada
      BY <2>2 DEF PeticionNueva, PeticionCascada, Peticion
    <2>4. /\ Ranuras(PeticionCascada)'
          /\ peticion'[h] # Nada /\ peticion'[h].op = "cerrar" /\ peticion'[h].dato = d
          /\ \A g \in Hilos \ {h} : peticion'[g] = peticion[g]
      BY <1>0, <2>2, <2>3, AlAvanzar
    <2>5. \A g \in Hilos \ {h} : ~EnTramo(g)
      BY <2>2, NadieMas
    <2>6. \A g \in Hilos \ {h} : SabeDeLaFase(g)' /\ ~EnTramo(g)'
      BY <1>0, <2>2, <2>4, <2>5, LosDemasDeLaCascada, IgualSinAge
    <2>7. cola = 0
      BY <1>0, <2>2 DEF UnaTarea
    <2>8. cascada.estado # "completada"
      BY <1>0, <2>2 DEF FasesFirmes
    <2>9. SabeDeLaFase(h)' /\ EnTramo(h)'
      BY <2>2, <2>4 DEF SabeDeLaFase, EnTramo, Tramo, Notificada
    <2>10. UnaTarea'
      BY <2>2, <2>4, <2>6, <2>7 DEF UnaTarea
    <2>11. FasesFirmes'
      BY <1>0, <2>2, <2>8 DEF FasesFirmes
    <2>12. SinCaidas'
      <3>1. caidas = 0 => \A f \in 1..NumFases : enviadas[f] <= 1
        BY <1>0 DEF SinCaidas
      <3>2. QED BY <2>2, <2>4, <2>6, <2>9, <3>1 DEF SinCaidas, Notificada
    <2>13. QED BY <2>4, <2>6, <2>9, <2>10, <2>11, <2>12 DEF IInvCascada
  <1>9. ASSUME NEW h \in Hilos, CommitFase(h)
        PROVE  IInvCascada'
    <2>1. PICK d : d = peticion[h].dato
      OBVIOUS
    <2>2. /\ peticion[h] # Nada /\ peticion[h].op = "cerrar" /\ EnTramo(h) /\ cascada # Nada
          /\ d \in CascadaRow /\ d.fase = cascada.fase /\ d.estado # "completada"
          /\ enviadas[cascada.fase] > 0
          /\ Termina(h, FilaCascada)
          /\ cola' = cola /\ enviadas' = enviadas /\ caidas' = caidas
      BY <1>0, <1>9, <2>1
         DEF CommitFase, EnCurso, EnTramo, Tramo, Notificada, SabeDeLaFase, Dato
    <2>3. /\ Ranuras(PeticionCascada)' /\ peticion'[h] = Nada
          /\ \A g \in Hilos \ {h} : SigueIgual(g, FilaCascada)
      BY <1>0, <2>2, AlTerminar
    <2>4. \A g \in Hilos \ {h} : ~EnTramo(g)
      BY <2>2, NadieMas
    <2>5. /\ cola = 1 <=> d.fase < NumFases
          /\ cola \in {0, 1}
      BY <1>0, <2>1, <2>2 DEF UnaTarea
    <2>6. cascada.fase \in 1..NumFases /\ enviadas \in [1..NumFases -> Nat]
      BY <1>0, <1>00, <2>2 DEF FasesFirmes
    <2>7. cascada' \in CascadaRow /\ cascada' # Nada
          /\ (d.fase < NumFases => cascada'.fase = cascada.fase + 1 /\ cascada'.estado = cascada.estado)
          /\ (~(d.fase < NumFases) => cascada'.fase = cascada.fase /\ cascada'.estado = "completada")
      <3>1. CASE d.fase < NumFases
        <4>1. cascada' = [cascada EXCEPT !.fase = d.fase + 1]
          BY <1>9, <2>1, <3>1 DEF CommitFase, Dato
        <4>2. d.fase + 1 \in 1..NumFases
          BY <1>0, <2>2, <2>6, <3>1
        <4>3. cascada' \in CascadaRow /\ cascada'.fase = d.fase + 1 /\ cascada'.estado = cascada.estado
          BY <1>00, <2>2, <4>1, <4>2 DEF CascadaRow
        <4>4. QED BY <1>0, <2>2, <3>1, <4>3
      <3>2. CASE ~(d.fase < NumFases)
        <4>1. cascada' = [cascada EXCEPT !.estado = "completada"]
          BY <1>9, <2>1, <2>2, <3>2 DEF CommitFase, Dato
        <4>2. cascada' \in CascadaRow /\ cascada'.fase = cascada.fase /\ cascada'.estado = "completada"
          BY <1>00, <2>2, <4>1 DEF CascadaRow
        <4>3. QED BY <1>0, <3>2, <4>2
      <3>3. QED BY <3>1, <3>2
    <2>8. \A g \in Hilos \ {h} : SabeDeLaFase(g)' /\ ~EnTramo(g)'
      BY <1>0, <2>3, <2>4, <2>7, LosDemasDeLaCascada
    <2>9. SabeDeLaFase(h)' /\ ~EnTramo(h)'
      BY <2>3 DEF SabeDeLaFase, EnTramo
    <2>10. UnaTarea'
      BY <2>2, <2>5, <2>7, <2>8, <2>9 DEF UnaTarea
    <2>11. \A f \in 1..NumFases : /\ f < cascada'.fase => enviadas[f] > 0
                                  /\ f > cascada'.fase => enviadas[f] = 0
      <3>1. \A f \in 1..NumFases : /\ f <= cascada.fase => enviadas[f] > 0
                                   /\ f > cascada.fase => enviadas[f] = 0
        BY <1>0, <2>2, <2>6 DEF FasesFirmes
      <3>2. cascada'.fase \in {cascada.fase, cascada.fase + 1}
        BY <2>7
      <3>3. QED BY <2>6, <3>1, <3>2
    <2>12. cascada'.estado = "completada" => enviadas[NumFases] > 0 /\ cola = 0
      <3>1. cascada.estado # "completada"
        BY <1>0, <2>2 DEF FasesFirmes
      <3>2. cascada'.estado = "completada" => ~(d.fase < NumFases)
        BY <2>7, <3>1
      <3>3. ~(d.fase < NumFases) => cascada.fase = NumFases
        BY <1>0, <2>2, <2>6
      <3>4. QED BY <2>2, <2>5, <3>2, <3>3
    <2>13. FasesFirmes'
      BY <1>0, <2>2, <2>7, <2>8, <2>9, <2>11, <2>12 DEF FasesFirmes
    <2>14. SinCaidas'
      <3>1. caidas = 0 => \A f \in 1..NumFases : enviadas[f] <= 1
        BY <1>0 DEF SinCaidas
      <3>2. cola = 1 => enviadas[cascada'.fase] = 0
        <4>1. cola = 1 => cascada'.fase = cascada.fase + 1 /\ cascada'.fase \in 1..NumFases
          BY <2>5, <2>7 DEF CascadaRow
        <4>2. \A f \in 1..NumFases : f > cascada.fase => enviadas[f] = 0
          BY <1>0, <2>2 DEF FasesFirmes
        <4>3. QED BY <2>6, <4>1, <4>2
      <3>3. cascada'.estado = "activa" => cola = 1
        BY <2>5, <2>7
      <3>4. QED BY <2>2, <2>8, <2>9, <3>1, <3>2, <3>3 DEF SinCaidas
    <2>15. QED BY <2>3, <2>8, <2>9, <2>10, <2>13, <2>14 DEF IInvCascada
  <1>10. ASSUME NEW h \in Hilos, MuereProceso(h)
         PROVE  IInvCascada'
    <2>1. /\ caidas' = caidas + 1 /\ Falla(h)
          /\ cascada' = cascada /\ cola' = cola /\ enviadas' = enviadas
      BY <1>10 DEF MuereProceso
    <2>2. /\ Ranuras(PeticionCascada)' /\ peticion'[h] = Nada
          /\ \A g \in Hilos \ {h} : peticion'[g] = peticion[g]
      BY <1>0, <2>1, AlFallar
    <2>3. ~EnTramo(h)' /\ \A g \in Hilos \ {h} : EnTramo(g)' <=> EnTramo(g)
      BY <2>2 DEF EnTramo
    <2>4. \A g \in Hilos : SabeDeLaFase(g)'
      BY <1>0, <2>1, <2>2 DEF SabeDeLaFase
    <2>5. UnaTarea'
      BY <1>0, <2>1, <2>2, <2>3 DEF UnaTarea
    <2>6. FasesFirmes' /\ caidas' # 0
      BY <1>0, <2>1, <2>3 DEF FasesFirmes
    <2>7. QED BY <2>2, <2>4, <2>5, <2>6 DEF IInvCascada, SinCaidas
  <1>11. QED BY <1>1, <1>2, <1>3, <1>4, <1>5, <1>6, <1>7, <1>8, <1>9, <1>10 DEF NextCascada

LEMMA CascadaQuieta ==
    ASSUME IInvCascada, UNCHANGED <<cascadaVars, servidor>>
    PROVE  IInvCascada'
  <1>1. /\ cascada' = cascada /\ cola' = cola /\ enviadas' = enviadas /\ caidas' = caidas
        /\ peticion' = peticion /\ obsoleta' = obsoleta
    BY DEF cascadaVars, servidor
  <1>2. QED BY <1>1 DEF IInvCascada, Ranuras, FasesFirmes, UnaTarea, SinCaidas, SabeDeLaFase, EnTramo

LEMMA CascadaAlInicio ==
    ASSUME InitCascada
    PROVE  /\ CascadaOK /\ FaseUnaVezSinCaidas
           /\ Ranuras(PeticionCascada) /\ (\A h \in Hilos : peticion[h] = Nada) => IInvCascada
  <1>1. /\ cascada = Nada /\ cola = 0 /\ caidas = 0 /\ enviadas = [f \in 1..NumFases |-> 0]
    BY DEF InitCascada
  <1>2. /\ enviadas \in [1..NumFases -> Nat] /\ \A f \in 1..NumFases : enviadas[f] = 0
    BY <1>1
  <1>3. CascadaOK /\ FaseUnaVezSinCaidas
    <2>1. \A f \in 2..NumFases : f \in 1..NumFases
      BY NumFasesEsPositivo
    <2>2. QED BY <1>1, <1>2, <2>1 DEF CascadaOK, FaseUnaVezSinCaidas
  <1>4. QED BY <1>1, <1>2, <1>3
            DEF IInvCascada, FasesFirmes, UnaTarea, SinCaidas, SabeDeLaFase, EnTramo

LEMMA AlcanzaLaCascada ==
    ASSUME IInvCascada
    PROVE  CascadaOK /\ FaseUnaVezSinCaidas
  <1>1. cascada # Nada => cascada.fase \in 1..NumFases
    BY DEF IInvCascada, FasesFirmes, CascadaRow
  <1>2. ASSUME NEW f \in 2..NumFases, enviadas[f] > 0
        PROVE  enviadas[f - 1] > 0
    <2>1. f \in 1..NumFases /\ f - 1 \in 1..NumFases /\ f - 1 < f
      BY NumFasesEsPositivo
    <2>2. enviadas[f] # 0
      BY <1>2, <2>1 DEF IInvCascada, FasesFirmes
    <2>3. cascada # Nada /\ ~(f > cascada.fase)
      BY <2>1, <2>2 DEF IInvCascada, FasesFirmes
    <2>4. f - 1 < cascada.fase
      BY <1>1, <2>1, <2>3, NumFasesEsPositivo
    <2>5. QED BY <2>1, <2>3, <2>4 DEF IInvCascada, FasesFirmes
  <1>3. CascadaOK
    BY <1>1, <1>2 DEF CascadaOK, IInvCascada, FasesFirmes, UnaTarea
  <1>4. FaseUnaVezSinCaidas
    BY DEF FaseUnaVezSinCaidas, IInvCascada, SinCaidas, EnTramo, Tramo, EnCurso
  <1>5. QED BY <1>3, <1>4

-----------------------------------------------------------------------------
(* The experiment *)

LEMMA PeticionesDeGrupos == DePeticiones(PeticionRecomendacion)
  BY NadaNoEsGrupo DEF DePeticiones, PeticionRecomendacion

\* The value a request will write keeps every group there is, unless it is behind;
\* a group once given is the one that is logged.
SabeDelGrupo(h) ==
    LET p == peticion[h]
        d == p.dato
    IN  p # Nada =>
        /\ p.op = "asignar" =>
                /\ d \in [usuario: Usuarios, grupo: Grupos, mapa: Mapas, nueva: BOOLEAN]
                /\ d.mapa[d.usuario] = d.grupo
                /\ p.lee = FilaGrupos
                /\ ~p.vieja => \A u \in Usuarios :
                        GrupoDe(grupos, u) # Nada => d.mapa[u] = GrupoDe(grupos, u)
        /\ p.op = "anotar" =>
                /\ d \in [usuario: Usuarios, grupo: Grupos]
                /\ ~obsoleta => GrupoDe(grupos, d.usuario) = d.grupo

IInvRecomendacion ==
    /\ Ranuras(PeticionRecomendacion)
    /\ RecomendacionOK /\ GrupoEstableEnSerie
    /\ \A h \in Hilos : SabeDelGrupo(h)

LEMMA RegistrosSon ==
    ASSUME RecomendacionOK
    PROVE  /\ DOMAIN registros = 1..Len(registros) /\ Len(registros) \in Nat
           /\ \A i \in DOMAIN registros :
                registros[i] \in [usuario: Usuarios, grupo: Grupos, respondio: BOOLEAN, aceptado: BOOLEAN]
  <1>1. registros \in Seq([usuario: Usuarios, grupo: Grupos, respondio: BOOLEAN, aceptado: BOOLEAN])
    BY DEF RecomendacionOK
  <1>2. DOMAIN registros = 1..Len(registros) /\ Len(registros) \in Nat
    BY <1>1, LenProperties
  <1>3. QED BY <1>1, <1>2, ElementOfSeq

LEMMA MapaConGrupo ==
    ASSUME NEW mapa \in Mapas \cup {Nada}, NEW u \in Usuarios, NEW g \in Grupos,
           GrupoDe(mapa, u) = Nada
    PROVE  /\ ConGrupo(mapa, u, g) \in Mapas /\ ConGrupo(mapa, u, g)[u] = g
           /\ \A v \in Usuarios : GrupoDe(mapa, v) # Nada => ConGrupo(mapa, u, g)[v] = GrupoDe(mapa, v)
  <1>1. CASE mapa = Nada
    BY <1>1 DEF ConGrupo, GrupoDe, Mapas
  <1>2. CASE mapa \in Mapas /\ mapa # Nada
    BY <1>2 DEF ConGrupo, GrupoDe, Mapas
  <1>3. QED BY <1>1, <1>2

\* What a step needs that leaves the groups alone.
LEMMA GrupoQueSigue ==
    ASSUME NEW h, NEW W, SabeDelGrupo(h), SigueIgual(h, W), grupos' = grupos,
           ~obsoleta' => ~obsoleta
    PROVE  SabeDelGrupo(h)'
  BY DEF SabeDelGrupo, SigueIgual, GrupoDe

LEMMA RegistrosIguales ==
    ASSUME RecomendacionOK, GrupoEstableEnSerie, grupos' = grupos, registros' = registros,
           ~obsoleta' => ~obsoleta
    PROVE  RecomendacionOK' /\ GrupoEstableEnSerie'
  BY DEF RecomendacionOK, GrupoEstableEnSerie, GrupoDe

LEMMA PasoRecomendacion ==
    ASSUME IInvRecomendacion, NextRecomendacion
    PROVE  IInvRecomendacion'
  <1>0. /\ Ranuras(PeticionRecomendacion) /\ DePeticiones(PeticionRecomendacion)
        /\ RecomendacionOK /\ GrupoEstableEnSerie
        /\ \A h \in Hilos : SabeDelGrupo(h)
        /\ grupos \in Mapas \cup {Nada} /\ Nada \notin Mapas /\ Nada \notin Grupos
        /\ DOMAIN registros = 1..Len(registros) /\ Len(registros) \in Nat
        /\ \A i \in DOMAIN registros :
                registros[i] \in [usuario: Usuarios, grupo: Grupos, respondio: BOOLEAN, aceptado: BOOLEAN]
    BY PeticionesDeGrupos, NadaNoEsGrupo, RegistrosSon DEF IInvRecomendacion, RecomendacionOK
  <1>1. ASSUME NEW u \in Usuarios, NEW b \in BOOLEAN, MarcarRespuesta(u, b)
        PROVE  IInvRecomendacion'
    <2>1. /\ registros' = [i \in DOMAIN registros |->
                IF registros[i].usuario = u
                THEN [registros[i] EXCEPT !.respondio = TRUE, !.aceptado = @ \/ b]
                ELSE registros[i]]
          /\ grupos' = grupos /\ peticion' = peticion /\ obsoleta' = obsoleta
      BY <1>1 DEF MarcarRespuesta, servidor
    <2>2. ASSUME NEW i \in DOMAIN registros
          PROVE  /\ registros'[i] \in [usuario: Usuarios, grupo: Grupos, respondio: BOOLEAN, aceptado: BOOLEAN]
                 /\ registros'[i].usuario = registros[i].usuario
                 /\ registros'[i].grupo = registros[i].grupo
                 /\ registros'[i].aceptado => registros'[i].respondio
      <3>1. CASE registros[i].usuario = u
        <4>1. PICK c \in BOOLEAN : c <=> registros[i].aceptado \/ b
          OBVIOUS
        <4>2. c = (registros[i].aceptado \/ b)
          BY <4>1
        <4>3. registros'[i] = [registros[i] EXCEPT !.respondio = TRUE, !.aceptado = @ \/ b]
          BY <2>1, <3>1
        <4>4. registros'[i] = [registros[i] EXCEPT !.respondio = TRUE, !.aceptado = c]
          BY <1>0, <4>2, <4>3
        <4>5. QED BY <1>0, <4>4
      <3>2. CASE registros[i].usuario # u
        BY <1>0, <2>1, <3>2 DEF RecomendacionOK
      <3>3. QED BY <3>1, <3>2
    <2>3. DOMAIN registros' = DOMAIN registros
      BY <2>1
    <2>4. registros' \in Seq([usuario: Usuarios, grupo: Grupos, respondio: BOOLEAN, aceptado: BOOLEAN])
      <3>1. registros' \in [1..Len(registros) ->
                    [usuario: Usuarios, grupo: Grupos, respondio: BOOLEAN, aceptado: BOOLEAN]]
        BY <1>0, <2>1, <2>2
      <3>2. QED BY <1>0, <3>1, SeqDef
    <2>5. RecomendacionOK' /\ GrupoEstableEnSerie'
      <3>1. RecomendacionOK'
        BY <1>0, <2>1, <2>2, <2>3, <2>4 DEF RecomendacionOK
      <3>2. \A v : GrupoDe(grupos', v) = GrupoDe(grupos, v)
        BY <2>1
      <3>3. GrupoEstableEnSerie'
        BY <1>0, <2>1, <2>2, <2>3, <3>2 DEF GrupoEstableEnSerie
      <3>4. QED BY <3>1, <3>3
    <2>6. \A h \in Hilos : SabeDelGrupo(h)'
      BY <1>0, <2>1, GrupoQueSigue, IgualSinAge
    <2>7. QED BY <1>0, <2>1, <2>5, <2>6 DEF IInvRecomendacion, Ranuras
  <1>2. ASSUME NEW h \in Hilos, NEW u \in Usuarios, Recomendar(h, u)
        PROVE  IInvRecomendacion'
    <2>1. CASE GrupoDe(grupos, u) # Nada
      <3>1. grupos \in Mapas /\ GrupoDe(grupos, u) = grupos[u] /\ grupos[u] \in Grupos
        BY <1>0, <2>1 DEF GrupoDe, Mapas
      <3>2. PICK d : d = [usuario |-> u, grupo |-> grupos[u]]
        OBVIOUS
      <3>3. d \in [usuario: Usuarios, grupo: Grupos] /\ d.usuario = u /\ d.grupo = grupos[u]
        BY <3>1, <3>2
      <3>4. Llega(h, "anotar", {}, d) /\ grupos' = grupos /\ registros' = registros
        BY <1>2, <2>1, <3>2 DEF Recomendar, recomendacionVars
      <3>5. PeticionNueva("anotar", {}, d) \in PeticionRecomendacion
        BY <3>3 DEF PeticionNueva, PeticionRecomendacion, Peticion
      <3>6. /\ Ranuras(PeticionRecomendacion)' /\ obsoleta' = obsoleta
            /\ peticion'[h].op = "anotar" /\ peticion'[h].dato = d
            /\ \A g \in Hilos \ {h} : peticion'[g] = peticion[g]
        BY <1>0, <3>4, <3>5, AlLlegar
      <3>7. \A g \in Hilos \ {h} : SabeDelGrupo(g)'
        BY <1>0, <3>4, <3>6, GrupoQueSigue, IgualSinAge
      <3>8. SabeDelGrupo(h)'
        BY <3>1, <3>3, <3>4, <3>6 DEF SabeDelGrupo
      <3>9. QED BY <1>0, <3>4, <3>6, <3>7, <3>8, RegistrosIguales DEF IInvRecomendacion
    <2>2. CASE GrupoDe(grupos, u) = Nada
      <3>1. PICK g \in Grupos : Llega(h, "asignar", FilaGrupos,
                [usuario |-> u, grupo |-> g, mapa |-> ConGrupo(grupos, u, g), nueva |-> grupos = Nada])
        BY <1>2, <2>2 DEF Recomendar
      <3>2. PICK b \in BOOLEAN : b <=> grupos = Nada
        OBVIOUS
      <3>3. (grupos = Nada) = b
        BY <3>2
      <3>4. PICK m : m = ConGrupo(grupos, u, g)
        OBVIOUS
      <3>5. PICK d : d = [usuario |-> u, grupo |-> g, mapa |-> m, nueva |-> b]
        OBVIOUS
      <3>6. /\ m \in Mapas /\ m[u] = g
            /\ \A v \in Usuarios : GrupoDe(grupos, v) # Nada => m[v] = GrupoDe(grupos, v)
        BY <1>0, <2>2, <3>4, MapaConGrupo
      <3>7. /\ d \in [usuario: Usuarios, grupo: Grupos, mapa: Mapas, nueva: BOOLEAN]
            /\ d.usuario = u /\ d.grupo = g /\ d.mapa = m
        BY <3>5, <3>6
      <3>8. Llega(h, "asignar", FilaGrupos, d) /\ grupos' = grupos /\ registros' = registros
        BY <1>2, <3>1, <3>3, <3>4, <3>5 DEF Recomendar, recomendacionVars
      <3>9. PeticionNueva("asignar", FilaGrupos, d) \in PeticionRecomendacion
        BY <3>7 DEF PeticionNueva, PeticionRecomendacion, Peticion, FilaGrupos
      <3>10. /\ Ranuras(PeticionRecomendacion)' /\ obsoleta' = obsoleta
             /\ peticion'[h].op = "asignar" /\ peticion'[h].dato = d /\ peticion'[h].lee = FilaGrupos
             /\ \A k \in Hilos \ {h} : peticion'[k] = peticion[k]
        BY <1>0, <3>8, <3>9, AlLlegar
      <3>11. \A k \in Hilos \ {h} : SabeDelGrupo(k)'
        BY <1>0, <3>8, <3>10, GrupoQueSigue, IgualSinAge
      <3>12. SabeDelGrupo(h)'
        BY <3>6, <3>7, <3>8, <3>10 DEF SabeDelGrupo, FilaGrupos
      <3>13. QED BY <1>0, <3>8, <3>10, <3>11, <3>12, RegistrosIguales DEF IInvRecomendacion
    <2>3. QED BY <2>1, <2>2
  <1>3. ASSUME NEW h \in Hilos, CommitAsignar(h)
        PROVE  IInvRecomendacion'
    <2>1. PICK d : d = peticion[h].dato
      OBVIOUS
    <2>2. /\ peticion[h] # Nada
          /\ d \in [usuario: Usuarios, grupo: Grupos, mapa: Mapas, nueva: BOOLEAN]
          /\ d.mapa[d.usuario] = d.grupo
          /\ ~peticion[h].vieja => \A u \in Usuarios :
                        GrupoDe(grupos, u) # Nada => d.mapa[u] = GrupoDe(grupos, u)
          /\ registros' = registros
      BY <1>0, <1>3, <2>1 DEF CommitAsignar, EnCurso, SabeDelGrupo
    <2>3. CASE Falla(h) /\ grupos' = grupos
      <3>1. /\ Ranuras(PeticionRecomendacion)' /\ obsoleta' = obsoleta /\ peticion'[h] = Nada
            /\ \A g \in Hilos \ {h} : peticion'[g] = peticion[g]
        BY <1>0, <2>3, AlFallar
      <3>2. \A g \in Hilos \ {h} : SabeDelGrupo(g)'
        BY <1>0, <2>3, <3>1, GrupoQueSigue, IgualSinAge
      <3>3. SabeDelGrupo(h)'
        BY <3>1 DEF SabeDelGrupo
      <3>4. QED BY <1>0, <2>2, <2>3, <3>1, <3>2, <3>3, RegistrosIguales DEF IInvRecomendacion
    <2>4. CASE /\ grupos' = d.mapa
               /\ Sigue(h, FilaGrupos, "anotar", {}, [usuario |-> d.usuario, grupo |-> d.grupo])
      <3>1. PICK e : e = [usuario |-> d.usuario, grupo |-> d.grupo]
        OBVIOUS
      <3>2. e \in [usuario: Usuarios, grupo: Grupos] /\ e.usuario = d.usuario /\ e.grupo = d.grupo
        BY <2>2, <3>1
      <3>3. grupos' = d.mapa /\ Sigue(h, FilaGrupos, "anotar", {}, e)
        BY <2>4, <3>1
      <3>4. PeticionNueva("anotar", {}, e) \in PeticionRecomendacion
        BY <3>2 DEF PeticionNueva, PeticionRecomendacion, Peticion
      <3>5. /\ Ranuras(PeticionRecomendacion)'
            /\ ~obsoleta' => ~obsoleta /\ ~peticion[h].vieja
            /\ peticion'[h].op = "anotar" /\ peticion'[h].dato = e
            /\ \A g \in Hilos \ {h} : SigueIgual(g, FilaGrupos)
        BY <1>0, <2>2, <3>3, <3>4, AlSeguir
      <3>6. grupos' # Nada /\ \A u : GrupoDe(grupos', u) = d.mapa[u]
        BY <1>0, <2>2, <3>3 DEF GrupoDe
      <3>7. ~obsoleta' => \A u \in Usuarios : GrupoDe(grupos, u) # Nada => GrupoDe(grupos', u) = GrupoDe(grupos, u)
        BY <2>2, <3>5, <3>6
      <3>8. ASSUME NEW g \in Hilos \ {h}
            PROVE  SabeDelGrupo(g)'
        <4>1. SabeDelGrupo(g) /\ SigueIgual(g, FilaGrupos) /\ FilaGrupos \cap FilaGrupos # {}
          BY <1>0, <3>5 DEF FilaGrupos
        <4>2. CASE peticion[g] # Nada /\ peticion[g].op = "anotar"
          <5>1. peticion[g].dato \in [usuario: Usuarios, grupo: Grupos]
            BY <4>1, <4>2 DEF SabeDelGrupo
          <5>2. ~obsoleta' => GrupoDe(grupos', peticion[g].dato.usuario) = peticion[g].dato.grupo
            BY <1>0, <3>5, <3>7, <4>1, <4>2, <5>1 DEF SabeDelGrupo
          <5>3. QED BY <4>1, <4>2, <5>1, <5>2 DEF SabeDelGrupo, SigueIgual
        <4>3. CASE peticion[g] # Nada /\ peticion[g].op # "anotar"
          BY <4>1, <4>3 DEF SabeDelGrupo, SigueIgual
        <4>4. CASE peticion[g] = Nada
          BY <4>1, <4>4 DEF SabeDelGrupo, SigueIgual
        <4>5. QED BY <4>2, <4>3, <4>4
      <3>9. SabeDelGrupo(h)'
        BY <2>2, <3>2, <3>5, <3>6 DEF SabeDelGrupo
      <3>10. RecomendacionOK'
        BY <1>0, <2>2, <3>3 DEF RecomendacionOK
      <3>11. GrupoEstableEnSerie'
        BY <1>0, <2>2, <3>5, <3>7 DEF GrupoEstableEnSerie
      <3>12. QED BY <3>5, <3>8, <3>9, <3>10, <3>11 DEF IInvRecomendacion
    <2>5. QED BY <1>3, <2>1, <2>3, <2>4 DEF CommitAsignar, Dato
  <1>4. ASSUME NEW h \in Hilos, Anotar(h)
        PROVE  IInvRecomendacion'
    <2>1. PICK d : d = peticion[h].dato
      OBVIOUS
    <2>2. PICK r : r = [usuario |-> d.usuario, grupo |-> d.grupo, respondio |-> FALSE, aceptado |-> FALSE]
      OBVIOUS
    <2>3. /\ peticion[h] # Nada /\ d \in [usuario: Usuarios, grupo: Grupos]
          /\ ~obsoleta => GrupoDe(grupos, d.usuario) = d.grupo
          /\ registros' = Append(registros, r) /\ Termina(h, {}) /\ grupos' = grupos
      BY <1>0, <1>4, <2>1, <2>2 DEF Anotar, EnCurso, SabeDelGrupo, Dato
    <2>4. /\ r \in [usuario: Usuarios, grupo: Grupos, respondio: BOOLEAN, aceptado: BOOLEAN]
          /\ r.usuario = d.usuario /\ r.grupo = d.grupo /\ ~r.aceptado
      BY <2>2, <2>3
    <2>5. PICK n \in Nat : n = Len(registros)
      BY <1>0
    <2>6. registros \in Seq([usuario: Usuarios, grupo: Grupos, respondio: BOOLEAN, aceptado: BOOLEAN])
      BY <1>0 DEF RecomendacionOK
    <2>7. /\ registros' \in Seq([usuario: Usuarios, grupo: Grupos, respondio: BOOLEAN, aceptado: BOOLEAN])
          /\ Len(registros') = n + 1
          /\ \A i \in 1..n : registros'[i] = registros[i]
          /\ registros'[n + 1] = r
      BY <2>3, <2>4, <2>5, <2>6, AppendProperties
    <2>8. DOMAIN registros' = 1..(n + 1) /\ DOMAIN registros = 1..n
      BY <1>0, <2>5, <2>7, LenProperties
    <2>9. \A i \in DOMAIN registros' : \/ (i \in DOMAIN registros /\ registros'[i] = registros[i])
                                       \/ registros'[i] = r
      BY <2>7, <2>8
    <2>10. /\ Ranuras(PeticionRecomendacion)' /\ peticion'[h] = Nada
           /\ ~obsoleta' => ~obsoleta
           /\ \A g \in Hilos \ {h} : SigueIgual(g, {})
      BY <1>0, <2>3, AlTerminar
    <2>11. \A g \in Hilos \ {h} : SabeDelGrupo(g)'
      BY <1>0, <2>3, <2>10, GrupoQueSigue
    <2>12. SabeDelGrupo(h)'
      BY <2>10 DEF SabeDelGrupo
    <2>13. RecomendacionOK'
      BY <1>0, <2>3, <2>4, <2>7, <2>9 DEF RecomendacionOK
    <2>14. GrupoEstableEnSerie'
      <3>1. ~obsoleta' => GrupoDe(grupos, d.usuario) = d.grupo
        BY <2>3, <2>10
      <3>2. QED BY <1>0, <2>3, <2>4, <2>9, <2>10, <3>1 DEF GrupoEstableEnSerie, GrupoDe
    <2>15. QED BY <2>10, <2>11, <2>12, <2>13, <2>14 DEF IInvRecomendacion
  <1>5. QED BY <1>1, <1>2, <1>3, <1>4 DEF NextRecomendacion

LEMMA RecomendacionQuieta ==
    ASSUME IInvRecomendacion, UNCHANGED <<recomendacionVars, servidor>>
    PROVE  IInvRecomendacion'
  <1>1. /\ grupos' = grupos /\ registros' = registros
        /\ peticion' = peticion /\ obsoleta' = obsoleta
    BY DEF recomendacionVars, servidor
  <1>2. \A h \in Hilos : SabeDelGrupo(h)'
    BY <1>1, GrupoQueSigue, IgualSinAge DEF IInvRecomendacion
  <1>3. QED BY <1>1, <1>2, RegistrosIguales DEF IInvRecomendacion, Ranuras

LEMMA RecomendacionAlInicio ==
    ASSUME InitRecomendacion
    PROVE  /\ RecomendacionOK /\ GrupoEstableEnSerie
           /\ Ranuras(PeticionRecomendacion) /\ (\A h \in Hilos : peticion[h] = Nada) => IInvRecomendacion
  <1>1. grupos = Nada /\ registros = <<>>
    BY DEF InitRecomendacion
  <1>2. RecomendacionOK /\ GrupoEstableEnSerie
    BY <1>1, EmptySeq DEF RecomendacionOK, GrupoEstableEnSerie
  <1>3. QED BY <1>2 DEF IInvRecomendacion, SabeDelGrupo
-----------------------------------------------------------------------------
(* The list of recommended providers *)

\* Among finitely many providers, a list with room for one: it is not empty if
\* there is anybody to list, and nobody left out had more points than one listed.
LEMMA ListaFirme ==
    ASSUME NEW quienes \in SUBSET Proveedores, NEW puntos \in [quienes -> Nat],
           NEW l \in Listas(quienes, puntos)
    PROVE  /\ quienes # {} => {l[i] : i \in DOMAIN l} # {}
           /\ {l[i] : i \in DOMAIN l} \subseteq quienes
           /\ \A p \in quienes \ {l[i] : i \in DOMAIN l}, q \in {l[i] : i \in DOMAIN l} :
                    puntos[p] <= puntos[q]
  <1>1. IsFiniteSet(quienes)
    BY ProveedoresFinitos, FS_Subset
  <1>2. PICK n : n = IF Cardinality(quienes) < MaxLista THEN Cardinality(quienes) ELSE MaxLista
    OBVIOUS
  <1>3. Cardinality(quienes) \in Nat /\ (quienes # {} => Cardinality(quienes) > 0)
    BY <1>1, FS_CardinalityType, FS_EmptySet
  <1>4. n \in Nat /\ (quienes # {} => n > 0)
    BY <1>2, <1>3, ProveedoresFinitos
  <1>5. /\ l \in [1..n -> quienes]
        /\ \A p \in quienes : p \in {l[i] : i \in 1..n} \/ (\A i \in 1..n : puntos[l[i]] >= puntos[p])
    BY <1>2 DEF Listas
  <1>6. quienes # {} => 1 \in DOMAIN l
    BY <1>4, <1>5
  <1>7. ASSUME NEW p \in quienes, p \notin {l[i] : i \in DOMAIN l}, NEW i \in DOMAIN l
        PROVE  puntos[p] <= puntos[l[i]]
    <2>1. puntos[l[i]] >= puntos[p]
      BY <1>5, <1>7
    <2>2. l[i] \in quienes
      BY <1>5
    <2>3. QED BY <2>1, <2>2
  <1>8. QED BY <1>5, <1>6, <1>7

IInvClasificacion == fichas \in [Proveedores -> Fichas] /\ ClasificacionOK

LEMMA PasoClasificacion ==
    ASSUME IInvClasificacion, NextClasificacion
    PROVE  IInvClasificacion'
  <1>0. fichas \in [Proveedores -> Fichas] /\ ClasificacionOK
    BY DEF IInvClasificacion
  <1>1. ASSUME respuesta' = <<>>
        PROVE  ClasificacionOK'
    BY <1>1 DEF ClasificacionOK
  <1>2. ASSUME NEW c \in BOOLEAN, Recomienda(c)
        PROVE  ClasificacionOK'
    <2>1. fichas' = fichas /\ banderas' = banderas
      BY <1>2 DEF Recomienda
    <2>2. Elegibles' = Elegibles /\ Cercanos' = Cercanos
      BY <2>1 DEF Elegibles, Cercanos
    <2>3. Elegibles \in SUBSET Proveedores /\ Cercanos \in SUBSET Proveedores /\ Cercanos \subseteq Elegibles
      BY DEF Elegibles, Cercanos
    <2>4. PICK r : r = respuesta'
      OBVIOUS
    <2>5. CASE r \in Heuristica
      <3>1. PICK puntos : puntos = [p \in Elegibles |-> Afinidad(p)]
        OBVIOUS
      <3>2. PICK l \in Listas(Elegibles, puntos) : r = [por |-> "heuristica", lista |-> l, puntos |-> puntos]
        BY <2>5, <3>1 DEF Heuristica
      <3>3. puntos \in [Elegibles -> Nat]
        
        <4>1. ASSUME NEW p \in Elegibles
              PROVE  puntos[p] \in Nat
          <5>1. fichas[p].estrellas \in Nat
            BY <1>0, FichasConEstrellas DEF Elegibles
          <5>2. QED BY <3>1, <5>1 DEF Afinidad
        <4>2. QED BY <3>1, <4>1
      <3>4. /\ Elegibles # {} => {l[i] : i \in DOMAIN l} # {}
            /\ {l[i] : i \in DOMAIN l} \subseteq Elegibles
            /\ \A p \in Elegibles \ {l[i] : i \in DOMAIN l}, q \in {l[i] : i \in DOMAIN l} :
                    puntos[p] <= puntos[q]
        BY <2>3, <3>3, ListaFirme
      <3>5. r.lista = l /\ r.puntos = puntos /\ DOMAIN puntos = Elegibles /\ r.por = "heuristica"
        BY <3>2, <3>3
      <3>6. QED BY <2>2, <2>4, <3>4, <3>5 DEF ClasificacionOK, Listados
    <2>6. CASE r \in Aprendida /\ banderas.ml /\ ~banderas.sombra /\ Cercanos # {}
      <3>1. PICK puntos \in [Cercanos -> {0, 50, 100}] :
                \E l \in Listas(Cercanos, puntos) : r = [por |-> "modelo", lista |-> l, puntos |-> puntos]
        BY <2>6 DEF Aprendida
      <3>2. PICK l \in Listas(Cercanos, puntos) : r = [por |-> "modelo", lista |-> l, puntos |-> puntos]
        BY <3>1
      <3>3. puntos \in [Cercanos -> Nat]
        OBVIOUS
      <3>4. /\ {l[i] : i \in DOMAIN l} # {}
            /\ {l[i] : i \in DOMAIN l} \subseteq Cercanos
            /\ \A p \in Cercanos \ {l[i] : i \in DOMAIN l}, q \in {l[i] : i \in DOMAIN l} :
                    puntos[p] <= puntos[q]
        BY <2>3, <2>6, <3>3, ListaFirme
      <3>5. r.lista = l /\ r.puntos = puntos /\ DOMAIN puntos = Cercanos
        BY <3>2, <3>3
      <3>6. QED BY <2>1, <2>2, <2>3, <2>4, <2>6, <3>4, <3>5 DEF ClasificacionOK, Listados
    <2>7. r \in Heuristica \/ (r \in Aprendida /\ banderas.ml /\ ~banderas.sombra /\ Cercanos # {})
      BY <1>2, <2>4 DEF Recomienda, Hibrida
    <2>8. QED BY <2>5, <2>6, <2>7
  <1>3. ASSUME NEW p \in Proveedores, NEW f \in Fichas, CambiaFicha(p, f)
        PROVE  IInvClasificacion'
    BY <1>0, <1>1, <1>3 DEF CambiaFicha, IInvClasificacion
  <1>4. ASSUME NEW b \in {"ml", "sombra", "modelo"}, CambianBanderas(b)
        PROVE  IInvClasificacion'
    BY <1>0, <1>1, <1>4 DEF CambianBanderas, IInvClasificacion
  <1>5. ASSUME NEW c \in BOOLEAN, Recomienda(c)
        PROVE  IInvClasificacion'
    BY <1>0, <1>2, <1>5 DEF Recomienda, IInvClasificacion
  <1>6. QED BY <1>3, <1>4, <1>5 DEF NextClasificacion

LEMMA ClasificacionQuieta ==
    ASSUME IInvClasificacion, UNCHANGED clasificacionVars
    PROVE  IInvClasificacion'
  <1>1. fichas' = fichas /\ banderas' = banderas /\ respuesta' = respuesta
    BY DEF clasificacionVars
  <1>2. Elegibles' = Elegibles /\ Cercanos' = Cercanos
    BY <1>1 DEF Elegibles, Cercanos
  <1>3. QED BY <1>1, <1>2 DEF IInvClasificacion, ClasificacionOK, Listados

LEMMA ClasificacionAlInicio ==
    ASSUME InitClasificacion
    PROVE  IInvClasificacion
  <1>1. PICK f : f = CHOOSE g \in Fichas : ~g.completo
    OBVIOUS
  <1>2. f \in Fichas
    BY <1>1, FichasConEstrellas
  <1>3. fichas = [p \in Proveedores |-> f] /\ respuesta = <<>>
    BY <1>1 DEF InitClasificacion
  <1>4. QED BY <1>2, <1>3 DEF IInvClasificacion, ClasificacionOK

-----------------------------------------------------------------------------
(* The rate limit *)

\* The attempts let through in the window that ends at t.
EnVentana(t) == {i \in DOMAIN admitidos : admitidos[i] <= t /\ t - admitidos[i] < WindowSeconds}

\* The list holds every attempt that is recent, and maybe others that were.
IInvLimite ==
    /\ reloj \in Nat
    /\ admitidos \in Seq(0..reloj)
    /\ intentos \subseteq DOMAIN admitidos
    /\ \A i \in DOMAIN admitidos : reloj - admitidos[i] < WindowSeconds => i \in intentos
    /\ \A t \in 0..reloj : Cardinality(EnVentana(t)) <= MaxAttempts

LEMMA Pocos ==
    ASSUME NEW n \in Nat, NEW S, S \subseteq 1..n
    PROVE  IsFiniteSet(S) /\ Cardinality(S) \in Nat
  <1>1. IsFiniteSet(1..n)
    BY FS_Interval
  <1>2. IsFiniteSet(S)
    BY <1>1, FS_Subset
  <1>3. QED BY <1>2, FS_CardinalityType

LEMMA AlcanzaElLimite == ASSUME IInvLimite PROVE LimitePorVentana
  BY DEF IInvLimite, EnVentana, LimitePorVentana

LEMMA PasaElTiempo ==
    ASSUME IInvLimite, Pasa
    PROVE  IInvLimite'
  <1>1. PICK n \in Nat : n = Len(admitidos)
    BY LenProperties DEF IInvLimite
  <1>2. /\ reloj \in Nat /\ reloj' = reloj + 1 /\ admitidos' = admitidos /\ intentos' = intentos
        /\ DOMAIN admitidos = 1..n /\ \A i \in 1..n : admitidos[i] \in 0..reloj
        /\ WindowSeconds \in Nat
    BY <1>1, LenProperties, ElementOfSeq, RateLimitAssumption DEF IInvLimite, Pasa
  <1>3. admitidos \in Seq(0..(reloj + 1))
    BY <1>1, <1>2, SeqDef DEF IInvLimite
  <1>4. \A i \in DOMAIN admitidos :
            reloj + 1 - admitidos[i] < WindowSeconds => reloj - admitidos[i] < WindowSeconds
    BY <1>2
  <1>5. ASSUME NEW t \in 0..(reloj + 1)
        PROVE  Cardinality(EnVentana(t)) <= MaxAttempts
    <2>1. CASE t \in 0..reloj
      BY <2>1 DEF IInvLimite
    <2>2. CASE t = reloj + 1
      <3>1. PICK S : S = EnVentana(reloj)
        OBVIOUS
      <3>2. PICK T : T = EnVentana(t)
        OBVIOUS
      <3>3. T \subseteq S /\ S \subseteq 1..n
        BY <1>2, <2>2, <3>1, <3>2 DEF EnVentana
      <3>4. Cardinality(T) <= Cardinality(S) /\ Cardinality(S) \in Nat /\ Cardinality(T) \in Nat
        BY <3>3, Pocos, FS_Subset
      <3>5. Cardinality(S) <= MaxAttempts
        BY <1>2, <3>1 DEF IInvLimite
      <3>6. QED BY <3>2, <3>4, <3>5, RateLimitAssumption
    <2>3. QED BY <1>2, <2>1, <2>2
  <1>6. \A t : EnVentana(t)' = EnVentana(t)
    BY <1>2 DEF EnVentana
  <1>7. QED BY <1>2, <1>3, <1>4, <1>5, <1>6 DEF IInvLimite

LEMMA SeIntenta ==
    ASSUME IInvLimite, Intenta
    PROVE  IInvLimite'
  <1>1. PICK n \in Nat : n = Len(admitidos)
    BY LenProperties DEF IInvLimite
  <1>2. /\ reloj \in Nat /\ reloj' = reloj /\ admitidos \in Seq(0..reloj)
        /\ DOMAIN admitidos = 1..n /\ \A i \in 1..n : admitidos[i] \in 0..reloj
        /\ WindowSeconds \in Nat \ {0} /\ MaxAttempts \in Nat
    BY <1>1, LenProperties, ElementOfSeq, RateLimitAssumption DEF IInvLimite, Intenta
  <1>3. PICK R : R = Recientes
    OBVIOUS
  <1>4. R \subseteq 1..n /\ R = EnVentana(reloj)
    BY <1>2, <1>3 DEF IInvLimite, Recientes, EnVentana
  <1>5. CASE Cardinality(R) >= MaxAttempts
    <2>1. intentos' = R /\ admitidos' = admitidos
      BY <1>3, <1>5 DEF Intenta
    <2>2. \A t : EnVentana(t)' = EnVentana(t)
      BY <2>1 DEF EnVentana
    <2>3. \A i \in DOMAIN admitidos : reloj - admitidos[i] < WindowSeconds => i \in R
      BY <1>2, <1>4 DEF EnVentana
    <2>4. QED BY <1>2, <1>4, <2>1, <2>2, <2>3 DEF IInvLimite
  <1>6. CASE ~(Cardinality(R) >= MaxAttempts)
    <2>1. admitidos' = Append(admitidos, reloj)
      BY <1>3, <1>6 DEF Intenta
    <2>2. /\ admitidos' \in Seq(0..reloj) /\ Len(admitidos') = n + 1 /\ admitidos'[n + 1] = reloj
          /\ \A i \in 1..n : admitidos'[i] = admitidos[i]
      <3>1. reloj \in 0..reloj
        BY <1>2
      <3>2. QED BY <1>1, <1>2, <2>1, <3>1, AppendProperties
    <2>3. intentos' = R \cup {n + 1}
      BY <1>3, <1>6, <2>2 DEF Intenta
    <2>4. DOMAIN admitidos' = 1..(n + 1)
      BY <2>2, LenProperties
    <2>5. \A i \in 1..(n + 1) : reloj - admitidos'[i] < WindowSeconds => i \in R \cup {n + 1}
      BY <1>2, <1>4, <2>2 DEF EnVentana
    <2>6. ASSUME NEW t \in 0..reloj
          PROVE  Cardinality(EnVentana(t)') <= MaxAttempts
      <3>1. CASE t < reloj
        <4>1. EnVentana(t)' = EnVentana(t)
          BY <1>2, <2>2, <2>4, <3>1 DEF EnVentana
        <4>2. QED BY <4>1 DEF IInvLimite
      <3>2. CASE t = reloj
        <4>1. EnVentana(t)' = R \cup {n + 1}
          BY <1>2, <1>4, <2>2, <2>4, <3>2 DEF EnVentana
        <4>2. n + 1 \notin R /\ IsFiniteSet(R) /\ Cardinality(R) \in Nat
          BY <1>4, Pocos
        <4>3. Cardinality(R \cup {n + 1}) = Cardinality(R) + 1
          BY <4>2, FS_AddElement
        <4>4. QED BY <1>2, <1>6, <4>1, <4>2, <4>3
      <3>3. QED BY <1>2, <3>1, <3>2
    <2>7. R \cup {n + 1} \subseteq 1..(n + 1)
      BY <1>4
    <2>8. QED BY <1>2, <2>2, <2>3, <2>4, <2>5, <2>6, <2>7 DEF IInvLimite
  <1>7. QED BY <1>5, <1>6

LEMMA SinIntentos ==
    ASSUME reloj \in Nat, admitidos = <<>>, intentos = {}
    PROVE  IInvLimite
  <1>1. admitidos \in Seq(0..reloj) /\ DOMAIN admitidos = {}
    BY EmptySeq
  <1>2. \A t : EnVentana(t) = {}
    BY <1>1 DEF EnVentana
  <1>3. Cardinality({}) = 0
    BY FS_EmptySet
  <1>4. QED BY <1>1, <1>2, <1>3, RateLimitAssumption DEF IInvLimite

LEMMA SeOlvidan ==
    ASSUME IInvLimite, OlvidaIntentos
    PROVE  IInvLimite'
  <1>1. reloj' \in Nat /\ admitidos' = <<>> /\ intentos' = {}
    BY DEF IInvLimite, OlvidaIntentos
  <1>2. admitidos' \in Seq(0..reloj') /\ DOMAIN admitidos' = {}
    BY <1>1, EmptySeq
  <1>3. \A t : EnVentana(t)' = {}
    BY <1>2 DEF EnVentana
  <1>4. \A t : Cardinality(EnVentana(t)') <= MaxAttempts
    BY <1>3, FS_EmptySet, RateLimitAssumption
  <1>5. QED BY <1>1, <1>2, <1>4 DEF IInvLimite

LEMMA PasoLimite ==
    ASSUME IInvLimite, NextRateLimit
    PROVE  IInvLimite'
  BY PasaElTiempo, SeIntenta, SeOlvidan DEF NextRateLimit

LEMMA LimiteQuieto ==
    ASSUME IInvLimite, UNCHANGED rateLimitVars
    PROVE  IInvLimite'
  BY DEF rateLimitVars, IInvLimite, EnVentana

LEMMA LimiteAlInicio ==
    ASSUME InitRateLimit
    PROVE  LimitePorVentana /\ IInvLimite
  BY SinIntentos, AlcanzaElLimite DEF InitRateLimit

-----------------------------------------------------------------------------
(* Files *)

LEMMA PeticionesDeArchivos == DePeticiones(PeticionArchivos)
  BY NadaNoEsArchivo DEF DePeticiones, PeticionArchivos

\* Which keys are told apart.
LEMMA Llaves ==
    /\ \A t, u \in TipoItem : \A x, y : Llave(t, x) = Llave(u, y) => x = y
    /\ \A t \in TipoItem : \A x, y : Llave(t, x) = s3_key(y) => x = y
    /\ \A x, y : s3_key(x) = s3_key(y) => x = y
    /\ \A x, y : LlaveAvatar(x) # s3_key(y)
    /\ \A t \in TipoItem : \A x, y : LlaveAvatar(x) # Llave(t, y)
  BY DEF TipoItem, Llave, s3_key, LlaveAvatar

Unico(n) == \A m \in DOMAIN nombres : nombres[m] = nombres[n] => m = n
Guardada(llave, n) == llave \in DOMAIN almacen /\ almacen[llave] = n
EnVuelo(n) == \E h \in Hilos : EnCurso(h, "item") /\ Dato(h).n = n

\* A file on its way is stored, and one whose deletion began is not; its row comes
\* after, or goes after.
SabeDeArchivos(h) ==
    LET p == peticion[h]
        d == p.dato
    IN  p # Nada =>
        /\ p.op = "item" =>
                /\ d \in [n: Nat, tipo: TipoItem, nombre: Nombres]
                /\ d.n \in DOMAIN nombres /\ nombres[d.n] = d.nombre
                /\ d.n \notin DOMAIN items
                /\ ~interrumpida /\ Unico(d.n) => Guardada(Llave(d.tipo, d.nombre), d.n)
        /\ p.op = "foto" =>
                (d.llave # Nada => d.llave \in Avatares /\ d.llave \in DOMAIN almacen)
        /\ p.op = "borrar" =>
                /\ d \in DOMAIN nombres
                /\ ~interrumpida /\ Unico(d) => s3_key(nombres[d]) \notin DOMAIN almacen

Coherentes ==
    ~interrumpida => \A n \in DOMAIN nombres : Unico(n) =>
        /\ n \in DOMAIN items /\ ~Borrandose(n) => Guardada(Llave(items[n].tipo, nombres[n]), n)
        /\ s3_key(nombres[n]) \in DOMAIN almacen => n \in DOMAIN items \/ EnVuelo(n)

FilasDeArchivos ==
    /\ nombres \in Seq(Nombres)
    /\ \A x : s3_key(x) \in DOMAIN almacen => \E n \in DOMAIN nombres : nombres[n] = x
    /\ \A n \in DOMAIN items : /\ n \in DOMAIN nombres
                               /\ items[n].nombre = nombres[n] /\ items[n].tipo \in TipoItem
    /\ foto # Nada => foto \in Avatares /\ foto \in DOMAIN almacen

DeUnaVez == \A g, h \in Hilos :
    EnCurso(g, "item") /\ EnCurso(h, "item") /\ Dato(g).n = Dato(h).n => g = h

IInvArchivos ==
    /\ Ranuras(PeticionArchivos)
    /\ FilasDeArchivos /\ Coherentes /\ DeUnaVez
    /\ \A h \in Hilos : SabeDeArchivos(h)

LEMMA AlcanzanLosArchivos == ASSUME IInvArchivos PROVE ArchivosOK
  <1>1. DOMAIN nombres = 1..Len(nombres)
    BY LenProperties DEF IInvArchivos, FilasDeArchivos
  <1>2. \A n \in DOMAIN nombres : ~MismoNombre(n) => Unico(n)
    BY DEF MismoNombre, Unico
  <1>3. QED BY <1>1, <1>2 DEF IInvArchivos, FilasDeArchivos, Coherentes, ArchivosOK, Guardada, EnVuelo

LEMMA AlGuardar ==
    ASSUME NEW k, NEW n, almacen' = Guarda(k, n)
    PROVE  /\ DOMAIN almacen' = DOMAIN almacen \cup {k}
           /\ almacen'[k] = n
           /\ \A x \in DOMAIN almacen : x # k => almacen'[x] = almacen[x]
  BY DEF Guarda

\* A file is stored under a name: the requests and rows of other uploads do not see
\* it, and its own is new.
LEMMA AlSubir ==
    ASSUME IInvArchivos, NEW h \in Hilos, NEW x \in Nombres, NEW k, NEW n, NEW op, NEW d,
           n = Len(nombres) + 1, nombres' = Append(nombres, x), almacen' = Guarda(k, n),
           UNCHANGED <<items, foto, interrumpida>>,
           Llega(h, op, {}, d),
           \/ /\ op = "item" /\ d \in [n: Nat, tipo: TipoItem, nombre: Nombres]
              /\ d.n = n /\ d.nombre = x /\ k = Llave(d.tipo, x)
           \/ /\ op = "foto" /\ d \in [cargada: Avatares \cup {Nada}, llave: Avatares \cup {Nada}]
              /\ d.llave = k /\ k = LlaveAvatar(x)
    PROVE  IInvArchivos'
  <1>1. PeticionNueva(op, {}, d) \in PeticionArchivos
    BY DEF PeticionNueva, PeticionArchivos, Peticion
  <1>2. /\ Ranuras(PeticionArchivos)' /\ peticion[h] = Nada
        /\ peticion'[h] # Nada /\ peticion'[h].op = op /\ peticion'[h].dato = d
        /\ \A g \in Hilos \ {h} : peticion'[g] = peticion[g]
    BY <1>1, AlLlegar, PeticionesDeArchivos DEF IInvArchivos
  <1>3. PICK l \in Nat : l = Len(nombres) /\ n = l + 1 /\ nombres \in Seq(Nombres)
    BY LenProperties DEF IInvArchivos, FilasDeArchivos
  <1>4. /\ nombres' \in Seq(Nombres) /\ Len(nombres') = n /\ nombres'[n] = x
        /\ \A i \in 1..l : nombres'[i] = nombres[i]
    BY <1>3, AppendProperties
  <1>5. DOMAIN nombres = 1..l /\ DOMAIN nombres' = 1..n
    BY <1>3, <1>4, LenProperties
  <1>6. /\ n \notin DOMAIN nombres /\ DOMAIN nombres' = DOMAIN nombres \cup {n} /\ n \in Nat
        /\ \A i \in DOMAIN nombres : nombres'[i] = nombres[i]
    BY <1>3, <1>4, <1>5
  <1>7. /\ DOMAIN almacen' = DOMAIN almacen \cup {k} /\ almacen'[k] = n
        /\ \A y \in DOMAIN almacen : y # k => almacen'[y] = almacen[y]
    BY AlGuardar
  <1>8. items' = items /\ foto' = foto /\ interrumpida' = interrumpida
    OBVIOUS
  <1>9. \A i \in DOMAIN nombres : Unico(i)' => Unico(i) /\ nombres[i] # x
    BY <1>4, <1>6 DEF Unico
  <1>10. \A y : s3_key(y) = k => y = x
    BY Llaves DEF TipoItem
  <1>11. \A t \in TipoItem : \A y : Llave(t, y) = k => y = x
    BY Llaves
  <1>12. \A t, y : Llave(t, y)' = Llave(t, y) /\ s3_key(y)' = s3_key(y)
    BY DEF Llave, s3_key
  <1>13. \A i \in DOMAIN nombres : Unico(i)' => s3_key(nombres[i]) # k
                                                /\ \A t \in TipoItem : Llave(t, nombres[i]) # k
    BY <1>9, <1>10, <1>11
  <1>14. FilasDeArchivos'
    <2>1. \A y : s3_key(y) \in DOMAIN almacen' => \E i \in DOMAIN nombres' : nombres'[i] = y
      BY <1>4, <1>6, <1>7, <1>10 DEF IInvArchivos, FilasDeArchivos
    <2>2. \A i \in DOMAIN items : /\ i \in DOMAIN nombres'
                                  /\ items[i].nombre = nombres'[i] /\ items[i].tipo \in TipoItem
      BY <1>6 DEF IInvArchivos, FilasDeArchivos
    <2>3. foto # Nada => foto \in Avatares /\ foto \in DOMAIN almacen'
      BY <1>7 DEF IInvArchivos, FilasDeArchivos
    <2>4. Avatares' = Avatares /\ TipoItem' = TipoItem
      BY DEF Avatares, LlaveAvatar, TipoItem
    <2>5. QED BY <1>4, <1>8, <1>12, <2>1, <2>2, <2>3, <2>4 DEF FilasDeArchivos
  <1>15. \A i \in DOMAIN nombres, t \in TipoItem : Unico(i)' /\ Guardada(Llave(t, nombres[i]), i) =>
            Guardada(Llave(t, nombres[i]), i)'
    <2> SUFFICES ASSUME NEW i \in DOMAIN nombres, NEW t \in TipoItem, Unico(i)',
                        Guardada(Llave(t, nombres[i]), i)
                 PROVE  Llave(t, nombres'[i]) \in DOMAIN almacen' /\ almacen'[Llave(t, nombres'[i])] = i
      BY <1>12 DEF Guardada
    <2>1. Llave(t, nombres[i]) # k /\ nombres'[i] = nombres[i]
      BY <1>6, <1>13
    <2>2. QED BY <1>7, <2>1 DEF Guardada
  <1>16. DeUnaVez'
    <2>1. \A g \in Hilos : EnCurso(g, "item") => Dato(g).n # n
      BY <1>6 DEF IInvArchivos, SabeDeArchivos, EnCurso, Dato
    <2>2. QED BY <1>2, <2>1 DEF IInvArchivos, DeUnaVez, EnCurso, Dato
  <1>17. \A i : EnVuelo(i) => EnVuelo(i)'
    BY <1>2 DEF EnVuelo, EnCurso, Dato
  <1>18. \A i : Borrandose(i)' <=> Borrandose(i)
    BY <1>2 DEF Borrandose, EnCurso, Dato
  <1>19. Coherentes'
    <2> SUFFICES ASSUME ~interrumpida, NEW i \in DOMAIN nombres', Unico(i)'
                 PROVE  /\ i \in DOMAIN items /\ ~Borrandose(i)' =>
                               Guardada(Llave(items[i].tipo, nombres[i]), i)'
                        /\ s3_key(nombres'[i]) \in DOMAIN almacen' => i \in DOMAIN items \/ EnVuelo(i)'
      BY <1>8, <1>12 DEF Coherentes
    <2>1. CASE i \in DOMAIN nombres
      <3>1. i \in DOMAIN items /\ ~Borrandose(i) => Guardada(Llave(items[i].tipo, nombres[i]), i)
        BY <1>9, <2>1 DEF IInvArchivos, Coherentes
      <3>2. i \in DOMAIN items => items[i].tipo \in TipoItem
        BY DEF IInvArchivos, FilasDeArchivos
      <3>3. i \in DOMAIN items /\ ~Borrandose(i)' => Guardada(Llave(items[i].tipo, nombres[i]), i)'
        <4> SUFFICES ASSUME i \in DOMAIN items, ~Borrandose(i)
                     PROVE  Guardada(Llave(items[i].tipo, nombres[i]), i)'
          BY <1>18
        <4>1. PICK t \in TipoItem : t = items[i].tipo
          BY <3>2
        <4>2. Guardada(Llave(t, nombres[i]), i)'
          BY <1>15, <2>1, <3>1, <4>1
        <4>3. QED BY <1>8, <4>1, <4>2
      <3>4. s3_key(nombres[i]) \in DOMAIN almacen => i \in DOMAIN items \/ EnVuelo(i)
        BY <1>9, <2>1 DEF IInvArchivos, Coherentes
      <3>5. QED BY <1>6, <1>7, <1>13, <1>17, <2>1, <3>3, <3>4
    <2>2. CASE i = n
      <3>1. i \notin DOMAIN items
        BY <1>6, <2>2 DEF IInvArchivos, FilasDeArchivos
      <3>2. \A m \in DOMAIN nombres : nombres[m] # x
        BY <1>4, <1>6, <2>2 DEF Unico
      <3>3. s3_key(x) \notin DOMAIN almacen
        BY <3>2 DEF IInvArchivos, FilasDeArchivos
      <3>4. op = "item" => EnVuelo(i)'
        BY <1>2, <2>2 DEF EnVuelo, EnCurso, Dato
      <3>5. op = "foto" => s3_key(x) # k
        BY Llaves
      <3>6. QED BY <1>4, <1>7, <2>2, <3>1, <3>3, <3>4, <3>5
    <2>3. QED BY <1>6, <2>1, <2>2
  <1>20. ASSUME NEW g \in Hilos \ {h}
         PROVE  SabeDeArchivos(g)'
    <2>1. SabeDeArchivos(g) /\ peticion'[g] = peticion[g]
      BY <1>2 DEF IInvArchivos
    <2>2. Avatares' = Avatares /\ TipoItem' = TipoItem
      BY DEF Avatares, LlaveAvatar, TipoItem
    <2>3. CASE peticion[g] # Nada /\ peticion[g].op = "item"
      <3>1. PICK e : e = peticion[g].dato
        OBVIOUS
      <3>2. /\ e \in [n: Nat, tipo: TipoItem, nombre: Nombres]
            /\ e.n \in DOMAIN nombres /\ nombres[e.n] = e.nombre /\ e.n \notin DOMAIN items
            /\ ~interrumpida /\ Unico(e.n) => Guardada(Llave(e.tipo, e.nombre), e.n)
        BY <2>1, <2>3, <3>1 DEF SabeDeArchivos
      <3>3. ASSUME ~interrumpida, Unico(e.n)'
            PROVE  Guardada(Llave(e.tipo, e.nombre), e.n)'
        <4>1. Guardada(Llave(e.tipo, e.nombre), e.n)
          BY <1>9, <3>2, <3>3
        <4>2. Llave(e.tipo, e.nombre) # k
          BY <1>13, <3>2, <3>3
        <4>3. QED BY <1>7, <1>12, <4>1, <4>2 DEF Guardada
      <3>4. e.n \in DOMAIN nombres' /\ nombres'[e.n] = e.nombre
        BY <1>6, <3>2
      <3>5. QED BY <1>8, <2>1, <2>2, <2>3, <3>1, <3>2, <3>3, <3>4 DEF SabeDeArchivos
    <2>4. CASE peticion[g] # Nada /\ peticion[g].op = "foto"
      BY <1>7, <2>1, <2>2, <2>4 DEF SabeDeArchivos
    <2>5. CASE peticion[g] # Nada /\ peticion[g].op = "borrar"
      <3>1. PICK e : e = peticion[g].dato
        OBVIOUS
      <3>2. /\ e \in DOMAIN nombres
            /\ ~interrumpida /\ Unico(e) => s3_key(nombres[e]) \notin DOMAIN almacen
        BY <2>1, <2>5, <3>1 DEF SabeDeArchivos
      <3>3. ~interrumpida /\ Unico(e)' => s3_key(nombres'[e]) \notin DOMAIN almacen'
        BY <1>6, <1>7, <1>9, <1>13, <3>2
      <3>4. QED BY <1>6, <1>8, <1>12, <2>1, <2>5, <3>1, <3>2, <3>3 DEF SabeDeArchivos
    <2>6. QED BY <2>1, <2>3, <2>4, <2>5 DEF SabeDeArchivos
  <1>21. SabeDeArchivos(h)'
    <2>1. Avatares' = Avatares /\ TipoItem' = TipoItem
      BY DEF Avatares, LlaveAvatar, TipoItem
    <2>2. CASE op = "item"
      <3>1. d \in [n: Nat, tipo: TipoItem, nombre: Nombres] /\ d.n = n /\ d.nombre = x
            /\ k = Llave(d.tipo, x)
        BY <2>2
      <3>2. n \notin DOMAIN items
        BY <1>6 DEF IInvArchivos, FilasDeArchivos
      <3>3. Guardada(Llave(d.tipo, d.nombre), d.n)'
        BY <1>7, <1>12, <3>1 DEF Guardada
      <3>4. QED BY <1>2, <1>4, <1>6, <1>8, <2>1, <2>2, <3>1, <3>2, <3>3 DEF SabeDeArchivos
    <2>3. CASE op = "foto"
      <3>1. d.llave = k /\ k \in Avatares
        BY <2>3 DEF Avatares
      <3>2. QED BY <1>2, <1>7, <2>1, <2>3, <3>1 DEF SabeDeArchivos
    <2>4. QED BY <2>2, <2>3
  <1>22. QED BY <1>2, <1>14, <1>16, <1>19, <1>20, <1>21 DEF IInvArchivos

LEMMA LlavesFijas ==
    /\ \A t, y : Llave(t, y)' = Llave(t, y)
    /\ \A y : s3_key(y)' = s3_key(y) /\ LlaveAvatar(y)' = LlaveAvatar(y)
    /\ Avatares' = Avatares /\ TipoItem' = TipoItem
  BY DEF Llave, s3_key, LlaveAvatar, Avatares, TipoItem

\* The files of others stay, and so do the photos.
LEMMA ArchivosQueSigue ==
    ASSUME NEW g, SabeDeArchivos(g), SigueIgual(g, {}),
           nombres' = nombres, interrumpida' = interrumpida,
           DOMAIN almacen' \subseteq DOMAIN almacen,
           \A k \in Avatares : k \in DOMAIN almacen => k \in DOMAIN almacen',
           EnCurso(g, "item") =>
               /\ Dato(g).n \notin DOMAIN items'
               /\ Unico(Dato(g).n) => \A t \in TipoItem : LET k == Llave(t, nombres[Dato(g).n])
                    IN  k \in DOMAIN almacen => k \in DOMAIN almacen' /\ almacen'[k] = almacen[k]
    PROVE  SabeDeArchivos(g)'
  <1>1. \A n : Unico(n)' <=> Unico(n)
    BY DEF Unico
  <1>2. ASSUME peticion[g] # Nada
        PROVE  peticion'[g] # Nada /\ peticion'[g].op = peticion[g].op
               /\ peticion'[g].dato = peticion[g].dato
    BY <1>2 DEF SigueIgual
  <1>3. CASE peticion[g] # Nada /\ peticion[g].op = "item"
    <2>1. PICK e : e = peticion[g].dato
      OBVIOUS
    <2>2. /\ e \in [n: Nat, tipo: TipoItem, nombre: Nombres]
          /\ e.n \in DOMAIN nombres /\ nombres[e.n] = e.nombre
          /\ ~interrumpida /\ Unico(e.n) => Guardada(Llave(e.tipo, e.nombre), e.n)
      BY <1>3, <2>1 DEF SabeDeArchivos
    <2>3. /\ e.n \notin DOMAIN items'
          /\ Unico(e.n) => \A t \in TipoItem : LET k == Llave(t, e.nombre)
                    IN  k \in DOMAIN almacen => k \in DOMAIN almacen' /\ almacen'[k] = almacen[k]
      BY <1>3, <2>1, <2>2 DEF EnCurso, Dato
    <2>4. ~interrumpida /\ Unico(e.n) => Guardada(Llave(e.tipo, e.nombre), e.n)'
      BY <2>2, <2>3, LlavesFijas DEF Guardada
    <2>5. QED BY <1>1, <1>2, <1>3, <2>1, <2>2, <2>3, <2>4, LlavesFijas DEF SabeDeArchivos
  <1>4. CASE peticion[g] # Nada /\ peticion[g].op = "foto"
    <2>1. PICK e : e = peticion[g].dato
      OBVIOUS
    <2>2. e.llave # Nada => e.llave \in Avatares /\ e.llave \in DOMAIN almacen
      BY <1>4, <2>1 DEF SabeDeArchivos
    <2>3. e.llave # Nada => e.llave \in Avatares /\ e.llave \in DOMAIN almacen'
      BY <2>2
    <2>4. QED BY <1>2, <1>4, <2>1, <2>3, LlavesFijas DEF SabeDeArchivos
  <1>5. CASE peticion[g] # Nada /\ peticion[g].op = "borrar"
    <2>1. PICK e : e = peticion[g].dato
      OBVIOUS
    <2>2. /\ e \in DOMAIN nombres
          /\ ~interrumpida /\ Unico(e) => s3_key(nombres[e]) \notin DOMAIN almacen
      BY <1>5, <2>1 DEF SabeDeArchivos
    <2>3. QED BY <1>1, <1>2, <1>5, <2>1, <2>2, LlavesFijas DEF SabeDeArchivos
  <1>6. QED BY <1>2, <1>3, <1>4, <1>5 DEF SabeDeArchivos, SigueIgual

LEMMA PasoBorrarItem ==
    ASSUME IInvArchivos, NEW h \in Hilos, NEW i, BorrarItem(h, i)
    PROVE  IInvArchivos'
  <1>1. /\ i \in DOMAIN items /\ i \in DOMAIN nombres /\ items[i].nombre = nombres[i]
        /\ nombres \in Seq(Nombres)
    BY DEF IInvArchivos, FilasDeArchivos, BorrarItem
  <1>2. PICK k : k = s3_key(nombres[i])
    OBVIOUS
  <1>3. /\ almacen' = Sin(almacen, k) /\ Llega(h, "borrar", {}, i)
        /\ items' = items /\ foto' = foto /\ nombres' = nombres /\ interrumpida' = interrumpida
    BY <1>1, <1>2 DEF BorrarItem
  <1>4. /\ DOMAIN almacen' = DOMAIN almacen \ {k}
        /\ \A y \in DOMAIN almacen : y # k => almacen'[y] = almacen[y]
    BY <1>3 DEF Sin
  <1>5. i \in Nat
    BY <1>1, LenProperties
  <1>6. PeticionNueva("borrar", {}, i) \in PeticionArchivos
    BY <1>5 DEF PeticionNueva, PeticionArchivos, Peticion
  <1>7. /\ Ranuras(PeticionArchivos)' /\ peticion[h] = Nada
        /\ peticion'[h] # Nada /\ peticion'[h].op = "borrar" /\ peticion'[h].dato = i
        /\ \A g \in Hilos \ {h} : peticion'[g] = peticion[g]
    BY <1>3, <1>6, AlLlegar, PeticionesDeArchivos DEF IInvArchivos
  <1>8. \A n : Unico(n)' <=> Unico(n)
    BY <1>3 DEF Unico
  <1>9. \A n \in DOMAIN nombres : n # i /\ Unico(n) =>
            \A t \in TipoItem : Llave(t, nombres[n]) # k
    BY <1>1, <1>2, Llaves DEF Unico
  <1>10. \A a \in Avatares : a # k
    BY <1>2, Llaves DEF Avatares
  <1>11. FilasDeArchivos'
    BY <1>3, <1>4, <1>10, LlavesFijas DEF IInvArchivos, FilasDeArchivos
  <1>12. \A n : EnVuelo(n) => EnVuelo(n)'
    BY <1>7 DEF EnVuelo, EnCurso, Dato
  <1>13. \A n : (Borrandose(n) => Borrandose(n)') /\ Borrandose(i)'
    BY <1>7 DEF Borrandose, EnCurso, Dato
  <1>14. Coherentes'
    <2> SUFFICES ASSUME ~interrumpida, NEW n \in DOMAIN nombres, Unico(n)
                 PROVE  /\ n \in DOMAIN items /\ ~Borrandose(n)' =>
                               Guardada(Llave(items[n].tipo, nombres[n]), n)'
                        /\ s3_key(nombres[n]) \in DOMAIN almacen' => n \in DOMAIN items \/ EnVuelo(n)'
      BY <1>3, <1>8, LlavesFijas DEF Coherentes
    <2>1. /\ n \in DOMAIN items /\ ~Borrandose(n) => Guardada(Llave(items[n].tipo, nombres[n]), n)
          /\ s3_key(nombres[n]) \in DOMAIN almacen => n \in DOMAIN items \/ EnVuelo(n)
      BY DEF IInvArchivos, Coherentes
    <2>2. ASSUME n \in DOMAIN items, ~Borrandose(n)'
          PROVE  Guardada(Llave(items[n].tipo, nombres[n]), n)'
      <3>1. n # i /\ ~Borrandose(n)
        BY <1>13, <2>2
      <3>2. PICK t \in TipoItem : t = items[n].tipo
        BY <2>2 DEF IInvArchivos, FilasDeArchivos
      <3>3. Llave(t, nombres[n]) # k /\ Guardada(Llave(t, nombres[n]), n)
        BY <1>9, <2>1, <2>2, <3>1, <3>2
      <3>4. Guardada(Llave(t, nombres[n]), n)'
        BY <1>3, <1>4, <3>3, LlavesFijas DEF Guardada
      <3>5. QED BY <1>3, <3>2, <3>4
    <2>3. QED BY <1>4, <1>12, <2>1, <2>2
  <1>15. DeUnaVez'
    BY <1>7 DEF IInvArchivos, DeUnaVez, EnCurso, Dato
  <1>16. ASSUME NEW g \in Hilos \ {h}
         PROVE  SabeDeArchivos(g)'
    <2>1. SabeDeArchivos(g) /\ SigueIgual(g, {})
      BY <1>7, IgualSinAge DEF IInvArchivos
    <2>2. ASSUME EnCurso(g, "item")
          PROVE  /\ Dato(g).n \notin DOMAIN items'
                 /\ Unico(Dato(g).n) => \A t \in TipoItem : LET y == Llave(t, nombres[Dato(g).n])
                        IN  y \in DOMAIN almacen => y \in DOMAIN almacen' /\ almacen'[y] = almacen[y]
      <3>1. PICK n : n = Dato(g).n
        OBVIOUS
      <3>2. n \in DOMAIN nombres /\ n \notin DOMAIN items
        BY <2>1, <2>2, <3>1 DEF SabeDeArchivos, EnCurso, Dato
      <3>3. Unico(n) => \A t \in TipoItem : Llave(t, nombres[n]) # k
        BY <1>1, <1>9, <3>2
      <3>4. QED BY <1>3, <1>4, <3>1, <3>2, <3>3
    <2>3. QED BY <1>3, <1>4, <1>10, <2>1, <2>2, ArchivosQueSigue
  <1>17. SabeDeArchivos(h)'
    BY <1>1, <1>2, <1>3, <1>4, <1>7, LlavesFijas DEF SabeDeArchivos
  <1>18. QED BY <1>7, <1>11, <1>14, <1>15, <1>16, <1>17 DEF IInvArchivos

LEMMA PasoCommitItem ==
    ASSUME IInvArchivos, NEW h \in Hilos, CommitItem(h)
    PROVE  IInvArchivos'
  <1>1. PICK d : d = peticion[h].dato
    OBVIOUS
  <1>2. /\ peticion[h] # Nada /\ peticion[h].op = "item" /\ Termina(h, {})
        /\ items' = [i \in DOMAIN items \cup {d.n} |->
                IF i = d.n THEN [tipo |-> d.tipo, nombre |-> d.nombre] ELSE items[i]]
        /\ almacen' = almacen /\ foto' = foto /\ nombres' = nombres /\ interrumpida' = interrumpida
    BY <1>1 DEF CommitItem, EnCurso, Dato
  <1>3. /\ d.tipo \in TipoItem /\ d.nombre \in Nombres
        /\ d.n \in DOMAIN nombres /\ nombres[d.n] = d.nombre
        /\ ~interrumpida /\ Unico(d.n) => Guardada(Llave(d.tipo, d.nombre), d.n)
    BY <1>1, <1>2 DEF IInvArchivos, SabeDeArchivos
  <1>4. /\ DOMAIN items' = DOMAIN items \cup {d.n}
        /\ items'[d.n].tipo = d.tipo /\ items'[d.n].nombre = d.nombre
        /\ \A i \in DOMAIN items : i # d.n => items'[i] = items[i]
    BY <1>2
  <1>5. /\ Ranuras(PeticionArchivos)' /\ peticion'[h] = Nada
        /\ \A g \in Hilos \ {h} : SigueIgual(g, {})
    BY <1>2, AlTerminar, PeticionesDeArchivos DEF IInvArchivos
  <1>6. \A n : Unico(n)' <=> Unico(n)
    BY <1>2 DEF Unico
  <1>7. \A k, n : Guardada(k, n)' <=> Guardada(k, n)
    BY <1>2 DEF Guardada
  <1>8. FilasDeArchivos'
    BY <1>2, <1>3, <1>4, LlavesFijas DEF IInvArchivos, FilasDeArchivos
  <1>9. \A n : EnVuelo(n) => EnVuelo(n)' \/ n = d.n
    BY <1>1, <1>5 DEF EnVuelo, EnCurso, Dato, SigueIgual
  <1>10. \A n : Borrandose(n) => Borrandose(n)'
    BY <1>2, <1>5 DEF Borrandose, EnCurso, Dato, SigueIgual
  <1>11. Coherentes'
    <2> SUFFICES ASSUME ~interrumpida, NEW n \in DOMAIN nombres, Unico(n)
                 PROVE  /\ n \in DOMAIN items' /\ ~Borrandose(n)' =>
                               Guardada(Llave(items'[n].tipo, nombres[n]), n)
                        /\ s3_key(nombres[n]) \in DOMAIN almacen => n \in DOMAIN items' \/ EnVuelo(n)'
      BY <1>2, <1>6, <1>7, LlavesFijas DEF Coherentes
    <2>1. /\ n \in DOMAIN items /\ ~Borrandose(n) => Guardada(Llave(items[n].tipo, nombres[n]), n)
          /\ s3_key(nombres[n]) \in DOMAIN almacen => n \in DOMAIN items \/ EnVuelo(n)
      BY DEF IInvArchivos, Coherentes
    <2>2. CASE n = d.n
      BY <1>3, <1>4, <2>2
    <2>3. CASE n # d.n
      BY <1>4, <1>9, <1>10, <2>1, <2>3
    <2>4. QED BY <2>2, <2>3
  <1>12. DeUnaVez'
    BY <1>5 DEF IInvArchivos, DeUnaVez, EnCurso, Dato, SigueIgual
  <1>13. ASSUME NEW g \in Hilos \ {h}
         PROVE  SabeDeArchivos(g)'
    <2>1. SabeDeArchivos(g) /\ SigueIgual(g, {})
      BY <1>5 DEF IInvArchivos
    <2>2. EnCurso(g, "item") => Dato(g).n # d.n
      BY <1>1, <1>2 DEF IInvArchivos, DeUnaVez, EnCurso, Dato
    <2>3. EnCurso(g, "item") => Dato(g).n \notin DOMAIN items
      BY <2>1 DEF SabeDeArchivos, EnCurso, Dato
    <2>4. QED BY <1>2, <1>4, <2>1, <2>2, <2>3, ArchivosQueSigue
  <1>14. SabeDeArchivos(h)'
    BY <1>5 DEF SabeDeArchivos
  <1>15. QED BY <1>5, <1>8, <1>11, <1>12, <1>13, <1>14 DEF IInvArchivos

LEMMA PasoCommitBorrar ==
    ASSUME IInvArchivos, NEW h \in Hilos, CommitBorrar(h)
    PROVE  IInvArchivos'
  <1>1. PICK i : i = peticion[h].dato
    OBVIOUS
  <1>2. /\ peticion[h] # Nada /\ peticion[h].op = "borrar" /\ Termina(h, {})
        /\ items' = Sin(items, i)
        /\ almacen' = almacen /\ foto' = foto /\ nombres' = nombres /\ interrumpida' = interrumpida
    BY <1>1 DEF CommitBorrar, EnCurso, Dato
  <1>3. /\ i \in DOMAIN nombres
        /\ ~interrumpida /\ Unico(i) => s3_key(nombres[i]) \notin DOMAIN almacen
    BY <1>1, <1>2 DEF IInvArchivos, SabeDeArchivos
  <1>4. /\ DOMAIN items' = DOMAIN items \ {i}
        /\ \A n \in DOMAIN items' : items'[n] = items[n]
    BY <1>2 DEF Sin
  <1>5. /\ Ranuras(PeticionArchivos)' /\ peticion'[h] = Nada
        /\ \A g \in Hilos \ {h} : SigueIgual(g, {})
    BY <1>2, AlTerminar, PeticionesDeArchivos DEF IInvArchivos
  <1>6. \A n : Unico(n)' <=> Unico(n)
    BY <1>2 DEF Unico
  <1>7. \A k, n : Guardada(k, n)' <=> Guardada(k, n)
    BY <1>2 DEF Guardada
  <1>8. FilasDeArchivos'
    BY <1>2, <1>4, LlavesFijas DEF IInvArchivos, FilasDeArchivos
  <1>9. \A n : EnVuelo(n) => EnVuelo(n)'
    BY <1>2, <1>5 DEF EnVuelo, EnCurso, Dato, SigueIgual
  <1>10. \A n : Borrandose(n) => Borrandose(n)' \/ n = i
    BY <1>1, <1>5 DEF Borrandose, EnCurso, Dato, SigueIgual
  <1>11. Coherentes'
    <2> SUFFICES ASSUME ~interrumpida, NEW n \in DOMAIN nombres, Unico(n)
                 PROVE  /\ n \in DOMAIN items' /\ ~Borrandose(n)' =>
                               Guardada(Llave(items'[n].tipo, nombres[n]), n)
                        /\ s3_key(nombres[n]) \in DOMAIN almacen => n \in DOMAIN items' \/ EnVuelo(n)'
      BY <1>2, <1>6, <1>7, LlavesFijas DEF Coherentes
    <2>1. /\ n \in DOMAIN items /\ ~Borrandose(n) => Guardada(Llave(items[n].tipo, nombres[n]), n)
          /\ s3_key(nombres[n]) \in DOMAIN almacen => n \in DOMAIN items \/ EnVuelo(n)
      BY DEF IInvArchivos, Coherentes
    <2>2. CASE n = i
      BY <1>3, <1>4, <2>2
    <2>3. CASE n # i
      BY <1>4, <1>9, <1>10, <2>1, <2>3
    <2>4. QED BY <2>2, <2>3
  <1>12. DeUnaVez'
    BY <1>5 DEF IInvArchivos, DeUnaVez, EnCurso, Dato, SigueIgual
  <1>13. ASSUME NEW g \in Hilos \ {h}
         PROVE  SabeDeArchivos(g)'
    <2>1. SabeDeArchivos(g) /\ SigueIgual(g, {})
      BY <1>5 DEF IInvArchivos
    <2>2. EnCurso(g, "item") => Dato(g).n \notin DOMAIN items
      BY <2>1 DEF SabeDeArchivos, EnCurso, Dato
    <2>3. QED BY <1>2, <1>4, <2>1, <2>2, ArchivosQueSigue
  <1>14. SabeDeArchivos(h)'
    BY <1>5 DEF SabeDeArchivos
  <1>15. QED BY <1>5, <1>8, <1>11, <1>12, <1>13, <1>14 DEF IInvArchivos

\* The rows, the files and the uploads on their way stay as they are.
LEMMA ArchivosIguales ==
    ASSUME IInvArchivos, NEW H \in SUBSET Hilos, Ranuras(PeticionArchivos)',
           \A g \in H : SigueIgual(g, {}), \A g \in Hilos \ H : SabeDeArchivos(g)',
           \A g \in Hilos \ H : ~EnCurso(g, "item") /\ ~EnCurso(g, "borrar"),
           \A g \in Hilos \ H : ~EnCurso(g, "item")' /\ ~EnCurso(g, "borrar")',
           almacen' = almacen, items' = items, nombres' = nombres, interrumpida' = interrumpida,
           foto' # Nada => foto' \in Avatares /\ foto' \in DOMAIN almacen
    PROVE  IInvArchivos'
  <1>1. \A n : Unico(n)' <=> Unico(n)
    BY DEF Unico
  <1>2. \A k, n : Guardada(k, n)' <=> Guardada(k, n)
    BY DEF Guardada
  <1>3. FilasDeArchivos'
    BY LlavesFijas DEF IInvArchivos, FilasDeArchivos
  <1>4. \A n : EnVuelo(n) => EnVuelo(n)'
    BY DEF EnVuelo, EnCurso, Dato, SigueIgual
  <1>5. \A n : Borrandose(n) => Borrandose(n)'
    BY DEF Borrandose, EnCurso, Dato, SigueIgual
  <1>6. Coherentes'
    <2> SUFFICES ASSUME ~interrumpida, NEW n \in DOMAIN nombres, Unico(n)
                 PROVE  /\ n \in DOMAIN items /\ ~Borrandose(n)' =>
                               Guardada(Llave(items[n].tipo, nombres[n]), n)
                        /\ s3_key(nombres[n]) \in DOMAIN almacen => n \in DOMAIN items \/ EnVuelo(n)'
      BY <1>1, <1>2, LlavesFijas DEF Coherentes
    <2>1. QED BY <1>4, <1>5 DEF IInvArchivos, Coherentes
  <1>7. DeUnaVez'
    <2>1. \A g \in Hilos : EnCurso(g, "item")' => EnCurso(g, "item") /\ Dato(g)' = Dato(g)
      BY DEF EnCurso, Dato, SigueIgual
    <2>2. QED BY <2>1 DEF IInvArchivos, DeUnaVez
  <1>8. ASSUME NEW g \in H
        PROVE  SabeDeArchivos(g)'
    <2>1. SabeDeArchivos(g) /\ SigueIgual(g, {})
      BY <1>8 DEF IInvArchivos
    <2>2. EnCurso(g, "item") => Dato(g).n \notin DOMAIN items
      BY <2>1 DEF SabeDeArchivos, EnCurso, Dato
    <2>3. QED BY <2>1, <2>2, ArchivosQueSigue
  <1>9. QED BY <1>3, <1>6, <1>7, <1>8 DEF IInvArchivos

LEMMA PasoFoto ==
    ASSUME IInvArchivos, NEW h \in Hilos, QuitarFoto(h) \/ CommitFoto(h)
    PROVE  IInvArchivos'
  <1>1. /\ almacen' = almacen /\ items' = items /\ nombres' = nombres /\ interrumpida' = interrumpida
    BY DEF QuitarFoto, CommitFoto, archivosVars
  <1>2. foto # Nada => foto \in Avatares /\ foto \in DOMAIN almacen
    BY DEF IInvArchivos, FilasDeArchivos
  <1>3. CASE QuitarFoto(h)
    <2>1. PICK d : d = [cargada |-> foto, llave |-> Nada]
      OBVIOUS
    <2>2. Llega(h, "foto", {}, d) /\ foto' = foto /\ d.llave = Nada
      BY <1>3, <2>1 DEF QuitarFoto, archivosVars
    <2>3. PeticionNueva("foto", {}, d) \in PeticionArchivos
      BY <1>2, <2>1 DEF PeticionNueva, PeticionArchivos, Peticion
    <2>4. /\ Ranuras(PeticionArchivos)' /\ peticion[h] = Nada
          /\ peticion'[h] # Nada /\ peticion'[h].op = "foto" /\ peticion'[h].dato = d
          /\ \A g \in Hilos \ {h} : peticion'[g] = peticion[g]
      BY <2>2, <2>3, AlLlegar, PeticionesDeArchivos DEF IInvArchivos
    <2>5. SabeDeArchivos(h)'
      BY <2>2, <2>4 DEF SabeDeArchivos
    <2>6. PICK H : H = Hilos \ {h}
      OBVIOUS
    <2>7. /\ \A g \in H : SigueIgual(g, {}) /\ H \in SUBSET Hilos
          /\ \A g \in Hilos \ H : g = h
      BY <2>4, <2>6, IgualSinAge
    <2>8. /\ ~EnCurso(h, "item") /\ ~EnCurso(h, "borrar")
          /\ ~EnCurso(h, "item")' /\ ~EnCurso(h, "borrar")'
      BY <2>4 DEF EnCurso
    <2>9. QED BY <1>1, <1>2, <2>2, <2>4, <2>5, <2>7, <2>8, ArchivosIguales
  <1>4. CASE CommitFoto(h)
    <2>1. PICK d : d = peticion[h].dato
      OBVIOUS
    <2>2. /\ peticion[h] # Nada /\ peticion[h].op = "foto" /\ Termina(h, {})
          /\ foto' = IF d.llave = d.cargada THEN foto ELSE d.llave
      BY <1>4, <2>1 DEF CommitFoto, EnCurso, Dato
    <2>3. d.llave # Nada => d.llave \in Avatares /\ d.llave \in DOMAIN almacen
      BY <2>1, <2>2 DEF IInvArchivos, SabeDeArchivos
    <2>4. /\ Ranuras(PeticionArchivos)' /\ peticion'[h] = Nada
          /\ \A g \in Hilos \ {h} : SigueIgual(g, {})
      BY <2>2, AlTerminar, PeticionesDeArchivos DEF IInvArchivos
    <2>5. SabeDeArchivos(h)'
      BY <2>4 DEF SabeDeArchivos
    <2>6. PICK H : H = Hilos \ {h}
      OBVIOUS
    <2>7. /\ \A g \in H : SigueIgual(g, {}) /\ H \in SUBSET Hilos
          /\ \A g \in Hilos \ H : g = h
      BY <2>4, <2>6
    <2>8. /\ ~EnCurso(h, "item") /\ ~EnCurso(h, "borrar")
          /\ ~EnCurso(h, "item")' /\ ~EnCurso(h, "borrar")'
      BY <2>2, <2>4 DEF EnCurso
    <2>9. QED BY <1>1, <1>2, <2>2, <2>3, <2>4, <2>5, <2>7, <2>8, ArchivosIguales
  <1>5. QED BY <1>3, <1>4

\* Once the process died between the two, only the rows and the photo matter.
LEMMA PasoCaida ==
    ASSUME IInvArchivos, CaidaArchivos
    PROVE  IInvArchivos'
  <1>1. /\ interrumpida' /\ SePierden
        /\ almacen' = almacen /\ items' = items /\ foto' = foto /\ nombres' = nombres
    BY DEF CaidaArchivos
  <1>2. Ranuras(PeticionArchivos)' /\ \A h \in Hilos : peticion'[h] = Nada
    BY <1>1, AlPerderse DEF IInvArchivos
  <1>3. FilasDeArchivos'
    BY <1>1, LlavesFijas DEF IInvArchivos, FilasDeArchivos
  <1>4. Coherentes' /\ DeUnaVez' /\ \A h \in Hilos : SabeDeArchivos(h)'
    BY <1>1, <1>2 DEF Coherentes, DeUnaVez, SabeDeArchivos, EnCurso
  <1>5. QED BY <1>2, <1>3, <1>4 DEF IInvArchivos

LEMMA PasoArchivos ==
    ASSUME IInvArchivos, NextArchivos
    PROVE  IInvArchivos'
  <1>1. CASE CaidaArchivos
    BY <1>1, PasoCaida
  <1>2. ASSUME NEW h \in Hilos, CommitItem(h) \/ CommitBorrar(h) \/ QuitarFoto(h) \/ CommitFoto(h)
        PROVE  IInvArchivos'
    BY <1>2, PasoCommitItem, PasoCommitBorrar, PasoFoto
  <1>3. ASSUME NEW h \in Hilos, NEW tipo \in TipoItem, NEW nombre \in Nombres,
               SubirItem(h, tipo, nombre)
        PROVE  IInvArchivos'
    <2>1. PICK n \in Nat : n = Len(nombres) + 1
      BY LenProperties DEF IInvArchivos, FilasDeArchivos
    <2>2. PICK d : d = [n |-> n, tipo |-> tipo, nombre |-> nombre]
      OBVIOUS
    <2>3. PICK k : k = Llave(tipo, nombre)
      OBVIOUS
    <2>4. /\ nombres' = Append(nombres, nombre) /\ almacen' = Guarda(k, n)
          /\ UNCHANGED <<items, foto, interrumpida>> /\ Llega(h, "item", {}, d)
      BY <1>3, <2>1, <2>2, <2>3 DEF SubirItem
    <2>5. /\ d \in [n: Nat, tipo: TipoItem, nombre: Nombres]
          /\ d.n = n /\ d.nombre = nombre /\ k = Llave(d.tipo, nombre)
      BY <2>2, <2>3
    <2>6. QED BY <2>1, <2>4, <2>5, AlSubir
  <1>4. ASSUME NEW h \in Hilos, NEW nombre \in Nombres, SubirFoto(h, nombre)
        PROVE  IInvArchivos'
    <2>1. PICK n \in Nat : n = Len(nombres) + 1
      BY LenProperties DEF IInvArchivos, FilasDeArchivos
    <2>2. PICK k : k = LlaveAvatar(nombre)
      OBVIOUS
    <2>3. PICK d : d = [cargada |-> foto, llave |-> k]
      OBVIOUS
    <2>4. /\ nombres' = Append(nombres, nombre) /\ almacen' = Guarda(k, n)
          /\ UNCHANGED <<items, foto, interrumpida>> /\ Llega(h, "foto", {}, d)
      BY <1>4, <2>1, <2>2, <2>3 DEF SubirFoto
    <2>5. foto \in Avatares \cup {Nada}
      BY DEF IInvArchivos, FilasDeArchivos
    <2>6. /\ d \in [cargada: Avatares \cup {Nada}, llave: Avatares \cup {Nada}]
          /\ d.llave = k /\ k = LlaveAvatar(nombre)
      BY <2>2, <2>3, <2>5 DEF Avatares
    <2>7. QED BY <2>1, <2>4, <2>6, AlSubir
  <1>5. ASSUME NEW h \in Hilos, NEW i, BorrarItem(h, i)
        PROVE  IInvArchivos'
    BY <1>5, PasoBorrarItem
  <1>6. QED BY <1>1, <1>2, <1>3, <1>4, <1>5 DEF NextArchivos

LEMMA ArchivosQuietos ==
    ASSUME IInvArchivos, UNCHANGED <<archivosVars, servidor>>
    PROVE  IInvArchivos'
  <1>1. /\ almacen' = almacen /\ items' = items /\ nombres' = nombres /\ foto' = foto
        /\ interrumpida' = interrumpida /\ peticion' = peticion /\ obsoleta' = obsoleta
    BY DEF archivosVars, servidor
  <1>2. Ranuras(PeticionArchivos)' /\ \A g \in Hilos : SigueIgual(g, {})
    BY <1>1, IgualSinAge DEF IInvArchivos, Ranuras
  <1>3. foto' # Nada => foto' \in Avatares /\ foto' \in DOMAIN almacen
    BY <1>1 DEF IInvArchivos, FilasDeArchivos
  <1>4. Hilos \in SUBSET Hilos /\ Hilos \ Hilos = {}
    OBVIOUS
  <1>5. QED BY <1>1, <1>2, <1>3, <1>4, ArchivosIguales

LEMMA ArchivosAlInicio ==
    ASSUME InitArchivos
    PROVE  /\ ArchivosOK
           /\ Ranuras(PeticionArchivos) /\ (\A h \in Hilos : peticion[h] = Nada) => IInvArchivos
  <1>1. almacen = <<>> /\ items = <<>> /\ foto = Nada /\ nombres = <<>>
    BY DEF InitArchivos
  <1>2. DOMAIN almacen = {} /\ DOMAIN items = {} /\ DOMAIN nombres = {} /\ nombres \in Seq(Nombres)
    BY <1>1, EmptySeq
  <1>3. ArchivosOK
    BY <1>1, <1>2 DEF ArchivosOK
  <1>4. FilasDeArchivos /\ Coherentes
    BY <1>1, <1>2 DEF FilasDeArchivos, Coherentes
  <1>5. (\A h \in Hilos : peticion[h] = Nada) => DeUnaVez /\ \A h \in Hilos : SabeDeArchivos(h)
    BY DEF DeUnaVez, SabeDeArchivos, EnCurso
  <1>6. QED BY <1>3, <1>4, <1>5 DEF IInvArchivos

-----------------------------------------------------------------------------
(* The seed *)

\* Rounding moves a number by half a unit at most.
LEMMA RedondeaCerca ==
    ASSUME NEW m \in Nat
    PROVE  /\ Redondea(m) \in Nat
           /\ 1000 * Redondea(m) <= m + 500
           /\ 1000 * Redondea(m) >= m - 500
  <1>1. PICK q \in Nat : q = m \div 1000
    OBVIOUS
  <1>2. PICK r \in 0..999 : r = m % 1000
    OBVIOUS
  <1>3. m = 1000 * q + r
    BY <1>1, <1>2
  <1>4. Redondea(m) = IF r > 500 \/ (r = 500 /\ q % 2 = 1) THEN q + 1 ELSE q
    BY <1>1, <1>2 DEF Redondea
  <1>5. CASE r > 500 \/ (r = 500 /\ q % 2 = 1)
    <2>1. Redondea(m) = q + 1 /\ r >= 500
      BY <1>4, <1>5
    <2>2. QED BY <2>1, <1>3
  <1>6. CASE ~(r > 500 \/ (r = 500 /\ q % 2 = 1))
    <2>1. Redondea(m) = q /\ r <= 500
      BY <1>4, <1>6
    <2>2. QED BY <2>1, <1>3
  <1>7. QED BY <1>5, <1>6

\* c is a base count scaled by e thousandths, with a minimum of mm.
Escalado(c, b, e, mm) ==
    /\ c \in Nat /\ c >= mm
    /\ 1000 * c >= b * e - 500
    /\ c > mm => 1000 * c <= b * e + 500

LEMMA EscaladoCerca ==
    ASSUME NEW b \in Nat, NEW e \in Nat, NEW mm \in Nat
    PROVE  Escalado(scaled_count(b, e, mm), b, e, mm)
  <1>1. PICK m \in Nat : m = b * e
    OBVIOUS
  <1>2. PICK r \in Nat : r = Redondea(m) /\ 1000 * r <= m + 500 /\ 1000 * r >= m - 500
    BY RedondeaCerca
  <1>3. scaled_count(b, e, mm) = IF mm > r THEN mm ELSE r
    BY <1>1, <1>2 DEF scaled_count, Mayor
  <1>4. QED BY <1>1, <1>2, <1>3 DEF Escalado

\* What the sizes of every valid scale satisfy.
Tallada(t) ==
    /\ t.pds \in Nat /\ t.solicitantes \in Nat /\ t.merchants \in Nat /\ t.staff \in Nat
    /\ t.negocios \in Nat
    /\ t.solicitudes \in Nat /\ t.ofertas \in Nat
    /\ t.completado_pendiente \in Nat /\ t.pendiente \in Nat
    /\ t.cancelado \in Nat /\ t.marcado \in Nat
    /\ t.conversaciones \in Nat /\ t.disputas \in Nat
    /\ t.estados.completadas \in Nat /\ t.estados.en_progreso \in Nat
    /\ t.estados.asignadas \in Nat /\ t.estados.publicadas \in Nat
    /\ t.estados.canceladas \in Nat /\ t.estados.ocultas \in Nat
    /\ t.estados.rechazadas \in Nat /\ t.estados.borradores \in Nat
    /\ t.estados.asignadas >= 1
    /\ t.completado_pendiente <= t.estados.asignadas
    /\ Suma(t.estados) = t.solicitudes
    /\ t.estados.completadas + t.estados.en_progreso + t.estados.asignadas
           + t.estados.canceladas <= t.ofertas

\* A scale that loads a tenth of the simulation, or more, has providers to spare.
Holgada(t) ==
    /\ t.pds >= 15
    /\ t.ofertas <= 3 * t.estados.completadas + 2 * t.estados.en_progreso
                       + 15 * (t.estados.publicadas + t.estados.asignadas)

\* The scale is not refused.
EscalaVale(e) == build_sizes(e).valida

\* The estados before the published ones take up what the rounding left.
EstadosEscalados(s, e) ==
    /\ Escalado(s.completadas, 100, e, 2) /\ Escalado(s.en_progreso, 50, e, 1)
    /\ Escalado(s.asignadas, 35, e, 1) /\ Escalado(s.publicadas, 80, e, 1)
    /\ Escalado(s.canceladas, 20, e, 1) /\ Escalado(s.ocultas, 5, e, 1)
    /\ Escalado(s.rechazadas, 5, e, 1) /\ Escalado(s.borradores, 5, e, 1)

LEMMA EscaladosBien ==
    ASSUME NEW e \in Nat, EscalaVale(e)
    PROVE  \E s :
              /\ EstadosEscalados(s, e)
              /\ s.publicadas + build_sizes(e).solicitudes >= Suma(s)
              /\ build_sizes(e).estados.completadas = s.completadas
              /\ build_sizes(e).estados.en_progreso = s.en_progreso
              /\ build_sizes(e).estados.asignadas = s.asignadas
              /\ build_sizes(e).estados.canceladas = s.canceladas
              /\ build_sizes(e).estados.ocultas = s.ocultas
              /\ build_sizes(e).estados.rechazadas = s.rechazadas
              /\ build_sizes(e).estados.borradores = s.borradores
              /\ build_sizes(e).estados.publicadas =
                     Menos(s.publicadas + build_sizes(e).solicitudes, Suma(s))
  <1>1. PICK s : s = [x \in DOMAIN EstadosBase |->
                         scaled_count(EstadosBase[x], e, IF x = "completadas" THEN 2 ELSE 1)]
    OBVIOUS
  <1>2. DOMAIN EstadosBase = {"completadas", "en_progreso", "asignadas", "publicadas",
                              "canceladas", "ocultas", "rechazadas", "borradores"}
    BY DEF EstadosBase
  <1>3. /\ s.completadas = scaled_count(100, e, 2) /\ s.en_progreso = scaled_count(50, e, 1)
        /\ s.asignadas = scaled_count(35, e, 1) /\ s.publicadas = scaled_count(80, e, 1)
        /\ s.canceladas = scaled_count(20, e, 1) /\ s.ocultas = scaled_count(5, e, 1)
        /\ s.rechazadas = scaled_count(5, e, 1) /\ s.borradores = scaled_count(5, e, 1)
    BY <1>1, <1>2 DEF EstadosBase
  <1>4. EstadosEscalados(s, e)
    BY <1>3, EscaladoCerca DEF EstadosEscalados
  <1>5. PICK n : n = s.publicadas + scaled_count(300, e, 8)
    OBVIOUS
  <1>6. PICK z : z = [s EXCEPT !.publicadas = Menos(n, Suma(s))]
    OBVIOUS
  <1>7. build_sizes(e).estados = z
    BY <1>1, <1>5, <1>6 DEF build_sizes
  <1>8. build_sizes(e).solicitudes = scaled_count(300, e, 8)
    BY DEF build_sizes
  <1>9. n >= Suma(s)
    BY <1>1, <1>5 DEF build_sizes, EscalaVale
  <1>10. /\ z.completadas = s.completadas /\ z.en_progreso = s.en_progreso
         /\ z.asignadas = s.asignadas /\ z.canceladas = s.canceladas
         /\ z.ocultas = s.ocultas /\ z.rechazadas = s.rechazadas /\ z.borradores = s.borradores
         /\ z.publicadas = Menos(n, Suma(s))
    BY <1>1, <1>2, <1>6
  <1>11. QED BY <1>4, <1>5, <1>7, <1>8, <1>9, <1>10

LEMMA Tallas ==
    ASSUME NEW e \in Nat
    PROVE  LET t == build_sizes(e)
           IN  /\ Escalado(t.pds, 150, e, 4) /\ Escalado(t.solicitantes, 72, e, 4)
               /\ Escalado(t.merchants, 10, e, 2) /\ Escalado(t.staff, 8, e, 4)
               /\ Escalado(t.negocios, 12, e, 2)
               /\ Escalado(t.solicitudes, 300, e, 8) /\ Escalado(t.ofertas, 720, e, 12)
               /\ Escalado(t.completado_pendiente, 15, e, 1) /\ Escalado(t.pendiente, 10, e, 1)
               /\ Escalado(t.cancelado, 7, e, 1) /\ Escalado(t.marcado, 3, e, 1)
               /\ Escalado(t.conversaciones, 150, e, 8) /\ Escalado(t.disputas, 15, e, 2)
  <1>1. LET t == build_sizes(e)
        IN  /\ t.pds = scaled_count(150, e, 4) /\ t.solicitantes = scaled_count(72, e, 4)
            /\ t.merchants = scaled_count(10, e, 2) /\ t.staff = scaled_count(8, e, 4)
            /\ t.negocios = scaled_count(12, e, 2)
            /\ t.solicitudes = scaled_count(300, e, 8) /\ t.ofertas = scaled_count(720, e, 12)
            /\ t.completado_pendiente = scaled_count(15, e, 1)
            /\ t.pendiente = scaled_count(10, e, 1)
            /\ t.cancelado = scaled_count(7, e, 1) /\ t.marcado = scaled_count(3, e, 1)
            /\ t.conversaciones = scaled_count(150, e, 8) /\ t.disputas = scaled_count(15, e, 2)
    BY DEF build_sizes
  <1>2. QED BY <1>1, EscaladoCerca

LEMMA TodaTalla ==
    ASSUME NEW e \in Nat, EscalaVale(e)
    PROVE  /\ Tallada(build_sizes(e))
           /\ e >= 100 => Holgada(build_sizes(e))
  <1>1. PICK t : t = build_sizes(e)
    OBVIOUS
  <1>2. PICK s :
              /\ EstadosEscalados(s, e)
              /\ s.publicadas + t.solicitudes >= Suma(s)
              /\ t.estados.completadas = s.completadas
              /\ t.estados.en_progreso = s.en_progreso
              /\ t.estados.asignadas = s.asignadas
              /\ t.estados.canceladas = s.canceladas
              /\ t.estados.ocultas = s.ocultas
              /\ t.estados.rechazadas = s.rechazadas
              /\ t.estados.borradores = s.borradores
              /\ t.estados.publicadas = Menos(s.publicadas + t.solicitudes, Suma(s))
    BY <1>1, EscaladosBien
  <1>3. /\ Escalado(t.pds, 150, e, 4) /\ Escalado(t.solicitantes, 72, e, 4)
        /\ Escalado(t.merchants, 10, e, 2) /\ Escalado(t.staff, 8, e, 4)
        /\ Escalado(t.negocios, 12, e, 2)
        /\ Escalado(t.solicitudes, 300, e, 8) /\ Escalado(t.ofertas, 720, e, 12)
        /\ Escalado(t.completado_pendiente, 15, e, 1) /\ Escalado(t.pendiente, 10, e, 1)
        /\ Escalado(t.cancelado, 7, e, 1) /\ Escalado(t.marcado, 3, e, 1)
        /\ Escalado(t.conversaciones, 150, e, 8) /\ Escalado(t.disputas, 15, e, 2)
    BY <1>1, Tallas
  <1>4. /\ t.pds \in Nat /\ t.solicitantes \in Nat /\ t.merchants \in Nat /\ t.staff \in Nat
        /\ t.negocios \in Nat /\ t.solicitudes \in Nat /\ t.ofertas \in Nat
        /\ t.completado_pendiente \in Nat /\ t.pendiente \in Nat
        /\ t.cancelado \in Nat /\ t.marcado \in Nat
        /\ t.conversaciones \in Nat /\ t.disputas \in Nat
    BY <1>3 DEF Escalado
  <1>5. PICK xco, xen, xasi, xpu, xca, xoc, xre, xbo :
            /\ xco = s.completadas /\ xen = s.en_progreso /\ xasi = s.asignadas
            /\ xpu = s.publicadas /\ xca = s.canceladas /\ xoc = s.ocultas
            /\ xre = s.rechazadas /\ xbo = s.borradores
    OBVIOUS
  <1>6. /\ Escalado(xco, 100, e, 2) /\ Escalado(xen, 50, e, 1) /\ Escalado(xasi, 35, e, 1)
        /\ Escalado(xpu, 80, e, 1) /\ Escalado(xca, 20, e, 1) /\ Escalado(xoc, 5, e, 1)
        /\ Escalado(xre, 5, e, 1) /\ Escalado(xbo, 5, e, 1)
    BY <1>2, <1>5 DEF EstadosEscalados
  <1>7. /\ xco \in Nat /\ xen \in Nat /\ xasi \in Nat /\ xpu \in Nat
        /\ xca \in Nat /\ xoc \in Nat /\ xre \in Nat /\ xbo \in Nat
    BY <1>6 DEF Escalado
  <1>8. PICK total \in Nat, o \in Nat, cp \in Nat, pds \in Nat :
            /\ total = t.solicitudes /\ o = t.ofertas
            /\ cp = t.completado_pendiente /\ pds = t.pds
    BY <1>4
  <1>9. PICK suma \in Nat : suma = Suma(s) /\ suma = xco + xen + xasi + xpu + xca + xoc + xre + xbo
    BY <1>5, <1>7 DEF Suma
  <1>10. PICK pub \in Nat : /\ pub = t.estados.publicadas
                            /\ pub = xpu + total - suma
    <2>1. xpu + total >= suma /\ t.estados.publicadas = Menos(xpu + total, suma)
      BY <1>2, <1>5, <1>8, <1>9
    <2>2. Menos(xpu + total, suma) = xpu + total - suma
      BY <2>1, <1>7, <1>8, <1>9 DEF Menos
    <2>3. xpu + total - suma \in Nat
      BY <2>1, <1>7, <1>8, <1>9
    <2>4. QED BY <2>1, <2>2, <2>3
  <1>11. pub = total - (xco + xen + xasi + xca + xoc + xre + xbo)
    BY <1>7, <1>8, <1>9, <1>10
  <1>12. xasi >= 1 /\ cp <= xasi
    <2>1. /\ xasi >= 1 /\ 1000 * xasi >= 35 * e - 500
          /\ (cp > 1 => 1000 * cp <= 15 * e + 500)
      BY <1>3, <1>6, <1>8 DEF Escalado
    <2>2. QED BY <2>1, <1>7, <1>8
  <1>13. xco + xen + xasi + xca <= o
    <2>1. /\ o >= 12 /\ 1000 * o >= 720 * e - 500
          /\ (xco > 2 => 1000 * xco <= 100 * e + 500)
          /\ (xen > 1 => 1000 * xen <= 50 * e + 500)
          /\ (xasi > 1 => 1000 * xasi <= 35 * e + 500)
          /\ (xca > 1 => 1000 * xca <= 20 * e + 500)
      BY <1>3, <1>6, <1>8 DEF Escalado
    <2>2. QED BY <2>1, <1>7, <1>8
  <1>14. /\ t.estados.completadas = xco /\ t.estados.en_progreso = xen
         /\ t.estados.asignadas = xasi /\ t.estados.canceladas = xca
         /\ t.estados.ocultas = xoc /\ t.estados.rechazadas = xre
         /\ t.estados.borradores = xbo
    BY <1>2, <1>5
  <1>15. Suma(t.estados) = total
    <2>1. Suma(t.estados) = xco + xen + xasi + pub + xca + xoc + xre + xbo
      BY <1>14, <1>10 DEF Suma
    <2>2. QED BY <2>1, <1>7, <1>8, <1>11
  <1>16. Tallada(t)
    BY <1>4, <1>7, <1>8, <1>10, <1>12, <1>13, <1>14, <1>15 DEF Tallada
  <1>17. ASSUME e >= 100
         PROVE  Holgada(t)
    <2>1. pds >= 15
      <3>1. 1000 * pds >= 150 * e - 500
        BY <1>3, <1>8 DEF Escalado
      <3>2. QED BY <3>1, <1>8, <1>17
    <2>2. /\ (o > 12 => 1000 * o <= 720 * e + 500)
          /\ 1000 * total >= 300 * e - 500
          /\ 1000 * xco >= 100 * e - 500 /\ 1000 * xen >= 50 * e - 500
          /\ (xco > 2 => 1000 * xco <= 100 * e + 500)
          /\ (xen > 1 => 1000 * xen <= 50 * e + 500)
          /\ (xca > 1 => 1000 * xca <= 20 * e + 500)
          /\ (xoc > 1 => 1000 * xoc <= 5 * e + 500)
          /\ (xre > 1 => 1000 * xre <= 5 * e + 500)
          /\ (xbo > 1 => 1000 * xbo <= 5 * e + 500)
      BY <1>3, <1>6, <1>8 DEF Escalado
    <2>3. o <= 3 * xco + 2 * xen + 15 * (pub + xasi)
      BY <2>2, <1>7, <1>8, <1>10, <1>11, <1>17
    <2>4. QED BY <2>1, <2>3, <1>8, <1>10, <1>14 DEF Holgada
  <1>18. QED BY <1>1, <1>16, <1>17

\* With providers to spare, the loop that adds offers ends.
LEMMA HolgadaTermina ==
    ASSUME NEW t, Tallada(t), Holgada(t), NEW base \in OfertasBase(t)
    PROVE  ~SinFin(t, base)
  <1>1. PICK po \in Nat, k \in Nat : po = PorOfertar(t) /\ k = Menos(t.pds, 2) /\ k >= 13
    BY DEF PorOfertar, Tallada, Holgada, Menos
  <1>2. po * k >= 13 * po
    <2>1. PICK j \in Nat : k = 13 + j
      BY <1>1
    <2>2. po * k = 13 * po + po * j /\ po * j \in Nat
      BY <2>1, <1>1
    <2>3. QED BY <2>2, <1>1
  <1>3. PICK cu \in Nat : cu = Cupo(t) /\ cu >= 13 * po
    BY <1>1, <1>2 DEF Cupo
  <1>4. PICK canc \in Nat : canc = Canceladas(t)
    BY DEF Canceladas, Primeras, Tallada
  <1>5. PICK i \in Nat : base = 3 * t.estados.completadas
              + (2 * (t.estados.en_progreso + t.estados.asignadas + t.estados.publicadas)
                   + Canceladas(t) + t.estados.canceladas) + i
    BY DEF OfertasBase, Fijas, Tallada
  <1>6. PICK xco \in Nat, xen \in Nat, xasi \in Nat, xpu \in Nat, xca \in Nat, o \in Nat :
            /\ xco = t.estados.completadas /\ xen = t.estados.en_progreso
            /\ xasi = t.estados.asignadas /\ xpu = t.estados.publicadas
            /\ xca = t.estados.canceladas /\ o = t.ofertas
    BY DEF Tallada
  <1>7. base = 3 * xco + (2 * (xen + xasi + xpu) + canc + xca) + i
    BY <1>4, <1>5, <1>6
  <1>8. po = xpu + xasi /\ o <= 3 * xco + 2 * xen + 15 * (xpu + xasi)
    BY <1>1, <1>6 DEF PorOfertar, Holgada
  <1>9. o - base <= cu
    BY <1>1, <1>3, <1>4, <1>5, <1>6, <1>7, <1>8
  <1>10. QED BY <1>9, <1>3, <1>6, <1>7 DEF SinFin

LEMMA EscalaDeAyuda ==
    ASSUME NEW e \in Nat, e >= 100
    PROVE  EscalaVale(e)
  <1>1. PICK s : s = [x \in DOMAIN EstadosBase |->
                         scaled_count(EstadosBase[x], e, IF x = "completadas" THEN 2 ELSE 1)]
    OBVIOUS
  <1>2. DOMAIN EstadosBase = {"completadas", "en_progreso", "asignadas", "publicadas",
                              "canceladas", "ocultas", "rechazadas", "borradores"}
    BY DEF EstadosBase
  <1>3. /\ s.completadas = scaled_count(100, e, 2) /\ s.en_progreso = scaled_count(50, e, 1)
        /\ s.asignadas = scaled_count(35, e, 1) /\ s.publicadas = scaled_count(80, e, 1)
        /\ s.canceladas = scaled_count(20, e, 1) /\ s.ocultas = scaled_count(5, e, 1)
        /\ s.rechazadas = scaled_count(5, e, 1) /\ s.borradores = scaled_count(5, e, 1)
    BY <1>1, <1>2 DEF EstadosBase
  <1>4. PICK xco, xen, xasi, xpu, xca, xoc, xre, xbo :
            /\ xco = s.completadas /\ xen = s.en_progreso /\ xasi = s.asignadas
            /\ xpu = s.publicadas /\ xca = s.canceladas /\ xoc = s.ocultas
            /\ xre = s.rechazadas /\ xbo = s.borradores
    OBVIOUS
  <1>5. PICK total : total = scaled_count(300, e, 8)
    OBVIOUS
  <1>6. /\ Escalado(xco, 100, e, 2) /\ Escalado(xen, 50, e, 1) /\ Escalado(xasi, 35, e, 1)
        /\ Escalado(xpu, 80, e, 1) /\ Escalado(xca, 20, e, 1) /\ Escalado(xoc, 5, e, 1)
        /\ Escalado(xre, 5, e, 1) /\ Escalado(xbo, 5, e, 1) /\ Escalado(total, 300, e, 8)
    BY <1>3, <1>4, <1>5, EscaladoCerca
  <1>7. /\ xco \in Nat /\ xen \in Nat /\ xasi \in Nat /\ xpu \in Nat /\ xca \in Nat
        /\ xoc \in Nat /\ xre \in Nat /\ xbo \in Nat /\ total \in Nat
    BY <1>6 DEF Escalado
  <1>8. /\ 1000 * total >= 300 * e - 500
        /\ (xco > 2 => 1000 * xco <= 100 * e + 500)
        /\ (xen > 1 => 1000 * xen <= 50 * e + 500)
        /\ (xasi > 1 => 1000 * xasi <= 35 * e + 500)
        /\ (xca > 1 => 1000 * xca <= 20 * e + 500)
        /\ (xoc > 1 => 1000 * xoc <= 5 * e + 500)
        /\ (xre > 1 => 1000 * xre <= 5 * e + 500)
        /\ (xbo > 1 => 1000 * xbo <= 5 * e + 500)
    BY <1>6 DEF Escalado
  <1>9. xco + xen + xasi + xca + xoc + xre + xbo <= total
    BY <1>7, <1>8
  <1>10. Suma(s) = xco + xen + xasi + xpu + xca + xoc + xre + xbo
    BY <1>4 DEF Suma
  <1>11. s.publicadas + scaled_count(300, e, 8) >= Suma(s)
    BY <1>4, <1>5, <1>7, <1>9, <1>10
  <1>12. QED BY <1>1, <1>11 DEF EscalaVale, build_sizes

\* For every scale of a tenth or more, the ones of the help and those above it, the
\* sizes are accepted and the loop that adds offers ends, however many offers the
\* completed solicitudes got (build_sizes and create_offers_and_contracts of
\* seed_simulacion_valledupar.py).
THEOREM LaSiembraTermina ==
    \A e \in Nat : e >= 100 =>
        /\ build_sizes(e).valida
        /\ \A base \in OfertasBase(build_sizes(e)) : ~SinFin(build_sizes(e), base)
  <1> SUFFICES ASSUME NEW e \in Nat, e >= 100
               PROVE  /\ build_sizes(e).valida
                      /\ \A base \in OfertasBase(build_sizes(e)) : ~SinFin(build_sizes(e), base)
    OBVIOUS
  <1>1. EscalaVale(e)
    BY EscalaDeAyuda
  <1>2. Tallada(build_sizes(e)) /\ Holgada(build_sizes(e))
    BY <1>1, TodaTalla
  <1>3. \A base \in OfertasBase(build_sizes(e)) : ~SinFin(build_sizes(e), base)
    BY <1>2, HolgadaTermina
  <1>4. QED BY <1>1, <1>3 DEF EscalaVale

\* What hangs from the contracts of a stage.
Contratada(c) ==
    /\ c.completado \in Nat /\ c.en_progreso \in Nat /\ c.completado_pendiente \in Nat
    /\ c.pendiente \in Nat /\ c.cancelado \in Nat /\ c.marcado \in Nat

LEMMA ContratosCaben ==
    ASSUME NEW t, Tallada(t)
    PROVE  /\ Contratada(Contratos(t))
           /\ Suman(Contratos(t)) <= Aceptadas(t)
           /\ Aceptadas(t) <= t.solicitudes /\ Aceptadas(t) <= t.ofertas
           /\ Aceptadas(t) \in Nat
           /\ Contratos(t).completado = t.estados.completadas
           /\ Contratos(t).en_progreso = t.estados.en_progreso
           /\ Contratos(t).completado_pendiente = t.completado_pendiente
  <1>1. PICK a, b, c, d, f, g, h, k :
            /\ a = t.estados.completadas /\ b = t.estados.en_progreso
            /\ c = t.estados.asignadas /\ d = t.estados.canceladas
            /\ f = t.completado_pendiente /\ g = t.pendiente
            /\ h = t.cancelado /\ k = t.marcado
    OBVIOUS
  <1>2. /\ a \in Nat /\ b \in Nat /\ c \in Nat /\ d \in Nat
        /\ f \in Nat /\ g \in Nat /\ h \in Nat /\ k \in Nat
        /\ f <= c
    BY <1>1 DEF Tallada
  <1>3. PICK resto \in Nat : t.solicitudes = a + b + c + d + resto
    <2>1. /\ t.estados.publicadas + t.estados.ocultas + t.estados.rechazadas
                 + t.estados.borradores \in Nat
          /\ t.solicitudes = a + b + c + d + (t.estados.publicadas + t.estados.ocultas
                 + t.estados.rechazadas + t.estados.borradores)
      BY <1>1 DEF Tallada, Suma
    <2>2. QED BY <2>1
  <1>4. PICK canc \in Nat : canc = Canceladas(t) /\ canc <= d /\ canc <= h + k
    BY <1>1, <1>2 DEF Canceladas, Primeras
  <1>5. PICK x \in Nat : x = Primeras(h, canc) /\ x <= canc
    BY <1>2, <1>4 DEF Primeras
  <1>6. PICK y \in Nat : y = Primeras(k, canc - x) /\ y <= canc - x
    BY <1>2, <1>4, <1>5 DEF Primeras
  <1>7. Primeras(f, c) = f
    BY <1>2 DEF Primeras
  <1>8. PICK z \in Nat : z = Primeras(g, c - f) /\ z <= c - f
    BY <1>2 DEF Primeras
  <1>9. Contratos(t) = [completado |-> a, en_progreso |-> b, completado_pendiente |-> f,
                        pendiente |-> z, cancelado |-> x, marcado |-> y]
    BY <1>1, <1>4, <1>5, <1>6, <1>7, <1>8 DEF Contratos
  <1>10. Suman(Contratos(t)) = a + b + f + z + x + y
    BY <1>9 DEF Suman
  <1>11. Aceptadas(t) = a + b + c + canc
    BY <1>1, <1>4 DEF Aceptadas
  <1>12. Contratada(Contratos(t))
    BY <1>2, <1>5, <1>6, <1>8, <1>9 DEF Contratada
  <1>13. Suman(Contratos(t)) <= Aceptadas(t) /\ Aceptadas(t) \in Nat
    BY <1>2, <1>4, <1>5, <1>6, <1>8, <1>10, <1>11
  <1>14. Aceptadas(t) <= t.solicitudes
    BY <1>2, <1>3, <1>4, <1>11
  <1>15. Aceptadas(t) <= t.ofertas
    <2>1. PICK o \in Nat : o = t.ofertas /\ a + b + c + d <= o
      BY <1>1 DEF Tallada
    <2>2. QED BY <2>1, <1>2, <1>4, <1>11
  <1>16. QED BY <1>1, <1>9, <1>12, <1>13, <1>14, <1>15

LEMMA ChambasCuadran ==
    ASSUME NEW c, Contratada(c)
    PROVE  LET b == create_chambas(c)
           IN  /\ SumanChambas(b) = c.completado + c.completado_pendiente + c.en_progreso
               /\ create_maranas(b).todas <= SumanChambas(b)
  <1>1. PICK n \in Nat, m \in Nat, p \in Nat :
            n = c.en_progreso /\ m = c.completado /\ p = c.completado_pendiente
    BY DEF Contratada
  <1>2. PICK v \in Nat : v = n \div 50
    OBVIOUS
  <1>3. PICK r \in 0..49 : r = n % 50
    OBVIOUS
  <1>4. n = 50 * v + r
    BY <1>2, <1>3
  <1>5. PICK x \in Nat : x = 15 * v + Primeras(r, 15)
    BY DEF Primeras
  <1>6. PICK y \in Nat : y = 20 * v + Primeras(Menos(r, 15), 20)
    BY DEF Primeras, Menos
  <1>7. PICK z \in Nat : z = 10 * v + Primeras(Menos(r, 35), 10)
    BY DEF Primeras, Menos
  <1>8. PICK w \in Nat : w = 5 * v + Menos(r, 45)
    BY DEF Menos
  <1>9. x + y + z + w = n
    BY <1>4, <1>5, <1>6, <1>7, <1>8 DEF Primeras, Menos
  <1>10. create_chambas(c) =
             [finalizada |-> m, pendiente_validacion |-> p, programada |-> x,
              en_proceso |-> y, en_ejecucion |-> z, pausada |-> w]
    BY <1>1, <1>2, <1>3, <1>5, <1>6, <1>7, <1>8 DEF create_chambas
  <1>11. PICK b : b = create_chambas(c)
    OBVIOUS
  <1>12. SumanChambas(b) = m + p + x + y + z + w
    BY <1>10, <1>11 DEF SumanChambas
  <1>13. SumanChambas(b) = m + p + n
    BY <1>9, <1>12
  <1>14. PICK k \in Nat : k = Primeras(10, y + m + p) /\ k <= y + m + p
    BY <1>1 DEF Primeras
  <1>15. create_maranas(b).todas =
             IF k = 0 THEN Primeras(10, SumanChambas(b)) ELSE k
    BY <1>10, <1>11, <1>14 DEF create_maranas
  <1>16. create_maranas(b).todas <= m + p + n
    <2>1. CASE k = 0
      <3>1. create_maranas(b).todas = Primeras(10, m + p + n)
        BY <2>1, <1>13, <1>15
      <3>2. QED BY <3>1, <1>1 DEF Primeras
    <2>2. CASE k # 0
      <3>1. create_maranas(b).todas = k
        BY <2>2, <1>15
      <3>2. k <= m + p + n
        BY <1>9, <1>14
      <3>3. QED BY <3>1, <3>2
    <2>3. QED BY <2>1, <2>2
  <1>17. QED BY <1>1, <1>11, <1>13, <1>16

LEMMA PagosCaben ==
    ASSUME NEW c, Contratada(c)
    PROVE  LET p == create_payments(c)
           IN  p.completado + p.pendiente + p.reembolsado + p.fallido <= Suman(c)
  <1>1. PICK n \in Nat, m \in Nat, q \in Nat, pe \in Nat, x \in Nat, y \in Nat :
            /\ n = c.en_progreso /\ m = c.completado /\ q = c.completado_pendiente
            /\ pe = c.pendiente /\ x = c.cancelado /\ y = c.marcado
    BY DEF Contratada
  <1>2. PICK j \in Nat : j = Primeras(15, n) /\ (j <= 15) /\ j <= n /\ (j < 15 => j = n)
    BY DEF Primeras
  <1>3. PICK k \in Nat : k = Primeras(Menos(n, 15), 10) /\ (n <= 15 => k = 0)
                         /\ (n > 15 => k <= n - 15)
    BY DEF Primeras, Menos
  <1>4. PICK p : p = create_payments(c)
    OBVIOUS
  <1>5. p.completado = m /\ p.pendiente = q /\ p.reembolsado = x + y + j /\ p.fallido = k
    BY <1>1, <1>2, <1>3, <1>4 DEF create_payments
  <1>6. Suman(c) = m + n + q + pe + x + y
    BY <1>1 DEF Suman
  <1>7. m + q + (x + y + j) + k <= m + n + q + pe + x + y
    BY <1>2, <1>3
  <1>8. QED BY <1>4, <1>5, <1>6, <1>7

\* The groups of the dataset: there is one at every scale, a hundred are certain
\* from 0.7 on, and up to one half there are fewer accepted offers than that.
LEMMA GruposDeLaTalla ==
    ASSUME NEW e \in Nat, EscalaVale(e)
    PROVE  LET t == build_sizes(e)
               n == Menos(Aceptadas(t), PuedeDescartar(t))
           IN  /\ Aceptadas(t) \in Nat /\ n \in Nat /\ n >= 1
               /\ e >= 700 => n >= MinGrupos
               /\ e <= 500 => Aceptadas(t) < MinGrupos
  <1>1. PICK t : t = build_sizes(e)
    OBVIOUS
  <1>2. Tallada(t)
    BY <1>1, TodaTalla
  <1>3. PICK xco \in Nat, xen \in Nat, xasi \in Nat, xpu \in Nat, xca \in Nat, xoc \in Nat,
             xre \in Nat, xbo \in Nat :
            /\ xco = t.estados.completadas /\ xen = t.estados.en_progreso
            /\ xasi = t.estados.asignadas /\ xpu = t.estados.publicadas
            /\ xca = t.estados.canceladas /\ xoc = t.estados.ocultas
            /\ xre = t.estados.rechazadas /\ xbo = t.estados.borradores
    BY <1>2 DEF Tallada
  <1>4. PICK total \in Nat, o \in Nat, cn \in Nat, mk \in Nat :
            /\ total = t.solicitudes /\ o = t.ofertas /\ cn = t.cancelado /\ mk = t.marcado
            /\ xco + xen + xasi + xpu + xca + xoc + xre + xbo = total
    BY <1>2, <1>3 DEF Tallada, Suma
  <1>5. /\ Escalado(xco, 100, e, 2) /\ Escalado(xen, 50, e, 1) /\ Escalado(xasi, 35, e, 1)
        /\ Escalado(xca, 20, e, 1) /\ Escalado(xoc, 5, e, 1)
        /\ Escalado(xre, 5, e, 1) /\ Escalado(xbo, 5, e, 1)
    <2>1. PICK s : /\ EstadosEscalados(s, e)
                   /\ xco = s.completadas /\ xen = s.en_progreso /\ xasi = s.asignadas
                   /\ xca = s.canceladas /\ xoc = s.ocultas
                   /\ xre = s.rechazadas /\ xbo = s.borradores
      BY <1>1, <1>3, EscaladosBien
    <2>2. QED BY <2>1 DEF EstadosEscalados
  <1>6. /\ Escalado(total, 300, e, 8) /\ Escalado(o, 720, e, 12)
        /\ Escalado(cn, 7, e, 1) /\ Escalado(mk, 3, e, 1)
    BY <1>1, <1>4, Tallas
  <1>7. PICK canc \in Nat : canc = Canceladas(t) /\ canc <= xca /\ canc <= cn + mk
    BY <1>3, <1>4 DEF Canceladas, Primeras
  <1>8. PICK ac \in Nat : ac = Aceptadas(t) /\ ac = xco + xen + xasi + canc
    BY <1>3, <1>7 DEF Aceptadas
  <1>9. PICK fi \in Nat : fi = Fijas(t) /\ fi = 2 * (xen + xasi + xpu) + canc + xca
    BY <1>3, <1>7 DEF Fijas
  <1>10. PICK d \in Nat : d = PuedeDescartar(t) /\ (d = 0 \/ d = 4 * xco + fi - o)
    <2>1. PuedeDescartar(t) = Menos(4 * xco + fi, o)
      BY <1>3, <1>4, <1>9 DEF PuedeDescartar
    <2>2. QED BY <2>1 DEF Menos
  <1>11. /\ xco >= 2 /\ xen >= 1 /\ xasi >= 1 /\ xca >= 1 /\ xoc >= 1 /\ xre >= 1 /\ xbo >= 1
         /\ total >= 8 /\ o >= 12
         /\ 1000 * xco >= 100 * e - 500 /\ 1000 * xen >= 50 * e - 500
         /\ 1000 * xasi >= 35 * e - 500 /\ 1000 * xca >= 20 * e - 500
         /\ 1000 * xoc >= 5 * e - 500 /\ 1000 * xre >= 5 * e - 500 /\ 1000 * xbo >= 5 * e - 500
         /\ 1000 * o >= 720 * e - 500
    BY <1>5, <1>6 DEF Escalado
  <1>12. /\ (xco > 2 => 1000 * xco <= 100 * e + 500) /\ (xen > 1 => 1000 * xen <= 50 * e + 500)
         /\ (xasi > 1 => 1000 * xasi <= 35 * e + 500)
         /\ (total > 8 => 1000 * total <= 300 * e + 500)
         /\ (cn > 1 => 1000 * cn <= 7 * e + 500) /\ (mk > 1 => 1000 * mk <= 3 * e + 500)
    BY <1>5, <1>6 DEF Escalado
  \* What is left when all that is dropped were rivals of accepted offers.
  <1>13. PICK z \in Int : z = o + xen + xasi + xca + 2 * (xoc + xre + xbo) - xco - 2 * total
    OBVIOUS
  <1>14. d # 0 => ac - d = z
    BY <1>4, <1>8, <1>9, <1>10, <1>13
  <1>15. z >= 1
    BY <1>11, <1>12, <1>13
  <1>16. e >= 700 => z >= 100 /\ ac >= 100
    <2>1. e >= 700 => z >= 100
      BY <1>11, <1>12, <1>13
    <2>2. e >= 700 => ac >= 100
      BY <1>8, <1>11
    <2>3. QED BY <2>1, <2>2
  <1>17. e <= 500 => ac < 100
    <2>1. e <= 500 => xco <= 50 /\ xen <= 25 /\ xasi <= 18 /\ cn <= 4 /\ mk <= 2
      BY <1>12
    <2>2. QED BY <2>1, <1>7, <1>8
  <1>18. PICK n \in Nat : n = Menos(ac, d) /\ n >= 1 /\ (e >= 700 => n >= 100)
    <2>1. ac - d >= 1 /\ (e >= 700 => ac - d >= 100)
      BY <1>8, <1>11, <1>14, <1>15, <1>16
    <2>2. Menos(ac, d) = ac - d
      BY <2>1, <1>8, <1>10 DEF Menos
    <2>3. ac - d \in Nat
      BY <2>1, <1>8, <1>10
    <2>4. QED BY <2>1, <2>2, <2>3
  <1>19. Menos(Aceptadas(t), PuedeDescartar(t)) = n
    BY <1>8, <1>10, <1>18
  <1>20. QED BY <1>1, <1>8, <1>17, <1>18, <1>19 DEF MinGrupos

\* The stages committed so far are the ones of talla, a valid one; a run goes on for
\* ever only for a talla that has no providers to spare.
Sembrado ==
    /\ Len(tablas) >= 1 => tablas[1] = create_users(talla)
    /\ Len(tablas) >= 5 => tablas[5] = create_solicitudes(talla)
    /\ Len(tablas) >= 6 =>
           \E b \in OfertasBase(talla) : tablas[6] = create_offers_and_contracts(talla, b)
    /\ Len(tablas) >= 7 => tablas[7] = create_chambas(tablas[6].contratos)
    /\ Len(tablas) >= 8 => tablas[8] = create_maranas(tablas[7])
    /\ Len(tablas) >= 9 => tablas[9] = create_payments(tablas[6].contratos)

\* What the validation says of the groups, in the terms of the sizes.
LoValidado ==
    LET n == Menos(Aceptadas(talla), PuedeDescartar(talla))
    IN  /\ errores \cap {"conteos", "sin mezcla"} = {}
        /\ "pocos grupos" \in errores => n < MinGrupos
        /\ pasada = "validada" /\ con_ml /\ errores = {} /\ ~ajeno =>
                Aceptadas(talla) >= MinGrupos

IInvSemilla ==
    /\ \E S : tablas \in Seq(S)
    /\ \E e \in Nat : /\ talla = build_sizes(e)
                      /\ (pasada \in {"corre", "sin fin"} \/ Len(tablas) >= 1) => EscalaVale(e)
    /\ pasada # "validada" => errores = {}
    /\ pasada = "validada" => Len(tablas) >= 1
    /\ LoValidado
    /\ pasada = "sin fin" => \E base \in OfertasBase(talla) : SinFin(talla, base)
    /\ Sembrado

LEMMA Lugares ==
    /\ Filas("usuarios") = tablas[1] /\ Filas("solicitudes") = tablas[5]
    /\ Filas("ofertas") = tablas[6] /\ Filas("chambas") = tablas[7]
    /\ Filas("maranas") = tablas[8] /\ Filas("pagos") = tablas[9]
  <1>1. DOMAIN Etapas = 1..12
    BY DEF Etapas
  <1>2. \A i \in 1..12 : /\ Etapas[i] = "usuarios" <=> i = 1
                         /\ Etapas[i] = "solicitudes" <=> i = 5
                         /\ Etapas[i] = "ofertas" <=> i = 6
                         /\ Etapas[i] = "chambas" <=> i = 7
                         /\ Etapas[i] = "maranas" <=> i = 8
                         /\ Etapas[i] = "pagos" <=> i = 9
    BY DEF Etapas
  <1>3. (CHOOSE i \in DOMAIN Etapas : Etapas[i] = "usuarios") = 1
    BY <1>1, <1>2
  <1>4. (CHOOSE i \in DOMAIN Etapas : Etapas[i] = "solicitudes") = 5
    BY <1>1, <1>2
  <1>5. (CHOOSE i \in DOMAIN Etapas : Etapas[i] = "ofertas") = 6
    BY <1>1, <1>2
  <1>6. (CHOOSE i \in DOMAIN Etapas : Etapas[i] = "chambas") = 7
    BY <1>1, <1>2
  <1>7. (CHOOSE i \in DOMAIN Etapas : Etapas[i] = "maranas") = 8
    BY <1>1, <1>2
  <1>8. (CHOOSE i \in DOMAIN Etapas : Etapas[i] = "pagos") = 9
    BY <1>1, <1>2
  <1>9. QED BY <1>3, <1>4, <1>5, <1>6, <1>7, <1>8 DEF Filas

\* What an invariant state says of the stages, in the terms of the sizes.
LEMMA LoSembrado ==
    ASSUME IInvSemilla
    PROVE  /\ Len(tablas) \in Nat
           /\ (pasada = "corre" \/ Len(tablas) >= 1) => Tallada(talla)
           /\ Len(tablas) >= 6 => /\ tablas[6].contratos = Contratos(talla)
                                  /\ tablas[6].aceptadas = Aceptadas(talla)
                                  /\ tablas[6].aceptadas + tablas[6].otras = talla.ofertas
  <1>1. Len(tablas) \in Nat
    <2>1. PICK S : tablas \in Seq(S)
      BY DEF IInvSemilla
    <2>2. QED BY <2>1, LenProperties
  <1>2. (pasada = "corre" \/ Len(tablas) >= 1) => Tallada(talla)
    <2>1. PICK e \in Nat : /\ talla = build_sizes(e)
                           /\ (pasada \in {"corre", "sin fin"} \/ Len(tablas) >= 1) => EscalaVale(e)
      BY DEF IInvSemilla
    <2>2. EscalaVale(e) => Tallada(build_sizes(e))
      BY <2>1, TodaTalla
    <2>3. QED BY <2>1, <2>2
  <1>3. ASSUME Len(tablas) >= 6
        PROVE  /\ tablas[6].contratos = Contratos(talla)
               /\ tablas[6].aceptadas = Aceptadas(talla)
               /\ tablas[6].aceptadas + tablas[6].otras = talla.ofertas
    <2>1. Tallada(talla)
      BY <1>1, <1>2, <1>3
    <2>2. PICK b \in OfertasBase(talla) : tablas[6] = create_offers_and_contracts(talla, b)
      BY <1>3 DEF IInvSemilla, Sembrado
    <2>3. PICK a \in Nat, o \in Nat : a = Aceptadas(talla) /\ o = talla.ofertas /\ a <= o
      BY <2>1, ContratosCaben DEF Tallada
    <2>4. PorOfertar(talla) # 0
      BY <2>1 DEF PorOfertar, Tallada
    <2>5. Total(talla, b) = o
      BY <2>3, <2>4 DEF Total, Mayor
    <2>6. /\ tablas[6].contratos = Contratos(talla)
          /\ tablas[6].aceptadas = a
          /\ tablas[6].otras = o - a
      BY <2>2, <2>3, <2>5 DEF create_offers_and_contracts
    <2>7. a + (o - a) = o
      BY <2>3
    <2>8. QED BY <2>3, <2>6, <2>7
  <1>4. QED BY <1>1, <1>2, <1>3

LEMMA AlcanzaLaSemilla == ASSUME IInvSemilla PROVE SemillaOK
  <1>1. ASSUME pasada = "sin fin", NEW e \in Escalas, e >= 100
        PROVE  talla # build_sizes(e)
    <2>1. SUFFICES ASSUME talla = build_sizes(e)
                   PROVE  FALSE
      OBVIOUS
    <2>2. e \in Nat
      BY EscalasNaturales
    <2>3. PICK base \in OfertasBase(talla) : SinFin(talla, base)
      BY <1>1 DEF IInvSemilla
    <2>4. PICK f \in Nat : talla = build_sizes(f) /\ EscalaVale(f)
      BY <1>1 DEF IInvSemilla
    <2>5. EscalaVale(e)
      BY <2>1, <2>4 DEF EscalaVale
    <2>6. Tallada(talla) /\ Holgada(talla)
      BY <2>1, <2>2, <2>5, <1>1, TodaTalla
    <2>7. QED BY <2>3, <2>6, HolgadaTermina
  <1>2. /\ errores \cap {"conteos", "sin mezcla"} = {}
        /\ "pocos grupos" \in errores => \A e \in {x \in Escalas : x >= 700} : talla # build_sizes(e)
        /\ pasada = "validada" /\ con_ml /\ errores = {} /\ ~ajeno =>
                \A e \in {x \in Escalas : x <= 500} : talla # build_sizes(e)
    <2>1. LoValidado
      BY DEF IInvSemilla
    <2>2. ASSUME "pocos grupos" \in errores \/ pasada = "validada", NEW e \in Escalas,
                 talla = build_sizes(e)
          PROVE  e \in Nat /\ EscalaVale(e)
      <3>1. pasada = "validada" /\ Len(tablas) >= 1
        BY <2>2 DEF IInvSemilla
      <3>2. PICK f \in Nat : talla = build_sizes(f) /\ EscalaVale(f)
        BY <3>1 DEF IInvSemilla
      <3>3. QED BY <2>2, <3>2, EscalasNaturales DEF EscalaVale
    <2>3. ASSUME "pocos grupos" \in errores, NEW e \in Escalas, e >= 700, talla = build_sizes(e)
          PROVE  FALSE
      <3>1. e \in Nat /\ EscalaVale(e)
        BY <2>2, <2>3
      <3>2. PICK n \in Nat : n = Menos(Aceptadas(talla), PuedeDescartar(talla)) /\ n >= MinGrupos
        BY <2>3, <3>1, GruposDeLaTalla
      <3>3. n < MinGrupos
        BY <2>1, <2>3, <3>2 DEF LoValidado
      <3>4. QED BY <3>2, <3>3 DEF MinGrupos
    <2>4. ASSUME pasada = "validada", con_ml, errores = {}, ~ajeno,
                 NEW e \in Escalas, e <= 500, talla = build_sizes(e)
          PROVE  FALSE
      <3>1. e \in Nat /\ EscalaVale(e)
        BY <2>2, <2>4
      <3>2. PICK a \in Nat : a = Aceptadas(talla) /\ a < MinGrupos
        BY <2>4, <3>1, GruposDeLaTalla
      <3>3. a >= MinGrupos
        BY <2>1, <2>4, <3>2 DEF LoValidado
      <3>4. QED BY <3>2, <3>3 DEF MinGrupos
    <2>5. QED BY <2>1, <2>3, <2>4 DEF LoValidado
  <1>3. ASSUME Len(tablas) >= 6
        PROVE  LET c == Filas("ofertas").contratos
               IN  /\ Suman(c) <= Filas("ofertas").aceptadas
                   /\ Filas("ofertas").aceptadas <= Suma(Filas("solicitudes"))
                   /\ Len(tablas) >= 7 =>
                       SumanChambas(Filas("chambas")) + c.pendiente + c.cancelado + c.marcado = Suman(c)
                   /\ Len(tablas) >= 8 => Filas("maranas").todas <= SumanChambas(Filas("chambas"))
                   /\ Len(tablas) >= 9 =>
                       LET p == Filas("pagos")
                       IN  p.completado + p.pendiente + p.reembolsado + p.fallido <= Suman(c)
    <2>1. Len(tablas) \in Nat /\ Tallada(talla)
      BY <1>3, LoSembrado
    <2>2. PICK c : c = Contratos(talla)
      OBVIOUS
    <2>3. Filas("ofertas").contratos = c /\ Filas("ofertas").aceptadas = Aceptadas(talla)
      BY <1>3, <2>2, LoSembrado, Lugares
    <2>4. Contratada(c)
      BY <2>1, <2>2, ContratosCaben
    <2>5. Suman(c) <= Aceptadas(talla) /\ Aceptadas(talla) <= talla.solicitudes
      BY <2>1, <2>2, ContratosCaben
    <2>6. Suma(Filas("solicitudes")) = talla.solicitudes
      <3>1. Filas("solicitudes") = talla.estados
        <4>1. Len(tablas) >= 5
          BY <1>3, <2>1
        <4>2. Sembrado
          BY DEF IInvSemilla
        <4>3. QED BY <4>1, <4>2, Lugares DEF Sembrado, create_solicitudes
      <3>2. QED BY <3>1, <2>1 DEF Tallada
    <2>7. ASSUME Len(tablas) >= 7
          PROVE  /\ SumanChambas(Filas("chambas")) + c.pendiente + c.cancelado + c.marcado = Suman(c)
                 /\ Filas("chambas") = create_chambas(c)
      <3>1. Filas("chambas") = create_chambas(c)
        BY <2>7, <1>3, <2>2, LoSembrado, Lugares DEF IInvSemilla, Sembrado
      <3>2. SumanChambas(Filas("chambas")) = c.completado + c.completado_pendiente + c.en_progreso
        BY <3>1, <2>4, ChambasCuadran
      <3>3. QED BY <3>1, <3>2, <2>4 DEF Suman, Contratada
    <2>8. ASSUME Len(tablas) >= 8
          PROVE  Filas("maranas").todas <= SumanChambas(Filas("chambas"))
      <3>1. Filas("maranas") = create_maranas(Filas("chambas"))
        BY <2>8, Lugares DEF IInvSemilla, Sembrado
      <3>2. Filas("chambas") = create_chambas(c)
        BY <2>1, <2>7, <2>8
      <3>3. QED BY <3>1, <3>2, <2>4, ChambasCuadran
    <2>9. ASSUME Len(tablas) >= 9
          PROVE  LET p == Filas("pagos")
                 IN  p.completado + p.pendiente + p.reembolsado + p.fallido <= Suman(c)
      <3>1. Filas("pagos") = create_payments(c)
        BY <2>9, <1>3, <2>2, LoSembrado, Lugares DEF IInvSemilla, Sembrado
      <3>2. QED BY <3>1, <2>4, PagosCaben
    <2>10. QED BY <2>3, <2>5, <2>6, <2>7, <2>8, <2>9
  <1>4. QED BY <1>1, <1>2, <1>3 DEF SemillaOK

LEMMA SemillaAlInicio == ASSUME InitSemilla PROVE SemillaOK /\ IInvSemilla
  <1>1. tablas \in Seq({}) /\ Len(tablas) = 0
    BY EmptySeq DEF InitSemilla
  <1>2. 1000 \in Nat
    OBVIOUS
  <1>3. IInvSemilla
    BY <1>1, <1>2 DEF InitSemilla, IInvSemilla, LoValidado, Sembrado
  <1>4. QED BY <1>3, AlcanzaLaSemilla

LEMMA SemillaQuieta == ASSUME IInvSemilla, UNCHANGED semillaVars PROVE IInvSemilla'
  BY DEF semillaVars, IInvSemilla, LoValidado, Sembrado

LEMMA Esperada ==
    ASSUME IInvSemilla, pasada = "corre", Len(tablas) = Len(Etapas)
    PROVE  Esperadas
  <1>1. Len(tablas) = 12
    BY DEF Etapas
  <1>2. Tallada(talla)
    BY LoSembrado
  <1>3. Filas("usuarios") = create_users(talla)
    BY <1>1, Lugares DEF IInvSemilla, Sembrado
  <1>4. Suma(Filas("solicitudes")) = talla.solicitudes
    BY <1>1, <1>2, Lugares DEF IInvSemilla, Sembrado, create_solicitudes, Tallada
  <1>5. Filas("ofertas").aceptadas + Filas("ofertas").otras = talla.ofertas
    BY <1>1, Lugares, LoSembrado
  <1>6. Filas("chambas") = create_chambas(Contratos(talla))
    BY <1>1, Lugares, LoSembrado DEF IInvSemilla, Sembrado
  <1>7. SumanChambas(Filas("chambas")) =
            talla.estados.completadas + talla.completado_pendiente + talla.estados.en_progreso
    BY <1>2, <1>6, ContratosCaben, ChambasCuadran
  <1>8. QED BY <1>3, <1>4, <1>5, <1>7 DEF Esperadas

LEMMA SiembraSigue == ASSUME IInvSemilla, Siembra PROVE IInvSemilla'
  <1>1. PICK n : n = Len(tablas) + 1
    OBVIOUS
  <1>2. PICK filas \in Escribe(Etapas[n]) : tablas' = Append(tablas, filas)
    BY <1>1 DEF Siembra
  <1>3. PICK S : tablas \in Seq(S)
    BY DEF IInvSemilla
  <1>4. PICK T : T = S \cup {filas}
    OBVIOUS
  <1>5. tablas \in Seq(T)
    BY <1>3, <1>4, SeqMonotonic
  <1>6. /\ tablas' \in Seq(T) /\ Len(tablas') = n
        /\ tablas'[n] = filas
        /\ \A i \in 1..Len(tablas) : tablas'[i] = tablas[i]
    BY <1>1, <1>2, <1>4, <1>5, AppendProperties
  <1>7. Len(tablas) \in Nat /\ n \in 1..12
    BY <1>1, <1>3, LenProperties DEF Siembra, Etapas
  <1>8. /\ talla' = talla /\ pasada' = pasada /\ pasada = "corre"
        /\ errores' = errores
    BY DEF Siembra
  <1>9. Sembrado'
    <2>1. n = 1 => tablas'[1] = create_users(talla)
      BY <1>2, <1>6 DEF Escribe, Etapas
    <2>2. n = 5 => tablas'[5] = create_solicitudes(talla)
      BY <1>2, <1>6 DEF Escribe, Etapas
    <2>3. n = 6 => \E b \in OfertasBase(talla) : tablas'[6] = create_offers_and_contracts(talla, b)
      BY <1>2, <1>6 DEF Escribe, Etapas
    <2>4. n = 7 => tablas'[7] = create_chambas(tablas[6].contratos)
      BY <1>2, <1>6, Lugares DEF Escribe, Etapas
    <2>5. n = 8 => tablas'[8] = create_maranas(tablas[7])
      BY <1>2, <1>6, Lugares DEF Escribe, Etapas
    <2>6. n = 9 => tablas'[9] = create_payments(tablas[6].contratos)
      BY <1>2, <1>6, Lugares DEF Escribe, Etapas
    <2>7. \A i \in 1..12 : i < n => tablas'[i] = tablas[i] /\ Len(tablas) >= i
      BY <1>1, <1>6, <1>7, <1>3, LenProperties
    <2>8. /\ (1 < n => tablas[1] = create_users(talla))
          /\ (5 < n => tablas[5] = create_solicitudes(talla))
          /\ (6 < n => \E b \in OfertasBase(talla) :
                           tablas[6] = create_offers_and_contracts(talla, b))
          /\ (7 < n => tablas[7] = create_chambas(tablas[6].contratos))
          /\ (8 < n => tablas[8] = create_maranas(tablas[7]))
          /\ (9 < n => tablas[9] = create_payments(tablas[6].contratos))
      <3>1. Sembrado
        BY DEF IInvSemilla
      <3>2. /\ (1 < n => Len(tablas) >= 1) /\ (5 < n => Len(tablas) >= 5)
            /\ (6 < n => Len(tablas) >= 6) /\ (7 < n => Len(tablas) >= 7)
            /\ (8 < n => Len(tablas) >= 8) /\ (9 < n => Len(tablas) >= 9)
        BY <2>7
      <3>3. QED BY <3>1, <3>2 DEF Sembrado
    <2>9. \A i \in 1..12 : n >= i => i < n \/ n = i
      BY <1>7
    <2>10. /\ (n >= 1 => tablas'[1] = create_users(talla))
           /\ (n >= 5 => tablas'[5] = create_solicitudes(talla))
           /\ (n >= 6 => \E b \in OfertasBase(talla) :
                            tablas'[6] = create_offers_and_contracts(talla, b))
      BY <2>1, <2>2, <2>3, <2>7, <2>8, <2>9
    <2>11. /\ (n >= 7 => tablas'[7] = create_chambas(tablas[6].contratos))
           /\ (n >= 8 => tablas'[8] = create_maranas(tablas[7]))
           /\ (n >= 9 => tablas'[9] = create_payments(tablas[6].contratos))
      BY <2>4, <2>5, <2>6, <2>7, <2>8, <2>9
    <2>12. n >= 7 => tablas'[6] = tablas[6]
      BY <1>7, <2>7
    <2>13. n >= 8 => tablas'[7] = tablas[7]
      BY <1>7, <2>7
    <2>14. n >= 8 => n >= 7
      BY <1>7
    <2>15. n >= 9 => n >= 7
      BY <1>7
    <2>16. QED
      BY <2>10, <2>11, <2>12, <2>13, <2>14, <2>15, <1>6, <1>8
      DEF Sembrado
  <1>10. PICK e \in Nat : talla = build_sizes(e) /\ EscalaVale(e)
    BY <1>8 DEF IInvSemilla
  <1>11. errores' = {} /\ LoValidado'
    BY <1>8 DEF IInvSemilla, LoValidado
  <1>12. QED BY <1>6, <1>8, <1>9, <1>10, <1>11 DEF IInvSemilla

LEMMA EmpiezaSigue ==
    ASSUME IInvSemilla, NEW e \in Escalas, NEW reset \in BOOLEAN, NEW ml \in BOOLEAN,
           Empieza(e, reset, ml)
    PROVE  IInvSemilla'
  <1>1. e \in Nat /\ EscalaVale(e)
    BY EscalasNaturales DEF Empieza, EscalaVale
  <1>2. tablas' = <<>> /\ talla' = build_sizes(e) /\ pasada' = "corre" /\ errores' = {}
    BY DEF Empieza
  <1>3. tablas' \in Seq({}) /\ Len(tablas') = 0
    BY <1>2, EmptySeq
  <1>4. Sembrado'
    BY <1>3 DEF Sembrado
  <1>5. \E S : tablas' \in Seq(S)
    BY <1>3
  <1>6. QED BY <1>1, <1>2, <1>4, <1>5 DEF IInvSemilla, LoValidado

\* The validation finds no count wrong, and of the groups what the sizes say.
LEMMA ValidaSigue == ASSUME IInvSemilla, validate_and_report PROVE IInvSemilla'
  <1>1. /\ pasada = "corre" /\ Len(tablas) = 12
        /\ pasada' = "validada" /\ talla' = talla /\ tablas' = tablas
        /\ ajeno' = ajeno /\ con_ml' = con_ml
    BY DEF validate_and_report, Etapas
  <1>2. Esperadas
    BY Esperada DEF validate_and_report
  <1>3. PICK e \in Nat : talla = build_sizes(e) /\ EscalaVale(e)
    BY <1>1 DEF IInvSemilla
  <1>4. PICK a \in Nat, n \in Nat :
            /\ a = Aceptadas(talla) /\ n = Menos(a, PuedeDescartar(talla)) /\ n >= 1
    BY <1>3, GruposDeLaTalla
  <1>5. PICK ml \in IF con_ml THEN ErroresML(talla) ELSE {{}} : errores' = ml
    BY <1>2 DEF validate_and_report
  <1>6. LoValidado'
    <2>1. CASE ~con_ml
      <3>1. errores' = {}
        BY <1>5, <2>1
      <3>2. QED BY <1>1, <2>1, <3>1 DEF LoValidado
    <2>2. CASE con_ml /\ ml = {"sin dataset"}
      BY <1>1, <1>5, <2>2 DEF LoValidado
    <2>3. CASE con_ml /\ ml # {"sin dataset"}
      <3>1. PICK g \in generate_training_data(talla) :
                ml = (IF g < MinGrupos THEN {"pocos grupos"} ELSE {})
                         \cup (IF g = 0 THEN {"sin mezcla"} ELSE {})
        BY <1>5, <2>3 DEF ErroresML
      <3>2. PICK k \in n..a : g = k \/ (ajeno /\ g = k + 100)
        <4>1. g \in (n..a) \cup (IF ajeno THEN {m + MinGrupos : m \in n..a} ELSE {})
          BY <1>4, <3>1 DEF generate_training_data
        <4>2. CASE g \in n..a
          BY <4>2
        <4>3. CASE g \notin n..a
          BY <4>1, <4>3 DEF MinGrupos
        <4>4. QED BY <4>2, <4>3
      <3>3. g \in Nat /\ g >= 1 /\ g >= n /\ (~ajeno => g <= a)
        BY <1>4, <3>2
      <3>4. ml = IF g < MinGrupos THEN {"pocos grupos"} ELSE {}
        <4>1. g # 0
          BY <3>3
        <4>2. QED BY <3>1, <4>1, Zenon
      <3>5. CASE g < MinGrupos
        <4>1. errores' = {"pocos grupos"}
          BY <1>5, <3>4, <3>5
        <4>2. n < MinGrupos
          BY <1>4, <3>3, <3>5 DEF MinGrupos
        <4>3. QED BY <1>1, <1>4, <4>1, <4>2
                  DEF LoValidado, Aceptadas, Canceladas, PuedeDescartar, Fijas
      <3>6. CASE ~(g < MinGrupos)
        <4>1. errores' = {}
          BY <1>5, <3>4, <3>6
        <4>2. ~ajeno => a >= MinGrupos
          BY <1>4, <3>3, <3>6 DEF MinGrupos
        <4>3. QED BY <1>1, <1>4, <4>1, <4>2
                  DEF LoValidado, Aceptadas, Canceladas, PuedeDescartar, Fijas
      <3>7. QED BY <3>5, <3>6
    <2>4. QED BY <2>1, <2>2, <2>3
  <1>7. Sembrado'
    BY <1>1 DEF IInvSemilla, Sembrado
  <1>8. (\E S : tablas \in Seq(S))'
    BY <1>1 DEF IInvSemilla
  <1>9. (\E x \in Nat : /\ talla = build_sizes(x)
                      /\ (pasada \in {"corre", "sin fin"} \/ Len(tablas) >= 1) => EscalaVale(x))'
    BY <1>1, <1>3
  <1>10. Len(tablas') >= 1
    BY <1>1
  <1>11. QED BY <1>1, <1>6, <1>7, <1>8, <1>9, <1>10, Zenon DEF IInvSemilla

LEMMA PasoSemilla == ASSUME IInvSemilla, NextSemilla PROVE IInvSemilla'
  <1>1. CASE UsanOtros
    BY <1>1 DEF UsanOtros, IInvSemilla, LoValidado, Sembrado
  <1>2. CASE Siembra
    BY <1>2, SiembraSigue
  <1>3. CASE NoTermina
    BY <1>3 DEF NoTermina, IInvSemilla, LoValidado, Sembrado
  <1>4. CASE validate_and_report
    BY <1>4, ValidaSigue
  <1>5. CASE Muere
    BY <1>5 DEF Muere, IInvSemilla, LoValidado, Sembrado
  <1>6. ASSUME NEW e \in Escalas, NEW reset \in BOOLEAN, NEW ml \in BOOLEAN, Empieza(e, reset, ml)
        PROVE  IInvSemilla'
    BY <1>6, EmpiezaSigue
  <1>7. QED BY <1>1, <1>2, <1>3, <1>4, <1>5, <1>6 DEF NextSemilla

-----------------------------------------------------------------------------
(* All the areas *)

\* Only the area that moves takes steps, and they leave the rows of the others alone.
LEMMA SoloSuArea ==
    ASSUME Next
    PROVE  /\ area' = area
           /\ area = "codigos" => NextCodigos
           /\ area = "acceso" => NextAcceso
           /\ area = "kyc" => NextVerificacion
           /\ area = "soporte" => NextMesa
           /\ area = "panel" => NextPanel
           /\ area = "negocio" => NextNegocios
           /\ area = "anuncio" => NextAnuncios
           /\ area = "habilidad" => NextHabilidades
           /\ area = "perfil" => NextPerfil
           /\ area = "directorio" => NextDirectorio
           /\ area = "mensajeria" => NextMensajeria
           /\ area = "cascada" => NextCascada
           /\ area = "recomendacion" => NextRecomendacion
           /\ area = "clasificacion" => NextClasificacion
           /\ area = "limite" => NextRateLimit
           /\ area = "archivos" => NextArchivos
           /\ area = "confianza" => NextConfianza
           /\ area = "region" => NextRegiones
           /\ area = "semilla" => NextSemilla
           /\ area \notin {"codigos", "acceso"} => UNCHANGED codigosVars
           /\ area # "acceso" => UNCHANGED accesoVars
           /\ area # "kyc" => UNCHANGED verificacionVars
           /\ area \notin {"soporte", "panel"} => UNCHANGED soporteVars
           /\ area # "negocio" => UNCHANGED negociosVars
           /\ area # "anuncio" => UNCHANGED anunciosVars
           /\ area # "habilidad" => UNCHANGED habilidadesVars
           /\ area # "perfil" => UNCHANGED perfilVars
           /\ area # "directorio" => UNCHANGED directorioVars
           /\ area # "mensajeria" => UNCHANGED mensajeriaVars
           /\ area # "cascada" => UNCHANGED cascadaVars
           /\ area # "recomendacion" => UNCHANGED recomendacionVars
           /\ area # "clasificacion" => UNCHANGED clasificacionVars
           /\ area # "limite" => UNCHANGED rateLimitVars
           /\ area # "archivos" => UNCHANGED archivosVars
           /\ area # "confianza" => UNCHANGED confianzaVars
           /\ area # "region" => UNCHANGED regionesVars
           /\ area # "semilla" => UNCHANGED semillaVars
  <1> USE DEF varsCuentas, varsVitrina, varsAvisos, varsDatos
  <1>1. CASE EnCodigos
    BY <1>1 DEF EnCodigos
  <1>2. CASE EnAcceso
    BY <1>2 DEF EnAcceso
  <1>3. CASE EnVerificacion
    BY <1>3 DEF EnVerificacion
  <1>4. CASE EnSoporte
    BY <1>4 DEF EnSoporte
  <1>5. CASE EnPanel
    BY <1>5 DEF EnPanel
  <1>6. CASE EnNegocios
    BY <1>6 DEF EnNegocios
  <1>7. CASE EnAnuncios
    BY <1>7 DEF EnAnuncios
  <1>8. CASE EnHabilidades
    BY <1>8 DEF EnHabilidades
  <1>9. CASE EnPerfil
    BY <1>9 DEF EnPerfil
  <1>10. CASE EnDirectorio
    BY <1>10 DEF EnDirectorio
  <1>11. CASE EnMensajeria
    BY <1>11 DEF EnMensajeria
  <1>12. CASE EnCascada
    BY <1>12 DEF EnCascada
  <1>13. CASE EnRecomendacion
    BY <1>13 DEF EnRecomendacion
  <1>14. CASE EnClasificacion
    BY <1>14 DEF EnClasificacion
  <1>15. CASE EnRateLimit
    BY <1>15 DEF EnRateLimit
  <1>16. CASE EnArchivos
    BY <1>16 DEF EnArchivos
  <1>17. CASE EnConfianza
    BY <1>17 DEF EnConfianza
  <1>18. CASE EnRegiones
    BY <1>18 DEF EnRegiones
  <1>19. CASE EnSemilla
    BY <1>19 DEF EnSemilla
  <1>20. QED BY <1>1, <1>2, <1>3, <1>4, <1>5, <1>6, <1>7, <1>8, <1>9, <1>10, <1>11, <1>12, <1>13, <1>14, <1>15, <1>16, <1>17, <1>18, <1>19 DEF Next

DondeSeEntra ==
    /\ area = "codigos" => IInvCodigos /\ InitAcceso
    /\ area = "acceso" => IInvAcceso
    /\ area \notin {"codigos", "acceso"} => InitCodigos /\ InitAcceso
DondeSeVerifica == IF area = "kyc" THEN IInvVerificacion ELSE InitVerificacion
DondeSeAtiende == IF area \in {"soporte", "panel"} THEN IInvSoporte ELSE InitSoporte
DondeSeNegocia == IF area = "negocio" THEN IInvNegocios ELSE InitNegocios
DondeSeAnuncia == IF area = "anuncio" THEN IInvAnuncios ELSE InitAnuncios
DondeSeAprende == IF area = "habilidad" THEN IInvHabilidades ELSE InitHabilidades
DondeSePresenta == IF area = "perfil" THEN IInvPerfil ELSE InitPerfil
DondeSeBusca == IF area = "directorio" THEN IInvDirectorio ELSE InitDirectorio
DondeSeAvisa == IF area = "mensajeria" THEN IInvMensajeria ELSE InitMensajeria
DondeSeNotifica == IF area = "cascada" THEN IInvCascada ELSE InitCascada
DondeSeRecomienda == IF area = "recomendacion" THEN IInvRecomendacion ELSE InitRecomendacion
DondeSeClasifica == IF area = "clasificacion" THEN IInvClasificacion ELSE InitClasificacion
DondeSeLimita == IF area = "limite" THEN IInvLimite ELSE InitRateLimit
DondeSeArchiva == IF area = "archivos" THEN IInvArchivos ELSE InitArchivos
DondeSeConfia == IF area = "confianza" THEN IInvConfianza ELSE InitConfianza
DondeSeUbica == IF area = "region" THEN IInvRegiones ELSE InitRegiones
DondeSeSiembra == IF area = "semilla" THEN IInvSemilla ELSE InitSemilla

LEMMA PasoAlEntrar == DondeSeEntra /\ [Next]_vars => DondeSeEntra'
  <1> SUFFICES ASSUME DondeSeEntra, [Next]_vars
               PROVE  DondeSeEntra'
    OBVIOUS
  <1>1. CASE Next
    <2>1. CASE area = "codigos"
      BY <1>1, <2>1, SoloSuArea, PasoCodigos DEF DondeSeEntra, InitAcceso, accesoVars
    <2>2. CASE area = "acceso"
      BY <1>1, <2>2, SoloSuArea, PasoAcceso DEF DondeSeEntra
    <2>3. CASE area \notin {"codigos", "acceso"}
      BY <1>1, <2>3, SoloSuArea DEF DondeSeEntra, InitCodigos, InitAcceso, codigosVars, accesoVars
    <2>4. QED BY <2>1, <2>2, <2>3
  <1>2. CASE UNCHANGED vars
    <2>1. area' = area /\ UNCHANGED <<codigosVars, accesoVars, servidor>>
      BY <1>2 DEF vars, varsCuentas
    <2>2. CASE area = "codigos"
      BY <2>1, <2>2, CodigosQuietos DEF DondeSeEntra, InitAcceso, accesoVars
    <2>3. CASE area = "acceso"
      BY <2>1, <2>3, AccesoQuieto DEF DondeSeEntra
    <2>4. CASE area \notin {"codigos", "acceso"}
      BY <2>1, <2>4 DEF DondeSeEntra, InitCodigos, InitAcceso, codigosVars, accesoVars
    <2>5. QED BY <2>2, <2>3, <2>4
  <1>3. QED BY <1>1, <1>2

LEMMA PasoSiVerifica == DondeSeVerifica /\ [Next]_vars => DondeSeVerifica'
  <1> SUFFICES ASSUME DondeSeVerifica, [Next]_vars
               PROVE  DondeSeVerifica'
    OBVIOUS
  <1>1. CASE Next /\ area = "kyc"
    BY <1>1, SoloSuArea, PasoVerificacion DEF DondeSeVerifica
  <1>2. CASE UNCHANGED vars /\ area = "kyc"
    <2>1. area' = area /\ UNCHANGED <<verificacionVars, servidor>>
      BY <1>2 DEF vars, varsCuentas, varsVitrina, varsAvisos, varsDatos
    <2>2. QED BY <1>2, <2>1, VerificacionQuieta DEF DondeSeVerifica
  <1>3. CASE area # "kyc"
    <2>1. area' = area /\ UNCHANGED verificacionVars
      BY <1>3, SoloSuArea DEF vars, varsCuentas, varsVitrina, varsAvisos, varsDatos
    <2>2. QED BY <1>3, <2>1 DEF DondeSeVerifica, InitVerificacion, verificacionVars
  <1>4. QED BY <1>1, <1>2, <1>3

LEMMA PasoSiAtiende == DondeSeAtiende /\ [Next]_vars => DondeSeAtiende'
  <1> SUFFICES ASSUME DondeSeAtiende, [Next]_vars
               PROVE  DondeSeAtiende'
    OBVIOUS
  <1>1. CASE Next /\ area \in {"soporte", "panel"}
    BY <1>1, SoloSuArea, PasoSoporte DEF DondeSeAtiende
  <1>2. CASE UNCHANGED vars /\ area \in {"soporte", "panel"}
    <2>1. area' = area /\ UNCHANGED <<soporteVars, servidor>>
      BY <1>2 DEF vars, varsCuentas, varsVitrina, varsAvisos, varsDatos
    <2>2. QED BY <1>2, <2>1, SoporteQuieto DEF DondeSeAtiende
  <1>3. CASE area \notin {"soporte", "panel"}
    <2>1. area' = area /\ UNCHANGED soporteVars
      BY <1>3, SoloSuArea DEF vars, varsCuentas, varsVitrina, varsAvisos, varsDatos
    <2>2. QED BY <1>3, <2>1 DEF DondeSeAtiende, InitSoporte, soporteVars
  <1>4. QED BY <1>1, <1>2, <1>3

LEMMA PasoSiNegocia == DondeSeNegocia /\ [Next]_vars => DondeSeNegocia'
  <1> SUFFICES ASSUME DondeSeNegocia, [Next]_vars
               PROVE  DondeSeNegocia'
    OBVIOUS
  <1>1. CASE Next /\ area = "negocio"
    BY <1>1, SoloSuArea, PasoNegocios DEF DondeSeNegocia
  <1>2. CASE UNCHANGED vars /\ area = "negocio"
    <2>1. area' = area /\ UNCHANGED <<negociosVars, servidor>>
      BY <1>2 DEF vars, varsCuentas, varsVitrina, varsAvisos, varsDatos
    <2>2. QED BY <1>2, <2>1, NegociosQuietos DEF DondeSeNegocia
  <1>3. CASE area # "negocio"
    <2>1. area' = area /\ UNCHANGED negociosVars
      BY <1>3, SoloSuArea DEF vars, varsCuentas, varsVitrina, varsAvisos, varsDatos
    <2>2. QED BY <1>3, <2>1 DEF DondeSeNegocia, InitNegocios, negociosVars
  <1>4. QED BY <1>1, <1>2, <1>3

LEMMA PasoSiAnuncia == DondeSeAnuncia /\ [Next]_vars => DondeSeAnuncia'
  <1> SUFFICES ASSUME DondeSeAnuncia, [Next]_vars
               PROVE  DondeSeAnuncia'
    OBVIOUS
  <1>1. CASE Next /\ area = "anuncio"
    BY <1>1, SoloSuArea, PasoAnuncios DEF DondeSeAnuncia
  <1>2. CASE UNCHANGED vars /\ area = "anuncio"
    <2>1. area' = area /\ UNCHANGED <<anunciosVars, servidor>>
      BY <1>2 DEF vars, varsCuentas, varsVitrina, varsAvisos, varsDatos
    <2>2. QED BY <1>2, <2>1, AnunciosQuietos DEF DondeSeAnuncia
  <1>3. CASE area # "anuncio"
    <2>1. area' = area /\ UNCHANGED anunciosVars
      BY <1>3, SoloSuArea DEF vars, varsCuentas, varsVitrina, varsAvisos, varsDatos
    <2>2. QED BY <1>3, <2>1 DEF DondeSeAnuncia, InitAnuncios, anunciosVars
  <1>4. QED BY <1>1, <1>2, <1>3

LEMMA PasoSiAprende == DondeSeAprende /\ [Next]_vars => DondeSeAprende'
  <1> SUFFICES ASSUME DondeSeAprende, [Next]_vars
               PROVE  DondeSeAprende'
    OBVIOUS
  <1>1. CASE Next /\ area = "habilidad"
    BY <1>1, SoloSuArea, PasoHabilidades DEF DondeSeAprende
  <1>2. CASE UNCHANGED vars /\ area = "habilidad"
    <2>1. area' = area /\ UNCHANGED <<habilidadesVars, servidor>>
      BY <1>2 DEF vars, varsCuentas, varsVitrina, varsAvisos, varsDatos
    <2>2. QED BY <1>2, <2>1, HabilidadesQuietas DEF DondeSeAprende
  <1>3. CASE area # "habilidad"
    <2>1. area' = area /\ UNCHANGED habilidadesVars
      BY <1>3, SoloSuArea DEF vars, varsCuentas, varsVitrina, varsAvisos, varsDatos
    <2>2. QED BY <1>3, <2>1 DEF DondeSeAprende, InitHabilidades, habilidadesVars
  <1>4. QED BY <1>1, <1>2, <1>3

LEMMA PasoSiPresenta == DondeSePresenta /\ [Next]_vars => DondeSePresenta'
  <1> SUFFICES ASSUME DondeSePresenta, [Next]_vars
               PROVE  DondeSePresenta'
    OBVIOUS
  <1>1. CASE Next /\ area = "perfil"
    BY <1>1, SoloSuArea, PasoPerfil DEF DondeSePresenta
  <1>2. CASE UNCHANGED vars /\ area = "perfil"
    <2>1. area' = area /\ UNCHANGED <<perfilVars, servidor>>
      BY <1>2 DEF vars, varsCuentas, varsVitrina, varsAvisos, varsDatos
    <2>2. QED BY <1>2, <2>1, PerfilQuieto DEF DondeSePresenta
  <1>3. CASE area # "perfil"
    <2>1. area' = area /\ UNCHANGED perfilVars
      BY <1>3, SoloSuArea DEF vars, varsCuentas, varsVitrina, varsAvisos, varsDatos
    <2>2. QED BY <1>3, <2>1 DEF DondeSePresenta, InitPerfil, perfilVars
  <1>4. QED BY <1>1, <1>2, <1>3

LEMMA PasoSiBusca == DondeSeBusca /\ [Next]_vars => DondeSeBusca'
  <1> SUFFICES ASSUME DondeSeBusca, [Next]_vars
               PROVE  DondeSeBusca'
    OBVIOUS
  <1>1. CASE Next /\ area = "directorio"
    BY <1>1, SoloSuArea, PasoDirectorio DEF DondeSeBusca
  <1>2. CASE UNCHANGED vars /\ area = "directorio"
    <2>1. area' = area /\ UNCHANGED <<directorioVars, servidor>>
      BY <1>2 DEF vars, varsCuentas, varsVitrina, varsAvisos, varsDatos
    <2>2. QED BY <1>2, <2>1, DirectorioQuieto DEF DondeSeBusca
  <1>3. CASE area # "directorio"
    <2>1. area' = area /\ UNCHANGED directorioVars
      BY <1>3, SoloSuArea DEF vars, varsCuentas, varsVitrina, varsAvisos, varsDatos
    <2>2. QED BY <1>3, <2>1 DEF DondeSeBusca, InitDirectorio, directorioVars
  <1>4. QED BY <1>1, <1>2, <1>3

LEMMA PasoSiAvisa == DondeSeAvisa /\ [Next]_vars => DondeSeAvisa'
  <1> SUFFICES ASSUME DondeSeAvisa, [Next]_vars
               PROVE  DondeSeAvisa'
    OBVIOUS
  <1>1. CASE Next /\ area = "mensajeria"
    BY <1>1, SoloSuArea, PasoMensajeria DEF DondeSeAvisa
  <1>2. CASE UNCHANGED vars /\ area = "mensajeria"
    <2>1. area' = area /\ UNCHANGED <<mensajeriaVars, servidor>>
      BY <1>2 DEF vars, varsCuentas, varsVitrina, varsAvisos, varsDatos
    <2>2. QED BY <1>2, <2>1, MensajeriaQuieta DEF DondeSeAvisa
  <1>3. CASE area # "mensajeria"
    <2>1. area' = area /\ UNCHANGED mensajeriaVars
      BY <1>3, SoloSuArea DEF vars, varsCuentas, varsVitrina, varsAvisos, varsDatos
    <2>2. QED BY <1>3, <2>1 DEF DondeSeAvisa, InitMensajeria, mensajeriaVars
  <1>4. QED BY <1>1, <1>2, <1>3

LEMMA PasoSiNotifica == DondeSeNotifica /\ [Next]_vars => DondeSeNotifica'
  <1> SUFFICES ASSUME DondeSeNotifica, [Next]_vars
               PROVE  DondeSeNotifica'
    OBVIOUS
  <1>1. CASE Next /\ area = "cascada"
    BY <1>1, SoloSuArea, PasoCascada DEF DondeSeNotifica
  <1>2. CASE UNCHANGED vars /\ area = "cascada"
    <2>1. area' = area /\ UNCHANGED <<cascadaVars, servidor>>
      BY <1>2 DEF vars, varsCuentas, varsVitrina, varsAvisos, varsDatos
    <2>2. QED BY <1>2, <2>1, CascadaQuieta DEF DondeSeNotifica
  <1>3. CASE area # "cascada"
    <2>1. area' = area /\ UNCHANGED cascadaVars
      BY <1>3, SoloSuArea DEF vars, varsCuentas, varsVitrina, varsAvisos, varsDatos
    <2>2. QED BY <1>3, <2>1 DEF DondeSeNotifica, InitCascada, cascadaVars
  <1>4. QED BY <1>1, <1>2, <1>3

LEMMA PasoSiRecomienda == DondeSeRecomienda /\ [Next]_vars => DondeSeRecomienda'
  <1> SUFFICES ASSUME DondeSeRecomienda, [Next]_vars
               PROVE  DondeSeRecomienda'
    OBVIOUS
  <1>1. CASE Next /\ area = "recomendacion"
    BY <1>1, SoloSuArea, PasoRecomendacion DEF DondeSeRecomienda
  <1>2. CASE UNCHANGED vars /\ area = "recomendacion"
    <2>1. area' = area /\ UNCHANGED <<recomendacionVars, servidor>>
      BY <1>2 DEF vars, varsCuentas, varsVitrina, varsAvisos, varsDatos
    <2>2. QED BY <1>2, <2>1, RecomendacionQuieta DEF DondeSeRecomienda
  <1>3. CASE area # "recomendacion"
    <2>1. area' = area /\ UNCHANGED recomendacionVars
      BY <1>3, SoloSuArea DEF vars, varsCuentas, varsVitrina, varsAvisos, varsDatos
    <2>2. QED BY <1>3, <2>1 DEF DondeSeRecomienda, InitRecomendacion, recomendacionVars
  <1>4. QED BY <1>1, <1>2, <1>3

LEMMA PasoSiClasifica == DondeSeClasifica /\ [Next]_vars => DondeSeClasifica'
  <1> SUFFICES ASSUME DondeSeClasifica, [Next]_vars
               PROVE  DondeSeClasifica'
    OBVIOUS
  <1>1. CASE Next /\ area = "clasificacion"
    BY <1>1, SoloSuArea, PasoClasificacion DEF DondeSeClasifica
  <1>2. CASE UNCHANGED vars /\ area = "clasificacion"
    <2>1. area' = area /\ UNCHANGED clasificacionVars
      BY <1>2 DEF vars, varsCuentas, varsVitrina, varsAvisos, varsDatos
    <2>2. QED BY <1>2, <2>1, ClasificacionQuieta DEF DondeSeClasifica
  <1>3. CASE area # "clasificacion"
    <2>1. area' = area /\ UNCHANGED clasificacionVars
      BY <1>3, SoloSuArea DEF vars, varsCuentas, varsVitrina, varsAvisos, varsDatos
    <2>2. QED BY <1>3, <2>1 DEF DondeSeClasifica, InitClasificacion, clasificacionVars
  <1>4. QED BY <1>1, <1>2, <1>3

LEMMA PasoSiLimita == DondeSeLimita /\ [Next]_vars => DondeSeLimita'
  <1> SUFFICES ASSUME DondeSeLimita, [Next]_vars
               PROVE  DondeSeLimita'
    OBVIOUS
  <1>1. CASE Next /\ area = "limite"
    BY <1>1, SoloSuArea, PasoLimite DEF DondeSeLimita
  <1>2. CASE UNCHANGED vars /\ area = "limite"
    <2>1. area' = area /\ UNCHANGED rateLimitVars
      BY <1>2 DEF vars, varsCuentas, varsVitrina, varsAvisos, varsDatos
    <2>2. QED BY <1>2, <2>1, LimiteQuieto DEF DondeSeLimita
  <1>3. CASE area # "limite"
    <2>1. area' = area /\ UNCHANGED rateLimitVars
      BY <1>3, SoloSuArea DEF vars, varsCuentas, varsVitrina, varsAvisos, varsDatos
    <2>2. QED BY <1>3, <2>1 DEF DondeSeLimita, InitRateLimit, rateLimitVars
  <1>4. QED BY <1>1, <1>2, <1>3

LEMMA PasoSiArchiva == DondeSeArchiva /\ [Next]_vars => DondeSeArchiva'
  <1> SUFFICES ASSUME DondeSeArchiva, [Next]_vars
               PROVE  DondeSeArchiva'
    OBVIOUS
  <1>1. CASE Next /\ area = "archivos"
    BY <1>1, SoloSuArea, PasoArchivos DEF DondeSeArchiva
  <1>2. CASE UNCHANGED vars /\ area = "archivos"
    <2>1. area' = area /\ UNCHANGED <<archivosVars, servidor>>
      BY <1>2 DEF vars, varsCuentas, varsVitrina, varsAvisos, varsDatos
    <2>2. QED BY <1>2, <2>1, ArchivosQuietos DEF DondeSeArchiva
  <1>3. CASE area # "archivos"
    <2>1. area' = area /\ UNCHANGED archivosVars
      BY <1>3, SoloSuArea DEF vars, varsCuentas, varsVitrina, varsAvisos, varsDatos
    <2>2. QED BY <1>3, <2>1 DEF DondeSeArchiva, InitArchivos, archivosVars
  <1>4. QED BY <1>1, <1>2, <1>3

LEMMA PasoSiConfia == DondeSeConfia /\ [Next]_vars => DondeSeConfia'
  <1> SUFFICES ASSUME DondeSeConfia, [Next]_vars
               PROVE  DondeSeConfia'
    OBVIOUS
  <1>1. CASE Next /\ area = "confianza"
    BY <1>1, SoloSuArea, PasoConfianza DEF DondeSeConfia
  <1>2. CASE UNCHANGED vars /\ area = "confianza"
    <2>1. area' = area /\ UNCHANGED <<confianzaVars, servidor>>
      BY <1>2 DEF vars, varsCuentas, varsVitrina, varsAvisos, varsDatos
    <2>2. QED BY <1>2, <2>1, ConfianzaQuieta DEF DondeSeConfia
  <1>3. CASE area # "confianza"
    <2>1. area' = area /\ UNCHANGED confianzaVars
      BY <1>3, SoloSuArea DEF vars, varsCuentas, varsVitrina, varsAvisos, varsDatos
    <2>2. QED BY <1>3, <2>1 DEF DondeSeConfia, InitConfianza, confianzaVars
  <1>4. QED BY <1>1, <1>2, <1>3

LEMMA PasoSiUbica == DondeSeUbica /\ [Next]_vars => DondeSeUbica'
  <1> SUFFICES ASSUME DondeSeUbica, [Next]_vars
               PROVE  DondeSeUbica'
    OBVIOUS
  <1>1. CASE Next /\ area = "region"
    BY <1>1, SoloSuArea, PasoRegiones DEF DondeSeUbica
  <1>2. CASE UNCHANGED vars /\ area = "region"
    <2>1. area' = area /\ UNCHANGED <<regionesVars, servidor>>
      BY <1>2 DEF vars, varsCuentas, varsVitrina, varsAvisos, varsDatos
    <2>2. QED BY <1>2, <2>1, RegionesQuietas DEF DondeSeUbica
  <1>3. CASE area # "region"
    <2>1. area' = area /\ UNCHANGED regionesVars
      BY <1>3, SoloSuArea DEF vars, varsCuentas, varsVitrina, varsAvisos, varsDatos
    <2>2. QED BY <1>3, <2>1 DEF DondeSeUbica, InitRegiones, regionesVars
  <1>4. QED BY <1>1, <1>2, <1>3

LEMMA PasoSiSiembra == DondeSeSiembra /\ [Next]_vars => DondeSeSiembra'
  <1> SUFFICES ASSUME DondeSeSiembra, [Next]_vars
               PROVE  DondeSeSiembra'
    OBVIOUS
  <1>1. CASE Next /\ area = "semilla"
    BY <1>1, SoloSuArea, PasoSemilla DEF DondeSeSiembra
  <1>2. CASE UNCHANGED vars /\ area = "semilla"
    <2>1. area' = area /\ UNCHANGED semillaVars
      BY <1>2 DEF vars, varsCuentas, varsVitrina, varsAvisos, varsDatos
    <2>2. QED BY <1>2, <2>1, SemillaQuieta DEF DondeSeSiembra
  <1>3. CASE area # "semilla"
    <2>1. area' = area /\ UNCHANGED semillaVars
      BY <1>3, SoloSuArea DEF vars, varsCuentas, varsVitrina, varsAvisos, varsDatos
    <2>2. QED BY <1>3, <2>1 DEF DondeSeSiembra, InitSemilla, semillaVars
  <1>4. QED BY <1>1, <1>2, <1>3

IInv ==
    /\ DondeSeEntra /\ DondeSeVerifica /\ DondeSeAtiende
    /\ DondeSeNegocia /\ DondeSeAnuncia /\ DondeSeAprende /\ DondeSePresenta /\ DondeSeBusca
    /\ DondeSeAvisa /\ DondeSeNotifica /\ DondeSeRecomienda /\ DondeSeClasifica /\ DondeSeLimita
    /\ DondeSeArchiva /\ DondeSeConfia /\ DondeSeUbica /\ DondeSeSiembra

LEMMA AlEmpezar == Init => IInv
  <1> SUFFICES ASSUME Init
               PROVE  IInv
    OBVIOUS
  <1>1. DondeSeEntra
    BY ServidorLibre, CodigosAlInicio, AccesoAlInicio DEF Init, DondeSeEntra
  <1>2. DondeSeVerifica /\ DondeSeAtiende
    BY ServidorLibre, VerificacionAlInicio, SoporteAlInicio
       DEF Init, DondeSeVerifica, DondeSeAtiende
  <1>3. DondeSeNegocia /\ DondeSeAnuncia /\ DondeSeAprende
    BY ServidorLibre, NegociosAlInicio, AnunciosAlInicio, HabilidadesAlInicio
       DEF Init, DondeSeNegocia, DondeSeAnuncia, DondeSeAprende
  <1>4. DondeSePresenta /\ DondeSeBusca
    BY ServidorLibre, PerfilAlInicio, DirectorioAlInicio DEF Init, DondeSePresenta, DondeSeBusca
  <1>5. DondeSeAvisa /\ DondeSeNotifica
    BY ServidorLibre, MensajeriaAlInicio, CascadaAlInicio DEF Init, DondeSeAvisa, DondeSeNotifica
  <1>6. DondeSeRecomienda /\ DondeSeClasifica /\ DondeSeLimita
    BY ServidorLibre, RecomendacionAlInicio, ClasificacionAlInicio, LimiteAlInicio
       DEF Init, DondeSeRecomienda, DondeSeClasifica, DondeSeLimita
  <1>7. DondeSeArchiva /\ DondeSeConfia
    BY ServidorLibre, ArchivosAlInicio, ConfianzaAlInicio DEF Init, DondeSeArchiva, DondeSeConfia
  <1>8. DondeSeUbica /\ DondeSeSiembra
    BY ServidorLibre, RegionesAlInicio, SemillaAlInicio DEF Init, DondeSeUbica, DondeSeSiembra
  <1>9. QED BY <1>1, <1>2, <1>3, <1>4, <1>5, <1>6, <1>7, <1>8 DEF IInv

LEMMA Paso == IInv /\ [Next]_vars => IInv'
  <1> SUFFICES ASSUME IInv, [Next]_vars
               PROVE  IInv'
    OBVIOUS
  <1>1. (DondeSeEntra /\ DondeSeVerifica /\ DondeSeAtiende)'
    BY PasoAlEntrar, PasoSiVerifica, PasoSiAtiende DEF IInv
  <1>2. (DondeSeNegocia /\ DondeSeAnuncia /\ DondeSeAprende /\ DondeSePresenta /\ DondeSeBusca)'
    BY PasoSiNegocia, PasoSiAnuncia, PasoSiAprende, PasoSiPresenta, PasoSiBusca DEF IInv
  <1>3. (DondeSeAvisa /\ DondeSeNotifica /\ DondeSeRecomienda /\ DondeSeClasifica /\ DondeSeLimita)'
    BY PasoSiAvisa, PasoSiNotifica, PasoSiRecomienda, PasoSiClasifica, PasoSiLimita DEF IInv
  <1>4. (DondeSeArchiva /\ DondeSeConfia /\ DondeSeUbica /\ DondeSeSiembra)'
    BY PasoSiArchiva, PasoSiConfia, PasoSiUbica, PasoSiSiembra DEF IInv
  <1>5. QED BY <1>1, <1>2, <1>3, <1>4 DEF IInv

LEMMA AlcanzaLaEntrada ==
    ASSUME IInv
    PROVE  CodigosOK /\ CodigoDeUnUso /\ EnlaceUnaVezEnSerie /\ AccesoOK /\ TokenVigenteEnSerie
  <1>1. CASE area = "codigos"
    <2>1. IInvCodigos /\ cuenta = Nada /\ tokens = {}
      BY <1>1 DEF IInv, DondeSeEntra, InitAcceso
    <2>2. AccesoOK /\ TokenVigenteEnSerie
      BY <2>1 DEF AccesoOK, TokenVigenteEnSerie
    <2>3. QED BY <2>1, <2>2, AlcanzaLosCodigos DEF IInvCodigos
  <1>2. CASE area = "acceso"
    BY <1>2, AlcanzaElAcceso, AlcanzaLosCodigos DEF IInv, DondeSeEntra
  <1>3. CASE area \notin {"codigos", "acceso"}
    BY <1>3, AccesoAlInicio, CodigosAlInicio, AlcanzaLosCodigos DEF IInv, DondeSeEntra
  <1>4. QED BY <1>1, <1>2, <1>3

\* A link, a postulation, a notification of formalization, a phase and a group
\* happen once until a request commits on rows that had changed, or a process
\* dies (services/security.py, controllers/negocios.py, services/notifications.py,
\* ai/cascade.py, services/ab_testing.py).
THEOREM UnaVez == Spec => []UnaVezEnSerie
  <1>1. ASSUME IInv
        PROVE  UnaVezEnSerie
    <2>1. EnlaceUnaVezEnSerie
      BY <1>1, AlcanzaLaEntrada
    <2>2. PostulacionEnSerie
      BY <1>1, AnunciosAlInicio DEF IInv, DondeSeAnuncia, IInvAnuncios
    <2>3. FormalizacionUnaVezEnSerie
      BY <1>1, MensajeriaAlInicio, AlcanzaLaMensajeria DEF IInv, DondeSeAvisa, IInvMensajeria
    <2>4. FaseUnaVezSinCaidas
      BY <1>1, CascadaAlInicio, AlcanzaLaCascada DEF IInv, DondeSeNotifica
    <2>5. GrupoEstableEnSerie
      BY <1>1, RecomendacionAlInicio DEF IInv, DondeSeRecomienda, IInvRecomendacion
    <2>6. QED BY <2>1, <2>2, <2>3, <2>4, <2>5 DEF UnaVezEnSerie
  <1>2. QED BY AlEmpezar, Paso, <1>1, PTL DEF Spec

\* No token opens the account with a role or a status it no longer has, until a
\* request commits on an account that had changed (services/auth.py).
THEOREM TokenVigente == Spec => []TokenVigenteEnSerie
  <1>1. ASSUME IInv
        PROVE  TokenVigenteEnSerie
    BY <1>1, AlcanzaLaEntrada
  <1>2. QED BY AlEmpezar, Paso, <1>1, PTL DEF Spec

\* Certifying a level again, or deleting the skill, never lowers the progression
\* of a pds (controllers/habilidades.py).
THEOREM ProgresoFirme == Spec => ProgresoNoBaja
  <1> DEFINE NoBaja == \A trabajos \in Trabajos, nota \in Notas :
                        Progreso(trabajos, nota)' >= Progreso(trabajos, nota)
  <1>1. IInv /\ [Next]_vars => [NoBaja]_habilidadesVars
    <2> SUFFICES ASSUME IInv, [Next]_vars, ~UNCHANGED habilidadesVars
                 PROVE  NoBaja
      OBVIOUS
    <2>1. Next /\ area = "habilidad"
      BY SoloSuArea DEF vars, varsVitrina
    <2>2. IInvHabilidades /\ NextHabilidades
      BY <2>1, SoloSuArea DEF IInv, DondeSeAprende
    <2>3. QED BY <2>2, ElProgresoNoBaja
  <1>2. QED BY AlEmpezar, Paso, <1>1, PTL DEF Spec, ProgresoNoBaja

\* Whether an area moves or is as it was at the beginning, its invariant holds.
LEMMA AlcanzanLasCuentas ==
    ASSUME IInv
    PROVE  VerificacionOK /\ VerificadoEnSerie /\ SoporteOK /\ AuditoriaEnSerie
  <1>1. VerificacionOK /\ VerificadoEnSerie
    BY VerificacionAlInicio DEF IInv, DondeSeVerifica, IInvVerificacion
  <1>2. SoporteOK /\ AuditoriaEnSerie
    BY SoporteAlInicio, AlcanzaElSoporte DEF IInv, DondeSeAtiende
  <1>3. QED BY <1>1, <1>2

LEMMA AlcanzaLaVitrina ==
    ASSUME IInv
    PROVE  /\ NegociosOK /\ NegocioEnSerie /\ AnunciosOK /\ HabilidadesOK
           /\ PerfilOK /\ PerfilEnSerie /\ DirectorioOK /\ HorarioEnSerie
  <1>1. NegociosOK /\ NegocioEnSerie
    BY NegociosAlInicio, NegocioFirme DEF IInv, DondeSeNegocia
  <1>2. AnunciosOK
    BY AnunciosAlInicio DEF IInv, DondeSeAnuncia, IInvAnuncios
  <1>3. HabilidadesOK
    BY HabilidadesAlInicio DEF IInv, DondeSeAprende, IInvHabilidades
  <1>4. PerfilOK /\ PerfilEnSerie
    BY PerfilAlInicio DEF IInv, DondeSePresenta, IInvPerfil
  <1>5. DirectorioOK /\ HorarioEnSerie
    BY DirectorioAlInicio DEF IInv, DondeSeBusca, IInvDirectorio
  <1>6. QED BY <1>1, <1>2, <1>3, <1>4, <1>5

LEMMA AlcanzanLosAvisos ==
    ASSUME IInv
    PROVE  MensajeriaOK /\ CascadaOK /\ RecomendacionOK /\ ClasificacionOK /\ LimitePorVentana
  <1>1. MensajeriaOK
    BY MensajeriaAlInicio, AlcanzaLaMensajeria DEF IInv, DondeSeAvisa, IInvMensajeria
  <1>2. CascadaOK
    BY CascadaAlInicio, AlcanzaLaCascada DEF IInv, DondeSeNotifica
  <1>3. RecomendacionOK
    BY RecomendacionAlInicio DEF IInv, DondeSeRecomienda, IInvRecomendacion
  <1>4. ClasificacionOK
    BY ClasificacionAlInicio DEF IInv, DondeSeClasifica, IInvClasificacion
  <1>5. LimitePorVentana
    BY LimiteAlInicio, AlcanzaElLimite DEF IInv, DondeSeLimita
  <1>6. QED BY <1>1, <1>2, <1>3, <1>4, <1>5

LEMMA AlcanzanLosDatos ==
    ASSUME IInv
    PROVE  /\ ArchivosOK /\ ConfianzaOK /\ ConfianzaEnSerie /\ RegionesOK /\ RegionEnSerie
           /\ SemillaOK
  <1>1. ArchivosOK
    BY ArchivosAlInicio, AlcanzanLosArchivos DEF IInv, DondeSeArchiva
  <1>2. ConfianzaOK /\ ConfianzaEnSerie
    BY ConfianzaAlInicio DEF IInv, DondeSeConfia, IInvConfianza
  <1>3. RegionesOK /\ RegionEnSerie
    BY RegionesAlInicio DEF IInv, DondeSeUbica, IInvRegiones
  <1>4. SemillaOK
    BY SemillaAlInicio, AlcanzaLaSemilla DEF IInv, DondeSeSiembra
  <1>5. QED BY <1>1, <1>2, <1>3, <1>4

\* What is computed from other rows agrees with them until a request commits on rows
\* that had changed: verificado, the averages and the counts of the ratings, the
\* gallery, the audit log, the trust score, the regions and the hours
\* (controllers/kyc.py, negocios.py, calificaciones.py, services/trust.py).
THEOREM Derivados == Spec => []DerivadosEnSerie
  <1>1. ASSUME IInv
        PROVE  DerivadosEnSerie
    BY <1>1, AlcanzanLasCuentas, AlcanzaLaVitrina, AlcanzanLosDatos DEF DerivadosEnSerie
  <1>2. QED BY AlEmpezar, Paso, <1>1, PTL DEF Spec

\* Every area keeps its rows right through races, timeouts, deaths and restarts: a
\* code is used once, a phase of the cascade follows the one before, the photo that
\* is shown is stored, the simulation has what its rows stand on, and no window has
\* more attempts than the limit.
THEOREM PlataformaFirme == Spec => []PlataformaOK
  <1>1. ASSUME IInv
        PROVE  PlataformaOK
    BY <1>1, AlcanzaLaEntrada, AlcanzanLasCuentas, AlcanzaLaVitrina, AlcanzanLosAvisos,
       AlcanzanLosDatos DEF PlataformaOK
  <1>2. QED BY AlEmpezar, Paso, <1>1, PTL DEF Spec
=============================================================================
