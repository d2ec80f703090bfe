---------------------------- MODULE MaranasProofs ----------------------------
(***************************************************************************)
(* Proofs about Maranas for any number of providers, racing requests,      *)
(* adendas, maranas and offers.                                            *)
(*                                                                         *)
(* Firme, what holds however requests race, is inductive by itself;        *)
(* EnSerie, what holds until one of them commits on rows that had changed, *)
(* is inductive on top of it.  Both are proved action by action.           *)
(***************************************************************************)
EXTENDS Maranas, SequenceTheorems, TLAPS

\* The part of Firme that is about the rows.
FirmeFilas ==
    /\ finalizada \in BOOLEAN
    /\ adendas \in Seq(Adenda)
    /\ creadas \in Nat
    /\ maranas \in Seq(MaranaRow)
    /\ ofertas \in Seq(OfertaRow)
    /\ ListaVeraz /\ PagadaConEntrega
    /\ \A i \in DOMAIN adendas : adendas[i].origen <= creadas
    /\ \A m \in DOMAIN maranas :
            /\ maranas[m].estado = "publicado" => maranas[m].pds = Nada
            /\ maranas[m].estado = "completado" => maranas[m].entrega
    /\ \A o \in DOMAIN ofertas : ofertas[o].marana \in DOMAIN maranas

\* What no step undoes: ids, origins, assignment, delivery and confirmations.
Crecen ==
    /\ creadas' >= creadas
    /\ \A m \in DOMAIN maranas :
            /\ m \in DOMAIN maranas'
            /\ maranas'[m].origen = maranas[m].origen
            /\ maranas[m].pds # Nada => maranas'[m].pds # Nada
            /\ maranas[m].entrega => maranas'[m].entrega
            /\ maranas[m].pago_solicitante => maranas'[m].pago_solicitante
            /\ maranas[m].pago_prestador => maranas'[m].pago_prestador
    /\ \A o \in DOMAIN ofertas :
            /\ o \in DOMAIN ofertas'
            /\ ofertas'[o].marana = ofertas[o].marana
            /\ ofertas'[o].pds = ofertas[o].pds

\* What a commit that declares W may have changed.
SoloCambia(W) ==
    /\ \A m \in DOMAIN maranas : <<"marana", m>> \notin W => maranas'[m] = maranas[m]
    /\ <<"chamba">> \notin W => DOMAIN maranas' = DOMAIN maranas
    /\ \A o \in DOMAIN ofertas' :
            <<"ofertas", ofertas'[o].marana, ofertas'[o].pds>> \notin W =>
                o \in DOMAIN ofertas /\ ofertas'[o] = ofertas[o]

\* What a step has to keep.
Conserva == Firme' /\ (EnSerie => EnSerie')

\* UnaAceptadaEnSerie, of the marana m.
UnaEn(m) ==
    LET aceptadas == {o \in OfertasDe(m) : ofertas[o].estado = "aceptada"}
        activas == {o \in OfertasDe(m) : ofertas[o].estado \in Activas}
    IN  IF maranas[m].pds = Nada THEN aceptadas = {}
        ELSE /\ activas = {}
             /\ \E o \in aceptadas : aceptadas = {o} /\ ofertas[o].pds = maranas[m].pds
-----------------------------------------------------------------------------
(* Requests *)

\* What TypeOK says of a request.
LEMMA PeticionCampos ==
    ASSUME NEW p \in Peticion
    PROVE  /\ p.op \in Operacion
           /\ p.quien \in Pds \cup {Solicitante}
           /\ p.m \in Nat /\ p.o \in Nat /\ p.i \in Nat
           /\ p.lista \in Seq(Adenda)
           /\ p.cargada \in EstadoMaranaOferta
           /\ p.cierra \in BOOLEAN
           /\ p.otras \in SUBSET Nat
           /\ p.tomada \in BOOLEAN
           /\ p.vieja \in BOOLEAN
  BY DEF Peticion

LEMMA PeticionEn ==
    ASSUME TypeOK, NEW h \in Hilos, peticion[h] # Nada
    PROVE  peticion[h] \in Peticion
  BY DEF TypeOK

\* A request that falls behind remembers the same as before.
LEMMA EnvejeceCampos ==
    ASSUME NEW p \in Peticion, NEW W
    PROVE  LET q == Envejece(p, W)
           IN  /\ q \in Peticion
               /\ q.op = p.op /\ q.quien = p.quien /\ q.m = p.m /\ q.o = p.o /\ q.i = p.i
               /\ q.lista = p.lista /\ q.cargada = p.cargada /\ q.cierra = p.cierra
               /\ q.otras = p.otras /\ q.tomada = p.tomada
               /\ ~q.vieja /\ p # Nada => ~p.vieja /\ Lee(p) \cap W = {}
  <1>1. [p EXCEPT !.vieja = TRUE] \in Peticion /\ [p EXCEPT !.vieja = TRUE].vieja = TRUE
    BY DEF Peticion
  <1>2. CASE p # Nada /\ Lee(p) \cap W # {}
    <2>1. Envejece(p, W) = [p EXCEPT !.vieja = TRUE]
      BY <1>2 DEF Envejece
    <2>2. QED BY <1>1, <2>1 DEF Peticion
  <1>3. CASE ~(p # Nada /\ Lee(p) \cap W # {})
    <2>1. Envejece(p, W) = p
      BY <1>3 DEF Envejece
    <2>2. QED BY <1>3, <2>1
  <1>4. QED BY <1>2, <1>3

\* What a list of adendas holds.
LEMMA AdendaCampos ==
    ASSUME NEW s \in Seq(Adenda), NEW i \in DOMAIN s
    PROVE  /\ i \in 1..Len(s)
           /\ s[i] \in Adenda
           /\ s[i].origen \in Nat
           /\ s[i].marana \in Nat \cup {Nada}
  <1>1. i \in 1..Len(s)
    BY LenProperties
  <1>2. s[i] \in Adenda
    BY <1>1, ElementOfSeq
  <1>3. QED BY <1>1, <1>2 DEF Adenda

\* What a request knows survives every step.
LEMMA CoherenteQuieta ==
    ASSUME FirmeFilas, NEW p \in Peticion, Coherente(p), Crecen, creadas' \in Nat
    PROVE  Coherente(p)'
  <1>1. Veraz(p.lista) => Veraz(p.lista)'
    BY DEF Veraz, Crecen
  <1>2. (\A i \in DOMAIN p.lista : p.lista[i].origen <= creadas)
            => \A i \in DOMAIN p.lista : p.lista[i].origen <= creadas'
    <2>1. \A i \in DOMAIN p.lista : p.lista[i].origen \in Nat
      BY PeticionCampos, AdendaCampos
    <2>2. QED BY <2>1 DEF Crecen, FirmeFilas
  <1>3. \A m : OfertasDe(m) \subseteq OfertasDe(m)'
    BY DEF OfertasDe, Crecen
  <1>4. QED BY <1>1, <1>2, <1>3 DEF Coherente, Crecen

LEMMA PartesDeFirme == Firme => TypeOK /\ FirmeFilas
  BY DEF Firme, FirmeFilas, TypeOK

\* What the types say of the rows.
LEMMA FilaCampos ==
    ASSUME FirmeFilas
    PROVE  /\ \A m \in DOMAIN maranas :
                /\ m \in Nat
                /\ maranas[m] \in MaranaRow
                /\ maranas[m].origen \in Nat
                /\ maranas[m].estado \in EstadoMarana
                /\ maranas[m].pds \in Pds \cup {Nada}
                /\ maranas[m].entrega \in BOOLEAN
                /\ maranas[m].pago_solicitante \in BOOLEAN
                /\ maranas[m].pago_prestador \in BOOLEAN
                /\ maranas[m].pagada \in BOOLEAN
           /\ \A o \in DOMAIN ofertas :
                /\ o \in Nat
                /\ ofertas[o] \in OfertaRow
                /\ ofertas[o].marana \in Nat
                /\ ofertas[o].marana \in DOMAIN maranas
                /\ ofertas[o].pds \in Pds
                /\ ofertas[o].estado \in EstadoMaranaOferta
  <1>1. maranas \in Seq(MaranaRow) /\ ofertas \in Seq(OfertaRow)
    BY DEF FirmeFilas
  <1>2. /\ DOMAIN maranas = 1..Len(maranas) /\ Len(maranas) \in Nat
        /\ DOMAIN ofertas = 1..Len(ofertas) /\ Len(ofertas) \in Nat
    BY <1>1, LenProperties
  <1>3. \A m \in DOMAIN maranas : m \in Nat /\ maranas[m] \in MaranaRow
    BY <1>1, <1>2, ElementOfSeq
  <1>4. \A o \in DOMAIN ofertas : o \in Nat /\ ofertas[o] \in OfertaRow
    BY <1>1, <1>2, ElementOfSeq
  <1>5. QED BY <1>3, <1>4 DEF MaranaRow, OfertaRow, FirmeFilas

\* What a request loaded: its marana, and once it flushed its acceptance every
\* offer of the marana.
LEMMA LoLeido ==
    ASSUME NEW p \in Peticion
    PROVE  /\ p.op \in {"lista", "lanzar"} => <<"chamba">> \in Lee(p)
           /\ p.op \in {"postular", "contraofertar", "rechazar", "aceptar",
                        "completar", "cancelar", "pagar"} => <<"marana", p.m>> \in Lee(p)
           /\ p.op = "aceptar" /\ p.tomada =>
                \A u \in Pds : <<"ofertas", p.m, u>> \in Lee(p)
  <1>1. p.op \in Operacion
    BY PeticionCampos
  <1>2. CASE p.op \in {"lista", "lanzar"}
    BY <1>2 DEF Lee
  <1>3. CASE p.op = "postular"
    BY <1>3 DEF Lee
  <1>4. CASE p.op \in {"contraofertar", "rechazar"}
    BY <1>4 DEF Lee
  <1>5. CASE p.op = "aceptar"
    BY <1>5 DEF Lee
  <1>6. CASE p.op \in {"completar", "cancelar", "pagar"}
    BY <1>6 DEF Lee
  <1>7. QED BY <1>1, <1>2, <1>3, <1>4, <1>5, <1>6 DEF Operacion

\* A request none of whose rows were written is as up to date as before.
LEMMA AlDiaQuieta ==
    ASSUME FirmeFilas, FirmeFilas', Crecen, NEW W, SoloCambia(W),
           NEW p \in Peticion, Coherente(p), AlDia(p), Lee(p) \cap W = {}
    PROVE  AlDia(p)'
  <1>1. ASSUME p.op \in {"lista", "lanzar"}
        PROVE  Enlaza(p.lista)'
    <2>1. DOMAIN maranas' = DOMAIN maranas
      BY <1>1, LoLeido DEF SoloCambia
    <2>2. Enlaza(p.lista)
      BY <1>1 DEF AlDia
    <2>3. QED BY <2>1, <2>2 DEF Enlaza, Crecen
  <1>2. ASSUME p.op \in {"postular", "contraofertar", "rechazar", "aceptar",
                         "completar", "cancelar", "pagar"}
        PROVE  maranas'[p.m] = maranas[p.m]
    <2>1. p.m \in DOMAIN maranas /\ <<"marana", p.m>> \notin W
      BY <1>2, LoLeido DEF Coherente
    <2>2. QED BY <2>1 DEF SoloCambia
  <1>3. ASSUME p.op = "aceptar", p.tomada,
               NEW o \in OfertasDe(p.m)', ofertas'[o].estado \in Activas
        PROVE  o \in p.otras \cup {p.o}
    <2>1. o \in DOMAIN ofertas' /\ ofertas'[o].marana = p.m
      BY <1>3 DEF OfertasDe
    <2>2. ofertas'[o].pds \in Pds
      <3>1. ofertas' \in Seq(OfertaRow)
        BY DEF FirmeFilas
      <3>2. ofertas'[o] \in OfertaRow
        BY <2>1, <3>1, LenProperties, ElementOfSeq
      <3>3. QED BY <3>2 DEF OfertaRow
    <2>3. <<"ofertas", p.m, ofertas'[o].pds>> \notin W
      BY <1>3, <2>2, LoLeido
    <2>4. o \in DOMAIN ofertas /\ ofertas'[o] = ofertas[o]
      BY <2>1, <2>3 DEF SoloCambia
    <2>5. QED BY <1>3, <2>1, <2>4 DEF AlDia, OfertasDe
  <1>4. QED
    BY <1>1, <1>2, <1>3 DEF AlDia

\* A step that writes the rows, may put requests behind and may free slots.
LEMMA OtrasConserva ==
    ASSUME Firme, FirmeFilas', Crecen, NEW W, SoloCambia(W),
           peticion' = [g \in Hilos |-> peticion'[g]],
           \A g \in Hilos : peticion'[g] \in {Nada, Envejece(peticion[g], W)},
           obsoleta' \in BOOLEAN, obsoleta => obsoleta',
           EnSerie /\ ~obsoleta' => Enlaza(adendas)' /\ UnaAceptadaEnSerie'
    PROVE  Conserva
  <1>1. TypeOK /\ FirmeFilas /\ creadas' \in Nat
    BY PartesDeFirme DEF FirmeFilas
  <1>2. ASSUME NEW g \in Hilos, peticion'[g] # Nada
        PROVE  peticion'[g] \in Peticion /\ Coherente(peticion[g])'
    <2>1. peticion'[g] = Envejece(peticion[g], W) /\ peticion[g] # Nada
      BY <1>2 DEF Envejece
    <2>2. PICK p \in Peticion : p = peticion[g] /\ Coherente(p)
      BY <1>1, <2>1 DEF TypeOK, Firme
    <2>3. PICK q \in Peticion : q = Envejece(p, W)
      BY EnvejeceCampos
    <2>4. Coherente(p)'
      BY <1>1, <2>2, CoherenteQuieta
    <2>5. Coherente(q)'
      BY <2>3, <2>4, EnvejeceCampos DEF Coherente
    <2>6. peticion'[g] = q
      BY <2>1, <2>2, <2>3
    <2>7. QED BY <2>5, <2>6 DEF Coherente
  <1>3. peticion' \in [Hilos -> Peticion \cup {Nada}]
    BY <1>2
  <1>4. TypeOK'
    BY <1>3 DEF TypeOK, FirmeFilas
  <1>5. Firme'
    BY <1>2, <1>4 DEF Firme, FirmeFilas
  <1>6. ASSUME EnSerie, ~obsoleta', NEW g \in Hilos, peticion'[g] # Nada,
               ~peticion'[g].vieja
        PROVE  AlDia(peticion[g])'
    <2>1. peticion'[g] = Envejece(peticion[g], W) /\ peticion[g] # Nada
      BY <1>6 DEF Envejece
    <2>2. PICK p \in Peticion : p = peticion[g] /\ Coherente(p)
      BY <1>1, <2>1 DEF TypeOK, Firme
    <2>3. PICK q \in Peticion : q = Envejece(p, W)
      BY EnvejeceCampos
    <2>4. ~q.vieja /\ p # Nada
      BY <1>6, <2>1, <2>2, <2>3
    <2>5. ~p.vieja /\ Lee(p) \cap W = {}
      BY <2>3, <2>4, EnvejeceCampos
    <2>6. AlDia(p)
      BY <1>6, <2>1, <2>2, <2>5 DEF EnSerie
    <2>7. AlDia(p)'
      BY <1>1, <2>2, <2>5, <2>6, AlDiaQuieta
    <2>8. AlDia(q)'
      BY <2>3, <2>7, EnvejeceCampos DEF AlDia
    <2>9. peticion'[g] = q
      BY <2>1, <2>2, <2>3
    <2>10. QED BY <2>8, <2>9 DEF AlDia
  <1>7. QED
    BY <1>5, <1>6 DEF Conserva, EnSerie, DerivadaUnaVezEnSerie, UnaAceptadaEnSerie

\* The commit of h: what is left concerns the rows.
LEMMA TerminaConserva ==
    ASSUME Firme, NEW h \in Hilos, NEW W, peticion[h] # Nada, Termina(h, W),
           FirmeFilas', Crecen, SoloCambia(W),
           EnSerie /\ ~obsoleta /\ AlDia(peticion[h]) =>
                Enlaza(adendas)' /\ UnaAceptadaEnSerie'
    PROVE  Conserva
  <1>1. /\ peticion' = [g \in Hilos |-> peticion'[g]]
        /\ \A g \in Hilos : peticion'[g] \in {Nada, Envejece(peticion[g], W)}
    BY DEF Termina
  <1>2. TypeOK
    BY PartesDeFirme
  <1>3. peticion[h].vieja \in BOOLEAN
    BY <1>2, PeticionEn, PeticionCampos
  <1>4. obsoleta' \in BOOLEAN /\ (obsoleta => obsoleta')
    BY <1>2, <1>3 DEF Termina, TypeOK
  <1>5. EnSerie /\ ~obsoleta' => ~obsoleta /\ AlDia(peticion[h])
    BY DEF Termina, EnSerie
  <1>6. QED BY <1>1, <1>4, <1>5, OtrasConserva

\* A step of h that writes no row but the count of adendas: what is left is
\* what its request knows.
LEMMA SlotConserva ==
    ASSUME Firme, NEW h \in Hilos, NEW p \in Peticion \cup {Nada},
           peticion' = [peticion EXCEPT ![h] = p],
           UNCHANGED <<finalizada, adendas, maranas, ofertas, obsoleta>>,
           creadas' \in Nat, creadas <= creadas',
           p # Nada => Coherente(p)',
           EnSerie /\ ~obsoleta /\ p # Nada /\ ~p.vieja => AlDia(p)
    PROVE  Conserva
  <1>1. TypeOK /\ FirmeFilas
    BY PartesDeFirme
  <1>2. FirmeFilas'
    <2>1. \A i \in DOMAIN adendas : adendas[i].origen \in Nat
      BY <1>1, AdendaCampos DEF FirmeFilas
    <2>2. \A i \in DOMAIN adendas : adendas[i].origen <= creadas'
      BY <1>1, <2>1 DEF FirmeFilas
    <2>3. ListaVeraz' /\ PagadaConEntrega'
      BY <1>1 DEF FirmeFilas, ListaVeraz, Veraz, PagadaConEntrega
    <2>4. QED BY <1>1, <2>2, <2>3 DEF FirmeFilas
  <1>3. Crecen
    BY <1>1 DEF Crecen, FirmeFilas
  <1>4. peticion' \in [Hilos -> Peticion \cup {Nada}]
    BY <1>1 DEF TypeOK
  <1>5. ASSUME NEW g \in Hilos, peticion'[g] # Nada
        PROVE  Coherente(peticion[g])'
    <2>1. CASE g = h
      <3>1. peticion'[g] = p
        BY <1>1, <2>1 DEF TypeOK
      <3>2. QED BY <1>5, <3>1 DEF Coherente
    <2>2. CASE g # h
      <3>1. peticion'[g] = peticion[g]
        BY <1>1, <2>2 DEF TypeOK
      <3>2. PICK q \in Peticion : q = peticion[g] /\ Coherente(q)
        BY <1>1, <1>5, <3>1 DEF TypeOK, Firme
      <3>3. Coherente(q)'
        BY <1>1, <1>2, <1>3, <3>2, CoherenteQuieta
      <3>4. QED BY <3>1, <3>2, <3>3 DEF Coherente
    <2>3. QED BY <2>1, <2>2
  <1>6. Firme'
    BY <1>1, <1>2, <1>4, <1>5 DEF Firme, FirmeFilas, TypeOK
  <1>7. ASSUME EnSerie, ~obsoleta, NEW g \in Hilos, peticion'[g] # Nada,
               ~peticion'[g].vieja
        PROVE  AlDia(peticion[g])'
    <2>1. PICK q : q = peticion'[g]
      OBVIOUS
    <2>2. AlDia(q)
      <3>1. CASE g = h
        BY <1>1, <1>7, <2>1, <3>1 DEF TypeOK
      <3>2. CASE g # h
        BY <1>1, <1>7, <2>1, <3>2 DEF TypeOK, EnSerie
      <3>3. QED BY <3>1, <3>2
    <2>3. AlDia(q)'
      BY <2>2 DEF AlDia, Enlaza, OfertasDe
    <2>4. QED BY <2>1, <2>3 DEF AlDia
  <1>8. EnSerie => EnSerie'
    <2>1. ASSUME EnSerie
          PROVE  DerivadaUnaVezEnSerie' /\ UnaAceptadaEnSerie'
      BY <2>1 DEF EnSerie, DerivadaUnaVezEnSerie, UnaAceptadaEnSerie, Enlaza, OfertasDe
    <2>2. QED BY <1>7, <2>1 DEF EnSerie
  <1>9. QED BY <1>6, <1>8 DEF Conserva

\* A request that arrives.
LEMMA PideConserva ==
    ASSUME Firme, NEW h \in Hilos, NEW p \in Peticion, Pide(h, p),
           creadas' \in Nat, creadas <= creadas', Coherente(p)',
           EnSerie /\ ~obsoleta => AlDia(p)
    PROVE  Conserva
  BY SlotConserva DEF Pide

\* Before its operation fills in more, a request is one.
LEMMA LlegadaTipos ==
    ASSUME NEW op \in Operacion, NEW u \in Usuarios
    PROVE  /\ Llegada(op, u) \in Peticion
           /\ Llegada(op, u).op = op /\ Llegada(op, u).quien = u
  BY EmptySeq DEF Llegada, Peticion, Usuarios, EstadoMaranaOferta
-----------------------------------------------------------------------------
(* Lists of adendas *)

\* What deleting an element leaves.
LEMMA SinElementoDeja ==
    ASSUME NEW s \in Seq(Adenda), NEW i \in DOMAIN s
    PROVE  /\ SinElemento(s, i) \in Seq(Adenda)
           /\ DOMAIN SinElemento(s, i) = 1..(Len(s) - 1)
           /\ \A j \in 1..(Len(s) - 1) :
                SinElemento(s, i)[j] = IF j < i THEN s[j] ELSE s[j + 1]
  <1>1. Len(s) \in Nat /\ DOMAIN s = 1..Len(s) /\ i \in 1..Len(s)
    BY LenProperties
  <1>2. \A j \in 1..Len(s) : s[j] \in Adenda
    BY ElementOfSeq
  <1> DEFINE a == SubSeq(s, 1, i - 1)
             b == SubSeq(s, i + 1, Len(s))
  <1>3. a \in Seq(Adenda) /\ Len(a) = i - 1 /\ \A j \in 1..(i - 1) : a[j] = s[j]
    <2>1. \A j \in 1..(i - 1) : s[j] \in Adenda
      BY <1>1, <1>2
    <2>2. i - 1 \in Int /\ 1 \in Int
      BY <1>1
    <2>3. /\ a \in Seq(Adenda)
          /\ Len(a) = IF 1 <= i - 1 THEN (i - 1) - 1 + 1 ELSE 0
          /\ \A j \in 1..((i - 1) - 1 + 1) : a[j] = s[1 + j - 1]
      BY <2>1, <2>2, SubSeqProperties
    <2>4. QED BY <1>1, <2>3
  <1>4. b \in Seq(Adenda) /\ Len(b) = Len(s) - i
        /\ \A j \in 1..(Len(s) - i) : b[j] = s[i + j]
    <2>1. \A j \in (i + 1)..Len(s) : s[j] \in Adenda
      BY <1>1, <1>2
    <2>2. i + 1 \in Int /\ Len(s) \in Int
      BY <1>1
    <2>3. /\ b \in Seq(Adenda)
          /\ Len(b) = IF i + 1 <= Len(s) THEN Len(s) - (i + 1) + 1 ELSE 0
          /\ \A j \in 1..(Len(s) - (i + 1) + 1) : b[j] = s[(i + 1) + j - 1]
      BY <2>1, <2>2, SubSeqProperties
    <2>4. QED BY <1>1, <2>3
  <1> HIDE DEF a, b
  <1>5. /\ a \o b \in Seq(Adenda)
        /\ Len(a \o b) = Len(a) + Len(b)
        /\ \A j \in 1..(Len(a) + Len(b)) :
                (a \o b)[j] = IF j <= Len(a) THEN a[j] ELSE b[j - Len(a)]
    BY <1>3, <1>4, ConcatProperties
  <1>6. SinElemento(s, i) = a \o b
    BY DEF SinElemento, a, b
  <1>7. DOMAIN (a \o b) = 1..(Len(s) - 1)
    <2>1. Len(a) + Len(b) = Len(s) - 1
      BY <1>1, <1>3, <1>4
    <2>2. DOMAIN (a \o b) = 1..Len(a \o b)
      BY <1>5, LenProperties
    <2>3. QED BY <1>5, <2>1, <2>2
  <1>8. ASSUME NEW j \in 1..(Len(s) - 1)
        PROVE  (a \o b)[j] = IF j < i THEN s[j] ELSE s[j + 1]
    <2>1. (a \o b)[j] = IF j <= i - 1 THEN a[j] ELSE b[j - (i - 1)]
      BY <1>1, <1>3, <1>4, <1>5
    <2>2. CASE j < i
      BY <1>1, <1>3, <2>1, <2>2
    <2>3. CASE ~(j < i)
      <3>1. j - (i - 1) \in 1..(Len(s) - i) /\ i + (j - (i - 1)) = j + 1
        BY <1>1, <2>3
      <3>2. b[j - (i - 1)] = s[j + 1]
        BY <1>4, <3>1
      <3>3. QED BY <1>1, <2>1, <2>3, <3>2
    <2>4. QED BY <2>2, <2>3
  <1>9. QED BY <1>5, <1>6, <1>7, <1>8

\* A request about the list arrives.
LEMMA PideListaConserva ==
    ASSUME Firme, NEW h \in Hilos, NEW p \in Peticion, Pide(h, p),
           creadas' \in Nat, creadas <= creadas',
           p.op \in {"lista", "lanzar"}, Veraz(p.lista),
           \A i \in DOMAIN p.lista : p.lista[i].origen <= creadas',
           p.op = "lanzar" => p.i \in DOMAIN p.lista /\ p.lista[p.i].marana = Nada,
           EnSerie /\ ~obsoleta => Enlaza(p.lista)
    PROVE  Conserva
  <1>1. maranas' = maranas
    BY DEF Pide
  <1>2. Veraz(p.lista)'
    BY <1>1 DEF Veraz
  <1>3. Coherente(p)'
    BY <1>2 DEF Coherente
  <1>4. EnSerie /\ ~obsoleta => AlDia(p)
    BY DEF AlDia
  <1>5. QED BY <1>3, <1>4, PideConserva

\* Until a race, the list a request loads holds every derivation.
LEMMA ListaEnlaza == EnSerie /\ ~obsoleta => Enlaza(adendas)
  BY DEF EnSerie, DerivadaUnaVezEnSerie

LEMMA AgregarAdendaConserva ==
    ASSUME Firme, NEW h \in Hilos, NEW u \in Usuarios, AgregarAdenda(h, u)
    PROVE  Conserva
  <1> DEFINE nueva == [origen |-> creadas + 1, marana |-> Nada]
             lista == Append(adendas, nueva)
  <1>1. FirmeFilas /\ creadas \in Nat /\ adendas \in Seq(Adenda) /\ nueva \in Adenda
    BY PartesDeFirme DEF FirmeFilas, Adenda
  <1>2. /\ lista \in Seq(Adenda)
        /\ Len(lista) = Len(adendas) + 1
        /\ \A i \in 1..Len(adendas) : lista[i] = adendas[i]
        /\ lista[Len(adendas) + 1] = nueva
    BY <1>1, AppendProperties
  <1>3. DOMAIN lista = 1..(Len(adendas) + 1) /\ DOMAIN adendas = 1..Len(adendas)
        /\ Len(adendas) \in Nat
    BY <1>1, <1>2, LenProperties
  <1>4. Llegada("lista", u) \in Peticion /\ Llegada("lista", u).op = "lista"
    BY LlegadaTipos DEF Operacion
  <1>5. PICK p \in Peticion : Pide(h, p) /\ p.op = "lista" /\ p.lista = lista
    <2>1. [Llegada("lista", u) EXCEPT !.lista = lista] \in Peticion
      BY <1>2, <1>4 DEF Peticion
    <2>2. QED BY <1>4, <2>1 DEF AgregarAdenda, Peticion
  <1>6. creadas' = creadas + 1
    BY DEF AgregarAdenda
  <1>7. \A i \in DOMAIN adendas : adendas[i].origen \in Nat /\ adendas[i].origen <= creadas
    BY <1>1, AdendaCampos DEF FirmeFilas
  <1>8. \A i \in DOMAIN lista :
            \/ i \in DOMAIN adendas /\ lista[i] = adendas[i]
            \/ i = Len(adendas) + 1 /\ lista[i] = nueva
    BY <1>2, <1>3
  <1> HIDE DEF lista
  <1>9. \A i \in DOMAIN lista : lista[i].origen <= creadas'
    BY <1>1, <1>6, <1>7, <1>8
  <1>10. Veraz(lista)
    <2>1. \A i, j \in DOMAIN lista : lista[i].origen = lista[j].origen => i = j
      BY <1>1, <1>7, <1>8 DEF FirmeFilas, ListaVeraz, Veraz
    <2>2. QED
      BY <1>1, <1>8, <2>1 DEF FirmeFilas, ListaVeraz, Veraz
  <1>11. creadas' \in Nat /\ creadas <= creadas'
    BY <1>1, <1>6
  <1>12. EnSerie /\ ~obsoleta => Enlaza(lista)
    <2>1. \A i \in DOMAIN adendas : i \in DOMAIN lista /\ lista[i] = adendas[i]
      BY <1>2, <1>3 DEF lista
    <2>2. QED BY <2>1, ListaEnlaza DEF Enlaza
  <1>13. QED BY <1>5, <1>9, <1>10, <1>11, <1>12, PideListaConserva

LEMMA EditarAdendaConserva ==
    ASSUME Firme, NEW h \in Hilos, NEW u \in Usuarios, NEW i, EditarAdenda(h, u, i)
    PROVE  Conserva
  <1>1. FirmeFilas /\ creadas \in Nat /\ adendas \in Seq(Adenda)
    BY PartesDeFirme DEF FirmeFilas
  <1>2. Llegada("lista", u) \in Peticion /\ Llegada("lista", u).op = "lista"
    BY LlegadaTipos DEF Operacion
  <1>3. PICK p \in Peticion : Pide(h, p) /\ p.op = "lista" /\ p.lista = adendas
    <2>1. [Llegada("lista", u) EXCEPT !.lista = adendas] \in Peticion
      BY <1>1, <1>2 DEF Peticion
    <2>2. QED BY <1>2, <2>1 DEF EditarAdenda, Peticion
  <1>4. Veraz(adendas) /\ \A j \in DOMAIN adendas : adendas[j].origen <= creadas
    BY <1>1 DEF FirmeFilas, ListaVeraz
  <1>5. creadas' = creadas
    BY DEF EditarAdenda
  <1>6. QED BY <1>1, <1>3, <1>4, <1>5, ListaEnlaza, PideListaConserva

LEMMA EliminarAdendaConserva ==
    ASSUME Firme, NEW h \in Hilos, NEW u \in Usuarios, NEW i \in DOMAIN adendas,
           EliminarAdenda(h, u, i)
    PROVE  Conserva
  <1> DEFINE lista == SinElemento(adendas, i)
  <1>1. FirmeFilas /\ creadas \in Nat /\ adendas \in Seq(Adenda)
    BY PartesDeFirme DEF FirmeFilas
  <1>2. DOMAIN adendas = 1..Len(adendas) /\ Len(adendas) \in Nat
    BY <1>1, LenProperties
  <1>3. /\ lista \in Seq(Adenda)
        /\ DOMAIN lista = 1..(Len(adendas) - 1)
        /\ \A j \in DOMAIN lista :
                lista[j] = IF j < i THEN adendas[j] ELSE adendas[j + 1]
    BY <1>1, SinElementoDeja
  <1> HIDE DEF lista
  <1>4. Llegada("lista", u) \in Peticion /\ Llegada("lista", u).op = "lista"
    BY LlegadaTipos DEF Operacion
  <1>5. PICK p \in Peticion : Pide(h, p) /\ p.op = "lista" /\ p.lista = lista
    <2>1. [Llegada("lista", u) EXCEPT !.lista = lista] \in Peticion
      BY <1>3, <1>4 DEF Peticion
    <2>2. QED BY <1>4, <2>1 DEF EliminarAdenda, Peticion, lista
  <1>6. \A j \in DOMAIN lista :
            LET k == IF j < i THEN j ELSE j + 1
            IN  k \in DOMAIN adendas /\ lista[j] = adendas[k]
    BY <1>2, <1>3
  <1>7. Veraz(adendas) /\ \A j \in DOMAIN adendas : adendas[j].origen <= creadas
    BY <1>1 DEF FirmeFilas, ListaVeraz
  <1>8. Veraz(lista)
    <2>1. ASSUME NEW j \in DOMAIN lista, NEW k \in DOMAIN lista,
                 lista[j].origen = lista[k].origen
          PROVE  j = k
      BY <1>2, <1>3, <1>6, <1>7, <2>1 DEF Veraz
    <2>2. QED BY <1>6, <1>7, <2>1 DEF Veraz
  <1>9. creadas' = creadas /\ adendas[i].marana = Nada
    BY DEF EliminarAdenda
  <1>10. EnSerie /\ ~obsoleta => Enlaza(lista)
    <2>1. ASSUME NEW j \in DOMAIN adendas, j # i
          PROVE  \E k \in DOMAIN lista : lista[k] = adendas[j]
      <3>1. CASE j < i
        BY <1>2, <1>3, <3>1
      <3>2. CASE j > i
        <4>1. j - 1 \in DOMAIN lista /\ ~(j - 1 < i) /\ (j - 1) + 1 = j
          BY <1>2, <1>3, <3>2
        <4>2. lista[j - 1] = adendas[j]
          BY <1>3, <4>1
        <4>3. QED BY <4>1, <4>2
      <3>3. QED BY <1>2, <2>1, <3>1, <3>2
    <2>2. \A m \in DOMAIN maranas : m # Nada
      BY <1>1, FilaCampos, NadaNoEsNumero
    <2>3. QED BY <1>9, <2>1, <2>2, ListaEnlaza DEF Enlaza
  <1>11. QED BY <1>1, <1>5, <1>6, <1>7, <1>8, <1>9, <1>10, PideListaConserva

LEMMA LanzarMaranaConserva ==
    ASSUME Firme, NEW h \in Hilos, NEW u \in Usuarios, NEW i \in DOMAIN adendas,
           LanzarMarana(h, u, i)
    PROVE  Conserva
  <1>1. FirmeFilas /\ creadas \in Nat /\ adendas \in Seq(Adenda) /\ i \in Nat
    BY PartesDeFirme, LenProperties DEF FirmeFilas
  <1>2. Llegada("lanzar", u) \in Peticion /\ Llegada("lanzar", u).op = "lanzar"
    BY LlegadaTipos DEF Operacion
  <1>3. PICK p \in Peticion : /\ Pide(h, p) /\ p.op = "lanzar"
                              /\ p.lista = adendas /\ p.i = i
    <2>1. [Llegada("lanzar", u) EXCEPT !.lista = adendas, !.i = i] \in Peticion
      BY <1>1, <1>2 DEF Peticion
    <2>2. QED BY <1>2, <2>1 DEF LanzarMarana, Peticion
  <1>4. Veraz(adendas) /\ \A j \in DOMAIN adendas : adendas[j].origen <= creadas
    BY <1>1 DEF FirmeFilas, ListaVeraz
  <1>5. creadas' = creadas /\ adendas[i].marana = Nada
    BY DEF LanzarMarana
  <1>6. QED BY <1>1, <1>3, <1>4, <1>5, ListaEnlaza, PideListaConserva
-----------------------------------------------------------------------------
(* Requests about a marana or an offer *)

LEMMA PostularConserva ==
    ASSUME Firme, NEW h \in Hilos, NEW u \in Usuarios, NEW m \in DOMAIN maranas,
           Postular(h, u, m)
    PROVE  Conserva
  <1>1. FirmeFilas /\ creadas \in Nat /\ m \in Nat /\ u \in Pds
    BY PartesDeFirme, FilaCampos DEF FirmeFilas, Postular
  <1>2. /\ Llegada("postular", u) \in Peticion
        /\ Llegada("postular", u).op = "postular" /\ Llegada("postular", u).quien = u
    BY LlegadaTipos DEF Operacion
  <1>3. PICK p \in Peticion : /\ Pide(h, p) /\ p.op = "postular"
                              /\ p.quien = u /\ p.m = m
    <2>1. [Llegada("postular", u) EXCEPT !.m = m] \in Peticion
      BY <1>1, <1>2 DEF Peticion
    <2>2. QED BY <1>2, <2>1 DEF Postular, Peticion
  <1>4. creadas' = creadas /\ maranas' = maranas
    BY DEF Postular, Pide
  <1>5. Coherente(p)'
    BY <1>1, <1>3, <1>4 DEF Coherente
  <1>6. AlDia(p)
    BY <1>3 DEF AlDia, Postular
  <1>7. QED BY <1>1, <1>3, <1>4, <1>5, <1>6, PideConserva

\* The three answers to an offer.
LEMMA ResponderConserva ==
    ASSUME Firme, NEW h \in Hilos, NEW u \in Usuarios, NEW o \in DOMAIN ofertas,
           NEW op \in {"contraofertar", "rechazar", "aceptar"}, Responder(h, op, u, o)
    PROVE  Conserva
  <1> DEFINE m == ofertas[o].marana
             c == ofertas[o].estado
  <1>1. FirmeFilas /\ creadas \in Nat
    BY PartesDeFirme DEF FirmeFilas
  <1>2. o \in Nat /\ m \in Nat /\ m \in DOMAIN maranas /\ c \in EstadoMaranaOferta
    BY <1>1, FilaCampos
  <1>3. Llegada(op, u) \in Peticion /\ Llegada(op, u).op = op
    BY LlegadaTipos DEF Operacion
  <1>4. PICK p \in Peticion : /\ Pide(h, p) /\ p.op = op /\ p.m = m /\ p.o = o
                              /\ p.tomada = FALSE /\ p.otras = {}
    <2>1. [Llegada(op, u) EXCEPT !.m = m, !.o = o, !.cargada = c] \in Peticion
      BY <1>2, <1>3 DEF Peticion
    <2>2. Llegada(op, u).tomada = FALSE /\ Llegada(op, u).otras = {}
      BY DEF Llegada
    <2>3. QED BY <1>3, <2>1, <2>2 DEF Responder, Peticion
  <1>5. creadas' = creadas /\ maranas' = maranas /\ ofertas' = ofertas
    BY DEF Responder, Pide
  <1>6. Coherente(p)'
    BY <1>2, <1>4, <1>5 DEF Coherente
  <1>7. AlDia(p)
    BY <1>4 DEF AlDia, Responder
  <1>8. QED BY <1>1, <1>4, <1>5, <1>6, <1>7, PideConserva

LEMMA CompletarConserva ==
    ASSUME Firme, NEW h \in Hilos, NEW u \in Usuarios, NEW m \in DOMAIN maranas,
           Completar(h, u, m)
    PROVE  Conserva
  <1>1. FirmeFilas /\ creadas \in Nat /\ m \in Nat
    BY PartesDeFirme, FilaCampos DEF FirmeFilas
  <1>2. Llegada("completar", u) \in Peticion /\ Llegada("completar", u).op = "completar"
    BY LlegadaTipos DEF Operacion
  <1>3. PICK p \in Peticion : Pide(h, p) /\ p.op = "completar" /\ p.m = m
    <2>1. [Llegada("completar", u) EXCEPT !.m = m] \in Peticion
      BY <1>1, <1>2 DEF Peticion
    <2>2. QED BY <1>2, <2>1 DEF Completar, Peticion
  <1>4. creadas' = creadas /\ maranas' = maranas
    BY DEF Completar, Pide
  <1>5. maranas[m].pds # Nada
    BY NadaNoEsUsuario DEF Completar, Usuarios
  <1>6. Coherente(p)'
    BY <1>3, <1>4, <1>5 DEF Coherente
  <1>7. AlDia(p)
    BY <1>3 DEF AlDia, Completar
  <1>8. QED BY <1>1, <1>3, <1>4, <1>6, <1>7, PideConserva

LEMMA CancelarConserva ==
    ASSUME Firme, NEW h \in Hilos, NEW u \in Usuarios, NEW m \in DOMAIN maranas,
           Cancelar(h, u, m)
    PROVE  Conserva
  <1>1. FirmeFilas /\ creadas \in Nat /\ m \in Nat
    BY PartesDeFirme, FilaCampos DEF FirmeFilas
  <1>2. Llegada("cancelar", u) \in Peticion /\ Llegada("cancelar", u).op = "cancelar"
    BY LlegadaTipos DEF Operacion
  <1>3. PICK p \in Peticion : Pide(h, p) /\ p.op = "cancelar" /\ p.m = m
    <2>1. [Llegada("cancelar", u) EXCEPT !.m = m] \in Peticion
      BY <1>1, <1>2 DEF Peticion
    <2>2. QED BY <1>2, <2>1 DEF Cancelar, Peticion
  <1>4. creadas' = creadas /\ maranas' = maranas
    BY DEF Cancelar, Pide
  <1>5. Coherente(p)'
    BY <1>3, <1>4 DEF Coherente
  <1>6. AlDia(p)
    <2>1. maranas[m].estado \in EstadoMarana
      BY <1>1, FilaCampos
    <2>2. maranas[m].estado \in {"publicado", "asignado", "completado"}
      BY <2>1 DEF Cancelar, EstadoMarana
    <2>3. QED BY <1>3, <2>2 DEF AlDia
  <1>7. QED BY <1>1, <1>3, <1>4, <1>5, <1>6, PideConserva

LEMMA PagarConserva ==
    ASSUME Firme, NEW h \in Hilos, NEW u \in Usuarios, NEW m \in DOMAIN maranas,
           Pagar(h, u, m)
    PROVE  Conserva
  <1> DEFINE row == maranas[m]
             cierra == /\ row.pago_solicitante \/ u = Solicitante
                       /\ row.pago_prestador \/ u = row.pds
  <1>1. FirmeFilas /\ creadas \in Nat
    BY PartesDeFirme DEF FirmeFilas
  <1>2. m \in Nat /\ row.pds \in Pds \cup {Nada}
    BY <1>1, FilaCampos
  <1>3. /\ Llegada("pagar", u) \in Peticion
        /\ Llegada("pagar", u).op = "pagar" /\ Llegada("pagar", u).quien = u
    BY LlegadaTipos DEF Operacion
  <1>4. cierra \in BOOLEAN
    OBVIOUS
  <1>5. Pide(h, [Llegada("pagar", u) EXCEPT !.m = m, !.cierra = cierra])
    BY DEF Pagar
  <1>6. cierra => row.pago_solicitante \/ u = Solicitante
    OBVIOUS
  <1>7. cierra => row.pago_prestador \/ u # Solicitante
    BY <1>2, SolicitanteNoPostula, NadaNoEsUsuario
  <1> HIDE DEF cierra
  <1>8. PICK p \in Peticion : /\ Pide(h, p) /\ p.op = "pagar" /\ p.m = m
                              /\ p.quien = u /\ p.cierra = cierra
    <2>1. [Llegada("pagar", u) EXCEPT !.m = m, !.cierra = cierra] \in Peticion
      BY <1>2, <1>3, <1>4 DEF Peticion
    <2>2. QED BY <1>3, <1>5, <2>1 DEF Peticion
  <1>9. creadas' = creadas /\ maranas' = maranas
    BY <1>8 DEF Pagar, Pide
  <1>10. row.entrega
    BY <1>1 DEF Pagar, FirmeFilas
  <1>11. Coherente(p)'
    BY <1>6, <1>7, <1>8, <1>9, <1>10 DEF Coherente
  <1>12. AlDia(p)
    <2>1. cierra <=> /\ row.pago_solicitante \/ u = Solicitante
                     /\ row.pago_prestador \/ u # Solicitante
      BY <1>2, SolicitanteNoPostula, NadaNoEsUsuario DEF cierra, Pagar
    <2>2. row.estado = "completado"
      BY DEF Pagar
    <2>3. QED BY <1>8, <2>1, <2>2 DEF AlDia
  <1>13. QED BY <1>1, <1>8, <1>9, <1>11, <1>12, PideConserva
-----------------------------------------------------------------------------
(* Commits, and what a step leaves of the rows *)

\* What the request of a slot knows, and what it is.
LEMMA LaPeticion ==
    ASSUME Firme, NEW h \in Hilos, peticion[h] # Nada
    PROVE  /\ FirmeFilas
           /\ peticion[h] \in Peticion
           /\ Coherente(peticion[h])
  BY PartesDeFirme DEF Firme, TypeOK

\* A marana whose assignment and offers stay keeps its accepted offer.
LEMMA UnaQuieta ==
    ASSUME Crecen, NEW m \in DOMAIN maranas, UnaEn(m),
           maranas'[m].pds = maranas[m].pds,
           \A o \in DOMAIN ofertas' : ofertas'[o].marana = m =>
                o \in DOMAIN ofertas /\ ofertas'[o] = ofertas[o]
    PROVE  UnaEn(m)'
  <1>1. OfertasDe(m)' = OfertasDe(m) /\ \A o \in OfertasDe(m) : ofertas'[o] = ofertas[o]
    BY DEF OfertasDe, Crecen
  <1> DEFINE aceptadas == {o \in OfertasDe(m) : ofertas[o].estado = "aceptada"}
             activas == {o \in OfertasDe(m) : ofertas[o].estado \in Activas}
  <1>2. aceptadas' = aceptadas /\ activas' = activas
    BY <1>1
  <1>3. \A o \in aceptadas : ofertas'[o] = ofertas[o]
    BY <1>1
  <1>4. IF maranas[m].pds = Nada THEN aceptadas = {}
        ELSE /\ activas = {}
             /\ \E o \in aceptadas : aceptadas = {o} /\ ofertas[o].pds = maranas[m].pds
    BY DEF UnaEn
  <1> HIDE DEF aceptadas, activas
  <1>5. IF maranas'[m].pds = Nada THEN aceptadas' = {}
        ELSE /\ activas' = {}
             /\ \E o \in aceptadas' : aceptadas' = {o} /\ ofertas'[o].pds = maranas'[m].pds
    BY <1>2, <1>3, <1>4
  <1>6. QED BY <1>5 DEF UnaEn, aceptadas, activas

\* What is left of UnaAceptadaEnSerie after a step that touches only the
\* assignment or the offers of the maranas in tocadas.
LEMMA UnaEnTodas ==
    ASSUME Crecen, EnSerie, ~obsoleta, NEW tocadas,
           \A m \in DOMAIN maranas' \ tocadas :
                /\ m \in DOMAIN maranas /\ maranas'[m].pds = maranas[m].pds
                /\ \A o \in DOMAIN ofertas' : ofertas'[o].marana = m =>
                        o \in DOMAIN ofertas /\ ofertas'[o] = ofertas[o],
           \A m \in DOMAIN maranas' : m \in tocadas => UnaEn(m)'
    PROVE  UnaAceptadaEnSerie'
  <1>1. \A m \in DOMAIN maranas : UnaEn(m)
    BY DEF EnSerie, UnaAceptadaEnSerie, UnaEn
  <1>2. ASSUME NEW m \in DOMAIN maranas'
        PROVE  UnaEn(m)'
    <2>1. CASE m \in tocadas
      BY <2>1
    <2>2. CASE m \notin tocadas
      BY <1>1, <2>2, UnaQuieta
    <2>3. QED BY <2>1, <2>2
  <1>3. QED BY <1>2 DEF UnaAceptadaEnSerie, UnaEn

\* A marana in negotiation has no accepted offer.
LEMMA SinAceptada ==
    ASSUME FirmeFilas, EnSerie, ~obsoleta, NEW m \in DOMAIN maranas,
           maranas[m].estado = "publicado"
    PROVE  /\ maranas[m].pds = Nada
           /\ \A o \in OfertasDe(m) : ofertas[o].estado # "aceptada"
  <1>1. maranas[m].pds = Nada
    BY DEF FirmeFilas
  <1>2. QED BY <1>1 DEF EnSerie, UnaAceptadaEnSerie

LEMMA FinalizarConserva ==
    ASSUME Firme, Finalizar
    PROVE  Conserva
  <1>1. TypeOK /\ FirmeFilas
    BY PartesDeFirme
  <1>2. FirmeFilas' /\ Crecen
    BY <1>1 DEF Finalizar, FirmeFilas, ListaVeraz, Veraz, PagadaConEntrega, Crecen
  <1>3. /\ peticion' = [g \in Hilos |-> peticion'[g]]
        /\ \A g \in Hilos : peticion'[g] \in {Nada, Envejece(peticion[g], {<<"chamba">>})}
    BY DEF Finalizar
  <1>4. obsoleta' \in BOOLEAN
    BY <1>1 DEF Finalizar, TypeOK
  <1>5. SoloCambia({<<"chamba">>})
    BY DEF Finalizar, SoloCambia
  <1>6. UNCHANGED <<adendas, maranas, ofertas, obsoleta>>
    BY DEF Finalizar
  <1>7. EnSerie /\ ~obsoleta' => Enlaza(adendas)' /\ UnaAceptadaEnSerie'
    BY <1>6 DEF EnSerie, DerivadaUnaVezEnSerie, UnaAceptadaEnSerie, Enlaza, OfertasDe
  <1>8. QED BY <1>2, <1>3, <1>4, <1>5, <1>6, <1>7, OtrasConserva

LEMMA CommitListaConserva ==
    ASSUME Firme, NEW h \in Hilos, CommitLista(h)
    PROVE  Conserva
  <1>1. peticion[h] # Nada /\ peticion[h].op = "lista"
    BY DEF CommitLista, Lista
  <1>2. PICK p \in Peticion : p = peticion[h] /\ Coherente(p) /\ FirmeFilas
    BY <1>1, LaPeticion
  <1>3. /\ adendas' = p.lista /\ Termina(h, {<<"chamba">>})
        /\ UNCHANGED <<finalizada, creadas, maranas, ofertas>>
    BY <1>2 DEF CommitLista
  <1>4. p.lista \in Seq(Adenda)
    BY PeticionCampos
  <1>5. Veraz(p.lista) /\ \A i \in DOMAIN p.lista : p.lista[i].origen <= creadas
    BY <1>1, <1>2 DEF Coherente
  <1>6. Crecen
    BY <1>2, <1>3 DEF Crecen, FirmeFilas
  <1>7. ListaVeraz'
    BY <1>3, <1>5 DEF ListaVeraz, Veraz
  <1>8. PagadaConEntrega'
    BY <1>2, <1>3 DEF FirmeFilas, PagadaConEntrega
  <1>9. FirmeFilas'
    BY <1>2, <1>3, <1>4, <1>5, <1>7, <1>8 DEF FirmeFilas
  <1>10. SoloCambia({<<"chamba">>})
    BY <1>3 DEF SoloCambia
  <1>11. AlDia(p) => Enlaza(adendas)'
    BY <1>1, <1>2, <1>3 DEF AlDia, Enlaza
  <1>12. EnSerie /\ ~obsoleta => UnaAceptadaEnSerie'
    BY <1>3 DEF EnSerie, UnaAceptadaEnSerie, OfertasDe
  <1>13. QED BY <1>1, <1>2, <1>3, <1>6, <1>9, <1>10, <1>11, <1>12, TerminaConserva

\* The rows after a marana was appended.
LEMMA NuevaMarana ==
    ASSUME FirmeFilas, NEW r \in MaranaRow, maranas' = Append(maranas, r)
    PROVE  /\ maranas' \in Seq(MaranaRow)
           /\ DOMAIN maranas' = DOMAIN maranas \cup {Len(maranas) + 1}
           /\ Len(maranas) + 1 \notin DOMAIN maranas
           /\ Len(maranas) + 1 \in Nat
           /\ \A m \in DOMAIN maranas : maranas'[m] = maranas[m]
           /\ maranas'[Len(maranas) + 1] = r
  <1>1. maranas \in Seq(MaranaRow)
    BY DEF FirmeFilas
  <1>2. DOMAIN maranas = 1..Len(maranas) /\ Len(maranas) \in Nat
    BY <1>1, LenProperties
  <1>3. /\ maranas' \in Seq(MaranaRow)
        /\ Len(maranas') = Len(maranas) + 1
        /\ \A m \in 1..Len(maranas) : maranas'[m] = maranas[m]
        /\ maranas'[Len(maranas) + 1] = r
    BY <1>1, AppendProperties
  <1>4. DOMAIN maranas' = 1..(Len(maranas) + 1)
    BY <1>3, LenProperties
  <1>5. QED BY <1>2, <1>3, <1>4

LEMMA CommitLanzarConserva ==
    ASSUME Firme, NEW h \in Hilos, CommitLanzar(h)
    PROVE  Conserva
  <1>1. peticion[h] # Nada /\ peticion[h].op = "lanzar"
    BY DEF CommitLanzar, Lista
  <1>2. PICK p \in Peticion : p = peticion[h] /\ Coherente(p) /\ FirmeFilas
    BY <1>1, LaPeticion
  <1> DEFINE i == p.i
             r == Publicada(p.lista[i].origen)
  <1>3. /\ Veraz(p.lista) /\ \A j \in DOMAIN p.lista : p.lista[j].origen <= creadas
        /\ i \in DOMAIN p.lista /\ p.lista[i].marana = Nada
    BY <1>1, <1>2 DEF Coherente
  <1> PICK n : n = Len(maranas) + 1
    OBVIOUS
  <1>4. /\ maranas' = Append(maranas, r)
        /\ adendas' = [p.lista EXCEPT ![i].marana = n]
        /\ Termina(h, {<<"chamba">>}) /\ UNCHANGED <<finalizada, creadas, ofertas>>
    BY <1>2 DEF CommitLanzar
  <1>5. p.lista \in Seq(Adenda)
    BY PeticionCampos
  <1>6. \A j \in DOMAIN p.lista : p.lista[j] \in Adenda /\ p.lista[j].origen \in Nat
    BY <1>5, AdendaCampos
  <1>7. /\ r \in MaranaRow /\ r.origen = p.lista[i].origen /\ r.estado = "publicado"
        /\ r.pds = Nada /\ r.entrega = FALSE /\ r.pago_solicitante = FALSE
        /\ r.pago_prestador = FALSE /\ r.pagada = FALSE
    BY <1>3, <1>6 DEF Publicada, MaranaRow, EstadoMarana
  <1> HIDE DEF r
  <1>8. /\ maranas' \in Seq(MaranaRow)
        /\ DOMAIN maranas' = DOMAIN maranas \cup {n} /\ n \notin DOMAIN maranas
        /\ n \in Nat
        /\ \A m \in DOMAIN maranas : maranas'[m] = maranas[m]
        /\ maranas'[n] = r
    BY <1>2, <1>4, <1>7, NuevaMarana
  <1> DEFINE a == [p.lista[i] EXCEPT !.marana = n]
  <1>9. a \in Adenda /\ a.origen = p.lista[i].origen /\ a.marana = n
    BY <1>3, <1>6, <1>8 DEF Adenda
  <1>10. adendas' = [p.lista EXCEPT ![i] = a]
    BY <1>4
  <1> HIDE DEF a
  <1>11. /\ adendas' \in Seq(Adenda)
         /\ DOMAIN adendas' = DOMAIN p.lista
         /\ \A j \in DOMAIN p.lista : adendas'[j] = IF j = i THEN a ELSE p.lista[j]
    BY <1>3, <1>5, <1>9, <1>10, ExceptSeq, LenProperties
  <1>12. \A j \in DOMAIN adendas' : adendas'[j].origen = p.lista[j].origen
    BY <1>9, <1>11
  <1>13. \A j \in DOMAIN adendas' : adendas'[j].marana # Nada =>
            \/ j # i /\ adendas'[j].marana = p.lista[j].marana
            \/ j = i /\ adendas'[j].marana = n
    BY <1>9, <1>11
  <1>14. ListaVeraz'
    <2>1. \A j, k \in DOMAIN adendas' : adendas'[j].origen = adendas'[k].origen => j = k
      BY <1>3, <1>11, <1>12 DEF Veraz
    <2>2. \A j \in DOMAIN adendas' : adendas'[j].marana # Nada =>
            /\ adendas'[j].marana \in DOMAIN maranas'
            /\ maranas'[adendas'[j].marana].origen = adendas'[j].origen
      BY <1>3, <1>7, <1>8, <1>11, <1>12, <1>13 DEF Veraz
    <2>3. QED BY <2>1, <2>2 DEF ListaVeraz, Veraz
  <1>15. PagadaConEntrega'
    BY <1>2, <1>7, <1>8 DEF PagadaConEntrega, FirmeFilas
  <1>16. Crecen
    BY <1>2, <1>4, <1>8 DEF Crecen, FirmeFilas
  <1>17. \A m \in DOMAIN maranas' :
            /\ maranas'[m].estado = "publicado" => maranas'[m].pds = Nada
            /\ maranas'[m].estado = "completado" => maranas'[m].entrega
    BY <1>2, <1>7, <1>8 DEF FirmeFilas
  <1>18. FirmeFilas'
    BY <1>2, <1>3, <1>4, <1>8, <1>11, <1>12, <1>14, <1>15, <1>17 DEF FirmeFilas
  <1>19. SoloCambia({<<"chamba">>})
    BY <1>4, <1>8 DEF SoloCambia
  <1>20. AlDia(p) => Enlaza(adendas)'
    <2>1. ASSUME AlDia(p), NEW m \in DOMAIN maranas
          PROVE  \E j \in DOMAIN adendas' :
                    adendas'[j].marana = m /\ adendas'[j].origen = maranas'[m].origen
      <3>1. PICK j \in DOMAIN p.lista :
                p.lista[j].marana = m /\ p.lista[j].origen = maranas[m].origen
        BY <1>1, <1>2, <2>1 DEF AlDia, Enlaza
      <3>2. m # Nada
        BY <1>2, FilaCampos, NadaNoEsNumero
      <3>3. j # i
        BY <1>3, <3>1, <3>2
      <3>4. QED BY <1>8, <1>11, <3>1, <3>3
    <2>2. adendas'[i].marana = n /\ adendas'[i].origen = maranas'[n].origen
      BY <1>3, <1>7, <1>8, <1>9, <1>11
    <2>3. QED BY <1>3, <1>8, <1>11, <2>1, <2>2 DEF Enlaza
  <1>21. ASSUME EnSerie, ~obsoleta
         PROVE  UnaAceptadaEnSerie'
    <2>1. \A o \in DOMAIN ofertas' : ofertas'[o].marana # n
      BY <1>2, <1>4, <1>8 DEF FirmeFilas
    <2>2. OfertasDe(n)' = {}
      BY <2>1 DEF OfertasDe
    <2>3. UnaEn(n)'
      BY <1>7, <1>8, <2>2 DEF UnaEn
    <2>4. \A m \in DOMAIN maranas' \ {n} :
            m \in DOMAIN maranas /\ maranas'[m].pds = maranas[m].pds
      BY <1>8
    <2>5. \A m \in DOMAIN maranas' : m \in {n} => UnaEn(m)'
      BY <2>3
    <2>6. QED BY <1>4, <1>16, <1>21, <2>4, <2>5, UnaEnTodas
  <1>22. QED BY <1>1, <1>2, <1>4, <1>16, <1>18, <1>19, <1>20, <1>21, TerminaConserva

\* The rows after an offer was appended.
LEMMA NuevaOferta ==
    ASSUME FirmeFilas, NEW r \in OfertaRow, ofertas' = Append(ofertas, r)
    PROVE  /\ ofertas' \in Seq(OfertaRow)
           /\ DOMAIN ofertas' = DOMAIN ofertas \cup {Len(ofertas) + 1}
           /\ Len(ofertas) + 1 \notin DOMAIN ofertas
           /\ \A o \in DOMAIN ofertas : ofertas'[o] = ofertas[o]
           /\ ofertas'[Len(ofertas) + 1] = r
  <1>1. ofertas \in Seq(OfertaRow)
    BY DEF FirmeFilas
  <1>2. DOMAIN ofertas = 1..Len(ofertas) /\ Len(ofertas) \in Nat
    BY <1>1, LenProperties
  <1>3. /\ ofertas' \in Seq(OfertaRow)
        /\ Len(ofertas') = Len(ofertas) + 1
        /\ \A o \in 1..Len(ofertas) : ofertas'[o] = ofertas[o]
        /\ ofertas'[Len(ofertas) + 1] = r
    BY <1>1, AppendProperties
  <1>4. DOMAIN ofertas' = 1..(Len(ofertas) + 1)
    BY <1>3, LenProperties
  <1>5. QED BY <1>2, <1>3, <1>4

\* What a change of offers that keeps their marana and provider leaves.
LEMMA OfertasFirmes ==
    ASSUME FirmeFilas, ofertas' \in Seq(OfertaRow),
           UNCHANGED <<finalizada, adendas, creadas, maranas>>,
           \A o \in DOMAIN ofertas :
                /\ o \in DOMAIN ofertas'
                /\ ofertas'[o].marana = ofertas[o].marana
                /\ ofertas'[o].pds = ofertas[o].pds,
           \A o \in DOMAIN ofertas' : ofertas'[o].marana \in DOMAIN maranas
    PROVE  FirmeFilas' /\ Crecen
  <1>1. ListaVeraz' /\ PagadaConEntrega'
    BY DEF FirmeFilas, ListaVeraz, Veraz, PagadaConEntrega
  <1>2. QED BY <1>1 DEF FirmeFilas, Crecen

LEMMA CommitPostularConserva ==
    ASSUME Firme, NEW h \in Hilos, CommitPostular(h)
    PROVE  Conserva
  <1>1. peticion[h] # Nada /\ peticion[h].op = "postular"
    BY DEF CommitPostular, Lista
  <1>2. PICK p \in Peticion : p = peticion[h] /\ Coherente(p) /\ FirmeFilas
    BY <1>1, LaPeticion
  <1> DEFINE r == [marana |-> p.m, pds |-> p.quien, estado |-> "pendiente"]
  <1>3. p.m \in DOMAIN maranas /\ p.quien \in Pds /\ p.m \in Nat
    BY <1>1, <1>2, PeticionCampos DEF Coherente
  <1>4. /\ ofertas' = Append(ofertas, r)
        /\ Termina(h, Toca(Len(ofertas) + 1))
        /\ UNCHANGED <<finalizada, adendas, creadas, maranas>>
    BY <1>2 DEF CommitPostular
  <1>5. r \in OfertaRow
    BY <1>3 DEF OfertaRow, EstadoMaranaOferta
  <1>6. /\ ofertas' \in Seq(OfertaRow)
        /\ DOMAIN ofertas' = DOMAIN ofertas \cup {Len(ofertas) + 1}
        /\ \A o \in DOMAIN ofertas : ofertas'[o] = ofertas[o]
        /\ ofertas'[Len(ofertas) + 1] = r
    BY <1>2, <1>4, <1>5, NuevaOferta
  <1>7. FirmeFilas' /\ Crecen
    <2>1. \A o \in DOMAIN ofertas' : ofertas'[o].marana \in DOMAIN maranas
      BY <1>2, <1>3, <1>6 DEF FirmeFilas
    <2>2. QED BY <1>2, <1>4, <1>6, <2>1, OfertasFirmes
  <1>8. SoloCambia(Toca(Len(ofertas) + 1))
    BY <1>4, <1>6 DEF SoloCambia, Toca
  <1>9. EnSerie /\ ~obsoleta => Enlaza(adendas)'
    BY <1>4, ListaEnlaza DEF Enlaza
  <1>10. ASSUME EnSerie, ~obsoleta, AlDia(p)
         PROVE  UnaAceptadaEnSerie'
    <2>1. maranas[p.m].estado = "publicado"
      BY <1>1, <1>2, <1>10 DEF AlDia
    <2>2. maranas[p.m].pds = Nada /\ \A o \in OfertasDe(p.m) : ofertas[o].estado # "aceptada"
      BY <1>2, <1>3, <1>10, <2>1, SinAceptada
    <2>3. \A o \in OfertasDe(p.m)' : ofertas'[o].estado # "aceptada"
      BY <1>6, <2>2 DEF OfertasDe
    <2>4. UnaEn(p.m)'
      BY <1>4, <2>2, <2>3 DEF UnaEn
    <2>5. \A m \in DOMAIN maranas' \ {p.m} :
            \A o \in DOMAIN ofertas' : ofertas'[o].marana = m =>
                o \in DOMAIN ofertas /\ ofertas'[o] = ofertas[o]
      BY <1>6
    <2>6. \A m \in DOMAIN maranas' : m \in {p.m} => UnaEn(m)'
      BY <2>4
    <2>7. QED BY <1>4, <1>7, <1>10, <2>5, <2>6, UnaEnTodas
  <1>11. QED BY <1>1, <1>2, <1>4, <1>7, <1>8, <1>9, <1>10, TerminaConserva

LEMMA CommitRespuestaConserva ==
    ASSUME Firme, NEW h \in Hilos, NEW op \in {"contraofertar", "rechazar"},
           NEW estado \in EstadoMaranaOferta \ {"aceptada"},
           CommitRespuesta(h, op, estado)
    PROVE  Conserva
  <1>1. peticion[h] # Nada /\ peticion[h].op = op
    BY DEF CommitRespuesta, Lista
  <1>2. PICK p \in Peticion : p = peticion[h] /\ Coherente(p) /\ FirmeFilas
    BY <1>1, LaPeticion
  <1> DEFINE nuevo == SiCambia(ofertas[p.o].estado, p.cargada, estado)
  <1>3. p.o \in DOMAIN ofertas
    BY <1>1, <1>2 DEF Coherente
  <1>4. /\ ofertas' = [ofertas EXCEPT ![p.o].estado = nuevo]
        /\ Termina(h, Toca(p.o))
        /\ UNCHANGED <<finalizada, adendas, creadas, maranas>>
    BY <1>2 DEF CommitRespuesta
  <1>5. nuevo \in EstadoMaranaOferta
    BY <1>2, <1>3, FilaCampos DEF SiCambia
  <1> HIDE DEF nuevo
  <1>6. ofertas[p.o] \in OfertaRow
    BY <1>2, <1>3, FilaCampos
  <1> DEFINE r == [ofertas[p.o] EXCEPT !.estado = nuevo]
  <1>7. /\ r \in OfertaRow /\ r.marana = ofertas[p.o].marana
        /\ r.pds = ofertas[p.o].pds /\ r.estado = nuevo
    BY <1>5, <1>6 DEF OfertaRow
  <1>8. ofertas' = [ofertas EXCEPT ![p.o] = r]
    BY <1>4
  <1> HIDE DEF r
  <1>9. /\ ofertas' \in Seq(OfertaRow) /\ DOMAIN ofertas' = DOMAIN ofertas
        /\ \A o \in DOMAIN ofertas : ofertas'[o] = IF o = p.o THEN r ELSE ofertas[o]
    BY <1>2, <1>3, <1>7, <1>8, ExceptSeq, LenProperties DEF FirmeFilas
  <1>10. FirmeFilas' /\ Crecen
    BY <1>2, <1>4, <1>7, <1>9, OfertasFirmes DEF FirmeFilas
  <1>11. SoloCambia(Toca(p.o))
    BY <1>4, <1>7, <1>9 DEF SoloCambia, Toca
  <1>12. EnSerie /\ ~obsoleta => Enlaza(adendas)'
    BY <1>4, ListaEnlaza DEF Enlaza
  <1>13. ASSUME EnSerie, ~obsoleta, AlDia(p)
         PROVE  UnaAceptadaEnSerie'
    <2>1. /\ p.m \in DOMAIN maranas /\ ofertas[p.o].marana = p.m
          /\ maranas[p.m].estado = "publicado"
      BY <1>1, <1>2, <1>13 DEF AlDia, Coherente
    <2>2. maranas[p.m].pds = Nada /\ \A o \in OfertasDe(p.m) : ofertas[o].estado # "aceptada"
      BY <1>2, <1>13, <2>1, SinAceptada
    <2>3. nuevo # "aceptada"
      BY <1>3, <2>1, <2>2 DEF nuevo, SiCambia, OfertasDe
    <2>4. \A o \in OfertasDe(p.m)' : ofertas'[o].estado # "aceptada"
      BY <1>7, <1>9, <2>2, <2>3 DEF OfertasDe
    <2>5. UnaEn(p.m)'
      BY <1>4, <2>2, <2>4 DEF UnaEn
    <2>6. \A m \in DOMAIN maranas' \ {p.m} :
            \A o \in DOMAIN ofertas' : ofertas'[o].marana = m =>
                o \in DOMAIN ofertas /\ ofertas'[o] = ofertas[o]
      BY <1>7, <1>9, <2>1
    <2>7. \A m \in DOMAIN maranas' : m \in {p.m} => UnaEn(m)'
      BY <2>5
    <2>8. QED BY <1>4, <1>10, <1>13, <2>6, <2>7, UnaEnTodas
  <1>14. QED BY <1>1, <1>2, <1>4, <1>10, <1>11, <1>12, <1>13, TerminaConserva

LEMMA TomaOfertaConserva ==
    ASSUME Firme, NEW h \in Hilos, TomaOferta(h)
    PROVE  Conserva
  <1>1. peticion[h] # Nada /\ peticion[h].op = "aceptar"
    BY DEF TomaOferta, Lista
  <1>2. PICK p \in Peticion : p = peticion[h] /\ Coherente(p) /\ FirmeFilas
    BY <1>1, LaPeticion
  <1> DEFINE otras == {x \in OfertasDe(p.m) \ {p.o} : ofertas[x].estado \in Activas}
  <1>3. otras \in SUBSET Nat
    BY <1>2, FilaCampos DEF OfertasDe
  <1>4. peticion' = [peticion EXCEPT ![h].tomada = TRUE, ![h].otras = otras]
    BY <1>2 DEF TomaOferta
  <1> HIDE DEF otras
  <1>5. PICK q \in Peticion : q = [p EXCEPT !.tomada = TRUE, !.otras = otras]
    BY <1>3 DEF Peticion
  <1>6. /\ q.op = "aceptar" /\ q.m = p.m /\ q.o = p.o
        /\ q.otras = otras /\ q.vieja = p.vieja
    BY <1>1, <1>2, <1>5 DEF Peticion
  <1>7. peticion' = [peticion EXCEPT ![h] = q]
    BY <1>2, <1>4, <1>5, PartesDeFirme DEF TypeOK
  <1>8. UNCHANGED <<finalizada, adendas, creadas, maranas, ofertas, obsoleta>>
    BY DEF TomaOferta, filas
  <1>9. Coherente(q)'
    BY <1>1, <1>2, <1>6, <1>8 DEF Coherente, OfertasDe, otras
  <1>10. creadas' \in Nat /\ creadas <= creadas'
    BY <1>2, <1>8 DEF FirmeFilas
  <1>11. ASSUME AlDia(p)
         PROVE  AlDia(q)
    <2>1. maranas[q.m].estado = "publicado"
      BY <1>1, <1>2, <1>6, <1>11 DEF AlDia
    <2>2. \A o \in OfertasDe(q.m) : ofertas[o].estado \in Activas => o \in q.otras \cup {q.o}
      BY <1>6 DEF otras
    <2>3. QED BY <1>6, <2>1, <2>2 DEF AlDia
  <1>12. EnSerie /\ ~obsoleta /\ ~q.vieja => AlDia(q)
    BY <1>1, <1>2, <1>6, <1>11 DEF EnSerie
  <1>13. QED BY <1>7, <1>8, <1>9, <1>10, <1>12, SlotConserva

LEMMA InterbloqueoConserva ==
    ASSUME Firme, NEW h \in Hilos, Interbloqueo(h)
    PROVE  Conserva
  <1>1. peticion' = [peticion EXCEPT ![h] = Nada]
    BY DEF Interbloqueo
  <1>2. UNCHANGED <<finalizada, adendas, creadas, maranas, ofertas, obsoleta>>
    BY DEF Interbloqueo, filas
  <1>3. creadas' \in Nat /\ creadas <= creadas'
    BY <1>2, PartesDeFirme DEF FirmeFilas
  <1>4. QED BY <1>1, <1>2, <1>3, SlotConserva

\* The rows after the marana m became r: it may advance, never go back.
LEMMA MaranaFirme ==
    ASSUME FirmeFilas, NEW m \in DOMAIN maranas, NEW r \in MaranaRow,
           maranas' = [maranas EXCEPT ![m] = r],
           UNCHANGED <<finalizada, adendas, creadas>>,
           r.origen = maranas[m].origen,
           maranas[m].pds # Nada => r.pds # Nada,
           maranas[m].entrega => r.entrega,
           maranas[m].pago_solicitante => r.pago_solicitante,
           maranas[m].pago_prestador => r.pago_prestador,
           r.pagada => r.pago_solicitante /\ r.pago_prestador,
           r.pago_solicitante \/ r.pago_prestador => r.entrega,
           r.entrega => r.pds # Nada,
           r.estado = "publicado" => r.pds = Nada,
           r.estado = "completado" => r.entrega,
           ofertas' \in Seq(OfertaRow), DOMAIN ofertas' = DOMAIN ofertas,
           \A o \in DOMAIN ofertas : /\ ofertas'[o].marana = ofertas[o].marana
                                     /\ ofertas'[o].pds = ofertas[o].pds
    PROVE  /\ FirmeFilas' /\ Crecen
           /\ DOMAIN maranas' = DOMAIN maranas
           /\ \A n \in DOMAIN maranas : maranas'[n] = IF n = m THEN r ELSE maranas[n]
  <1>1. maranas \in Seq(MaranaRow)
    BY DEF FirmeFilas
  <1>2. m \in 1..Len(maranas) /\ DOMAIN maranas = 1..Len(maranas)
    BY <1>1, LenProperties
  <1>3. /\ maranas' \in Seq(MaranaRow)
        /\ DOMAIN maranas' = DOMAIN maranas
        /\ \A n \in DOMAIN maranas : maranas'[n] = IF n = m THEN r ELSE maranas[n]
    BY <1>1, <1>2, ExceptSeq, LenProperties
  <1>4. \A n \in DOMAIN maranas : maranas'[n].origen = maranas[n].origen
    BY <1>3
  <1>5. ListaVeraz'
    BY <1>3, <1>4 DEF FirmeFilas, ListaVeraz, Veraz
  <1>6. PagadaConEntrega'
    BY <1>3 DEF FirmeFilas, PagadaConEntrega
  <1>7. \A n \in DOMAIN maranas' :
            /\ maranas'[n].estado = "publicado" => maranas'[n].pds = Nada
            /\ maranas'[n].estado = "completado" => maranas'[n].entrega
    BY <1>3 DEF FirmeFilas
  <1>8. Crecen
    BY <1>3, <1>4 DEF Crecen, FirmeFilas
  <1>9. \A o \in DOMAIN ofertas' : ofertas'[o].marana \in DOMAIN maranas'
    BY <1>3 DEF FirmeFilas
  <1>10. FirmeFilas'
    BY <1>3, <1>5, <1>6, <1>7, <1>9 DEF FirmeFilas
  <1>11. QED BY <1>3, <1>8, <1>10

LEMMA CommitAceptarConserva ==
    ASSUME Firme, NEW h \in Hilos, CommitAceptar(h)
    PROVE  Conserva
  <1>1. peticion[h] # Nada /\ peticion[h].op = "aceptar"
    BY DEF CommitAceptar, Lista
  <1>2. PICK p \in Peticion : p = peticion[h] /\ Coherente(p) /\ FirmeFilas
    BY <1>1, LaPeticion
  <1> DEFINE m == p.m
             u == ofertas[p.o].pds
             r == [maranas[m] EXCEPT !.estado = "asignado", !.pds = u]
             W == {<<"marana", p.m>>} \cup UNION {Toca(x) : x \in p.otras \cup {p.o}}
  <1>3. m \in DOMAIN maranas /\ p.o \in DOMAIN ofertas
    BY <1>1, <1>2 DEF Coherente
  <1>4. u \in Pds /\ u # Nada /\ maranas[m] \in MaranaRow
    BY <1>2, <1>3, FilaCampos, NadaNoEsUsuario
  <1>5. /\ ofertas' = [x \in DOMAIN ofertas |->
                IF x = p.o THEN [ofertas[x] EXCEPT !.estado = "aceptada"]
                ELSE IF x \in p.otras THEN [ofertas[x] EXCEPT !.estado = "rechazada"]
                ELSE ofertas[x]]
        /\ maranas' = [maranas EXCEPT ![m] = r]
        /\ Termina(h, W)
        /\ UNCHANGED <<finalizada, adendas, creadas>>
    BY <1>2 DEF CommitAceptar
  <1>6. /\ r \in MaranaRow /\ r.origen = maranas[m].origen /\ r.estado = "asignado"
        /\ r.pds = u /\ r.entrega = maranas[m].entrega
        /\ r.pago_solicitante = maranas[m].pago_solicitante
        /\ r.pago_prestador = maranas[m].pago_prestador /\ r.pagada = maranas[m].pagada
    BY <1>4 DEF MaranaRow, EstadoMarana
  <1> HIDE DEF r, W
  <1>7. \A x \in DOMAIN ofertas :
            /\ x \in DOMAIN ofertas' /\ ofertas'[x] \in OfertaRow
            /\ ofertas'[x].marana = ofertas[x].marana
            /\ ofertas'[x].pds = ofertas[x].pds
    <2>1. \A x \in DOMAIN ofertas : ofertas[x] \in OfertaRow
      BY <1>2, FilaCampos
    <2>2. QED BY <1>5, <2>1 DEF OfertaRow, EstadoMaranaOferta
  <1>8. ofertas' \in Seq(OfertaRow) /\ DOMAIN ofertas' = DOMAIN ofertas
    <2>1. DOMAIN ofertas' = DOMAIN ofertas
      BY <1>5
    <2>2. DOMAIN ofertas = 1..Len(ofertas) /\ Len(ofertas) \in Nat
      BY <1>2, LenProperties DEF FirmeFilas
    <2>3. ofertas' \in [1..Len(ofertas) -> OfertaRow]
      BY <1>5, <1>7, <2>2
    <2>4. QED BY <2>1, <2>2, <2>3, SeqDef
  <1>9. /\ FirmeFilas' /\ Crecen
        /\ DOMAIN maranas' = DOMAIN maranas
        /\ \A n \in DOMAIN maranas : maranas'[n] = IF n = m THEN r ELSE maranas[n]
    <2>1. /\ maranas[m].pagada =>
                maranas[m].pago_solicitante /\ maranas[m].pago_prestador
          /\ maranas[m].pago_solicitante \/ maranas[m].pago_prestador =>
                maranas[m].entrega
      BY <1>2, <1>3 DEF FirmeFilas, PagadaConEntrega
    <2>2. QED
      BY <1>2, <1>3, <1>4, <1>5, <1>6, <1>7, <1>8, <2>1, MaranaFirme
  <1>10. SoloCambia(W)
    <2>1. <<"marana", m>> \in W
      BY DEF W
    <2>2. \A x \in p.otras \cup {p.o} :
            <<"ofertas", ofertas'[x].marana, ofertas'[x].pds>> \in W
      BY DEF W, Toca
    <2>3. \A x \in DOMAIN ofertas : x \notin p.otras \cup {p.o} => ofertas'[x] = ofertas[x]
      BY <1>5
    <2>4. QED BY <1>8, <1>9, <2>1, <2>2, <2>3 DEF SoloCambia
  <1>11. EnSerie /\ ~obsoleta => Enlaza(adendas)'
    BY <1>5, <1>6, <1>9, ListaEnlaza DEF Enlaza
  <1>12. ASSUME EnSerie, ~obsoleta, AlDia(p)
         PROVE  UnaAceptadaEnSerie'
    <2>1. /\ ofertas[p.o].marana = m /\ p.otras \subseteq OfertasDe(m) /\ p.tomada
          /\ maranas[m].estado = "publicado"
      BY <1>1, <1>2, <1>12 DEF AlDia, Coherente, CommitAceptar
    <2>2. \A o \in OfertasDe(m) : ofertas[o].estado # "aceptada"
      BY <1>2, <1>3, <1>12, <2>1, SinAceptada
    <2>3. \A o \in OfertasDe(m) : ofertas[o].estado \in Activas => o \in p.otras \cup {p.o}
      BY <1>1, <1>2, <1>12, <2>1 DEF AlDia
    <2>4. OfertasDe(m)' = OfertasDe(m) /\ p.o \in OfertasDe(m)
      BY <1>3, <1>7, <1>8, <2>1 DEF OfertasDe
    <2>5. \A o \in OfertasDe(m) :
            ofertas'[o].estado = IF o = p.o THEN "aceptada"
                                 ELSE IF o \in p.otras THEN "rechazada"
                                 ELSE ofertas[o].estado
      <3>1. \A o \in OfertasDe(m) : o \in DOMAIN ofertas /\ ofertas[o] \in OfertaRow
        BY <1>2, FilaCampos DEF OfertasDe
      <3>2. QED BY <1>5, <3>1 DEF OfertaRow
    <2>6. \A o \in OfertasDe(m)' :
            /\ ofertas'[o].estado \notin Activas
            /\ ofertas'[o].estado = "aceptada" <=> o = p.o
      BY <2>2, <2>3, <2>4, <2>5 DEF Activas
    <2>7. p.o \in OfertasDe(m)' /\ ofertas'[p.o].pds = maranas'[m].pds
          /\ ofertas'[p.o].estado = "aceptada"
      BY <1>3, <1>6, <1>7, <1>9, <2>4, <2>6
    <2>8. maranas'[m].pds # Nada
      BY <1>3, <1>4, <1>6, <1>9
    <2>9. UnaEn(m)'
      <3>1. {o \in OfertasDe(m)' : ofertas'[o].estado = "aceptada"} = {p.o}
        BY <2>6, <2>7
      <3>2. {o \in OfertasDe(m)' : ofertas'[o].estado \in Activas} = {}
        BY <2>6
      <3>3. QED BY <2>7, <2>8, <3>1, <3>2 DEF UnaEn
    <2>10. \A n \in DOMAIN maranas' \ {m} :
            /\ n \in DOMAIN maranas /\ maranas'[n].pds = maranas[n].pds
            /\ \A o \in DOMAIN ofertas' : ofertas'[o].marana = n =>
                    o \in DOMAIN ofertas /\ ofertas'[o] = ofertas[o]
      BY <1>5, <1>7, <1>8, <1>9, <2>1 DEF OfertasDe
    <2>11. \A n \in DOMAIN maranas' : n \in {m} => UnaEn(n)'
      BY <2>9
    <2>12. QED BY <1>9, <1>12, <2>10, <2>11, UnaEnTodas
  <1>13. QED BY <1>1, <1>2, <1>5, <1>9, <1>10, <1>11, <1>12, TerminaConserva

\* A commit that only writes its marana.
LEMMA EscribeConserva ==
    ASSUME Firme, NEW h \in Hilos, NEW op, NEW r \in MaranaRow, EscribeMarana(h, op, r),
           LET row == maranas[peticion[h].m]
           IN  /\ peticion[h].m \in DOMAIN maranas
               /\ r.origen = row.origen
               /\ r.pds = row.pds
               /\ row.entrega => r.entrega
               /\ row.pago_solicitante => r.pago_solicitante
               /\ row.pago_prestador => r.pago_prestador,
           r.pagada => r.pago_solicitante /\ r.pago_prestador,
           r.pago_solicitante \/ r.pago_prestador => r.entrega,
           r.entrega => r.pds # Nada,
           r.estado = "publicado" => r.pds = Nada,
           r.estado = "completado" => r.entrega
    PROVE  Conserva
  <1>1. /\ peticion[h] # Nada
        /\ maranas' = [maranas EXCEPT ![peticion[h].m] = r]
        /\ Termina(h, {<<"marana", peticion[h].m>>})
        /\ UNCHANGED <<finalizada, adendas, creadas, ofertas>>
    BY DEF EscribeMarana, Lista
  <1>2. FirmeFilas
    BY PartesDeFirme
  <1>3. ofertas' \in Seq(OfertaRow)
    BY <1>1, <1>2 DEF FirmeFilas
  <1> DEFINE m == peticion[h].m
  <1>4. /\ FirmeFilas' /\ Crecen
        /\ DOMAIN maranas' = DOMAIN maranas
        /\ \A n \in DOMAIN maranas : maranas'[n] = IF n = m THEN r ELSE maranas[n]
    BY <1>1, <1>2, <1>3, MaranaFirme
  <1>5. SoloCambia({<<"marana", m>>})
    BY <1>1, <1>4 DEF SoloCambia
  <1>6. EnSerie /\ ~obsoleta => Enlaza(adendas)'
    BY <1>1, <1>4, ListaEnlaza DEF Enlaza
  <1>7. ASSUME EnSerie, ~obsoleta
        PROVE  UnaAceptadaEnSerie'
    <2> PICK tocadas : tocadas = {}
      OBVIOUS
    <2>1. \A n \in DOMAIN maranas' \ tocadas :
            /\ n \in DOMAIN maranas /\ maranas'[n].pds = maranas[n].pds
            /\ \A o \in DOMAIN ofertas' : ofertas'[o].marana = n =>
                    o \in DOMAIN ofertas /\ ofertas'[o] = ofertas[o]
      BY <1>1, <1>4
    <2>2. \A n \in DOMAIN maranas' : n \in tocadas => UnaEn(n)'
      OBVIOUS
    <2>3. QED BY <1>4, <1>7, <2>1, <2>2, UnaEnTodas
  <1>8. QED BY <1>1, <1>4, <1>5, <1>6, <1>7, TerminaConserva

\* What PagadaConEntrega and the types say of the marana of a request.
LEMMA SuyaFirme ==
    ASSUME Firme, NEW h \in Hilos, peticion[h] # Nada,
           peticion[h].op \in {"completar", "cancelar", "pagar"}
    PROVE  /\ peticion[h].m \in DOMAIN maranas
           /\ Suya(h) = maranas[peticion[h].m]
           /\ Suya(h) \in MaranaRow
           /\ Suya(h).pagada => Suya(h).pago_solicitante /\ Suya(h).pago_prestador
           /\ Suya(h).pago_solicitante \/ Suya(h).pago_prestador => Suya(h).entrega
           /\ Suya(h).entrega => Suya(h).pds # Nada
           /\ Suya(h).estado = "publicado" => Suya(h).pds = Nada
           /\ Suya(h).estado = "completado" => Suya(h).entrega
  <1>1. FirmeFilas /\ Coherente(peticion[h])
    BY LaPeticion
  <1>2. peticion[h].m \in DOMAIN maranas
    BY <1>1 DEF Coherente
  <1>3. QED BY <1>1, <1>2, FilaCampos DEF Suya, FirmeFilas, PagadaConEntrega

LEMMA CommitCompletarConserva ==
    ASSUME Firme, NEW h \in Hilos, CommitCompletar(h)
    PROVE  Conserva
  <1> DEFINE r == [Suya(h) EXCEPT !.estado = "completado", !.entrega = TRUE]
  <1>1. peticion[h] # Nada /\ peticion[h].op = "completar" /\ EscribeMarana(h, "completar", r)
    BY DEF CommitCompletar, EscribeMarana, Lista
  <1>2. PICK row \in MaranaRow : row = Suya(h)
    BY <1>1, SuyaFirme
  <1>3. row.pds # Nada
    BY <1>1, <1>2, LaPeticion DEF Coherente, Suya
  <1>4. /\ r \in MaranaRow /\ r.origen = row.origen /\ r.estado = "completado"
        /\ r.pds = row.pds /\ r.entrega = TRUE
        /\ r.pago_solicitante = row.pago_solicitante
        /\ r.pago_prestador = row.pago_prestador /\ r.pagada = row.pagada
    BY <1>2 DEF MaranaRow, EstadoMarana
  <1> HIDE DEF r
  <1>5. QED BY <1>1, <1>2, <1>3, <1>4, SuyaFirme, EscribeConserva

LEMMA CommitCancelarConserva ==
    ASSUME Firme, NEW h \in Hilos, CommitCancelar(h)
    PROVE  Conserva
  <1> DEFINE r == [Suya(h) EXCEPT !.estado = "cancelado"]
  <1>1. peticion[h] # Nada /\ peticion[h].op = "cancelar" /\ EscribeMarana(h, "cancelar", r)
    BY DEF CommitCancelar, EscribeMarana, Lista
  <1>2. PICK row \in MaranaRow : row = Suya(h)
    BY <1>1, SuyaFirme
  <1>3. /\ r \in MaranaRow /\ r.origen = row.origen /\ r.estado = "cancelado"
        /\ r.pds = row.pds /\ r.entrega = row.entrega
        /\ r.pago_solicitante = row.pago_solicitante
        /\ r.pago_prestador = row.pago_prestador /\ r.pagada = row.pagada
    BY <1>2 DEF MaranaRow, EstadoMarana
  <1> HIDE DEF r
  <1>4. QED BY <1>1, <1>2, <1>3, SuyaFirme, EscribeConserva

LEMMA CommitPagarConserva ==
    ASSUME Firme, NEW h \in Hilos, CommitPagar(h)
    PROVE  Conserva
  <1>1. peticion[h] # Nada /\ peticion[h].op = "pagar"
    BY DEF CommitPagar, EscribeMarana, Lista
  <1>2. PICK p \in Peticion : p = peticion[h] /\ Coherente(p)
    BY <1>1, LaPeticion
  <1>3. PICK row \in MaranaRow : row = Suya(h) /\ row = maranas[p.m]
    BY <1>1, <1>2, SuyaFirme
  <1> DEFINE s == row.pago_solicitante \/ p.quien = Solicitante
             t == row.pago_prestador \/ p.quien # Solicitante
             d == row.pagada \/ p.cierra
             e == IF p.cierra THEN "pagado" ELSE row.estado
             r == [row EXCEPT !.pago_solicitante = s, !.pago_prestador = t,
                              !.pagada = d, !.estado = e]
  <1>4. EscribeMarana(h, "pagar", r)
    BY <1>2, <1>3 DEF CommitPagar
  <1>5. row.entrega /\ (p.cierra => s /\ t)
    BY <1>1, <1>2, <1>3 DEF Coherente
  <1>6. /\ s \in BOOLEAN /\ t \in BOOLEAN /\ d \in BOOLEAN /\ e \in EstadoMarana
        /\ e \in {"pagado", row.estado}
    BY <1>3, PeticionCampos DEF MaranaRow, EstadoMarana
  <1>7. /\ row.pago_solicitante => s
        /\ row.pago_prestador => t
        /\ d => row.pagada \/ p.cierra
    OBVIOUS
  <1> HIDE DEF s, t, d, e
  <1>8. /\ r \in MaranaRow /\ r.origen = row.origen /\ r.estado = e
        /\ r.pds = row.pds /\ r.entrega = row.entrega
        /\ r.pago_solicitante = s /\ r.pago_prestador = t /\ r.pagada = d
    BY <1>3, <1>6 DEF MaranaRow
  <1> HIDE DEF r
  <1>9. d => s /\ t
    BY <1>1, <1>3, <1>5, <1>7, SuyaFirme
  <1>10. QED
    BY <1>1, <1>2, <1>3, <1>4, <1>5, <1>6, <1>7, <1>8, <1>9, SuyaFirme, EscribeConserva
-----------------------------------------------------------------------------
(* What holds however requests race *)

LEMMA InitFirme == Init => Firme
  <1> SUFFICES ASSUME Init PROVE Firme
    OBVIOUS
  <1>1. adendas \in Seq(Adenda) /\ maranas \in Seq(MaranaRow) /\ ofertas \in Seq(OfertaRow)
    BY EmptySeq DEF Init
  <1>2. DOMAIN adendas = {} /\ DOMAIN maranas = {} /\ DOMAIN ofertas = {}
    BY DEF Init
  <1>3. TypeOK
    BY <1>1 DEF Init, TypeOK
  <1>4. ListaVeraz /\ PagadaConEntrega
    BY <1>2 DEF ListaVeraz, Veraz, PagadaConEntrega
  <1>5. \A h \in Hilos : peticion[h] = Nada
    BY DEF Init
  <1>6. QED BY <1>2, <1>3, <1>4, <1>5 DEF Firme

\* Every step keeps what holds however requests race, and what holds until one
\* commits on rows that had changed.
LEMMA PasoConserva ==
    ASSUME Firme, [Next]_vars
    PROVE  Conserva
  <1>1. CASE UNCHANGED vars
    <2>1. FirmeFilas
      BY PartesDeFirme
    <2>2. UNCHANGED <<finalizada, adendas, creadas, maranas, ofertas, peticion, obsoleta>>
      BY <1>1 DEF vars
    <2>3. Firme'
      BY <2>2 DEF Firme, TypeOK, ListaVeraz, Veraz, PagadaConEntrega, Coherente, OfertasDe
    <2>4. EnSerie => EnSerie'
      BY <2>2 DEF EnSerie, DerivadaUnaVezEnSerie, UnaAceptadaEnSerie, AlDia, Enlaza, OfertasDe
    <2>5. QED BY <2>3, <2>4 DEF Conserva
  <1>2. CASE Finalizar
    BY <1>2, FinalizarConserva
  <1>3. ASSUME NEW h \in Hilos, Avanza(h)
        PROVE  Conserva
    <2>1. CASE CommitLista(h)
      BY <2>1, CommitListaConserva
    <2>2. CASE CommitLanzar(h)
      BY <2>2, CommitLanzarConserva
    <2>3. CASE CommitPostular(h)
      BY <2>3, CommitPostularConserva
    <2>4. CASE CommitRespuesta(h, "contraofertar", "contraoferta")
      BY <2>4, CommitRespuestaConserva DEF EstadoMaranaOferta
    <2>5. CASE CommitRespuesta(h, "rechazar", "rechazada")
      BY <2>5, CommitRespuestaConserva DEF EstadoMaranaOferta
    <2>6. CASE TomaOferta(h)
      BY <2>6, TomaOfertaConserva
    <2>7. CASE CommitAceptar(h)
      BY <2>7, CommitAceptarConserva
    <2>8. CASE Interbloqueo(h)
      BY <2>8, InterbloqueoConserva
    <2>9. CASE CommitCompletar(h)
      BY <2>9, CommitCompletarConserva
    <2>10. CASE CommitCancelar(h)
      BY <2>10, CommitCancelarConserva
    <2>11. CASE CommitPagar(h)
      BY <2>11, CommitPagarConserva
    <2>12. QED
      BY <1>3, <2>1, <2>2, <2>3, <2>4, <2>5, <2>6, <2>7, <2>8, <2>9, <2>10, <2>11
         DEF Avanza
  <1>4. ASSUME NEW h \in Hilos, NEW u \in Usuarios, Llega(h, u)
        PROVE  Conserva
    <2>1. CASE AgregarAdenda(h, u)
      BY <2>1, AgregarAdendaConserva
    <2>2. ASSUME NEW i \in DOMAIN adendas,
                 EditarAdenda(h, u, i) \/ EliminarAdenda(h, u, i) \/ LanzarMarana(h, u, i)
          PROVE  Conserva
      BY <2>2, EditarAdendaConserva, EliminarAdendaConserva, LanzarMaranaConserva
    <2>3. ASSUME NEW m \in DOMAIN maranas,
                 \/ Postular(h, u, m) \/ Completar(h, u, m)
                 \/ Cancelar(h, u, m) \/ Pagar(h, u, m)
          PROVE  Conserva
      BY <2>3, PostularConserva, CompletarConserva, CancelarConserva, PagarConserva
    <2>4. ASSUME NEW o \in DOMAIN ofertas,
                 Contraofertar(h, u, o) \/ Rechazar(h, u, o) \/ Aceptar(h, u, o)
          PROVE  Conserva
      BY <2>4, ResponderConserva DEF Contraofertar, Rechazar, Aceptar
    <2>5. QED BY <1>4, <2>1, <2>2, <2>3, <2>4 DEF Llega
  <1>5. QED BY <1>1, <1>2, <1>3, <1>4 DEF Next

LEMMA InitEnSerie == Init => EnSerie
  <1> SUFFICES ASSUME Init PROVE EnSerie
    OBVIOUS
  <1>1. DOMAIN maranas = {}
    BY DEF Init
  <1>2. \A h \in Hilos : peticion[h] = Nada
    BY DEF Init
  <1>3. QED
    BY <1>1, <1>2 DEF EnSerie, DerivadaUnaVezEnSerie, UnaAceptadaEnSerie, Enlaza

\* The invariant is inductive.
THEOREM SpecIInv == Spec => []IInv
  <1>1. Init => IInv
    BY InitFirme, InitEnSerie DEF IInv
  <1>2. IInv /\ [Next]_vars => IInv'
    BY PasoConserva DEF IInv, Conserva
  <1>3. QED BY <1>1, <1>2, PTL DEF Spec

\* However requests race, the committed list of adendas never names one twice
\* nor shows one as derived to a marana launched from another.
THEOREM SpecListaVeraz == Spec => []ListaVeraz
  <1>1. IInv => ListaVeraz
    BY DEF IInv, Firme
  <1>2. QED BY <1>1, SpecIInv, PTL

\* However requests race, a marana that was paid was assigned, delivered and
\* confirmed by both parties.
THEOREM SpecPagadaConEntrega == Spec => []PagadaConEntrega
  <1>1. IInv => PagadaConEntrega
    BY DEF IInv, Firme
  <1>2. QED BY <1>1, SpecIInv, PTL

\* Until a request commits on rows that had changed, every marana is still in
\* the list, under the adenda it was derived from.
THEOREM SpecDerivadaUnaVez == Spec => []DerivadaUnaVezEnSerie
  <1>1. IInv => DerivadaUnaVezEnSerie
    BY DEF IInv, EnSerie
  <1>2. QED BY <1>1, SpecIInv, PTL

\* Until then, an assigned marana has one accepted offer, of the assigned
\* provider, and no active one.
THEOREM SpecUnaAceptada == Spec => []UnaAceptadaEnSerie
  <1>1. IInv => UnaAceptadaEnSerie
    BY DEF IInv, EnSerie
  <1>2. QED BY <1>1, SpecIInv, PTL
-----------------------------------------------------------------------------
(* The maranas implement Rebusque *)

\* The maranas stay within the ids of Rebusque.
Acotada == \A m \in DOMAIN maranas : m \in 1..MaxFilas

Simula == Acotada' /\ [Ciclo!Next]_<<CicloDe, ConfirmanDe>>

\* A commit on rows that had changed loses every promise.
LEMMA PierdeSimula ==
    ASSUME Acotada', obsoleta'
    PROVE  Simula
  <1>1. CicloDe' = [m \in 1..MaxFilas |-> "incierto"] /\ ConfirmanDe' = [m \in 1..MaxFilas |-> {}]
    BY DEF CicloDe, ConfirmanDe
  <1>2. Ciclo!SePierde
    BY <1>1 DEF Ciclo!SePierde, Ciclo!Ids
  <1>3. QED BY <1>2 DEF Simula, Ciclo!Next

\* A step that leaves the maranas alone.
LEMMA QuietaSimula ==
    ASSUME Acotada, maranas' = maranas, obsoleta => obsoleta'
    PROVE  Simula
  <1>1. Acotada'
    BY DEF Acotada
  <1>2. CASE obsoleta'
    BY <1>1, <1>2, PierdeSimula
  <1>3. CASE ~obsoleta'
    <2>1. CicloDe' = CicloDe
      BY <1>3 DEF CicloDe
    <2>2. ConfirmanDe' = ConfirmanDe
      BY <1>3 DEF ConfirmanDe, Confirman
    <2>3. QED BY <1>1, <2>1, <2>2 DEF Simula
  <1>4. QED BY <1>2, <1>3

\* A step that changes the estado of one marana, and no confirmation.
LEMMA PasaSimula ==
    ASSUME Acotada, ~obsoleta, ~obsoleta', NEW m \in 1..MaxFilas,
           DOMAIN maranas' = DOMAIN maranas \cup {m},
           \A n \in DOMAIN maranas \ {m} : maranas'[n] = maranas[n],
           m \in DOMAIN maranas =>
                /\ maranas'[m].pago_solicitante = maranas[m].pago_solicitante
                /\ maranas'[m].pago_prestador = maranas[m].pago_prestador,
           m \notin DOMAIN maranas =>
                ~maranas'[m].pago_solicitante /\ ~maranas'[m].pago_prestador
    PROVE  /\ Acotada'
           /\ Ciclo!Pasa(m, IF m \in DOMAIN maranas THEN maranas[m].estado ELSE "inexistente",
                         maranas'[m].estado)
  <1>1. Acotada'
    BY DEF Acotada
  <1>2. CicloDe[m] = IF m \in DOMAIN maranas THEN maranas[m].estado ELSE "inexistente"
    BY DEF CicloDe
  <1>3. CicloDe' = [CicloDe EXCEPT ![m] = maranas'[m].estado]
    BY DEF CicloDe
  <1>4. \A n \in 1..MaxFilas : ConfirmanDe'[n] = ConfirmanDe[n]
    <2>1. TAKE n \in 1..MaxFilas
    <2>2. CASE n = m
      BY <2>2 DEF ConfirmanDe, Confirman
    <2>3. CASE n # m
      BY <2>3 DEF ConfirmanDe, Confirman
    <2>4. QED BY <2>2, <2>3
  <1>5. ConfirmanDe' = ConfirmanDe
    BY <1>4 DEF ConfirmanDe
  <1>6. QED BY <1>1, <1>2, <1>3, <1>5 DEF Ciclo!Pasa

\* What the request of h knows when its commit keeps the promises.
LEMMA EnOrden ==
    ASSUME IInv, NEW h \in Hilos, NEW W, peticion[h] # Nada, Termina(h, W)
    PROVE  /\ FirmeFilas /\ peticion[h] \in Peticion /\ Coherente(peticion[h])
           /\ obsoleta \in BOOLEAN /\ (obsoleta => obsoleta')
           /\ ~obsoleta' => ~obsoleta /\ AlDia(peticion[h])
  <1>1. FirmeFilas /\ peticion[h] \in Peticion /\ Coherente(peticion[h]) /\ TypeOK
    BY LaPeticion, PartesDeFirme DEF IInv
  <1>2. QED BY <1>1 DEF Termina, IInv, EnSerie, TypeOK

LEMMA CommitLanzarSimula ==
    ASSUME IInv, Acotada, NEW h \in Hilos, CommitLanzar(h)
    PROVE  Simula
  <1>1. peticion[h] # Nada /\ Termina(h, {<<"chamba">>})
    BY DEF CommitLanzar, Lista
  <1>2. PICK p \in Peticion : p = peticion[h] /\ Coherente(p) /\ FirmeFilas /\ p.op = "lanzar"
    BY <1>1, EnOrden DEF CommitLanzar, Lista
  <1> PICK n : n = Len(maranas) + 1
    OBVIOUS
  <1> DEFINE r == Publicada(p.lista[p.i].origen)
  <1>3. r \in MaranaRow
    <2>1. p.lista \in Seq(Adenda) /\ p.i \in DOMAIN p.lista
      BY <1>2, PeticionCampos DEF Coherente
    <2>2. p.lista[p.i].origen \in Nat
      BY <2>1, AdendaCampos
    <2>3. QED BY <2>2 DEF Publicada, MaranaRow, EstadoMarana
  <1>4. r.estado = "publicado" /\ ~r.pago_solicitante /\ ~r.pago_prestador
    BY DEF Publicada
  <1>5. maranas' = Append(maranas, r)
    BY <1>2 DEF CommitLanzar
  <1> HIDE DEF r
  <1>6. /\ DOMAIN maranas' = DOMAIN maranas \cup {n} /\ n \notin DOMAIN maranas
        /\ \A m \in DOMAIN maranas : maranas'[m] = maranas[m]
        /\ maranas'[n] = r
    BY <1>2, <1>3, <1>5, NuevaMarana
  <1>7. n \in 1..MaxFilas
    <2>1. Len(maranas) \in Nat /\ Len(ofertas) \in Nat
      BY <1>2, LenProperties DEF FirmeFilas
    <2>2. Len(maranas) + Len(ofertas) < MaxFilas
      BY DEF CommitLanzar, Caben
    <2>3. QED BY <2>1, <2>2, CotaNat
  <1>8. CASE obsoleta'
    <2>1. Acotada'
      BY <1>6, <1>7 DEF Acotada
    <2>2. QED BY <1>8, <2>1, PierdeSimula
  <1>9. CASE ~obsoleta'
    <2>1. ~obsoleta
      BY <1>1, <1>9, EnOrden
    <2>2. Acotada' /\ Ciclo!Pasa(n, "inexistente", "publicado")
      BY <1>4, <1>6, <1>7, <1>9, <2>1, PasaSimula
    <2>3. QED BY <1>7, <2>2 DEF Simula, Ciclo!Next, Ciclo!Ids
  <1>10. QED BY <1>8, <1>9

\* A commit that writes one existing marana, from its estado to another.
LEMMA EscritaSimula ==
    ASSUME IInv, Acotada, NEW h \in Hilos, NEW W, peticion[h] # Nada, Termina(h, W),
           NEW m \in DOMAIN maranas, NEW r, maranas' = [maranas EXCEPT ![m] = r],
           r.pago_solicitante = maranas[m].pago_solicitante,
           r.pago_prestador = maranas[m].pago_prestador,
           AlDia(peticion[h]) =>
                \/ maranas[m].estado = "publicado" /\ r.estado = "asignado"
                \/ maranas[m].estado = "asignado" /\ r.estado = "completado"
                \/ /\ maranas[m].estado \in {"publicado", "asignado", "completado"}
                   /\ r.estado = "cancelado"
    PROVE  Simula
  <1>1. FirmeFilas
    BY EnOrden
  <1>2. m \in 1..MaxFilas
    BY DEF Acotada
  <1>3. /\ DOMAIN maranas' = DOMAIN maranas
        /\ \A n \in DOMAIN maranas : maranas'[n] = IF n = m THEN r ELSE maranas[n]
    <2>1. maranas \in Seq(MaranaRow)
      BY <1>1 DEF FirmeFilas
    <2>2. maranas = [n \in DOMAIN maranas |-> maranas[n]]
      BY <2>1, LenProperties
    <2>3. QED BY <2>2
  <1>4. CASE obsoleta'
    <2>1. Acotada'
      BY <1>3 DEF Acotada
    <2>2. QED BY <1>4, <2>1, PierdeSimula
  <1>5. CASE ~obsoleta'
    <2>1. ~obsoleta /\ AlDia(peticion[h])
      BY <1>5, EnOrden
    <2>2. DOMAIN maranas' = DOMAIN maranas \cup {m}
      BY <1>3
    <2>3. Acotada' /\ Ciclo!Pasa(m, maranas[m].estado, r.estado)
      BY <1>2, <1>3, <1>5, <2>1, <2>2, PasaSimula
    <2>4. QED BY <1>2, <2>1, <2>3 DEF Simula, Ciclo!Next, Ciclo!Ids
  <1>6. QED BY <1>4, <1>5

LEMMA CommitAceptarSimula ==
    ASSUME IInv, Acotada, NEW h \in Hilos, CommitAceptar(h)
    PROVE  Simula
  <1> DEFINE W == {<<"marana", peticion[h].m>>}
                    \cup UNION {Toca(x) : x \in peticion[h].otras \cup {peticion[h].o}}
  <1>1. peticion[h] # Nada /\ peticion[h].op = "aceptar" /\ Termina(h, W)
    BY DEF CommitAceptar, Lista
  <1> HIDE DEF W
  <1>2. PICK p \in Peticion : p = peticion[h] /\ Coherente(p) /\ FirmeFilas
    BY <1>1, LaPeticion DEF IInv
  <1>3. p.m \in DOMAIN maranas
    BY <1>1, <1>2 DEF Coherente
  <1> DEFINE r == [maranas[p.m] EXCEPT !.estado = "asignado", !.pds = ofertas[p.o].pds]
  <1>4. maranas' = [maranas EXCEPT ![p.m] = r]
    BY <1>2 DEF CommitAceptar
  <1>5. /\ r.estado = "asignado" /\ r.pago_solicitante = maranas[p.m].pago_solicitante
        /\ r.pago_prestador = maranas[p.m].pago_prestador
    <2>1. maranas[p.m] \in MaranaRow
      BY <1>2, <1>3, FilaCampos
    <2>2. QED BY <2>1 DEF MaranaRow
  <1> HIDE DEF r
  <1>6. AlDia(peticion[h]) => maranas[p.m].estado = "publicado"
    BY <1>1, <1>2 DEF AlDia
  <1>7. QED BY <1>1, <1>3, <1>4, <1>5, <1>6, EscritaSimula

LEMMA CommitCompletarSimula ==
    ASSUME IInv, Acotada, NEW h \in Hilos, CommitCompletar(h)
    PROVE  Simula
  <1> DEFINE r == [Suya(h) EXCEPT !.estado = "completado", !.entrega = TRUE]
  <1>1. /\ peticion[h] # Nada /\ peticion[h].op = "completar"
        /\ Termina(h, {<<"marana", peticion[h].m>>})
        /\ maranas' = [maranas EXCEPT ![peticion[h].m] = r]
    BY DEF CommitCompletar, EscribeMarana, Lista
  <1>2. /\ peticion[h].m \in DOMAIN maranas /\ Suya(h) = maranas[peticion[h].m]
        /\ Suya(h) \in MaranaRow
    BY <1>1, SuyaFirme DEF IInv
  <1>3. /\ r.estado = "completado" /\ r.pago_solicitante = Suya(h).pago_solicitante
        /\ r.pago_prestador = Suya(h).pago_prestador
    BY <1>2 DEF MaranaRow
  <1> HIDE DEF r
  <1>4. AlDia(peticion[h]) => maranas[peticion[h].m].estado = "asignado"
    BY <1>1 DEF AlDia
  <1>5. QED BY <1>1, <1>2, <1>3, <1>4, EscritaSimula

LEMMA CommitCancelarSimula ==
    ASSUME IInv, Acotada, NEW h \in Hilos, CommitCancelar(h)
    PROVE  Simula
  <1> DEFINE r == [Suya(h) EXCEPT !.estado = "cancelado"]
  <1>1. /\ peticion[h] # Nada /\ peticion[h].op = "cancelar"
        /\ Termina(h, {<<"marana", peticion[h].m>>})
        /\ maranas' = [maranas EXCEPT ![peticion[h].m] = r]
    BY DEF CommitCancelar, EscribeMarana, Lista
  <1>2. /\ peticion[h].m \in DOMAIN maranas /\ Suya(h) = maranas[peticion[h].m]
        /\ Suya(h) \in MaranaRow
    BY <1>1, SuyaFirme DEF IInv
  <1>3. /\ r.estado = "cancelado" /\ r.pago_solicitante = Suya(h).pago_solicitante
        /\ r.pago_prestador = Suya(h).pago_prestador
    BY <1>2 DEF MaranaRow
  <1> HIDE DEF r
  <1>4. AlDia(peticion[h]) =>
            maranas[peticion[h].m].estado \in {"publicado", "asignado", "completado"}
    BY <1>1 DEF AlDia
  <1>5. QED BY <1>1, <1>2, <1>3, <1>4, EscritaSimula

LEMMA CommitPagarSimula ==
    ASSUME IInv, Acotada, NEW h \in Hilos, CommitPagar(h)
    PROVE  Simula
  <1>1. /\ peticion[h] # Nada /\ peticion[h].op = "pagar"
        /\ Termina(h, {<<"marana", peticion[h].m>>})
    BY DEF CommitPagar, EscribeMarana, Lista
  <1>2. PICK p \in Peticion : p = peticion[h] /\ Coherente(p) /\ FirmeFilas
    BY <1>1, LaPeticion DEF IInv
  <1>3. PICK m : m = p.m
    OBVIOUS
  <1>4. m \in DOMAIN maranas /\ m \in 1..MaxFilas
    BY <1>1, <1>2, <1>3 DEF Coherente, Acotada
  <1>5. PICK row \in MaranaRow : row = maranas[m]
    BY <1>2, <1>4, FilaCampos
  <1> DEFINE s == row.pago_solicitante \/ p.quien = Solicitante
             t == row.pago_prestador \/ p.quien # Solicitante
             e == IF p.cierra THEN "pagado" ELSE row.estado
             r == [row EXCEPT !.pago_solicitante = s, !.pago_prestador = t,
                              !.pagada = @ \/ p.cierra, !.estado = e]
  <1>6. maranas' = [maranas EXCEPT ![m] = r]
    BY <1>2, <1>3, <1>5 DEF CommitPagar, EscribeMarana, Suya
  <1>7. r.pago_solicitante = s /\ r.pago_prestador = t /\ r.estado = e
    BY <1>5 DEF MaranaRow
  <1> HIDE DEF r
  <1>8. /\ DOMAIN maranas' = DOMAIN maranas
        /\ \A n \in DOMAIN maranas : maranas'[n] = IF n = m THEN r ELSE maranas[n]
    <2>1. maranas \in Seq(MaranaRow)
      BY <1>2 DEF FirmeFilas
    <2>2. maranas = [n \in DOMAIN maranas |-> maranas[n]]
      BY <2>1, LenProperties
    <2>3. QED BY <1>6, <2>2
  <1>9. Acotada'
    BY <1>8 DEF Acotada
  <1>10. CASE obsoleta'
    BY <1>9, <1>10, PierdeSimula
  <1>11. CASE ~obsoleta'
    <2>1. ~obsoleta /\ AlDia(p)
      BY <1>1, <1>2, <1>11, EnOrden
    <2>2. row.estado = "completado" /\ (p.cierra <=> s /\ t)
      BY <1>1, <1>2, <1>3, <1>5, <2>1 DEF AlDia
    <2> DEFINE parte == IF p.quien = Solicitante THEN "solicitante" ELSE "prestador"
    <2>3. ConfirmanDe[m] = (IF row.pago_solicitante THEN {"solicitante"} ELSE {})
                                \cup IF row.pago_prestador THEN {"prestador"} ELSE {}
      BY <1>4, <1>5, <2>1 DEF ConfirmanDe, Confirman
    <2>4. ConfirmanDe'[m] = (IF s THEN {"solicitante"} ELSE {})
                                \cup IF t THEN {"prestador"} ELSE {}
      <3>1. ConfirmanDe'[m] = (IF maranas'[m].pago_solicitante THEN {"solicitante"} ELSE {})
                                \cup IF maranas'[m].pago_prestador THEN {"prestador"} ELSE {}
        BY <1>4, <1>8, <1>11 DEF ConfirmanDe, Confirman
      <3>2. QED BY <1>4, <1>7, <1>8, <3>1
    <2>5. ConfirmanDe'[m] = ConfirmanDe[m] \cup {parte}
      BY <2>3, <2>4
    <2>6. \A n \in 1..MaxFilas : n # m => ConfirmanDe'[n] = ConfirmanDe[n]
      BY <1>8, <1>11, <2>1 DEF ConfirmanDe, Confirman
    <2>7. ConfirmanDe' = [ConfirmanDe EXCEPT ![m] = @ \cup {parte}]
      BY <2>5, <2>6 DEF ConfirmanDe
    <2>8. ConfirmanDe'[m] = Ciclo!Partes <=> p.cierra
      BY <2>2, <2>4 DEF Ciclo!Partes
    <2>9. CicloDe[m] = "completado" /\ CicloDe' = [CicloDe EXCEPT ![m] = e]
      BY <1>4, <1>5, <1>7, <1>8, <1>11, <2>1, <2>2 DEF CicloDe
    <2>10. e = IF ConfirmanDe'[m] = Ciclo!Partes THEN "pagado" ELSE "completado"
      BY <2>2, <2>8
    <2> HIDE DEF e, s, t
    <2>11. Ciclo!Confirma(m, parte)
      BY <2>7, <2>9, <2>10 DEF Ciclo!Confirma
    <2>12. parte \in Ciclo!Partes
      BY DEF Ciclo!Partes
    <2>13. QED BY <1>4, <1>9, <2>11, <2>12 DEF Simula, Ciclo!Next, Ciclo!Ids
  <1>12. QED BY <1>10, <1>11

\* Every step of the maranas is a step of Rebusque, or none.
LEMMA PasoSimula ==
    ASSUME IInv, Acotada, [Next]_vars
    PROVE  Simula
  <1>1. TypeOK
    BY PartesDeFirme DEF IInv
  <1>2. CASE UNCHANGED vars
    BY <1>2, QuietaSimula DEF vars
  <1>3. CASE Finalizar
    BY <1>3, QuietaSimula DEF Finalizar
  <1>4. ASSUME NEW h \in Hilos, Avanza(h)
        PROVE  Simula
    <2>1. CASE CommitLista(h)
      BY <2>1, QuietaSimula DEF CommitLista, Termina
    <2>2. CASE CommitLanzar(h)
      BY <2>2, CommitLanzarSimula
    <2>3. CASE CommitPostular(h)
      BY <2>3, QuietaSimula DEF CommitPostular, Termina
    <2>4. CASE \E op, estado : CommitRespuesta(h, op, estado)
      BY <2>4, QuietaSimula DEF CommitRespuesta, Termina
    <2>5. CASE TomaOferta(h)
      BY <2>5, QuietaSimula DEF TomaOferta, filas
    <2>6. CASE CommitAceptar(h)
      BY <2>6, CommitAceptarSimula
    <2>7. CASE Interbloqueo(h)
      BY <2>7, QuietaSimula DEF Interbloqueo, filas
    <2>8. CASE CommitCompletar(h)
      BY <2>8, CommitCompletarSimula
    <2>9. CASE CommitCancelar(h)
      BY <2>9, CommitCancelarSimula
    <2>10. CASE CommitPagar(h)
      BY <2>10, CommitPagarSimula
    <2>11. QED
      BY <1>4, <2>1, <2>2, <2>3, <2>4, <2>5, <2>6, <2>7, <2>8, <2>9, <2>10 DEF Avanza
  <1>5. ASSUME NEW h \in Hilos, NEW u \in Usuarios, Llega(h, u)
        PROVE  Simula
    <2>1. UNCHANGED <<maranas, obsoleta>>
      BY <1>5 DEF Llega, AgregarAdenda, EditarAdenda, EliminarAdenda, LanzarMarana,
                  Postular, Completar, Cancelar, Pagar, Contraofertar, Rechazar, Aceptar,
                  Responder, Pide
    <2>2. QED BY <2>1, QuietaSimula
  <1>6. QED BY <1>2, <1>3, <1>4, <1>5 DEF Next

\* The maranas, under racing requests, implement the life that Rebusque
\* promises them until a request commits on rows that had changed.
THEOREM SpecCicloCumplido == Spec => CicloCumplido
  <1>1. Init => Ciclo!Init /\ Acotada
    <2> SUFFICES ASSUME Init PROVE Ciclo!Init /\ Acotada
      OBVIOUS
    <2>1. DOMAIN maranas = {} /\ obsoleta = FALSE
      BY DEF Init
    <2>2. QED
      BY <2>1 DEF Ciclo!Init, Ciclo!Ids, CicloDe, ConfirmanDe, Acotada
  <1>2. IInv /\ Acotada /\ [Next]_vars => Acotada' /\ [Ciclo!Next]_<<CicloDe, ConfirmanDe>>
    BY PasoSimula DEF Simula
  <1>3. QED BY <1>1, <1>2, SpecIInv, PTL DEF Spec, CicloCumplido, Ciclo!Spec
=============================================================================
