----------------------------- MODULE CobrosProofs -----------------------------
(***************************************************************************)
(* Proofs about Cobros for any number of racing requests, charges,         *)
(* disputes, milestones and payment methods.                               *)
(*                                                                         *)
(* Only the area that moves changes its rows, so each area has an          *)
(* invariant of its own, proved from the steps of its module.              *)
(***************************************************************************)
EXTENDS Cobros, Lemas, SequenceTheorems

-----------------------------------------------------------------------------
(* The payment and the disputes of a contract *)

LEMMA PeticionesDePago == DePeticiones(PeticionPago)
  BY NadaNoEsPago DEF DePeticiones, PeticionPago

ConOp(h, ops) == peticion[h] # Nada /\ peticion[h].op \in ops
DelPago == {"confirmar", "reintentar", "reembolsar"}

\* What a request knows of the rows it loaded.
SabeDelPago(h) ==
    ConOp(h, DelPago) =>
        /\ pago # Nada
        /\ <<"pago">> \in peticion[h].lee
        /\ peticion[h].op = "confirmar" /\ ~peticion[h].vieja => pago.estado = "pendiente"
        /\ peticion[h].op = "reintentar" /\ ~peticion[h].vieja => pago.estado = "fallido"
SabeDeDisputas(h) ==
    ConOp(h, {"disputar"}) =>
        /\ <<"disputas">> \in peticion[h].lee
        /\ ~peticion[h].vieja => Abiertas = {}

\* The charge of slot h is its own.
CobroPropio(h) ==
    Cobrando(h) =>
        /\ Dato(h) \in cobros \ perdidos
        /\ pago # Nada => pago.referencia # Dato(h)
        /\ \A g \in Hilos \ {h} : Cobrando(g) => Dato(g) # Dato(h)

\* What holds however requests race: charges are of one request each, what is
\* pending or failed refers to none, and a request that is not behind knows the
\* estado it loaded.
FirmePagos ==
    /\ Ranuras(PeticionPago)
    /\ pago \in PagoRow \cup {Nada}
    /\ disputas \in Seq(EstadoDisputa)
    /\ intentos \in Nat
    /\ cobros \subseteq 1..intentos
    /\ perdidos \subseteq cobros
    /\ CompletadoCobrado
    /\ pago # Nada =>
            /\ pago.referencia \notin perdidos
            /\ pago.estado \in {"pendiente", "fallido"} => pago.referencia = Nada
    /\ \A h \in Hilos : CobroPropio(h) /\ SabeDelPago(h) /\ SabeDeDisputas(h)

PagosEnSerie == CobroUnicoEnSerie /\ DisputaUnicaEnSerie
IInvPagos == FirmePagos /\ PagosEnSerie

\* Reading the payment row.
LEMMA PagoCampos ==
    ASSUME NEW r \in PagoRow
    PROVE  /\ r # Nada
           /\ r.estado \in EstadoPago
           /\ r.referencia \in Nat \cup {Nada}
           /\ \A e \in EstadoPago, n \in Nat \cup {Nada}, b \in BOOLEAN :
                /\ [estado |-> e, referencia |-> n, motivo |-> b] \in PagoRow
                /\ [estado |-> e, referencia |-> n, motivo |-> b] # Nada
  BY NadaNoEsPago DEF PagoRow

\* The charges on their way, one by one.
LEMMA EnVueloEs ==
    ASSUME NEW n
    PROVE  n \in EnVuelo <=> \E h \in Hilos : Cobrando(h) /\ Dato(h) = n
  BY DEF EnVuelo

\* The request of slot g knows what it has to, and charges what it charged.
Queda(g) ==
    /\ SabeDelPago(g)' /\ SabeDeDisputas(g)'
    /\ Cobrando(g)' <=> Cobrando(g)
    /\ Cobrando(g) => Dato(g)' = Dato(g)

\* A request that a step leaves alone, or ages, goes on knowing what it knew: it
\* falls behind if the row it loaded is written.
LEMMA SabeIgual ==
    ASSUME NEW g, NEW W, SigueIgual(g, W), SabeDelPago(g), SabeDeDisputas(g),
           pago' = pago \/ (<<"pago">> \in W /\ pago' # Nada),
           disputas' = disputas \/ <<"disputas">> \in W
    PROVE  Queda(g)
  <1>1. Abiertas' = Abiertas \/ <<"disputas">> \in W
    BY DEF Abiertas
  <1>2. SabeDelPago(g)'
    BY DEF SigueIgual, SabeDelPago, ConOp
  <1>3. SabeDeDisputas(g)'
    BY <1>1 DEF SigueIgual, SabeDeDisputas, ConOp
  <1>4. /\ Cobrando(g)' <=> Cobrando(g)
        /\ Cobrando(g) => Dato(g)' = Dato(g)
    BY DEF SigueIgual, Cobrando, EnCurso, Dato
  <1>5. QED BY <1>2, <1>3, <1>4 DEF Queda

LEMMA LibreNadaSabe ==
    ASSUME NEW g, peticion'[g] = Nada
    PROVE  SabeDelPago(g)' /\ SabeDeDisputas(g)' /\ ~Cobrando(g)'
  BY DEF SabeDelPago, SabeDeDisputas, ConOp, Cobrando, EnCurso

\* Steps that leave the payment and its charges alone.
LEMMA PagoAjeno ==
    ASSUME IInvPagos, Ranuras(PeticionPago)', UNCHANGED <<pago, intentos, cobros, perdidos>>,
           \A g \in Hilos : Queda(g),
           disputas' \in Seq(EstadoDisputa),
           ~obsoleta' => ~obsoleta
    PROVE  FirmePagos' /\ CobroUnicoEnSerie'
  <1>1. \A g \in Hilos : /\ SabeDelPago(g)' /\ SabeDeDisputas(g)'
                         /\ Cobrando(g)' <=> Cobrando(g)
                         /\ Cobrando(g) => Dato(g)' = Dato(g)
    BY DEF Queda
  <1>2. \A g \in Hilos : CobroPropio(g)'
    BY <1>1 DEF IInvPagos, FirmePagos, CobroPropio
  <1>3. CompletadoCobrado'
    BY DEF CompletadoCobrado, IInvPagos, FirmePagos
  <1>4. CobroUnicoEnSerie'
    <2>1. EnVuelo' = EnVuelo
      BY <1>1 DEF EnVuelo
    <2>2. QED BY <2>1 DEF CobroUnicoEnSerie, IInvPagos, PagosEnSerie
  <1>5. QED BY <1>1, <1>2, <1>3, <1>4 DEF IInvPagos, FirmePagos


LEMMA PasoMueve ==
    ASSUME IInvPagos, MueveContrato
    PROVE  IInvPagos'
  <1>1. /\ Ranuras(PeticionPago)' /\ obsoleta' = obsoleta
        /\ \A g \in Hilos : SigueIgual(g, {<<"contrato">>})
    <2>1. Escriben({<<"contrato">>})
      BY DEF MueveContrato
    <2>2. QED BY <2>1, AlEscribir, PeticionesDePago DEF IInvPagos, FirmePagos
  <1>2. UNCHANGED <<pago, disputas, intentos, cobros, perdidos>>
    BY DEF MueveContrato
  <1>3. FirmePagos' /\ CobroUnicoEnSerie'
    <2>1. \A g \in Hilos : Queda(g)
      BY <1>1, <1>2, SabeIgual DEF IInvPagos, FirmePagos
    <2>2. QED BY <1>1, <1>2, <2>1, PagoAjeno DEF IInvPagos, FirmePagos
  <1>4. DisputaUnicaEnSerie'
    BY <1>1, <1>2 DEF IInvPagos, PagosEnSerie, DisputaUnicaEnSerie, Abiertas
  <1>5. QED BY <1>3, <1>4 DEF IInvPagos, PagosEnSerie

\* The requests that touch neither the payment nor its charges arrive and fail.
LEMMA PasoLlega ==
    ASSUME IInvPagos, NEW h \in Hilos,
           \/ CrearPago(h) \/ ReembolsarPago(h) \/ AbrirDisputa(h) \/ PagoDuplicado(h)
           \/ \E d \in DOMAIN disputas : ResolverDisputa(h, d)
    PROVE  IInvPagos'
  <1> DEFINE Hecho == /\ Ranuras(PeticionPago)' /\ obsoleta' = obsoleta
                      /\ UNCHANGED pagos
                      /\ \A g \in Hilos \ {h} : peticion'[g] = peticion[g]
                      /\ SabeDelPago(h)' /\ SabeDeDisputas(h)'
                      /\ ~Cobrando(h) /\ ~Cobrando(h)'
  <1>0. Ranuras(PeticionPago) /\ DePeticiones(PeticionPago)
    BY PeticionesDePago DEF IInvPagos, FirmePagos
  <1>1. ASSUME CrearPago(h) PROVE Hecho
    <2>1. Llega(h, "crear_pago", {<<"contrato">>}, Nada) /\ UNCHANGED pagos
      BY <1>1 DEF CrearPago
    <2>2. PeticionNueva("crear_pago", {<<"contrato">>}, Nada) \in PeticionPago
      BY DEF PeticionNueva, PeticionPago, Peticion
    <2>3. /\ Ranuras(PeticionPago)' /\ obsoleta' = obsoleta
          /\ peticion[h] = Nada /\ peticion'[h].op = "crear_pago"
          /\ \A g \in Hilos \ {h} : peticion'[g] = peticion[g]
      BY <1>0, <2>1, <2>2, AlLlegar
    <2>4. QED BY <2>1, <2>3 DEF SabeDelPago, SabeDeDisputas, ConOp, DelPago, Cobrando, EnCurso
  <1>2. ASSUME ReembolsarPago(h) PROVE Hecho
    <2>1. Llega(h, "reembolsar", {<<"pago">>}, Nada) /\ UNCHANGED pagos /\ pago # Nada
      BY <1>2 DEF ReembolsarPago
    <2>2. PeticionNueva("reembolsar", {<<"pago">>}, Nada) \in PeticionPago
      BY DEF PeticionNueva, PeticionPago, Peticion
    <2>3. /\ Ranuras(PeticionPago)' /\ obsoleta' = obsoleta
          /\ peticion[h] = Nada /\ peticion'[h].op = "reembolsar"
          /\ peticion'[h].lee = {<<"pago">>}
          /\ \A g \in Hilos \ {h} : peticion'[g] = peticion[g]
      BY <1>0, <2>1, <2>2, AlLlegar
    <2>4. QED BY <2>1, <2>3
            DEF SabeDelPago, SabeDeDisputas, ConOp, DelPago, Cobrando, EnCurso, pagos
  <1>3. ASSUME AbrirDisputa(h) PROVE Hecho
    <2>1. /\ Llega(h, "disputar", {<<"contrato">>, <<"disputas">>}, Nada)
          /\ UNCHANGED pagos /\ Abiertas = {}
      BY <1>3 DEF AbrirDisputa
    <2>2. PeticionNueva("disputar", {<<"contrato">>, <<"disputas">>}, Nada) \in PeticionPago
      BY DEF PeticionNueva, PeticionPago, Peticion
    <2>3. /\ Ranuras(PeticionPago)' /\ obsoleta' = obsoleta
          /\ peticion[h] = Nada /\ peticion'[h].op = "disputar"
          /\ peticion'[h].lee = {<<"contrato">>, <<"disputas">>}
          /\ \A g \in Hilos \ {h} : peticion'[g] = peticion[g]
      BY <1>0, <2>1, <2>2, AlLlegar
    <2>4. Abiertas' = {}
      BY <2>1 DEF Abiertas, pagos
    <2>5. QED BY <2>1, <2>3, <2>4
            DEF SabeDelPago, SabeDeDisputas, ConOp, DelPago, Cobrando, EnCurso
  <1>4. ASSUME PagoDuplicado(h) PROVE Hecho
    <2>1. EnCurso(h, "crear_pago") /\ Falla(h) /\ UNCHANGED pagos
      BY <1>4 DEF PagoDuplicado
    <2>2. /\ Ranuras(PeticionPago)' /\ obsoleta' = obsoleta
          /\ peticion'[h] = Nada
          /\ \A g \in Hilos \ {h} : peticion'[g] = peticion[g]
      BY <1>0, <2>1, AlFallar
    <2>3. QED BY <2>1, <2>2, LibreNadaSabe DEF Cobrando, EnCurso
  <1>5. ASSUME NEW d \in DOMAIN disputas, ResolverDisputa(h, d)
        PROVE  Hecho
    <2>1. Llega(h, "resolver", {<<"disputas">>}, d) /\ UNCHANGED pagos
      BY <1>5 DEF ResolverDisputa
    <2>2. PICK n \in Nat : n = d
      BY <1>5, LenProperties DEF IInvPagos, FirmePagos
    <2>3. PeticionNueva("resolver", {<<"disputas">>}, n) \in PeticionPago
      BY DEF PeticionNueva, PeticionPago, Peticion
    <2>4. /\ Ranuras(PeticionPago)' /\ obsoleta' = obsoleta
          /\ peticion[h] = Nada /\ peticion'[h].op = "resolver"
          /\ \A g \in Hilos \ {h} : peticion'[g] = peticion[g]
      BY <1>0, <2>1, <2>2, <2>3, AlLlegar
    <2>5. QED BY <2>1, <2>4 DEF SabeDelPago, SabeDeDisputas, ConOp, DelPago, Cobrando, EnCurso
  <1>6. Hecho
    BY <1>1, <1>2, <1>3, <1>4, <1>5
  <1> HIDE DEF Hecho
  <1>7. \A g \in Hilos \ {h} : SigueIgual(g, {})
    BY <1>6, IgualSinAge DEF Hecho
  <1>8. FirmePagos' /\ CobroUnicoEnSerie'
    <2>1. disputas' = disputas /\ disputas \in Seq(EstadoDisputa)
          /\ UNCHANGED <<pago, intentos, cobros, perdidos>>
      BY <1>6 DEF Hecho, pagos, IInvPagos, FirmePagos
    <2>2. Queda(h)
      BY <1>6 DEF Hecho, Queda
    <2>3. \A g \in Hilos \ {h} : Queda(g)
      BY <1>7, <2>1, SabeIgual DEF IInvPagos, FirmePagos
    <2>4. QED BY <1>6, <2>1, <2>2, <2>3, PagoAjeno DEF Hecho
  <1>9. DisputaUnicaEnSerie'
    BY <1>6 DEF Hecho, pagos, IInvPagos, PagosEnSerie, DisputaUnicaEnSerie, Abiertas
  <1>10. QED BY <1>8, <1>9 DEF IInvPagos, PagosEnSerie


\* A dispute is opened or resolved.
LEMMA PasoDisputas ==
    ASSUME IInvPagos, NEW h \in Hilos, CommitDisputa(h) \/ CommitResolver(h)
    PROVE  IInvPagos'
  <1>0. Ranuras(PeticionPago) /\ DePeticiones(PeticionPago) /\ disputas \in Seq(EstadoDisputa)
    BY PeticionesDePago DEF IInvPagos, FirmePagos
  <1>1. /\ UNCHANGED <<contrato, pago, intentos, cobros, perdidos>>
        /\ Termina(h, {<<"disputas">>})
        /\ peticion[h] # Nada /\ ~Cobrando(h)
    BY DEF CommitDisputa, CommitResolver, EnCurso, Cobrando
  <1>2. /\ Ranuras(PeticionPago)'
        /\ ~obsoleta' => ~obsoleta /\ ~peticion[h].vieja
        /\ peticion'[h] = Nada
        /\ \A g \in Hilos \ {h} : SigueIgual(g, {<<"disputas">>})
    BY <1>0, <1>1, AlTerminar
  <1>3. disputas' \in Seq(EstadoDisputa) /\ (DisputaUnicaEnSerie /\ ~obsoleta' =>
            \A d, e \in Abiertas' : d = e)
    <2>1. CASE CommitDisputa(h)
      <3>1. disputas' = Append(disputas, "abierta") /\ ConOp(h, {"disputar"})
        BY <2>1 DEF CommitDisputa, EnCurso, ConOp
      <3>2. disputas' \in Seq(EstadoDisputa)
        BY <1>0, <3>1, AppendProperties DEF EstadoDisputa
      <3>3. ~obsoleta' => Abiertas = {}
        BY <1>2, <3>1 DEF IInvPagos, FirmePagos, SabeDeDisputas
      <3>4. Abiertas = {} => Abiertas' \subseteq {Len(disputas) + 1}
        <4>1. /\ DOMAIN disputas' = 1..(Len(disputas) + 1)
              /\ \A d \in 1..Len(disputas) : disputas'[d] = disputas[d]
              /\ DOMAIN disputas = 1..Len(disputas)
              /\ Len(disputas) \in Nat
          BY <1>0, <3>1, AppendProperties, LenProperties DEF EstadoDisputa
        <4>2. QED BY <4>1 DEF Abiertas
      <3>5. QED BY <3>2, <3>3, <3>4
    <2>2. CASE CommitResolver(h)
      <3>1. disputas' = [disputas EXCEPT ![Dato(h)] = "resuelta"]
        BY <2>2 DEF CommitResolver
      <3>2. disputas' \in Seq(EstadoDisputa)
        <4>1. CASE Dato(h) \in 1..Len(disputas)
          BY <1>0, <3>1, <4>1, ExceptSeq DEF EstadoDisputa
        <4>2. CASE Dato(h) \notin 1..Len(disputas)
          <5>1. disputas' = disputas
            BY <1>0, <3>1, <4>2, LenProperties
          <5>2. QED BY <1>0, <5>1
        <4>3. QED BY <4>1, <4>2
      <3>3. Abiertas' \subseteq Abiertas
        BY <1>0, <3>1 DEF Abiertas
      <3>4. QED BY <1>2, <3>2, <3>3 DEF DisputaUnicaEnSerie
    <2>3. QED BY <2>1, <2>2
  <1>4. \A g \in Hilos : Queda(g)
    <2>1. Queda(h)
      BY <1>1, <1>2, LibreNadaSabe DEF Queda
    <2>2. \A g \in Hilos \ {h} : Queda(g)
      BY <1>1, <1>2, SabeIgual DEF IInvPagos, FirmePagos
    <2>3. QED BY <2>1, <2>2
  <1>5. FirmePagos' /\ CobroUnicoEnSerie'
    BY <1>1, <1>2, <1>3, <1>4, PagoAjeno
  <1>6. DisputaUnicaEnSerie'
    BY <1>3 DEF IInvPagos, PagosEnSerie, DisputaUnicaEnSerie
  <1>7. QED BY <1>5, <1>6 DEF IInvPagos, PagosEnSerie

\* Charges are numbers, and those that died were charges.
LEMMA CobrosNumeros ==
    ASSUME IInvPagos
    PROVE  /\ Nada \notin cobros /\ Nada \notin perdidos
           /\ cobros \subseteq Nat
  <1>1. cobros \subseteq 1..intentos /\ perdidos \subseteq cobros /\ intentos \in Nat
    BY DEF IInvPagos, FirmePagos
  <1>2. \A n \in cobros : n \in Nat
    BY <1>1
  <1>3. QED BY <1>1, <1>2, NadaNoEsNumero

\* A commit that writes the row of the payment keeps what holds under races.
LEMMA PasoEscribe ==
    ASSUME IInvPagos, NEW h \in Hilos, peticion[h] # Nada,
           pago' \in PagoRow, Termina(h, {<<"pago">>}),
           UNCHANGED <<contrato, disputas, intentos, cobros, perdidos>>,
           pago'.estado = "completado" => cobros # {},
           pago'.estado \in {"pendiente", "fallido"} => pago'.referencia = Nada,
           pago'.referencia # Nada =>
                /\ pago'.referencia \in cobros \ perdidos
                /\ \A g \in Hilos \ {h} : Cobrando(g) => Dato(g) # pago'.referencia
    PROVE  /\ FirmePagos' /\ DisputaUnicaEnSerie'
           /\ ~obsoleta' => ~obsoleta /\ ~peticion[h].vieja
           /\ ~Cobrando(h)'
           /\ \A g \in Hilos \ {h} : Queda(g)
  <1>0. Ranuras(PeticionPago) /\ DePeticiones(PeticionPago)
    BY PeticionesDePago DEF IInvPagos, FirmePagos
  <1>1. /\ Ranuras(PeticionPago)'
        /\ ~obsoleta' => ~obsoleta /\ ~peticion[h].vieja
        /\ peticion'[h] = Nada
        /\ \A g \in Hilos \ {h} : SigueIgual(g, {<<"pago">>})
    BY <1>0, AlTerminar
  <1>2. pago' # Nada
    BY PagoCampos
  <1>3. \A g \in Hilos \ {h} : Queda(g)
    BY <1>1, <1>2, SabeIgual DEF IInvPagos, FirmePagos
  <1>4. SabeDelPago(h)' /\ SabeDeDisputas(h)' /\ ~Cobrando(h)'
    BY <1>1, LibreNadaSabe
  <1>5. \A g \in Hilos : CobroPropio(g)'
    <2>1. CobroPropio(h)'
      BY <1>4 DEF CobroPropio
    <2>2. ASSUME NEW g \in Hilos \ {h}, Cobrando(g)'
          PROVE  /\ Dato(g)' \in cobros' \ perdidos'
                 /\ pago'.referencia # Dato(g)'
                 /\ \A f \in Hilos \ {g} : Cobrando(f)' => Dato(f)' # Dato(g)'
      <3>1. Cobrando(g) /\ Dato(g)' = Dato(g) /\ CobroPropio(g)
        BY <1>3, <2>2 DEF Queda, IInvPagos, FirmePagos
      <3>2. Dato(g) \in cobros \ perdidos
        BY <3>1 DEF CobroPropio
      <3>3. pago'.referencia # Dato(g)
        BY <3>1, <3>2, CobrosNumeros
      <3>4. ASSUME NEW f \in Hilos \ {g}, Cobrando(f)'
            PROVE  Dato(f)' # Dato(g)'
        <4>1. f # h
          BY <1>4, <3>4
        <4>2. Cobrando(f) /\ Dato(f)' = Dato(f)
          BY <1>3, <3>4, <4>1 DEF Queda
        <4>3. QED BY <3>1, <4>2 DEF CobroPropio
      <3>5. QED BY <3>1, <3>2, <3>3, <3>4
    <2>3. ASSUME NEW g \in Hilos \ {h}
          PROVE  CobroPropio(g)'
      BY <2>2, <2>3 DEF CobroPropio
    <2>4. QED BY <2>1, <2>3
  <1>6. CompletadoCobrado'
    BY DEF CompletadoCobrado
  <1>7. FirmePagos'
    <2>1. pago'.referencia \notin perdidos'
      BY CobrosNumeros
    <2>2. \A g \in Hilos : CobroPropio(g)' /\ SabeDelPago(g)' /\ SabeDeDisputas(g)'
      BY <1>3, <1>4, <1>5 DEF Queda
    <2>3. /\ disputas' \in Seq(EstadoDisputa) /\ intentos' \in Nat
          /\ cobros' \subseteq 1..intentos' /\ perdidos' \subseteq cobros'
      BY DEF IInvPagos, FirmePagos
    <2>4. QED BY <1>1, <1>6, <2>1, <2>2, <2>3 DEF FirmePagos
  <1>8. DisputaUnicaEnSerie'
    BY <1>1 DEF IInvPagos, PagosEnSerie, DisputaUnicaEnSerie, Abiertas
  <1>9. QED BY <1>1, <1>3, <1>4, <1>7, <1>8

\* What the request that wrote leaves of the charges on their way.
LEMMA EnVueloSin ==
    ASSUME NEW h \in Hilos, ~Cobrando(h)', \A g \in Hilos \ {h} : Queda(g),
           \A g \in Hilos \ {h} : Cobrando(h) /\ Cobrando(g) => Dato(g) # Dato(h)
    PROVE  /\ Cobrando(h) => EnVuelo' = EnVuelo \ {Dato(h)}
           /\ ~Cobrando(h) => EnVuelo' = EnVuelo
  <1>1. \A g \in Hilos \ {h} : /\ Cobrando(g)' <=> Cobrando(g)
                               /\ Cobrando(g) => Dato(g)' = Dato(g)
    BY DEF Queda
  <1>2. ASSUME NEW n
        PROVE  /\ n \in EnVuelo <=> \E g \in Hilos : Cobrando(g) /\ Dato(g) = n
               /\ n \in EnVuelo' <=> \E g \in Hilos : Cobrando(g)' /\ Dato(g)' = n
    BY DEF EnVuelo
  <1>3. ASSUME NEW n, Cobrando(h)
        PROVE  n \in EnVuelo' <=> n \in EnVuelo \ {Dato(h)}
    BY <1>1, <1>2, <1>3
  <1>4. ASSUME NEW n, ~Cobrando(h)
        PROVE  n \in EnVuelo' <=> n \in EnVuelo
    BY <1>1, <1>2, <1>4
  <1>5. QED BY <1>3, <1>4

\* The payment is created, refunded, or its charge is rejected: what it refers
\* to is what it referred to, or nothing.
LEMMA PasoSinCargo ==
    ASSUME IInvPagos, NEW h \in Hilos,
           CommitCrearPago(h) \/ CommitReembolso(h) \/ CommitRechazo(h)
    PROVE  IInvPagos'
  <1>0. /\ UNCHANGED <<contrato, disputas, intentos, cobros, perdidos>>
        /\ Termina(h, {<<"pago">>})
        /\ peticion[h] # Nada /\ ~Cobrando(h)
    BY DEF CommitCrearPago, CommitReembolso, CommitRechazo, EscribePago, EnCurso, Cobrando, Dato
  <1>1. /\ pago' \in PagoRow
        /\ pago'.estado = "completado" => pago # Nada /\ pago.estado = "completado"
        /\ pago'.estado \in {"pendiente", "fallido"} => pago'.referencia = Nada
        /\ pago'.referencia = Nada \/ (pago # Nada /\ pago'.referencia = pago.referencia)
    <2>1. CASE CommitCrearPago(h)
      <3>1. pago' = [estado |-> "pendiente", referencia |-> Nada, motivo |-> FALSE]
        BY <2>1 DEF CommitCrearPago
      <3>2. QED BY <3>1 DEF PagoRow, EstadoPago
    <2>2. CASE CommitReembolso(h)
      <3>1. pago \in PagoRow
        BY <2>2 DEF CommitReembolso, IInvPagos, FirmePagos, SabeDelPago, ConOp, DelPago, EnCurso
      <3>2. pago' = [pago EXCEPT !.estado = "reembolsado", !.motivo = TRUE]
        BY <2>2 DEF CommitReembolso, EscribePago
      <3>3. QED BY <3>1, <3>2, PagoCampos DEF PagoRow, EstadoPago
    <2>3. CASE CommitRechazo(h)
      <3>1. pago \in PagoRow
        BY <2>3 DEF CommitRechazo, IInvPagos, FirmePagos, SabeDelPago, ConOp, DelPago, EnCurso
      <3>2. \/ pago' = [pago EXCEPT !.estado = "fallido", !.referencia = Nada]
            \/ \E r \in {pago.referencia, Nada} : pago' = [pago EXCEPT !.referencia = r]
        BY <2>3 DEF CommitRechazo, EscribePago
      <3>3. pago.estado \in {"pendiente", "fallido"} => pago.referencia = Nada
        BY <3>1, PagoCampos DEF IInvPagos, FirmePagos
      <3>4. CASE pago' = [pago EXCEPT !.estado = "fallido", !.referencia = Nada]
        BY <3>1, <3>4 DEF PagoRow, EstadoPago
      <3>5. ASSUME NEW r \in {pago.referencia, Nada}, pago' = [pago EXCEPT !.referencia = r]
            PROVE  /\ pago' \in PagoRow /\ pago'.estado = pago.estado
                   /\ pago'.referencia \in {pago.referencia, Nada}
        BY <3>1, <3>5 DEF PagoRow
      <3>6. pago # Nada
        BY <3>1, PagoCampos
      <3>7. QED BY <3>2, <3>3, <3>4, <3>5, <3>6
    <2>4. QED BY <2>1, <2>2, <2>3
  <1>2. /\ pago'.estado = "completado" => cobros # {}
        /\ pago'.referencia # Nada =>
                /\ pago'.referencia \in cobros \ perdidos
                /\ \A g \in Hilos \ {h} : Cobrando(g) => Dato(g) # pago'.referencia
    BY <1>1 DEF IInvPagos, FirmePagos, CompletadoCobrado, CobroPropio
  <1>3. /\ FirmePagos' /\ DisputaUnicaEnSerie'
        /\ ~obsoleta' => ~obsoleta /\ ~peticion[h].vieja
        /\ ~Cobrando(h)'
        /\ \A g \in Hilos \ {h} : Queda(g)
    BY <1>0, <1>1, <1>2, PasoEscribe
  <1>4. EnVuelo' = EnVuelo
    BY <1>0, <1>3, EnVueloSin
  <1>5. ~obsoleta' => (IF pago = Nada THEN {} ELSE {pago.referencia} \ {Nada})
                         = {pago'.referencia} \ {Nada}
    <2>1. CASE CommitCrearPago(h)
      <3>1. pago' = [estado |-> "pendiente", referencia |-> Nada, motivo |-> FALSE] /\ pago = Nada
        BY <2>1 DEF CommitCrearPago
      <3>2. pago'.referencia = Nada
        BY <3>1
      <3>3. QED BY <3>1, <3>2
    <2>2. CASE CommitReembolso(h)
      <3>1. pago \in PagoRow /\ pago # Nada
        BY <2>2, PagoCampos
           DEF CommitReembolso, IInvPagos, FirmePagos, SabeDelPago, ConOp, DelPago, EnCurso
      <3>2. pago' = [pago EXCEPT !.estado = "reembolsado", !.motivo = TRUE]
        BY <2>2 DEF CommitReembolso, EscribePago
      <3>3. pago'.referencia = pago.referencia
        BY <3>1, <3>2 DEF PagoRow
      <3>4. QED BY <3>1, <3>3
    <2>3. CASE CommitRechazo(h)
      <3>1. /\ ConOp(h, {"confirmar", "reintentar"}) /\ pago # Nada
            /\ ~peticion[h].vieja => pago.estado \in {"pendiente", "fallido"}
        BY <2>3 DEF CommitRechazo, IInvPagos, FirmePagos, SabeDelPago, ConOp, DelPago, EnCurso
      <3>2. ~peticion[h].vieja => pago.referencia = Nada
        BY <3>1 DEF IInvPagos, FirmePagos
      <3>3. QED BY <1>1, <1>3, <3>1, <3>2
    <2>4. QED BY <2>1, <2>2, <2>3
  <1>6. pago' # Nada
    BY <1>1, PagoCampos
  <1>7. CobroUnicoEnSerie'
    BY <1>0, <1>3, <1>4, <1>5, <1>6 DEF CobroUnicoEnSerie, IInvPagos, PagosEnSerie
  <1>8. QED BY <1>3, <1>7 DEF IInvPagos, PagosEnSerie

\* The charge the gateway accepted becomes the one the payment refers to.
LEMMA PasoCargo ==
    ASSUME IInvPagos, NEW h \in Hilos, CommitCargo(h)
    PROVE  IInvPagos'
  <1>0. /\ UNCHANGED <<contrato, disputas, intentos, cobros, perdidos>>
        /\ Termina(h, {<<"pago">>})
        /\ peticion[h] # Nada /\ Cobrando(h)
        /\ ConOp(h, {"confirmar", "reintentar"})
        /\ pago' = [pago EXCEPT !.estado = "completado", !.referencia = Dato(h)]
    BY DEF CommitCargo, EscribePago, EnCurso, Cobrando, ConOp
  <1>1. /\ pago \in PagoRow /\ pago # Nada
        /\ ~peticion[h].vieja => pago.estado \in {"pendiente", "fallido"}
    BY <1>0 DEF IInvPagos, FirmePagos, SabeDelPago, ConOp, DelPago
  <1>2. /\ Dato(h) \in cobros \ perdidos /\ Dato(h) \in Nat
        /\ \A g \in Hilos \ {h} : Cobrando(g) => Dato(g) # Dato(h)
    <2>1. CobroPropio(h)
      BY DEF IInvPagos, FirmePagos
    <2>2. QED BY <1>0, <2>1, CobrosNumeros DEF CobroPropio
  <1>3. pago' \in PagoRow /\ pago'.estado = "completado" /\ pago'.referencia = Dato(h)
    BY <1>0, <1>1, <1>2 DEF PagoRow, EstadoPago
  <1>4. /\ FirmePagos' /\ DisputaUnicaEnSerie'
        /\ ~obsoleta' => ~obsoleta /\ ~peticion[h].vieja
        /\ ~Cobrando(h)'
        /\ \A g \in Hilos \ {h} : Queda(g)
    BY <1>0, <1>2, <1>3, PasoEscribe
  <1>5. EnVuelo' = EnVuelo \ {Dato(h)}
    BY <1>0, <1>2, <1>4, EnVueloSin
  <1>6. Dato(h) \in EnVuelo
    BY <1>0, EnVueloEs
  <1>7. pago' # Nada /\ Dato(h) # Nada
    BY <1>2, <1>3, PagoCampos, NadaNoEsNumero
  <1>8. ~peticion[h].vieja => pago.referencia = Nada
    BY <1>1 DEF IInvPagos, FirmePagos
  <1>9. CobroUnicoEnSerie'
    <2>1. ~obsoleta' => cobros \ (perdidos \cup EnVuelo) = {}
      BY <1>1, <1>4, <1>8 DEF CobroUnicoEnSerie, IInvPagos, PagosEnSerie
    <2>2. ~obsoleta' => cobros' \ (perdidos' \cup EnVuelo') = {Dato(h)}
      BY <1>0, <1>2, <1>5, <1>6, <2>1
    <2>3. QED BY <1>3, <1>7, <2>2 DEF CobroUnicoEnSerie
  <1>10. QED BY <1>4, <1>9 DEF IInvPagos, PagosEnSerie

\* The gateway is asked: an accepted charge is new, and on its way.
LEMMA PasoCobra ==
    ASSUME IInvPagos, NEW h \in Hilos, ConfirmarPago(h) \/ ReintentarPago(h)
    PROVE  IInvPagos'
  <1>0. PICK op \in {"confirmar", "reintentar"}, ok \in BOOLEAN :
            /\ op = "confirmar" => pago.estado = "pendiente"
            /\ op = "reintentar" => pago.estado = "fallido"
            /\ intentos' = intentos + 1
            /\ Llega(h, op, {<<"pago">>}, IF ok THEN intentos + 1 ELSE Nada)
            /\ cobros' = IF ok THEN cobros \cup {intentos + 1} ELSE cobros
    BY RespuestasSonBooleanas DEF ConfirmarPago, ReintentarPago, Cobra
  <1>1. pago # Nada /\ UNCHANGED <<contrato, pago, disputas, perdidos>>
    BY DEF ConfirmarPago, ReintentarPago, Cobra
  <1>2. /\ intentos \in Nat /\ intentos + 1 \in Nat
        /\ cobros \subseteq 1..intentos /\ intentos + 1 \notin cobros
        /\ perdidos \subseteq cobros /\ intentos + 1 # Nada
    <2>1. intentos \in Nat /\ cobros \subseteq 1..intentos /\ perdidos \subseteq cobros
      BY DEF IInvPagos, FirmePagos
    <2>2. intentos + 1 \in Nat /\ intentos + 1 \notin 1..intentos
      BY <2>1
    <2>3. QED BY <2>1, <2>2, NadaNoEsNumero
  <1> DEFINE d == IF ok THEN intentos + 1 ELSE Nada
  <1>3. PeticionNueva(op, {<<"pago">>}, d) \in PeticionPago
    BY <1>2 DEF PeticionNueva, PeticionPago, Peticion
  <1>4. /\ Ranuras(PeticionPago)' /\ obsoleta' = obsoleta
        /\ peticion[h] = Nada /\ peticion'[h] # Nada
        /\ peticion'[h].op = op /\ peticion'[h].lee = {<<"pago">>} /\ peticion'[h].dato = d
        /\ \A g \in Hilos \ {h} : peticion'[g] = peticion[g]
    <2>1. Ranuras(PeticionPago) /\ DePeticiones(PeticionPago)
      BY PeticionesDePago DEF IInvPagos, FirmePagos
    <2>2. Llega(h, op, {<<"pago">>}, d)
      BY <1>0
    <2> HIDE DEF d
    <2>3. QED BY <1>3, <2>1, <2>2, AlLlegar
  <1>5. \A g \in Hilos \ {h} : Queda(g)
    <2>1. \A g \in Hilos \ {h} : SigueIgual(g, {})
      BY <1>4, IgualSinAge
    <2>2. QED BY <1>1, <2>1, SabeIgual DEF IInvPagos, FirmePagos
  <1>6. /\ SabeDelPago(h)' /\ SabeDeDisputas(h)'
        /\ ~Cobrando(h)
        /\ Cobrando(h)' <=> ok
        /\ ok => Dato(h)' = intentos + 1
    BY <1>0, <1>1, <1>2, <1>4
       DEF SabeDelPago, SabeDeDisputas, ConOp, DelPago, Cobrando, EnCurso, Dato
  <1>7. \A g \in Hilos \ {h} : Cobrando(g) => Dato(g) \in cobros /\ Dato(g) # intentos + 1
    BY <1>2 DEF IInvPagos, FirmePagos, CobroPropio
  <1>8. pago.referencia # intentos + 1
    BY <1>1, <1>2 DEF IInvPagos, FirmePagos, CompletadoCobrado
  <1>9. ASSUME NEW g \in Hilos
        PROVE  CobroPropio(g)'
    <2>1. CASE g = h
      BY <1>0, <1>1, <1>2, <1>5, <1>6, <1>7, <1>8, <2>1 DEF CobroPropio, Queda
    <2>2. CASE g # h
      <3>1. CobroPropio(g) /\ cobros \subseteq cobros'
        BY <1>0 DEF IInvPagos, FirmePagos
      <3>2. QED BY <1>1, <1>5, <1>6, <1>7, <2>2, <3>1 DEF CobroPropio, Queda
    <2>3. QED BY <2>1, <2>2
  <1>10. FirmePagos'
    <2>1. /\ pago' \in PagoRow \cup {Nada} /\ disputas' \in Seq(EstadoDisputa)
          /\ pago'.referencia \notin perdidos'
          /\ pago'.estado \in {"pendiente", "fallido"} => pago'.referencia = Nada
      BY <1>1 DEF IInvPagos, FirmePagos
    <2>2. intentos' \in Nat /\ cobros' \subseteq 1..intentos' /\ perdidos' \subseteq cobros'
      <3>1. \A n \in cobros : n \in 1..(intentos + 1)
        BY <1>2
      <3>2. intentos + 1 \in 1..(intentos + 1)
        BY <1>2
      <3>3. QED BY <1>0, <1>1, <1>2, <3>1, <3>2
    <2>3. CompletadoCobrado'
      BY <1>0, <1>1 DEF IInvPagos, FirmePagos, CompletadoCobrado
    <2>4. \A g \in Hilos : SabeDelPago(g)' /\ SabeDeDisputas(g)'
      BY <1>5, <1>6 DEF Queda
    <2>5. QED BY <1>4, <1>9, <2>1, <2>2, <2>3, <2>4 DEF FirmePagos
  <1>11. EnVuelo' = IF ok THEN EnVuelo \cup {intentos + 1} ELSE EnVuelo
    <2>1. \A g \in Hilos \ {h} : /\ Cobrando(g)' <=> Cobrando(g)
                                 /\ Cobrando(g) => Dato(g)' = Dato(g)
      BY <1>5 DEF Queda
    <2>2. ASSUME NEW n
          PROVE  n \in EnVuelo' <=> n \in EnVuelo \/ (ok /\ n = intentos + 1)
      <3>1. /\ n \in EnVuelo <=> \E g \in Hilos : Cobrando(g) /\ Dato(g) = n
            /\ n \in EnVuelo' <=> \E g \in Hilos : Cobrando(g)' /\ Dato(g)' = n
        BY DEF EnVuelo
      <3>2. QED BY <1>6, <2>1, <3>1
    <2>3. QED BY <2>2
  <1>12. CobroUnicoEnSerie'
    <2>1. cobros' \ (perdidos' \cup EnVuelo') = cobros \ (perdidos \cup EnVuelo)
      <3>1. CASE ok
        BY <1>0, <1>1, <1>2, <1>11, <3>1
      <3>2. CASE ~ok
        BY <1>0, <1>1, <1>11, <3>2
      <3>3. QED BY <3>1, <3>2
    <2>2. QED BY <1>1, <1>4, <2>1 DEF CobroUnicoEnSerie, IInvPagos, PagosEnSerie
  <1>13. DisputaUnicaEnSerie'
    BY <1>1, <1>4 DEF IInvPagos, PagosEnSerie, DisputaUnicaEnSerie, Abiertas
  <1>14. QED BY <1>10, <1>12, <1>13 DEF IInvPagos, PagosEnSerie

\* The process dies: what the gateway accepted and no request wrote is lost.
LEMMA PasoCaida ==
    ASSUME IInvPagos, CaidaPagos
    PROVE  IInvPagos'
  <1>1. /\ perdidos' = perdidos \cup EnVuelo
        /\ UNCHANGED <<contrato, pago, disputas, intentos, cobros>>
        /\ SePierden
    BY DEF CaidaPagos
  <1>2. /\ Ranuras(PeticionPago)' /\ obsoleta' = obsoleta
        /\ \A h \in Hilos : peticion'[h] = Nada
    BY <1>1, AlPerderse DEF IInvPagos, FirmePagos
  <1>3. \A h \in Hilos : SabeDelPago(h)' /\ SabeDeDisputas(h)' /\ ~Cobrando(h)'
    BY <1>2, LibreNadaSabe
  <1>4. \A n \in EnVuelo : n \in cobros /\ (pago # Nada => pago.referencia # n)
    BY EnVueloEs DEF IInvPagos, FirmePagos, CobroPropio
  <1>5. EnVuelo' = {}
    BY <1>3 DEF EnVuelo
  <1>6. FirmePagos'
    <2>1. \A h \in Hilos : CobroPropio(h)'
      BY <1>3 DEF CobroPropio
    <2>2. CompletadoCobrado'
      BY <1>1 DEF IInvPagos, FirmePagos, CompletadoCobrado
    <2>3. /\ pago' \in PagoRow \cup {Nada} /\ disputas' \in Seq(EstadoDisputa)
          /\ intentos' \in Nat /\ cobros' \subseteq 1..intentos'
          /\ perdidos' \subseteq cobros'
      BY <1>1, <1>4 DEF IInvPagos, FirmePagos
    <2>4. pago' # Nada => /\ pago'.referencia \notin perdidos'
                          /\ pago'.estado \in {"pendiente", "fallido"} => pago'.referencia = Nada
      BY <1>1, <1>4 DEF IInvPagos, FirmePagos
    <2>5. QED BY <1>2, <1>3, <2>1, <2>2, <2>3, <2>4 DEF FirmePagos
  <1>7. CobroUnicoEnSerie'
    <2>1. cobros' \ (perdidos' \cup EnVuelo') = cobros \ (perdidos \cup EnVuelo)
      BY <1>1, <1>5
    <2>2. QED BY <1>1, <1>2, <2>1 DEF CobroUnicoEnSerie, IInvPagos, PagosEnSerie
  <1>8. DisputaUnicaEnSerie'
    BY <1>1, <1>2 DEF IInvPagos, PagosEnSerie, DisputaUnicaEnSerie, Abiertas
  <1>9. QED BY <1>6, <1>7, <1>8 DEF IInvPagos, PagosEnSerie

LEMMA Quieto ==
    ASSUME IInvPagos, UNCHANGED <<peticion, obsoleta, contrato, pago, disputas, intentos,
                                  cobros, perdidos>>
    PROVE  IInvPagos'
  <1>1. \A g \in Hilos : Queda(g)
    <2>1. \A g \in Hilos : SigueIgual(g, {})
      BY IgualSinAge
    <2>2. QED BY <2>1, SabeIgual DEF IInvPagos, FirmePagos
  <1>2. Ranuras(PeticionPago)' /\ disputas' \in Seq(EstadoDisputa)
    BY DEF IInvPagos, FirmePagos, Ranuras
  <1>3. FirmePagos' /\ CobroUnicoEnSerie'
    BY <1>1, <1>2, PagoAjeno
  <1>4. DisputaUnicaEnSerie'
    BY DEF IInvPagos, PagosEnSerie, DisputaUnicaEnSerie, Abiertas
  <1>5. QED BY <1>3, <1>4 DEF IInvPagos, PagosEnSerie

LEMMA PasoPagos ==
    ASSUME IInvPagos, NextPagos
    PROVE  IInvPagos'
  <1>1. CASE MueveContrato
    BY <1>1, PasoMueve
  <1>2. CASE CaidaPagos
    BY <1>2, PasoCaida
  <1>3. ASSUME NEW h \in Hilos,
               \/ CrearPago(h) \/ ReembolsarPago(h) \/ AbrirDisputa(h) \/ PagoDuplicado(h)
               \/ \E d \in DOMAIN disputas : ResolverDisputa(h, d)
        PROVE  IInvPagos'
    BY <1>3, PasoLlega
  <1>4. ASSUME NEW h \in Hilos, ConfirmarPago(h) \/ ReintentarPago(h)
        PROVE  IInvPagos'
    BY <1>4, PasoCobra
  <1>5. ASSUME NEW h \in Hilos, CommitCargo(h)
        PROVE  IInvPagos'
    BY <1>5, PasoCargo
  <1>6. ASSUME NEW h \in Hilos, CommitCrearPago(h) \/ CommitReembolso(h) \/ CommitRechazo(h)
        PROVE  IInvPagos'
    BY <1>6, PasoSinCargo
  <1>7. ASSUME NEW h \in Hilos, CommitDisputa(h) \/ CommitResolver(h)
        PROVE  IInvPagos'
    BY <1>7, PasoDisputas
  <1>8. QED BY <1>1, <1>2, <1>3, <1>4, <1>5, <1>6, <1>7 DEF NextPagos
-----------------------------------------------------------------------------
(* The milestones of a contract *)

LEMMA PeticionesDeHitos == DePeticiones(PeticionHito)
  BY NadaNoEsHito DEF DePeticiones, PeticionHito

\* What a request knows of the milestones it loaded.
SabeDeHitos(h) ==
    peticion[h] # Nada =>
        /\ peticion[h].op \in {"aprobar", "rechazar"} =>
                /\ peticion[h].dato \in DOMAIN hitos
                /\ Fila(peticion[h].dato) \in peticion[h].lee
                /\ ~peticion[h].vieja => hitos[peticion[h].dato].estado = "pendiente"
        /\ peticion[h].op = "crear_hitos" =>
                /\ <<"hitos">> \in peticion[h].lee
                /\ ~peticion[h].vieja => hitos = <<>>

\* What the task knows of those it will approve.
SabeLaTarea ==
    tarea # Nada =>
        /\ tarea.ids \subseteq DOMAIN hitos
        /\ ~tarea.vieja => \A i \in tarea.ids : hitos[i].estado = "pendiente"

FirmeHitos ==
    /\ Ranuras(PeticionHito)
    /\ hitos \in Seq(HitoRow)
    /\ tarea \in TareaRow \cup {Nada}
    /\ AprobadoConFecha
    /\ \A h \in Hilos : SabeDeHitos(h)
    /\ SabeLaTarea
IInvHitos == FirmeHitos /\ NumerosUnicosEnSerie

\* The action whose box is DecisionFirmeEnSerie.
Firme ==
    ~obsoleta' =>
        /\ \A i \in DOMAIN hitos : hitos[i].estado # "pendiente" =>
                i \in DOMAIN hitos' /\ hitos'[i].estado = hitos[i].estado
        /\ todos_aprobados => todos_aprobados'

\* A request goes on knowing what it knew, or falls behind.
LEMMA SabeHitosIgual ==
    ASSUME NEW g, NEW W, SigueIgual(g, W), SabeDeHitos(g),
           DOMAIN hitos \subseteq DOMAIN hitos',
           \A i \in DOMAIN hitos : hitos'[i].estado = hitos[i].estado \/ Fila(i) \in W,
           hitos = <<>> => hitos' = <<>> \/ <<"hitos">> \in W
    PROVE  SabeDeHitos(g)'
  <1> SUFFICES ASSUME peticion'[g] # Nada
               PROVE  SabeDeHitos(g)'
    BY DEF SabeDeHitos
  <1>1. /\ peticion[g] # Nada
        /\ peticion'[g].op = peticion[g].op
        /\ peticion'[g].lee = peticion[g].lee
        /\ peticion'[g].dato = peticion[g].dato
        /\ ~peticion'[g].vieja => ~peticion[g].vieja /\ peticion[g].lee \cap W = {}
    BY DEF SigueIgual
  <1>2. ASSUME peticion'[g].op \in {"aprobar", "rechazar"}
        PROVE  /\ peticion'[g].dato \in DOMAIN hitos'
               /\ Fila(peticion'[g].dato) \in peticion'[g].lee
               /\ ~peticion'[g].vieja => hitos'[peticion'[g].dato].estado = "pendiente"
    BY <1>1, <1>2 DEF SabeDeHitos
  <1>3. ASSUME peticion'[g].op = "crear_hitos"
        PROVE  /\ <<"hitos">> \in peticion'[g].lee
               /\ ~peticion'[g].vieja => hitos' = <<>>
    BY <1>1, <1>3 DEF SabeDeHitos
  <1>4. QED BY <1>2, <1>3 DEF SabeDeHitos, Fila

\* Steps that keep which milestones there are and their numbers.
LEMMA NumerosIguales ==
    ASSUME NumerosUnicosEnSerie, DOMAIN hitos' = DOMAIN hitos,
           \A i \in DOMAIN hitos : hitos'[i].numero = hitos[i].numero,
           ~obsoleta' => ~obsoleta
    PROVE  NumerosUnicosEnSerie'
  BY DEF NumerosUnicosEnSerie

LEMMA HitoEscrito ==
    ASSUME NEW r \in HitoRow
    PROVE  LET a == [r EXCEPT !.estado = "aprobado", !.fecha = TRUE]
               b == [r EXCEPT !.estado = "rechazado"]
               c == [r EXCEPT !.vencido = TRUE]
           IN  /\ a \in HitoRow /\ a.numero = r.numero /\ a.estado = "aprobado" /\ a.fecha
               /\ b \in HitoRow /\ b.numero = r.numero /\ b.estado = "rechazado"
               /\ c \in HitoRow /\ c.numero = r.numero /\ c.estado = r.estado /\ c.fecha = r.fecha
  BY DEF HitoRow, EstadoHito

\* Nothing but a slot moves.
LEMMA HitosQuietos ==
    ASSUME IInvHitos, UNCHANGED hitosVars, Ranuras(PeticionHito)', obsoleta' = obsoleta,
           \A g \in Hilos : SabeDeHitos(g)'
    PROVE  IInvHitos' /\ Firme
  <1>1. hitos' = hitos /\ tarea' = tarea
    BY DEF hitosVars
  <1>2. AprobadoConFecha' /\ SabeLaTarea' /\ NumerosUnicosEnSerie'
    BY <1>1 DEF IInvHitos, FirmeHitos, AprobadoConFecha, SabeLaTarea, NumerosUnicosEnSerie
  <1>3. Firme
    BY <1>1 DEF Firme, todos_aprobados
  <1>4. QED BY <1>1, <1>2, <1>3 DEF IInvHitos, FirmeHitos

LEMMA PasoPide ==
    ASSUME IInvHitos, NEW h \in Hilos,
           \/ CrearHitos(h)
           \/ \E i \in DOMAIN hitos : DecidirHito(h, i, "aprobar") \/ DecidirHito(h, i, "rechazar")
    PROVE  IInvHitos' /\ Firme
  <1>0. Ranuras(PeticionHito) /\ DePeticiones(PeticionHito) /\ hitos \in Seq(HitoRow)
    BY PeticionesDeHitos DEF IInvHitos, FirmeHitos
  <1>1. UNCHANGED hitosVars /\ hitos' = hitos
    BY DEF CrearHitos, DecidirHito, hitosVars
  <1> DEFINE Hecho == /\ Ranuras(PeticionHito)' /\ obsoleta' = obsoleta
                      /\ SabeDeHitos(h)'
                      /\ \A g \in Hilos \ {h} : peticion'[g] = peticion[g]
  <1>2. ASSUME CrearHitos(h) PROVE Hecho
    <2>1. PICK n \in 1..MaxHitos : Llega(h, "crear_hitos", {<<"hitos">>}, n)
      BY <1>2 DEF CrearHitos
    <2>2. n \in Nat
      BY CotaHitos
    <2>3. PeticionNueva("crear_hitos", {<<"hitos">>}, n) \in PeticionHito
      BY <2>2 DEF PeticionNueva, PeticionHito, Peticion
    <2>4. /\ Ranuras(PeticionHito)' /\ obsoleta' = obsoleta
          /\ peticion'[h].op = "crear_hitos" /\ peticion'[h].lee = {<<"hitos">>}
          /\ \A g \in Hilos \ {h} : peticion'[g] = peticion[g]
      BY <1>0, <2>1, <2>3, AlLlegar
    <2>5. hitos = <<>>
      BY <1>2 DEF CrearHitos
    <2>6. SabeDeHitos(h)'
      BY <1>1, <2>4, <2>5 DEF SabeDeHitos
    <2>7. QED BY <2>4, <2>6
  <1>3. ASSUME NEW i \in DOMAIN hitos, NEW op \in {"aprobar", "rechazar"}, DecidirHito(h, i, op)
        PROVE  Hecho
    <2>1. Llega(h, op, {Fila(i)}, i) /\ hitos[i].estado = "pendiente"
      BY <1>3 DEF DecidirHito
    <2>2. i \in Nat
      BY <1>0, LenProperties
    <2>3. PeticionNueva(op, {Fila(i)}, i) \in PeticionHito
      <3>1. Fila(i) \in {"hito"} \X Nat
        BY <2>2 DEF Fila
      <3>2. QED BY <2>2, <3>1 DEF PeticionNueva, PeticionHito, Peticion
    <2>4. /\ Ranuras(PeticionHito)' /\ obsoleta' = obsoleta
          /\ peticion'[h].op = op /\ peticion'[h].lee = {Fila(i)} /\ peticion'[h].dato = i
          /\ \A g \in Hilos \ {h} : peticion'[g] = peticion[g]
      BY <1>0, <2>1, <2>3, AlLlegar
    <2>5. SabeDeHitos(h)'
      BY <1>1, <2>1, <2>4 DEF SabeDeHitos, Fila
    <2>6. QED BY <2>4, <2>5
  <1>4. Hecho
    BY <1>2, <1>3
  <1> HIDE DEF Hecho
  <1>5. ASSUME NEW g \in Hilos \ {h}
        PROVE  SabeDeHitos(g)'
    <2>1. peticion'[g] = peticion[g] /\ SabeDeHitos(g)
      BY <1>4 DEF Hecho, IInvHitos, FirmeHitos
    <2>2. QED BY <1>1, <2>1, IgualSinAge, SabeHitosIgual
  <1>6. QED BY <1>1, <1>4, <1>5, HitosQuietos DEF Hecho

\* The milestones are created: only on an empty list, unless the request is behind.
LEMMA PasoCrea ==
    ASSUME IInvHitos, NEW h \in Hilos, CommitCrearHitos(h)
    PROVE  IInvHitos' /\ Firme
  <1>0. /\ Ranuras(PeticionHito) /\ DePeticiones(PeticionHito) /\ hitos \in Seq(HitoRow)
        /\ peticion[h] # Nada /\ peticion[h].op = "crear_hitos"
        /\ Termina(h, {<<"hitos">>}) /\ tarea' = tarea
    BY PeticionesDeHitos DEF IInvHitos, FirmeHitos, CommitCrearHitos, EnCurso
  <1>1. PICK n : n = Dato(h)
    OBVIOUS
  <1>2. n \in Nat
    BY <1>0, <1>1 DEF Ranuras, PeticionHito, Peticion, Dato
  <1> DEFINE nuevos == [i \in 1..n |-> [numero |-> i, estado |-> "pendiente", fecha |-> FALSE,
                                        vencido |-> FALSE]]
  <1>3. nuevos \in Seq(HitoRow) /\ Len(nuevos) = n
    <2>1. \A i \in 1..n : [numero |-> i, estado |-> "pendiente", fecha |-> FALSE,
                           vencido |-> FALSE] \in HitoRow
      BY <1>2 DEF HitoRow, EstadoHito
    <2>2. QED BY <1>2, <2>1
  <1>4. \A i \in 1..n : /\ nuevos[i].numero = i /\ nuevos[i].estado = "pendiente"
                        /\ nuevos[i].fecha = FALSE
    BY <1>2
  <1>5. hitos' = hitos \o nuevos
    BY <1>1 DEF CommitCrearHitos
  <1> HIDE DEF nuevos
  <1>6. /\ hitos' \in Seq(HitoRow) /\ Len(hitos) \in Nat
        /\ DOMAIN hitos = 1..Len(hitos) /\ DOMAIN hitos' = 1..(Len(hitos) + n)
        /\ \A i \in 1..Len(hitos) : hitos'[i] = hitos[i]
        /\ \A i \in (Len(hitos) + 1)..(Len(hitos) + n) : hitos'[i] = nuevos[i - Len(hitos)]
    <2>1. Len(hitos) \in Nat /\ DOMAIN hitos = 1..Len(hitos)
      BY <1>0, LenProperties
    <2>2. /\ hitos' \in Seq(HitoRow) /\ Len(hitos') = Len(hitos) + n
          /\ \A i \in 1..(Len(hitos) + n) :
                hitos'[i] = IF i <= Len(hitos) THEN hitos[i] ELSE nuevos[i - Len(hitos)]
      BY <1>0, <1>3, <1>5, ConcatProperties
    <2>3. DOMAIN hitos' = 1..(Len(hitos) + n)
      BY <2>2, LenProperties
    <2>4. QED BY <1>2, <2>1, <2>2, <2>3
  <1>7. /\ Ranuras(PeticionHito)'
        /\ ~obsoleta' => ~obsoleta /\ ~peticion[h].vieja
        /\ peticion'[h] = Nada
        /\ \A g \in Hilos \ {h} : SigueIgual(g, {<<"hitos">>})
    BY <1>0, AlTerminar
  <1>8. ~obsoleta' => hitos = <<>>
    BY <1>0, <1>7 DEF IInvHitos, FirmeHitos, SabeDeHitos
  <1>9. \A g \in Hilos : SabeDeHitos(g)'
    <2>1. SabeDeHitos(h)'
      BY <1>7 DEF SabeDeHitos
    <2>2. ASSUME NEW g \in Hilos \ {h}
          PROVE  SabeDeHitos(g)'
      <3>1. /\ SigueIgual(g, {<<"hitos">>}) /\ SabeDeHitos(g)
            /\ DOMAIN hitos \subseteq DOMAIN hitos'
            /\ \A i \in DOMAIN hitos : hitos'[i].estado = hitos[i].estado
        BY <1>2, <1>6, <1>7 DEF IInvHitos, FirmeHitos
      <3>2. QED BY <3>1, SabeHitosIgual
    <2>3. QED BY <2>1, <2>2
  <1>10. ASSUME NEW i \in DOMAIN hitos'
         PROVE  \/ i \in DOMAIN hitos /\ hitos'[i] = hitos[i]
                \/ /\ i - Len(hitos) \in 1..n
                   /\ hitos'[i].estado = "pendiente" /\ hitos'[i].numero = i - Len(hitos)
    <2>1. CASE i \in 1..Len(hitos)
      BY <1>6, <2>1
    <2>2. CASE i \notin 1..Len(hitos)
      <3>1. i \in (Len(hitos) + 1)..(Len(hitos) + n) /\ i - Len(hitos) \in 1..n
        BY <1>2, <1>6, <2>2
      <3>2. QED BY <1>4, <1>6, <3>1
    <2>3. QED BY <2>1, <2>2
  <1>11. AprobadoConFecha' /\ SabeLaTarea'
    <2>1. AprobadoConFecha'
      BY <1>10 DEF AprobadoConFecha, IInvHitos, FirmeHitos
    <2>2. SabeLaTarea'
      <3>1. \A i \in DOMAIN hitos : i \in DOMAIN hitos' /\ hitos'[i] = hitos[i]
        BY <1>2, <1>6
      <3>2. QED BY <1>0, <3>1 DEF SabeLaTarea, IInvHitos, FirmeHitos
    <2>3. QED BY <2>1, <2>2
  <1>12. NumerosUnicosEnSerie'
    <2>1. ASSUME ~obsoleta'
          PROVE  \A i \in DOMAIN hitos' : hitos'[i].numero = i
      <3>1. Len(hitos) = 0
        BY <1>8, <2>1
      <3>2. QED BY <1>2, <1>4, <1>6, <3>1
    <2>2. QED BY <2>1 DEF NumerosUnicosEnSerie
  <1>13. Firme
    BY <1>8 DEF Firme, todos_aprobados
  <1>14. QED BY <1>0, <1>6, <1>7, <1>9, <1>11, <1>12, <1>13 DEF IInvHitos, FirmeHitos

\* A milestone is decided on: one that was pending, unless the request is behind.
LEMMA PasoDecide ==
    ASSUME IInvHitos, NEW h \in Hilos, CommitAprobar(h) \/ CommitRechazar(h)
    PROVE  IInvHitos' /\ Firme
  <1>0. /\ Ranuras(PeticionHito) /\ DePeticiones(PeticionHito) /\ hitos \in Seq(HitoRow)
        /\ peticion[h] # Nada /\ peticion[h].op \in {"aprobar", "rechazar"}
        /\ Termina(h, {Fila(Dato(h))}) /\ AtrasaTarea({Dato(h)})
    BY PeticionesDeHitos
       DEF IInvHitos, FirmeHitos, CommitAprobar, CommitRechazar, EscribeHito, EnCurso
  <1>1. PICK d : d = Dato(h)
    OBVIOUS
  <1>2. /\ d \in DOMAIN hitos
        /\ ~peticion[h].vieja => hitos[d].estado = "pendiente"
    BY <1>0, <1>1 DEF IInvHitos, FirmeHitos, SabeDeHitos, Dato
  <1>3. hitos[d] \in HitoRow /\ Len(hitos) \in Nat /\ DOMAIN hitos = 1..Len(hitos)
    BY <1>0, <1>2, LenProperties
  <1>4. PICK r \in HitoRow : /\ hitos' = [hitos EXCEPT ![d] = r]
                             /\ r.numero = hitos[d].numero
                             /\ r.estado = "aprobado" => r.fecha
    <2>1. CASE CommitAprobar(h)
      BY <1>1, <1>3, <2>1, HitoEscrito DEF CommitAprobar, EscribeHito
    <2>2. CASE CommitRechazar(h)
      BY <1>1, <1>3, <2>2, HitoEscrito DEF CommitRechazar, EscribeHito
    <2>3. QED BY <2>1, <2>2
  <1>5. /\ hitos' \in Seq(HitoRow) /\ DOMAIN hitos' = DOMAIN hitos
        /\ hitos'[d] = r
        /\ \A i \in DOMAIN hitos \ {d} : hitos'[i] = hitos[i]
    BY <1>0, <1>2, <1>3, <1>4, ExceptSeq
  <1>6. /\ Ranuras(PeticionHito)'
        /\ ~obsoleta' => ~obsoleta /\ ~peticion[h].vieja
        /\ peticion'[h] = Nada
        /\ \A g \in Hilos \ {h} : SigueIgual(g, {Fila(d)})
    BY <1>0, <1>1, AlTerminar
  <1>7. \A g \in Hilos : SabeDeHitos(g)'
    <2>1. SabeDeHitos(h)'
      BY <1>6 DEF SabeDeHitos
    <2>2. ASSUME NEW g \in Hilos \ {h}
          PROVE  SabeDeHitos(g)'
      <3>1. SigueIgual(g, {Fila(d)}) /\ SabeDeHitos(g)
        BY <1>6 DEF IInvHitos, FirmeHitos
      <3>2. \A i \in DOMAIN hitos : hitos'[i].estado = hitos[i].estado \/ Fila(i) \in {Fila(d)}
        BY <1>5
      <3>3. hitos # <<>>
        BY <1>2
      <3>4. QED BY <1>5, <3>1, <3>2, <3>3, SabeHitosIgual
    <2>3. QED BY <2>1, <2>2
  <1>8. tarea' \in TareaRow \cup {Nada} /\ SabeLaTarea'
    <2>1. tarea \in TareaRow \cup {Nada} /\ SabeLaTarea
      BY DEF IInvHitos, FirmeHitos
    <2>2. CASE tarea # Nada /\ d \in tarea.ids
      <3>1. tarea' = [tarea EXCEPT !.vieja = TRUE] /\ tarea \in TareaRow
        BY <1>0, <1>1, <2>1, <2>2 DEF AtrasaTarea
      <3>2. tarea' \in TareaRow /\ tarea'.vieja = TRUE /\ tarea'.ids = tarea.ids
        BY <3>1 DEF TareaRow
      <3>3. QED BY <1>5, <2>1, <2>2, <3>2 DEF SabeLaTarea
    <2>3. CASE tarea = Nada \/ d \notin tarea.ids
      <3>1. tarea' = tarea
        BY <1>0, <1>1, <2>3 DEF AtrasaTarea
      <3>2. QED BY <1>5, <2>1, <2>3, <3>1 DEF SabeLaTarea
    <2>4. QED BY <2>2, <2>3
  <1>9. AprobadoConFecha'
    BY <1>4, <1>5 DEF AprobadoConFecha, IInvHitos, FirmeHitos
  <1>10. NumerosUnicosEnSerie'
    BY <1>4, <1>5, <1>6, NumerosIguales DEF IInvHitos
  <1>11. Firme
    <2>1. ~obsoleta' => hitos[d].estado = "pendiente"
      BY <1>2, <1>6
    <2>2. QED BY <1>2, <1>5, <2>1 DEF Firme, todos_aprobados
  <1>12. QED BY <1>5, <1>6, <1>7, <1>8, <1>9, <1>10, <1>11 DEF IInvHitos, FirmeHitos

\* The clock and the task's query.
LEMMA PasoReloj ==
    ASSUME IInvHitos,
           TareaLee \/ TareaMuere \/ \E i \in DOMAIN hitos : Vence(i)
    PROVE  IInvHitos' /\ Firme
  <1>0. /\ peticion' = peticion /\ obsoleta' = obsoleta
        /\ hitos \in Seq(HitoRow) /\ Len(hitos) \in Nat /\ DOMAIN hitos = 1..Len(hitos)
    BY LenProperties DEF TareaLee, TareaMuere, Vence, servidor, IInvHitos, FirmeHitos
  <1>1. /\ hitos' \in Seq(HitoRow) /\ DOMAIN hitos' = DOMAIN hitos
        /\ \A i \in DOMAIN hitos : /\ hitos'[i].numero = hitos[i].numero
                                   /\ hitos'[i].estado = hitos[i].estado
                                   /\ hitos'[i].fecha = hitos[i].fecha
    <2>1. CASE hitos' = hitos
      BY <1>0, <2>1
    <2>2. ASSUME NEW d \in DOMAIN hitos, Vence(d)
          PROVE  <1>1!:
      <3>1. hitos' = [hitos EXCEPT ![d].vencido = TRUE] /\ hitos[d] \in HitoRow
        BY <1>0, <2>2 DEF Vence
      <3>2. PICK r \in HitoRow : /\ hitos' = [hitos EXCEPT ![d] = r]
                                 /\ r.numero = hitos[d].numero
                                 /\ r.estado = hitos[d].estado /\ r.fecha = hitos[d].fecha
        BY <3>1, HitoEscrito
      <3>3. QED BY <1>0, <3>2, ExceptSeq
    <2>3. QED BY <2>1, <2>2 DEF TareaLee, TareaMuere
  <1>2. Ranuras(PeticionHito)' /\ \A g \in Hilos : SabeDeHitos(g)'
    <2>1. ASSUME NEW g \in Hilos
          PROVE  SabeDeHitos(g)'
      <3>1. peticion'[g] = peticion[g] /\ SabeDeHitos(g) /\ (hitos = <<>> => hitos' = <<>>)
        BY <1>0, <1>1, LenProperties, EmptySeq DEF IInvHitos, FirmeHitos
      <3>2. SigueIgual(g, {})
        BY <3>1, IgualSinAge
      <3>3. QED BY <1>1, <3>1, <3>2, SabeHitosIgual
    <2>2. QED BY <1>0, <2>1 DEF IInvHitos, FirmeHitos, Ranuras
  <1>3. tarea' \in TareaRow \cup {Nada} /\ SabeLaTarea'
    <2>1. CASE TareaLee
      <3>1. tarea' = [ids |-> Vencidos, vieja |-> FALSE] /\ hitos' = hitos
        BY <2>1 DEF TareaLee
      <3>2. /\ Vencidos \subseteq DOMAIN hitos /\ Vencidos \subseteq Nat
            /\ \A i \in Vencidos : hitos[i].estado = "pendiente"
        BY <1>0 DEF Vencidos
      <3> HIDE DEF Vencidos
      <3>3. tarea' \in TareaRow /\ tarea'.ids = Vencidos
        BY <3>1, <3>2 DEF TareaRow
      <3>4. QED BY <3>1, <3>2, <3>3 DEF SabeLaTarea
    <2>2. CASE TareaMuere
      BY <2>2 DEF TareaMuere, SabeLaTarea
    <2>3. CASE tarea' = tarea
      BY <1>1, <2>3 DEF SabeLaTarea, IInvHitos, FirmeHitos
    <2>4. QED BY <2>1, <2>2, <2>3 DEF Vence
  <1>4. AprobadoConFecha' /\ NumerosUnicosEnSerie'
    <2>1. AprobadoConFecha'
      BY <1>1 DEF AprobadoConFecha, IInvHitos, FirmeHitos
    <2>2. QED BY <1>0, <1>1, <2>1, NumerosIguales DEF IInvHitos
  <1>5. Firme
    <2>1. hitos # <<>> => hitos' # <<>>
      BY <1>0, <1>1
    <2>2. QED BY <1>1, <2>1 DEF Firme, todos_aprobados
  <1>6. QED BY <1>1, <1>2, <1>3, <1>4, <1>5 DEF IInvHitos, FirmeHitos

\* The task approves what it read as pending, unless it is behind.
LEMMA PasoTarea ==
    ASSUME IInvHitos, TareaCommit
    PROVE  IInvHitos' /\ Firme
  <1>0. /\ Ranuras(PeticionHito) /\ DePeticiones(PeticionHito)
        /\ hitos \in Seq(HitoRow) /\ Len(hitos) \in Nat /\ DOMAIN hitos = 1..Len(hitos)
    BY PeticionesDeHitos, LenProperties DEF IInvHitos, FirmeHitos
  <1>1. /\ tarea \in TareaRow /\ tarea # Nada /\ tarea' = Nada
        /\ tarea.ids \subseteq DOMAIN hitos
        /\ ~tarea.vieja => \A i \in tarea.ids : hitos[i].estado = "pendiente"
    BY DEF TareaCommit, IInvHitos, FirmeHitos, SabeLaTarea
  <1>2. PICK W : W = {Fila(i) : i \in tarea.ids}
    OBVIOUS
  <1>3. \A i \in tarea.ids : Fila(i) \in W
    BY <1>2
  <1>4. <<"hitos">> \notin W
    BY <1>2 DEF Fila
  <1>5. /\ peticion' = [h \in Hilos |-> Envejece(peticion[h], W)]
        /\ obsoleta' = (obsoleta \/ tarea.vieja)
    BY <1>2 DEF TareaCommit
  <1>6. \A g \in Hilos : peticion'[g] \in PeticionHito \cup {Nada} /\ SigueIgual(g, W)
    BY <1>0, <1>5, Envejecidas
  <1>7. Ranuras(PeticionHito)' /\ (~obsoleta' => ~obsoleta /\ ~tarea.vieja)
    <2>1. peticion' \in [Hilos -> PeticionHito \cup {Nada}]
      BY <1>5, <1>6
    <2>2. tarea.vieja \in BOOLEAN /\ obsoleta \in BOOLEAN
      BY <1>0, <1>1 DEF TareaRow, Ranuras
    <2>3. QED BY <1>5, <2>1, <2>2 DEF Ranuras
  <1>8. hitos' = [i \in DOMAIN hitos |->
            IF i \in tarea.ids THEN [hitos[i] EXCEPT !.estado = "aprobado", !.fecha = TRUE]
            ELSE hitos[i]]
    BY DEF TareaCommit
  <1>9. /\ DOMAIN hitos' = DOMAIN hitos
        /\ \A i \in DOMAIN hitos :
            /\ hitos'[i] \in HitoRow /\ hitos'[i].numero = hitos[i].numero
            /\ i \in tarea.ids => hitos'[i].estado = "aprobado" /\ hitos'[i].fecha
            /\ i \notin tarea.ids => hitos'[i] = hitos[i]
    <2>1. DOMAIN hitos' = DOMAIN hitos
      BY <1>8
    <2>2. ASSUME NEW i \in DOMAIN hitos
          PROVE  /\ hitos'[i] \in HitoRow /\ hitos'[i].numero = hitos[i].numero
                 /\ i \in tarea.ids => hitos'[i].estado = "aprobado" /\ hitos'[i].fecha
                 /\ i \notin tarea.ids => hitos'[i] = hitos[i]
      <3>1. hitos[i] \in HitoRow
        BY <1>0
      <3>2. CASE i \in tarea.ids
        <4>1. hitos'[i] = [hitos[i] EXCEPT !.estado = "aprobado", !.fecha = TRUE]
          BY <1>8, <3>2
        <4>2. PICK r \in HitoRow : /\ hitos'[i] = r /\ r.numero = hitos[i].numero
                                   /\ r.estado = "aprobado" /\ r.fecha
          BY <3>1, <4>1, HitoEscrito
        <4>3. QED BY <3>2, <4>2
      <3>3. CASE i \notin tarea.ids
        <4>1. hitos'[i] = hitos[i]
          BY <1>8, <3>3
        <4>2. QED BY <3>1, <3>3, <4>1
      <3>4. QED BY <3>2, <3>3
    <2>3. QED BY <2>1, <2>2
  <1>10. hitos' \in Seq(HitoRow)
    <2>1. hitos' \in [1..Len(hitos) -> HitoRow]
      BY <1>0, <1>8, <1>9
    <2>2. QED BY <1>0, <2>1
  <1>11. ASSUME NEW g \in Hilos
         PROVE  SabeDeHitos(g)'
    <2>1. SigueIgual(g, W) /\ SabeDeHitos(g)
      BY <1>6 DEF IInvHitos, FirmeHitos
    <2>2. \A i \in DOMAIN hitos : hitos'[i].estado = hitos[i].estado \/ Fila(i) \in W
      BY <1>3, <1>9
    <2>3. hitos = <<>> => hitos' = <<>>
      <3>1. hitos = <<>> => Len(hitos) = 0
        OBVIOUS
      <3>2. Len(hitos) = 0 => DOMAIN hitos' = {}
        BY <1>0, <1>9
      <3>3. DOMAIN hitos' = {} => hitos' = <<>>
        BY <1>10, LenProperties, EmptySeq
      <3>4. QED BY <3>1, <3>2, <3>3
    <2>4. QED BY <1>9, <2>1, <2>2, <2>3, SabeHitosIgual
  <1>12. AprobadoConFecha' /\ SabeLaTarea'
    BY <1>1, <1>9 DEF AprobadoConFecha, SabeLaTarea, IInvHitos, FirmeHitos
  <1>13. NumerosUnicosEnSerie'
    BY <1>7, <1>9, NumerosIguales DEF IInvHitos
  <1>14. Firme
    <2>1. ~obsoleta' => \A i \in tarea.ids : hitos[i].estado = "pendiente"
      BY <1>1, <1>7
    <2>2. ~obsoleta' => \A i \in DOMAIN hitos : hitos[i].estado # "pendiente" =>
                            hitos'[i].estado = hitos[i].estado
      BY <1>9, <2>1
    <2>3. todos_aprobados => todos_aprobados'
      <3>1. DOMAIN hitos = {} => hitos = <<>>
        BY <1>0, LenProperties, EmptySeq
      <3>2. todos_aprobados => hitos' # <<>>
        BY <1>9, <3>1 DEF todos_aprobados
      <3>3. QED BY <1>9, <3>2 DEF todos_aprobados
    <2>4. QED BY <1>9, <2>2, <2>3 DEF Firme
  <1>15. QED BY <1>1, <1>7, <1>10, <1>11, <1>12, <1>13, <1>14 DEF IInvHitos, FirmeHitos

LEMMA HitosSinPaso ==
    ASSUME IInvHitos, UNCHANGED <<peticion, obsoleta, hitos, tarea>>
    PROVE  IInvHitos' /\ Firme
  <1>1. \A g \in Hilos : SabeDeHitos(g)'
    BY DEF SabeDeHitos, IInvHitos, FirmeHitos
  <1>2. Ranuras(PeticionHito)'
    BY DEF IInvHitos, FirmeHitos, Ranuras
  <1>3. QED BY <1>1, <1>2, HitosQuietos DEF hitosVars

LEMMA PasoHitos ==
    ASSUME IInvHitos, NextHitos
    PROVE  IInvHitos' /\ Firme
  <1>1. CASE TareaLee \/ TareaMuere \/ \E i \in DOMAIN hitos : Vence(i)
    BY <1>1, PasoReloj
  <1>2. CASE TareaCommit
    BY <1>2, PasoTarea
  <1>3. ASSUME NEW h \in Hilos,
               \/ CrearHitos(h)
               \/ \E i \in DOMAIN hitos :
                    DecidirHito(h, i, "aprobar") \/ DecidirHito(h, i, "rechazar")
        PROVE  IInvHitos' /\ Firme
    BY <1>3, PasoPide
  <1>4. ASSUME NEW h \in Hilos, CommitCrearHitos(h)
        PROVE  IInvHitos' /\ Firme
    BY <1>4, PasoCrea
  <1>5. ASSUME NEW h \in Hilos, CommitAprobar(h) \/ CommitRechazar(h)
        PROVE  IInvHitos' /\ Firme
    BY <1>5, PasoDecide
  <1>6. QED BY <1>1, <1>2, <1>3, <1>4, <1>5 DEF NextHitos
-----------------------------------------------------------------------------
(* The coins of a user *)

LEMMA PeticionesDeUso == DePeticiones(PeticionUso)
  BY NadaNoEsUso DEF DePeticiones, PeticionUso

Cantidades(filas) == [i \in DOMAIN filas |-> filas[i].cantidad]
Restos(filas, n) == [i \in DOMAIN filas |-> Deja(filas, n, i)]

LEMMA CoinEs ==
    ASSUME NEW filas \in Seq(CoinRow)
    PROVE  /\ DOMAIN filas = 1..Len(filas) /\ Len(filas) \in Nat
           /\ IsFiniteSet(DOMAIN filas)
           /\ DOMAIN filas \subseteq Nat
           /\ \A i \in DOMAIN filas : /\ filas[i].cantidad \in Nat
                                      /\ filas[i].tipo \in TipoMoneda
                                      /\ Turno[filas[i].tipo] \in 1..3
                                      /\ Cantidades(filas)[i] = filas[i].cantidad
  <1>1. DOMAIN filas = 1..Len(filas) /\ Len(filas) \in Nat
    BY LenProperties
  <1>2. IsFiniteSet(DOMAIN filas)
    BY <1>1, FS_Interval
  <1>3. ASSUME NEW i \in DOMAIN filas
        PROVE  /\ filas[i].cantidad \in Nat
               /\ filas[i].tipo \in TipoMoneda
               /\ Turno[filas[i].tipo] \in 1..3
    <2>1. filas[i] \in CoinRow
      BY <1>1, <1>3, ElementOfSeq
    <2>2. QED BY <2>1 DEF CoinRow, TipoMoneda, Turno
  <1>4. QED BY <1>1, <1>2, <1>3 DEF Cantidades

\* Coins are spent in a total order: among some rows one comes last.
LEMMA UltimaFila ==
    ASSUME NEW filas \in Seq(CoinRow), NEW P \in SUBSET DOMAIN filas, P # {}
    PROVE  \E i \in P : \A j \in P : j # i => j \in Anteriores(filas, i)
  <1>0. PICK t : t = [j \in DOMAIN filas |-> Turno[filas[j].tipo]]
    OBVIOUS
  <1>1. \A j \in P : t[j] \in 1..3 /\ t[j] = Turno[filas[j].tipo] /\ j \in 1..Len(filas)
    BY <1>0, CoinEs
  <1>2. Len(filas) \in Nat
    BY CoinEs
  <1>3. PICK M : M = {3 - t[j] : j \in P}
    OBVIOUS
  <1>4. M \in SUBSET Nat /\ M # {}
    BY <1>1, <1>3
  <1>5. PICK a \in M : \A m \in M : a <= m
    BY <1>4, Minimo
  <1>6. PICK p \in P : \A j \in P : t[j] <= t[p]
    <2>1. PICK p \in P : a = 3 - t[p]
      BY <1>3, <1>5
    <2>2. ASSUME NEW j \in P
          PROVE  t[j] <= t[p]
      <3>1. 3 - t[j] \in M
        BY <1>3
      <3>2. 3 - t[p] <= 3 - t[j]
        BY <1>5, <2>1, <3>1
      <3>3. t[j] \in Nat /\ t[p] \in Nat
        BY <1>1
      <3>4. QED BY <3>2, <3>3
    <2>3. QED BY <2>2
  <1>7. PICK N : N = {Len(filas) - j : j \in {k \in P : t[k] = t[p]}}
    OBVIOUS
  <1>8. N \in SUBSET Nat /\ N # {}
    BY <1>1, <1>2, <1>7
  <1>9. PICK b \in N : \A n \in N : b <= n
    BY <1>8, Minimo
  <1>10. PICK i \in P : t[i] = t[p] /\ \A j \in P : t[j] = t[p] => j <= i
    <2>1. PICK i \in P : b = Len(filas) - i /\ t[i] = t[p]
      BY <1>7, <1>9
    <2>2. \A j \in P : t[j] = t[p] => Len(filas) - i <= Len(filas) - j
      BY <1>7, <1>9, <2>1
    <2>3. QED BY <1>1, <1>2, <2>1, <2>2
  <1>11. ASSUME NEW j \in P, j # i
         PROVE  j \in Anteriores(filas, i)
    <2>1. t[j] <= t[i] /\ (t[j] = t[i] => j < i)
      BY <1>1, <1>6, <1>10, <1>11
    <2>2. CASE t[j] < t[i]
      BY <1>1, <2>2 DEF Anteriores
    <2>3. CASE t[j] = t[i]
      <3>1. filas[j].tipo = filas[i].tipo
        <4>1. filas[j].tipo \in TipoMoneda /\ filas[i].tipo \in TipoMoneda
          BY CoinEs
        <4>2. QED BY <1>1, <2>3, <4>1 DEF TipoMoneda, Turno
      <3>2. QED BY <2>1, <2>3, <3>1 DEF Anteriores
    <2>4. QED BY <1>1, <2>1, <2>2, <2>3
  <1>12. QED BY <1>11

LEMMA OrdenEstricto ==
    ASSUME NEW filas \in Seq(CoinRow), NEW i \in DOMAIN filas, NEW j \in Anteriores(filas, i)
    PROVE  i # j /\ i \notin Anteriores(filas, j) /\ j \in DOMAIN filas
  <1>1. i \in Nat /\ j \in Nat /\ j \in DOMAIN filas
    BY CoinEs DEF Anteriores
  <1>2. Turno[filas[i].tipo] \in 1..3 /\ Turno[filas[j].tipo] \in 1..3
    BY <1>1, CoinEs
  <1>3. QED BY <1>1, <1>2 DEF Anteriores

\* What is left of a row is no more than there was.
LEMMA DejaMenos ==
    ASSUME NEW filas \in Seq(CoinRow), NEW n \in Nat, NEW i \in DOMAIN filas
    PROVE  Deja(filas, n, i) \in Nat /\ Deja(filas, n, i) <= filas[i].cantidad
  <1>1. filas[i].cantidad \in Nat
    BY CoinEs
  <1>2. PICK s : s = SumaEn(filas, Anteriores(filas, i))
    OBVIOUS
  <1>3. s \in Nat
    <2>1. /\ IsFiniteSet(Anteriores(filas, i))
          /\ \A j \in Anteriores(filas, i) : Cantidades(filas)[j] \in Nat
      <3>1. Anteriores(filas, i) \subseteq DOMAIN filas
        BY DEF Anteriores
      <3>2. QED BY <3>1, CoinEs, FS_Subset DEF Cantidades
    <2>2. QED BY <1>2, <2>1, SumaNat DEF SumaEn, Cantidades
  <1>4. QED BY <1>1, <1>2, <1>3 DEF Deja

\* Using n coins of rows that hold as many takes n coins, no more and no fewer.
LEMMA GastaJusto ==
    ASSUME NEW filas \in Seq(CoinRow), NEW n \in Nat, Suma(filas) >= n
    PROVE  Suma(filas) = SumFunctionOnSet(Restos(filas, n), DOMAIN filas) + n
  <1> DEFINE c == Cantidades(filas)
             d == Restos(filas, n)
             Inicial(P) == \A i \in P : Anteriores(filas, i) \subseteq P
             Justo(P) == LET s == SumFunctionOnSet(c, P)
                         IN  SumFunctionOnSet(d, P) = IF s >= n THEN s - n ELSE 0
  <1>1. \A P \in SUBSET DOMAIN filas : IsFiniteSet(P) /\ SumFunctionOnSet(c, P) \in Nat
    <2>1. IsFiniteSet(DOMAIN filas) /\ \A i \in DOMAIN filas : c[i] \in Nat
      BY CoinEs DEF Cantidades
    <2>2. QED BY <2>1, FS_Subset, SumaNat
  <1>2. \A i \in DOMAIN filas : d[i] = Deja(filas, n, i) /\ d[i] \in Nat /\ c[i] \in Nat
                                /\ c[i] = filas[i].cantidad
    BY DejaMenos, CoinEs DEF Restos, Cantidades
  <1>3. \A P \in SUBSET DOMAIN filas : SumFunctionOnSet(c, P) = SumaEn(filas, P)
    BY DEF SumaEn, Cantidades
  <1>4. Justo({})
    BY SumaNada
  <1> HIDE DEF c, d
  <1>5. ASSUME NEW P \in SUBSET DOMAIN filas, Inicial(P), ~Justo(P)
        PROVE  FALSE
    <2>1. PICK C : C = {s \in SUBSET DOMAIN filas : Inicial(s) /\ ~Justo(s)}
      OBVIOUS
    <2> HIDE DEF Justo
    <2>2. C # {} /\ \A s \in C : IsFiniteSet(s)
      BY <1>1, <1>5, <2>1
    <2>3. PICK s \in C : \A t \in C : Cardinality(s) <= Cardinality(t)
      BY <2>2, ElMenor
    <2>4. s \in SUBSET DOMAIN filas /\ Inicial(s) /\ ~Justo(s) /\ IsFiniteSet(s)
      BY <2>1, <2>2, <2>3
    <2>5. s # {}
      BY <1>4, <2>4
    <2>6. PICK i \in s : \A j \in s : j # i => j \in Anteriores(filas, i)
      BY <2>4, <2>5, UltimaFila
    <2>7. i \in DOMAIN filas
      BY <2>4
    <2>8. PICK t : t = s \ {i}
      OBVIOUS
    <2>9. t = Anteriores(filas, i)
      BY <2>4, <2>6, <2>7, <2>8, OrdenEstricto
    <2>10. Inicial(t)
      BY <2>4, <2>7, <2>8, <2>9, OrdenEstricto
    <2>11. Justo(t)
      <3>1. Cardinality(t) < Cardinality(s) /\ Cardinality(s) \in Nat
            /\ Cardinality(t) = Cardinality(s) - 1
        BY <2>4, <2>8, UnoMenos
      <3>2. QED BY <2>1, <2>3, <2>4, <2>8, <2>10, <3>1
    <2>12. /\ SumFunctionOnSet(c, s) = c[i] + SumFunctionOnSet(c, t)
           /\ SumFunctionOnSet(d, s) = d[i] + SumFunctionOnSet(d, t)
      <3>1. \A j \in s : c[j] \in Nat /\ d[j] \in Nat
        BY <1>2, <2>4
      <3>2. QED BY <2>4, <2>8, <3>1, SumaQuita
    <2>13. d[i] = IF SumFunctionOnSet(c, t) >= n THEN c[i]
                  ELSE IF SumFunctionOnSet(c, t) + c[i] <= n THEN 0
                  ELSE SumFunctionOnSet(c, t) + c[i] - n
      <3>1. SumaEn(filas, Anteriores(filas, i)) = SumFunctionOnSet(c, t)
        BY <1>3, <2>4, <2>8, <2>9
      <3>2. QED BY <1>2, <2>7, <3>1 DEF Deja
    <2>14. SumFunctionOnSet(c, t) \in Nat /\ c[i] \in Nat
      BY <1>1, <1>2, <2>4, <2>7, <2>8
    <2>15. QED BY <2>4, <2>11, <2>12, <2>13, <2>14 DEF Justo
  <1>6. Justo(DOMAIN filas)
    <2>1. Inicial(DOMAIN filas)
      BY DEF Anteriores
    <2> HIDE DEF Justo, Inicial
    <2>2. QED BY <1>5, <2>1
  <1>7. Suma(filas) = SumFunctionOnSet(c, DOMAIN filas) /\ Suma(filas) \in Nat
    BY <1>1, <1>3 DEF Suma
  <1>8. QED BY <1>6, <1>7 DEF d

\* What a request knows: the rows it loaded, and how it drains them.
SabeDelUso(h) ==
    peticion[h] # Nada =>
        LET d == peticion[h].dato
        IN  /\ DOMAIN d.leidas \subseteq DOMAIN monedas
            /\ DOMAIN d.deja = DOMAIN d.leidas
            /\ \A i \in DOMAIN d.leidas :
                    /\ d.deja[i] <= d.leidas[i]
                    /\ Coin(i) \in peticion[h].lee
                    /\ ~peticion[h].vieja => monedas[i].cantidad = d.leidas[i]
            /\ SumFunctionOnSet(d.leidas, DOMAIN d.leidas)
                    = SumFunctionOnSet(d.deja, DOMAIN d.leidas) + d.usa

\* The books, row by row: what row i was granted is in it or was used, as the
\* rows are and as any request loaded them; exactly so until a stale commit.
Cuentan(dado, usado) ==
    /\ dado \in [DOMAIN monedas -> Nat] /\ usado \in [DOMAIN monedas -> Nat]
    /\ SumFunctionOnSet(dado, DOMAIN monedas) = otorgadas
    /\ SumFunctionOnSet(usado, DOMAIN monedas) = gastadas
    /\ \A i \in DOMAIN monedas :
            /\ dado[i] <= monedas[i].cantidad + usado[i]
            /\ ~obsoleta => dado[i] = monedas[i].cantidad + usado[i]
    /\ \A h \in Hilos : peticion[h] # Nada =>
            \A i \in DOMAIN peticion[h].dato.leidas :
                dado[i] <= peticion[h].dato.leidas[i] + usado[i]

IInvMonedas ==
    /\ Ranuras(PeticionUso)
    /\ MonedasOK
    /\ \A h \in Hilos : SabeDelUso(h)
    /\ \E dado, usado : Cuentan(dado, usado)

\* A loaded amount is a number.
LEMMA UsoEs ==
    ASSUME Ranuras(PeticionUso), NEW h \in Hilos, peticion[h] # Nada
    PROVE  /\ peticion[h].op = "usar"
           /\ peticion[h].dato.usa \in Nat
           /\ peticion[h].dato.leidas \in Seq(Nat)
           /\ peticion[h].dato.deja \in Seq(Nat)
           /\ \A i \in DOMAIN peticion[h].dato.leidas : peticion[h].dato.leidas[i] \in Nat
           /\ \A i \in DOMAIN peticion[h].dato.deja : peticion[h].dato.deja[i] \in Nat
           /\ peticion[h].vieja \in BOOLEAN
  <1>1. peticion[h] \in PeticionUso
    BY DEF Ranuras
  <1>2. QED BY <1>1, ElementOfSeq, LenProperties DEF PeticionUso, Peticion

\* The coins in the rows, as a sum.
LEMMA SumaEs == Suma(monedas) = SumFunctionOnSet(Cantidades(monedas), DOMAIN monedas)
  BY DEF Suma, SumaEn, Cantidades

LEMMA PasoOtorga ==
    ASSUME IInvMonedas, NEW tipo \in TipoMoneda, NEW n \in Nat, Otorga(tipo, n)
    PROVE  IInvMonedas'
  <1>0. PICK dado, usado : Cuentan(dado, usado)
    BY DEF IInvMonedas
  <1>1. /\ monedas \in Seq(CoinRow) /\ otorgadas \in Nat /\ gastadas \in Nat
        /\ Ranuras(PeticionUso) /\ \A h \in Hilos : SabeDelUso(h)
    BY DEF IInvMonedas, MonedasOK
  <1>2. PICK l : l = Len(monedas) + 1
    OBVIOUS
  <1>3. PICK r \in CoinRow : r = [tipo |-> tipo, cantidad |-> n]
    BY DEF CoinRow
  <1>4. /\ monedas' = Append(monedas, r)
        /\ otorgadas' = otorgadas + n /\ gastadas' = gastadas
        /\ peticion' = peticion /\ obsoleta' = obsoleta
    BY <1>3 DEF Otorga, servidor
  <1>5. /\ monedas' \in Seq(CoinRow)
        /\ DOMAIN monedas' = DOMAIN monedas \cup {l} /\ l \notin DOMAIN monedas
        /\ \A i \in DOMAIN monedas : monedas'[i] = monedas[i]
        /\ monedas'[l] = r /\ r.cantidad = n
        /\ IsFiniteSet(DOMAIN monedas)
    <2>1. /\ monedas' \in Seq(CoinRow) /\ Len(monedas') = l /\ Len(monedas) \in Nat
          /\ \A i \in 1..Len(monedas) : monedas'[i] = monedas[i]
          /\ monedas'[l] = r
      BY <1>1, <1>2, <1>4, AppendProperties
    <2>2. DOMAIN monedas' = 1..l /\ DOMAIN monedas = 1..Len(monedas)
      BY <1>1, <2>1, LenProperties
    <2>3. 1..l = (1..Len(monedas)) \cup {l} /\ l \notin 1..Len(monedas)
      BY <1>2, <2>1
    <2>4. IsFiniteSet(DOMAIN monedas) /\ r.cantidad = n
      BY <1>1, <1>3, CoinEs
    <2>5. DOMAIN monedas' = DOMAIN monedas \cup {l} /\ l \notin DOMAIN monedas
      BY <2>2, <2>3
    <2>6. \A i \in DOMAIN monedas : monedas'[i] = monedas[i]
      BY <2>1, <2>2
    <2>7. QED BY <2>1, <2>4, <2>5, <2>6
  <1>6. PICK dado2 : dado2 = [i \in DOMAIN monedas' |-> IF i = l THEN n ELSE dado[i]]
    OBVIOUS
  <1>7. PICK usado2 : usado2 = [i \in DOMAIN monedas' |-> IF i = l THEN 0 ELSE usado[i]]
    OBVIOUS
  <1>8. /\ dado2 \in [DOMAIN monedas' -> Nat] /\ usado2 \in [DOMAIN monedas' -> Nat]
        /\ \A i \in DOMAIN monedas : dado2[i] = dado[i] /\ usado2[i] = usado[i]
                                     /\ dado[i] \in Nat /\ usado[i] \in Nat
        /\ dado2[l] = n /\ usado2[l] = 0
    BY <1>0, <1>5, <1>6, <1>7 DEF Cuentan
  <1>9. SumFunctionOnSet(dado2, DOMAIN monedas') = otorgadas'
    <2>1. SumFunctionOnSet(dado2, DOMAIN monedas') = SumFunctionOnSet(dado2, DOMAIN monedas) + n
      BY <1>5, <1>8, SumaAgrega
    <2>2. SumFunctionOnSet(dado2, DOMAIN monedas) = SumFunctionOnSet(dado, DOMAIN monedas)
      BY <1>5, <1>8, SumaIgual
    <2>3. QED BY <1>0, <1>4, <2>1, <2>2 DEF Cuentan
  <1>10. SumFunctionOnSet(usado2, DOMAIN monedas') = gastadas'
    <2>1. SumFunctionOnSet(usado2, DOMAIN monedas') = SumFunctionOnSet(usado2, DOMAIN monedas) + 0
      BY <1>5, <1>8, SumaAgrega
    <2>2. SumFunctionOnSet(usado2, DOMAIN monedas) = SumFunctionOnSet(usado, DOMAIN monedas)
      BY <1>5, <1>8, SumaIgual
    <2>3. QED BY <1>0, <1>1, <1>4, <2>1, <2>2 DEF Cuentan
  <1>11. \A i \in DOMAIN monedas' :
            /\ dado2[i] <= monedas'[i].cantidad + usado2[i]
            /\ ~obsoleta' => dado2[i] = monedas'[i].cantidad + usado2[i]
    BY <1>0, <1>4, <1>5, <1>8 DEF Cuentan
  <1>12. ASSUME NEW h \in Hilos
         PROVE  SabeDelUso(h)'
    BY <1>1, <1>4, <1>5 DEF SabeDelUso
  <1>13. ASSUME NEW h \in Hilos, peticion'[h] # Nada,
                NEW i \in DOMAIN peticion'[h].dato.leidas
         PROVE  dado2[i] <= peticion'[h].dato.leidas[i] + usado2[i]
    <2>1. i \in DOMAIN monedas /\ dado[i] <= peticion[h].dato.leidas[i] + usado[i]
      BY <1>0, <1>1, <1>4, <1>13 DEF SabeDelUso, Cuentan
    <2>2. QED BY <1>4, <1>8, <2>1
  <1>14. Cuentan(dado2, usado2)'
    BY <1>8, <1>9, <1>10, <1>11, <1>13 DEF Cuentan
  <1>15. Ranuras(PeticionUso)' /\ MonedasOK'
    BY <1>1, <1>4, <1>5 DEF Ranuras, MonedasOK
  <1>16. QED BY <1>12, <1>14, <1>15 DEF IInvMonedas

LEMMA PasoUsar ==
    ASSUME IInvMonedas, NEW h \in Hilos, NEW n \in Usos, UsarMonedas(h, n)
    PROVE  IInvMonedas'
  <1>0. PICK dado, usado : Cuentan(dado, usado)
    BY DEF IInvMonedas
  <1>1. /\ monedas \in Seq(CoinRow) /\ Ranuras(PeticionUso) /\ DePeticiones(PeticionUso)
        /\ \A g \in Hilos : SabeDelUso(g)
        /\ monedas' = monedas /\ otorgadas' = otorgadas /\ gastadas' = gastadas
        /\ n \in Nat /\ Suma(monedas) >= n
    BY PeticionesDeUso, CantidadesPositivas DEF IInvMonedas, MonedasOK, UsarMonedas, monedasVars
  <1>2. PICK d : d = [usa |-> n, leidas |-> Cantidades(monedas), deja |-> Restos(monedas, n)]
    OBVIOUS
  <1>3. PICK W : W = {Coin(i) : i \in DOMAIN monedas}
    OBVIOUS
  <1>4. Llega(h, "usar", W, d)
    BY <1>2, <1>3 DEF UsarMonedas, Cantidades, Restos
  <1>5. /\ d.usa = n /\ d.leidas = Cantidades(monedas) /\ d.deja = Restos(monedas, n)
        /\ d.leidas \in Seq(Nat) /\ d.deja \in Seq(Nat)
        /\ DOMAIN d.leidas = DOMAIN monedas /\ DOMAIN d.deja = DOMAIN monedas
        /\ \A i \in DOMAIN monedas : /\ d.leidas[i] = monedas[i].cantidad
                                     /\ d.deja[i] = Deja(monedas, n, i)
    <2>1. DOMAIN monedas = 1..Len(monedas) /\ Len(monedas) \in Nat
      BY <1>1, LenProperties
    <2>2. \A i \in DOMAIN monedas : monedas[i].cantidad \in Nat /\ Deja(monedas, n, i) \in Nat
      BY <1>1, CoinEs, DejaMenos
    <2>3. Cantidades(monedas) \in Seq(Nat) /\ Restos(monedas, n) \in Seq(Nat)
      BY <2>1, <2>2 DEF Cantidades, Restos
    <2>4. QED BY <1>2, <2>3 DEF Cantidades, Restos
  <1>6. PeticionNueva("usar", W, d) \in PeticionUso
    <2>1. W \in SUBSET ({"coin"} \X Nat)
      BY <1>1, <1>3, CoinEs DEF Coin
    <2>2. d \in [usa: Nat, leidas: Seq(Nat), deja: Seq(Nat)]
      BY <1>1, <1>2, <1>5
    <2>3. QED BY <2>1, <2>2 DEF PeticionNueva, PeticionUso, Peticion
  <1>7. /\ Ranuras(PeticionUso)' /\ obsoleta' = obsoleta
        /\ peticion'[h].op = "usar" /\ peticion'[h].lee = W /\ peticion'[h].dato = d
        /\ \A g \in Hilos \ {h} : peticion'[g] = peticion[g]
    BY <1>1, <1>4, <1>6, AlLlegar
  <1>8. SumFunctionOnSet(d.leidas, DOMAIN d.leidas)
            = SumFunctionOnSet(d.deja, DOMAIN d.leidas) + n
    BY <1>1, <1>5, GastaJusto, SumaEs
  <1>9. SabeDelUso(h)'
    <2>1. \A i \in DOMAIN monedas : d.deja[i] <= d.leidas[i] /\ Coin(i) \in W
      BY <1>1, <1>3, <1>5, DejaMenos
    <2>2. QED BY <1>1, <1>5, <1>7, <1>8, <2>1 DEF SabeDelUso
  <1>10. ASSUME NEW g \in Hilos \ {h}
         PROVE  SabeDelUso(g)'
    BY <1>1, <1>7 DEF SabeDelUso
  <1>11. ASSUME NEW g \in Hilos, peticion'[g] # Nada,
                NEW i \in DOMAIN peticion'[g].dato.leidas
         PROVE  dado[i] <= peticion'[g].dato.leidas[i] + usado[i]
    <2>1. CASE g = h
      BY <1>0, <1>5, <1>7, <1>11, <2>1 DEF Cuentan
    <2>2. CASE g # h
      BY <1>0, <1>7, <1>11, <2>2 DEF Cuentan
    <2>3. QED BY <2>1, <2>2
  <1>12. Cuentan(dado, usado)'
    BY <1>0, <1>1, <1>7, <1>11 DEF Cuentan
  <1>13. MonedasOK'
    BY <1>1 DEF IInvMonedas, MonedasOK
  <1>14. QED BY <1>7, <1>9, <1>10, <1>12, <1>13 DEF IInvMonedas
LEMMA PasoCommitUso ==
    ASSUME IInvMonedas, NEW h \in Hilos, CommitUso(h)
    PROVE  IInvMonedas'
  <1>0. PICK dado, usado : Cuentan(dado, usado)
    BY DEF IInvMonedas
  <1>1. /\ monedas \in Seq(CoinRow) /\ Ranuras(PeticionUso) /\ DePeticiones(PeticionUso)
        /\ otorgadas \in Nat /\ gastadas \in Nat
        /\ \A g \in Hilos : SabeDelUso(g)
        /\ peticion[h] # Nada
    BY PeticionesDeUso DEF IInvMonedas, MonedasOK, CommitUso, EnCurso
  <1>2. PICK L, J, u : /\ L = peticion[h].dato.leidas /\ J = peticion[h].dato.deja
                       /\ u = peticion[h].dato.usa
    OBVIOUS
  <1>3. PICK E : E = {i \in DOMAIN J : J[i] # L[i]}
    OBVIOUS
  <1>4. PICK W : W = {Coin(i) : i \in E}
    OBVIOUS
  <1>5. /\ monedas' = [i \in DOMAIN monedas |->
                IF i \in E THEN [monedas[i] EXCEPT !.cantidad = J[i]] ELSE monedas[i]]
        /\ gastadas' = gastadas + u /\ otorgadas' = otorgadas
        /\ Termina(h, W)
    BY <1>2, <1>3, <1>4 DEF CommitUso, Dato
  <1>6. /\ Ranuras(PeticionUso)' /\ peticion'[h] = Nada
        /\ ~obsoleta' => ~obsoleta /\ ~peticion[h].vieja
        /\ \A g \in Hilos \ {h} : SigueIgual(g, W)
    BY <1>1, <1>5, AlTerminar
  <1>7. /\ DOMAIN L \subseteq DOMAIN monedas /\ DOMAIN J = DOMAIN L
        /\ \A i \in DOMAIN L : L[i] \in Nat /\ J[i] \in Nat /\ J[i] <= L[i]
                               /\ (~peticion[h].vieja => monedas[i].cantidad = L[i])
        /\ SumFunctionOnSet(L, DOMAIN L) = SumFunctionOnSet(J, DOMAIN L) + u
        /\ u \in Nat
    <2>1. /\ DOMAIN L \subseteq DOMAIN monedas /\ DOMAIN J = DOMAIN L
          /\ \A i \in DOMAIN L : J[i] <= L[i]
                               /\ (~peticion[h].vieja => monedas[i].cantidad = L[i])
          /\ SumFunctionOnSet(L, DOMAIN L) = SumFunctionOnSet(J, DOMAIN L) + u
      BY <1>1, <1>2 DEF SabeDelUso
    <2>2. QED BY <1>1, <1>2, <2>1, UsoEs
  <1>8. /\ DOMAIN monedas = 1..Len(monedas) /\ Len(monedas) \in Nat
        /\ IsFiniteSet(DOMAIN monedas) /\ IsFiniteSet(DOMAIN L)
        /\ \A i \in DOMAIN monedas : monedas[i].cantidad \in Nat /\ monedas[i] \in CoinRow
    <2>1. IsFiniteSet(DOMAIN monedas)
      BY <1>1, CoinEs
    <2>2. \A i \in DOMAIN monedas : monedas[i].cantidad \in Nat
      BY <1>1, CoinEs
    <2>3. DOMAIN monedas = 1..Len(monedas) /\ Len(monedas) \in Nat
      BY <1>1, LenProperties
    <2>4. \A i \in DOMAIN monedas : monedas[i] \in CoinRow
      BY <1>1, <2>3, ElementOfSeq
    <2>5. QED BY <1>7, <2>1, <2>2, <2>3, <2>4, FS_Subset
  <1>9. /\ DOMAIN monedas' = DOMAIN monedas
        /\ \A i \in DOMAIN monedas :
                /\ monedas'[i] \in CoinRow
                /\ i \in E => monedas'[i].cantidad = J[i]
                /\ i \notin E => monedas'[i] = monedas[i]
    <2>1. DOMAIN monedas' = DOMAIN monedas
      BY <1>5
    <2>2. ASSUME NEW i \in DOMAIN monedas
          PROVE  /\ monedas'[i] \in CoinRow
                 /\ i \in E => monedas'[i].cantidad = J[i]
                 /\ i \notin E => monedas'[i] = monedas[i]
      <3>1. ASSUME i \in E
            PROVE  monedas'[i] \in CoinRow /\ monedas'[i].cantidad = J[i]
        <4>1. J[i] \in Nat
          BY <1>3, <1>7, <3>1
        <4>2. monedas'[i] = [monedas[i] EXCEPT !.cantidad = J[i]]
          BY <1>5, <3>1
        <4>3. monedas[i] \in [tipo: TipoMoneda, cantidad: Nat]
          BY <1>8 DEF CoinRow
        <4>4. QED BY <4>1, <4>2, <4>3 DEF CoinRow
      <3>2. ASSUME i \notin E
            PROVE  monedas'[i] = monedas[i]
        BY <1>5, <3>2
      <3>3. QED BY <1>8, <3>1, <3>2
    <2>3. QED BY <2>1, <2>2
  <1>10. MonedasOK'
    <2>1. monedas' = [i \in 1..Len(monedas) |-> monedas'[i]]
      BY <1>5, <1>8
    <2>2. monedas' \in Seq(CoinRow)
      <3>1. \A i \in 1..Len(monedas) : monedas'[i] \in CoinRow
        BY <1>8, <1>9
      <3>2. PICK m : m = monedas'
        OBVIOUS
      <3>3. m \in [1..Len(monedas) -> CoinRow]
        BY <2>1, <3>1, <3>2
      <3>4. QED BY <1>8, <3>2, <3>3
    <2>3. QED BY <1>1, <1>5, <1>7, <2>2 DEF MonedasOK
  <1>11. PICK gasto : gasto = [i \in DOMAIN monedas |-> IF i \in DOMAIN L THEN L[i] - J[i] ELSE 0]
    OBVIOUS
  <1>12. \A i \in DOMAIN monedas :
            /\ gasto[i] \in Nat
            /\ i \in DOMAIN L => gasto[i] = L[i] - J[i]
            /\ i \notin DOMAIN L => gasto[i] = 0
    BY <1>7, <1>11
  <1>13. SumFunctionOnSet(gasto, DOMAIN monedas) = u
    <2>1. SumFunctionOnSet(L, DOMAIN L)
             = SumFunctionOnSet(J, DOMAIN L) + SumFunctionOnSet(gasto, DOMAIN L)
      <3>1. \A i \in DOMAIN L : J[i] \in Nat /\ gasto[i] \in Nat /\ L[i] = J[i] + gasto[i]
        BY <1>7, <1>12
      <3>2. QED BY <1>8, <3>1, SumaMas
    <2>2. PICK R : R = DOMAIN monedas \ DOMAIN L
      OBVIOUS
    <2>3. IsFiniteSet(R) /\ DOMAIN monedas = DOMAIN L \cup R /\ DOMAIN L \cap R = {}
      BY <1>7, <1>8, <2>2, FS_Subset
    <2>4. SumFunctionOnSet(gasto, R) = 0
      BY <1>12, <2>2, <2>3, SumaCeros
    <2>5. SumFunctionOnSet(gasto, DOMAIN monedas)
            = SumFunctionOnSet(gasto, DOMAIN L) + SumFunctionOnSet(gasto, R)
      BY <1>8, <1>12, <2>3, SumaUnion
    <2>6. SumFunctionOnSet(gasto, DOMAIN L) \in Nat /\ SumFunctionOnSet(J, DOMAIN L) \in Nat
      BY <1>7, <1>8, <1>12, SumaNat
    <2>7. QED BY <1>7, <2>1, <2>4, <2>5, <2>6
  <1>14. PICK usado2 : usado2 = [i \in DOMAIN monedas |-> usado[i] + gasto[i]]
    OBVIOUS
  <1>15. /\ usado2 \in [DOMAIN monedas -> Nat]
         /\ \A i \in DOMAIN monedas : /\ usado2[i] = usado[i] + gasto[i]
                                      /\ usado[i] \in Nat /\ dado[i] \in Nat
    BY <1>0, <1>12, <1>14 DEF Cuentan
  <1>16. SumFunctionOnSet(usado2, DOMAIN monedas) = gastadas'
    <2>1. SumFunctionOnSet(usado2, DOMAIN monedas)
            = SumFunctionOnSet(usado, DOMAIN monedas) + SumFunctionOnSet(gasto, DOMAIN monedas)
      BY <1>8, <1>12, <1>15, SumaMas
    <2>2. QED BY <1>0, <1>5, <1>13, <2>1 DEF Cuentan
  <1>17. ASSUME NEW i \in DOMAIN monedas
         PROVE  /\ dado[i] <= monedas'[i].cantidad + usado2[i]
                /\ ~obsoleta' => dado[i] = monedas'[i].cantidad + usado2[i]
    <2>1. /\ dado[i] <= monedas[i].cantidad + usado[i]
          /\ ~obsoleta' => dado[i] = monedas[i].cantidad + usado[i]
      BY <1>0, <1>6 DEF Cuentan
    <2>2. CASE i \notin E
      <3>1. gasto[i] = 0
        BY <1>3, <1>7, <1>12, <2>2
      <3>2. QED BY <1>8, <1>9, <1>15, <2>1, <2>2, <3>1
    <2>3. CASE i \in E
      <3>1. /\ i \in DOMAIN L /\ monedas'[i].cantidad = J[i] /\ gasto[i] = L[i] - J[i]
            /\ L[i] \in Nat /\ J[i] \in Nat
        BY <1>3, <1>7, <1>9, <1>12, <2>3
      <3>2. dado[i] <= L[i] + usado[i]
        BY <1>0, <1>1, <1>2, <3>1 DEF Cuentan
      <3>3. ~obsoleta' => monedas[i].cantidad = L[i]
        BY <1>6, <1>7, <3>1
      <3>4. usado2[i] = usado[i] + L[i] - J[i] /\ usado[i] \in Nat /\ dado[i] \in Nat
        BY <1>15, <3>1
      <3>5. QED BY <2>1, <3>1, <3>2, <3>3, <3>4
    <2>4. QED BY <2>2, <2>3
  <1>18. ASSUME NEW g \in Hilos, peticion'[g] # Nada
         PROVE  /\ SabeDelUso(g)'
                /\ \A i \in DOMAIN peticion'[g].dato.leidas :
                        dado[i] <= peticion'[g].dato.leidas[i] + usado2[i]
    <2>1. /\ g # h /\ peticion[g] # Nada /\ peticion'[g].dato = peticion[g].dato
          /\ peticion'[g].lee = peticion[g].lee
          /\ ~peticion'[g].vieja => ~peticion[g].vieja /\ peticion[g].lee \cap W = {}
      BY <1>6, <1>18 DEF SigueIgual
    <2>2. PICK d : d = peticion[g].dato
      OBVIOUS
    <2>3. /\ DOMAIN d.leidas \subseteq DOMAIN monedas
          /\ DOMAIN d.deja = DOMAIN d.leidas
          /\ \A i \in DOMAIN d.leidas :
                  /\ d.deja[i] <= d.leidas[i]
                  /\ Coin(i) \in peticion[g].lee
                  /\ ~peticion[g].vieja => monedas[i].cantidad = d.leidas[i]
                  /\ dado[i] <= d.leidas[i] + usado[i]
                  /\ d.leidas[i] \in Nat
          /\ SumFunctionOnSet(d.leidas, DOMAIN d.leidas)
                  = SumFunctionOnSet(d.deja, DOMAIN d.leidas) + d.usa
      BY <1>0, <1>1, <2>1, <2>2, UsoEs DEF SabeDelUso, Cuentan
    <2>4. ASSUME NEW i \in DOMAIN d.leidas, ~peticion'[g].vieja
          PROVE  monedas'[i].cantidad = d.leidas[i]
      <3>1. Coin(i) \notin W
        BY <2>1, <2>3, <2>4
      <3>2. i \notin E
        BY <1>4, <3>1
      <3>3. QED BY <1>9, <2>1, <2>3, <2>4, <3>2
    <2>5. SabeDelUso(g)'
      BY <1>9, <2>1, <2>2, <2>3, <2>4 DEF SabeDelUso
    <2>6. ASSUME NEW i \in DOMAIN d.leidas
          PROVE  dado[i] <= d.leidas[i] + usado2[i]
      BY <1>12, <1>15, <2>3, <2>6
    <2>7. QED BY <2>1, <2>2, <2>5, <2>6
  <1>19. Cuentan(dado, usado2)'
    BY <1>0, <1>5, <1>9, <1>15, <1>16, <1>17, <1>18 DEF Cuentan
  <1>20. \A g \in Hilos : SabeDelUso(g)'
    BY <1>18 DEF SabeDelUso
  <1>21. QED BY <1>6, <1>10, <1>19, <1>20 DEF IInvMonedas

LEMMA MonedasQuietas ==
    ASSUME IInvMonedas, UNCHANGED <<monedasVars, servidor>>
    PROVE  IInvMonedas'
  <1>1. /\ monedas' = monedas /\ otorgadas' = otorgadas /\ gastadas' = gastadas
        /\ peticion' = peticion /\ obsoleta' = obsoleta
    BY DEF monedasVars, servidor
  <1>2. PICK dado, usado : Cuentan(dado, usado)
    BY DEF IInvMonedas
  <1>3. Cuentan(dado, usado)'
    BY <1>1, <1>2 DEF Cuentan
  <1>4. \A h \in Hilos : SabeDelUso(h)'
    BY <1>1 DEF IInvMonedas, SabeDelUso
  <1>5. Ranuras(PeticionUso)' /\ MonedasOK'
    BY <1>1 DEF IInvMonedas, Ranuras, MonedasOK
  <1>6. QED BY <1>3, <1>4, <1>5 DEF IInvMonedas

LEMMA PasoMonedas ==
    ASSUME IInvMonedas, NextMonedas
    PROVE  IInvMonedas'
  <1>1. CASE ComprarMonedas
    <2>1. PICK n \in Paquetes : Otorga("comprada", n)
      BY <1>1 DEF ComprarMonedas
    <2>2. QED BY <2>1, PasoOtorga, CantidadesPositivas DEF TipoMoneda
  <1>2. CASE GanarMonedas
    <2>1. PICK n \in Ganadas : Otorga("ganada", n)
      BY <1>2 DEF GanarMonedas
    <2>2. QED BY <2>1, PasoOtorga, CantidadesPositivas DEF TipoMoneda
  <1>3. ASSUME NEW h \in Hilos, CommitUso(h)
        PROVE  IInvMonedas'
    BY <1>3, PasoCommitUso
  <1>4. ASSUME NEW h \in Hilos, NEW n \in Usos, UsarMonedas(h, n)
        PROVE  IInvMonedas'
    BY <1>4, PasoUsar
  <1>5. QED BY <1>1, <1>2, <1>3, <1>4 DEF NextMonedas

\* With no request in flight and no rows, the books are empty.
LEMMA MonedasAlInicio ==
    ASSUME InitMonedas, Ranuras(PeticionUso), \A h \in Hilos : peticion[h] = Nada
    PROVE  IInvMonedas
  <1>1. monedas = <<>> /\ otorgadas = 0 /\ gastadas = 0
    BY DEF InitMonedas
  <1>2. DOMAIN monedas = {}
    BY <1>1
  <1>3. PICK z : z = [i \in {} |-> 0]
    OBVIOUS
  <1>4. SumFunctionOnSet(z, {}) = 0
    BY SumaNada
  <1>5. z \in [{} -> Nat]
    BY <1>3
  <1>6. Cuentan(z, z)
    BY <1>1, <1>2, <1>4, <1>5 DEF Cuentan
  <1>7. MonedasOK
    BY <1>1 DEF MonedasOK
  <1>8. QED BY <1>6, <1>7 DEF IInvMonedas, SabeDelUso

\* From the books of each row to the totals.
LEMMA AlcanzaMonedas ==
    ASSUME IInvMonedas
    PROVE  MonedasOK /\ MonedasEnSerie /\ NadiePierdeMonedas
  <1>0. PICK dado, usado : Cuentan(dado, usado)
    BY DEF IInvMonedas
  <1>1. MonedasOK /\ monedas \in Seq(CoinRow)
    BY DEF IInvMonedas, MonedasOK
  <1>2. PICK c : c = Cantidades(monedas)
    OBVIOUS
  <1>3. PICK D : D = DOMAIN monedas
    OBVIOUS
  <1>4. PICK t : t = [i \in D |-> c[i] + usado[i]]
    OBVIOUS
  <1>5. IsFiniteSet(D) /\ \A i \in D : c[i] \in Nat /\ c[i] = monedas[i].cantidad
    BY <1>1, <1>2, <1>3, CoinEs
  <1>6. \A i \in D : /\ dado[i] \in Nat /\ usado[i] \in Nat
                     /\ t[i] = c[i] + usado[i] /\ t[i] \in Nat
                     /\ dado[i] <= t[i] /\ (~obsoleta => t[i] = dado[i])
    BY <1>0, <1>3, <1>4, <1>5 DEF Cuentan
  <1>7. SumFunctionOnSet(t, D) = SumFunctionOnSet(c, D) + SumFunctionOnSet(usado, D)
    BY <1>5, <1>6, SumaMas
  <1>8. SumFunctionOnSet(dado, D) = otorgadas /\ SumFunctionOnSet(usado, D) = gastadas
    BY <1>0, <1>3 DEF Cuentan
  <1>9. SumFunctionOnSet(c, D) = Suma(monedas)
    BY <1>2, <1>3, SumaEs
  <1>10. SumFunctionOnSet(dado, D) <= SumFunctionOnSet(t, D)
    BY <1>5, <1>6, SumaMayor
  <1>11. ~obsoleta => SumFunctionOnSet(t, D) = SumFunctionOnSet(dado, D)
    BY <1>5, <1>6, SumaIgual
  <1>12. /\ SumFunctionOnSet(c, D) \in Nat /\ SumFunctionOnSet(usado, D) \in Nat
         /\ SumFunctionOnSet(dado, D) \in Nat
    BY <1>5, <1>6, SumaNat
  <1>13. QED BY <1>1, <1>7, <1>8, <1>9, <1>10, <1>11, <1>12
            DEF MonedasEnSerie, NadiePierdeMonedas
-----------------------------------------------------------------------------
(* The income certificate of a provider *)

Mes == Nat \X (1..12)
IngresoRow == [mes: Mes, neto: Nat, estado: {"pendiente", "completado", "reembolsado"}]

\* A payment was created in some month up to today.
IInvCertificado ==
    /\ hoy \in Mes /\ hoy[1] > 2
    /\ ingresos \in Seq(IngresoRow)
    /\ \A i \in DOMAIN ingresos : ~MesAntes(hoy, ingresos[i].mes)

LEMMA ElMesQueSigue ==
    ASSUME NEW m \in Mes
    PROVE  /\ MesSiguiente(m) \in Mes /\ MesAntes(m, MesSiguiente(m))
           /\ MesSiguiente(m)[1] >= m[1]
           /\ \A x \in Mes : MesAntes(x, MesSiguiente(m)) <=> ~MesAntes(m, x)
  BY DEF Mes, MesSiguiente, MesAntes

LEMMA MesesEnOrden ==
    ASSUME NEW a \in Mes, NEW b \in Mes, NEW c \in Mes
    PROVE  /\ MesAntes(a, b) /\ MesAntes(b, c) => MesAntes(a, c)
           /\ ~MesAntes(b, a) /\ MesAntes(b, c) => MesAntes(a, c)
           /\ MesAntes(a, b) => ~MesAntes(b, a)
           /\ ~MesAntes(b, a) /\ ~MesAntes(c, b) => ~MesAntes(c, a)
  BY DEF Mes, MesAntes

LEMMA LaVentana ==
    ASSUME NEW m \in Mes, m[1] > 2
    PROVE  LET v == MesesVentana(m)
           IN  /\ \A k \in 1..12 : v[k] \in Mes /\ ~MesAntes(v[k], v[1])
               /\ v[12] = m
               /\ \A k \in 1..11 : v[k + 1] = MesSiguiente(v[k])
  <1>0. PICK y \in Nat, n \in 1..12 : m = <<y, n>> /\ y > 2
    BY DEF Mes
  <1>1. PICK v : v = MesesVentana(m)
    OBVIOUS
  <1>2. \A k \in 1..12 : v[k] = IF n + k > 12 THEN <<y, n + k - 12>> ELSE <<y - 1, n + k>>
    BY <1>0, <1>1 DEF MesesVentana
  <1>3. ASSUME NEW k \in 1..12
        PROVE  v[k] \in Mes /\ ~MesAntes(v[k], v[1])
    BY <1>0, <1>2 DEF Mes, MesAntes
  <1>4. v[12] = m
    BY <1>0, <1>2
  <1>5. ASSUME NEW k \in 1..11
        PROVE  v[k + 1] = MesSiguiente(v[k])
    <2>1. k \in 1..12 /\ k + 1 \in 1..12
      OBVIOUS
    <2>2. CASE n + k > 12
      BY <1>0, <1>2, <2>1, <2>2 DEF MesSiguiente
    <2>3. CASE n + k = 12
      BY <1>0, <1>2, <2>1, <2>3 DEF MesSiguiente
    <2>4. CASE n + k < 12
      BY <1>0, <1>2, <2>1, <2>4 DEF MesSiguiente
    <2>5. QED BY <2>2, <2>3, <2>4
  <1>6. QED BY <1>1, <1>3, <1>4, <1>5

LEMMA IngresoEs ==
    ASSUME IInvCertificado
    PROVE  /\ DOMAIN ingresos = 1..Len(ingresos) /\ Len(ingresos) \in Nat
           /\ IsFiniteSet(DOMAIN ingresos)
           /\ \A i \in DOMAIN ingresos : ingresos[i] \in IngresoRow
  <1>1. ingresos \in Seq(IngresoRow)
    BY DEF IInvCertificado
  <1>2. DOMAIN ingresos = 1..Len(ingresos) /\ Len(ingresos) \in Nat
    BY <1>1, LenProperties
  <1>3. QED BY <1>1, <1>2, FS_Interval, ElementOfSeq

\* The months of the window share the payments out: each falls in one of them.
LEMMA CuadraHistorial ==
    ASSUME IInvCertificado
    PROVE  HistorialCuadra
  <1>0. PICK v : v = MesesVentana(hoy)
    OBVIOUS
  <1>1. PICK D, c, n : /\ D = DOMAIN ingresos /\ c = Completados
                       /\ n = [i \in D |-> ingresos[i].neto]
    OBVIOUS
  <1>2. PICK m : m = [i \in D |-> ingresos[i].mes]
    OBVIOUS
  <1>3. /\ IsFiniteSet(c) /\ c \subseteq D
        /\ \A i \in c : n[i] \in Nat /\ m[i] \in Mes /\ m[i] = ingresos[i].mes
                        /\ ~MesAntes(hoy, m[i])
    <2>1. c \subseteq D
      BY <1>1 DEF Completados
    <2>2. IsFiniteSet(c)
      BY <1>1, <2>1, IngresoEs, FS_Subset
    <2>3. ASSUME NEW i \in c
          PROVE  n[i] \in Nat /\ m[i] \in Mes /\ m[i] = ingresos[i].mes /\ ~MesAntes(hoy, m[i])
      <3>1. ingresos[i] \in IngresoRow /\ i \in D
        BY <1>1, <2>1, IngresoEs
      <3>2. ~MesAntes(hoy, ingresos[i].mes)
        BY <1>1, <3>1 DEF IInvCertificado
      <3>3. QED BY <1>1, <1>2, <3>1, <3>2 DEF IngresoRow
    <2>4. QED BY <2>1, <2>2, <2>3
  <1>4. \A ids : SumaDe(ids) = SumFunctionOnSet(n, ids)
    BY <1>1 DEF SumaDe
  <1>5. hoy \in Mes /\ hoy[1] > 2
    BY DEF IInvCertificado
  <1>6. /\ \A k \in 1..12 : v[k] \in Mes /\ ~MesAntes(v[k], v[1])
        /\ v[12] = hoy
        /\ \A k \in 1..11 : v[k + 1] = MesSiguiente(v[k])
    BY <1>0, <1>5, LaVentana
  <1> DEFINE B(k) == {i \in c : ~MesAntes(m[i], v[k]) /\ MesAntes(m[i], MesSiguiente(v[k]))}
             A(k) == {i \in c : ~MesAntes(m[i], v[1]) /\ MesAntes(m[i], MesSiguiente(v[k]))}
             Va(k) == SumFunctionOnSet(historial, 1..k) = SumFunctionOnSet(n, A(k))
  <1>7. ASSUME NEW k \in 1..12
        PROVE  /\ historial[k] = SumFunctionOnSet(n, B(k)) /\ historial[k] \in Nat
               /\ IsFiniteSet(B(k)) /\ IsFiniteSet(A(k))
               /\ A(k) \subseteq c /\ B(k) \subseteq c
    <2>1. IsFiniteSet(B(k)) /\ IsFiniteSet(A(k))
      BY <1>3, FS_Subset
    <2>2. B(k) = {i \in Completados : ~MesAntes(ingresos[i].mes, v[k])
                                      /\ MesAntes(ingresos[i].mes, MesSiguiente(v[k]))}
      BY <1>1, <1>3
    <2>3. historial[k] = SumaDe(B(k))
      BY <1>0, <2>2 DEF historial, IngresoDelMes
    <2>4. SumFunctionOnSet(n, B(k)) \in Nat
      BY <1>3, <2>1, SumaNat
    <2>5. QED BY <1>4, <2>1, <2>3, <2>4
  <1>8. Va(1)
    <2>1. 1..1 = {} \cup {1} /\ 1 \notin {} /\ 1 \in 1..12
      OBVIOUS
    <2>2. SumFunctionOnSet(historial, {} \cup {1}) = SumFunctionOnSet(historial, {}) + historial[1]
      <3>1. historial[1] \in Nat
        BY <1>7, <2>1
      <3>2. IsFiniteSet({})
        BY FS_EmptySet
      <3> HIDE DEF A, B
      <3>3. QED BY <3>1, <3>2, SumaAgrega
    <2>3. A(1) = B(1)
      OBVIOUS
    <2>4. QED BY <1>7, <2>1, <2>2, <2>3, SumaNada
  <1>9. ASSUME NEW k \in 1..11, Va(k)
        PROVE  Va(k + 1)
    <2>1. k \in 1..12 /\ k + 1 \in 1..12 /\ 1..(k + 1) = 1..k \cup {k + 1} /\ k + 1 \notin 1..k
      OBVIOUS
    <2>2. v[k] \in Mes /\ v[1] \in Mes /\ v[k + 1] \in Mes /\ v[k + 1] = MesSiguiente(v[k])
          /\ ~MesAntes(v[k + 1], v[1])
      BY <1>6, <2>1
    <2>3. MesSiguiente(v[k + 1]) \in Mes /\ MesAntes(v[k + 1], MesSiguiente(v[k + 1]))
      BY <2>2, ElMesQueSigue
    <2>4. ASSUME NEW i \in c
          PROVE  /\ MesAntes(m[i], v[k + 1]) => MesAntes(m[i], MesSiguiente(v[k + 1]))
                 /\ ~MesAntes(m[i], v[k + 1]) => ~MesAntes(m[i], v[1])
      <3>1. m[i] \in Mes
        BY <1>3
      <3>2. QED BY <2>2, <2>3, <3>1, MesesEnOrden
    <2>5. A(k + 1) = A(k) \cup B(k + 1) /\ A(k) \cap B(k + 1) = {}
      BY <2>2, <2>4
    <2>6. SumFunctionOnSet(n, A(k + 1)) = SumFunctionOnSet(n, A(k)) + SumFunctionOnSet(n, B(k + 1))
      <3>1. \A i \in A(k) \cup B(k + 1) : n[i] \in Nat
        BY <1>3
      <3>2. IsFiniteSet(A(k)) /\ IsFiniteSet(B(k + 1))
        BY <1>7, <2>1
      <3> HIDE DEF A, B
      <3>3. QED BY <2>5, <3>1, <3>2, SumaUnion
    <2>7. SumFunctionOnSet(historial, 1..k \cup {k + 1})
            = SumFunctionOnSet(historial, 1..k) + historial[k + 1]
      <3>1. \A x \in 1..k : historial[x] \in Nat
        BY <1>7
      <3>2. historial[k + 1] \in Nat
        BY <1>7, <2>1
      <3>3. IsFiniteSet(1..k)
        BY FS_Interval
      <3>4. QED BY <2>1, <3>1, <3>2, <3>3, SumaAgrega
    <2>8. historial[k + 1] = SumFunctionOnSet(n, B(k + 1))
      BY <1>7, <2>1
    <2> HIDE DEF A, B
    <2>9. QED BY <1>9, <2>1, <2>6, <2>7, <2>8
  <1> HIDE DEF Va
  <1>10. Va(12)
    <2>1. Va(2) BY <1>8, <1>9
    <2>2. Va(3) BY <2>1, <1>9
    <2>3. Va(4) BY <2>2, <1>9
    <2>4. Va(5) BY <2>3, <1>9
    <2>5. Va(6) BY <2>4, <1>9
    <2>6. Va(7) BY <2>5, <1>9
    <2>7. Va(8) BY <2>6, <1>9
    <2>8. Va(9) BY <2>7, <1>9
    <2>9. Va(10) BY <2>8, <1>9
    <2>10. Va(11) BY <2>9, <1>9
    <2>11. QED BY <2>10, <1>9
  <1>11. A(12) = {i \in Completados : ~MesAntes(ingresos[i].mes, MesesVentana(hoy)[1])}
    <2>1. ASSUME NEW i \in c
          PROVE  MesAntes(m[i], MesSiguiente(v[12]))
      BY <1>3, <1>5, <1>6, ElMesQueSigue
    <2>2. A(12) = {i \in c : ~MesAntes(m[i], v[1])}
      BY <2>1
    <2>3. QED BY <1>0, <1>1, <1>3, <2>2
  <1>12. QED BY <1>4, <1>10, <1>11 DEF HistorialCuadra, Va

LEMMA PasoCertificado ==
    ASSUME IInvCertificado, NextCertificado
    PROVE  IInvCertificado'
  <1>0. /\ hoy \in Mes /\ hoy[1] > 2 /\ ingresos \in Seq(IngresoRow)
        /\ DOMAIN ingresos = 1..Len(ingresos) /\ Len(ingresos) \in Nat
        /\ \A i \in DOMAIN ingresos : ingresos[i] \in IngresoRow
        /\ \A i \in DOMAIN ingresos : ingresos[i].mes \in Mes /\ ~MesAntes(hoy, ingresos[i].mes)
    BY IngresoEs DEF IInvCertificado, IngresoRow
  <1>1. CASE PasaMes
    <2>1. hoy' = MesSiguiente(hoy) /\ ingresos' = ingresos
      BY <1>1 DEF PasaMes
    <2>2. MesSiguiente(hoy) \in Mes /\ MesAntes(hoy, MesSiguiente(hoy)) /\ MesSiguiente(hoy)[1] > 2
      <3>1. MesSiguiente(hoy) \in Mes /\ MesAntes(hoy, MesSiguiente(hoy))
            /\ MesSiguiente(hoy)[1] >= hoy[1]
        BY <1>0, ElMesQueSigue
      <3>2. QED BY <1>0, <3>1 DEF Mes
    <2>3. ASSUME NEW i \in DOMAIN ingresos
          PROVE  ~MesAntes(MesSiguiente(hoy), ingresos[i].mes)
      BY <1>0, <2>2, MesesEnOrden
    <2>4. QED BY <1>0, <2>1, <2>2, <2>3 DEF IInvCertificado
  <1>2. CASE SeCrea
    <2>1. PICK n \in Netos : ingresos' = Append(ingresos, [mes |-> hoy, neto |-> n, estado |-> "pendiente"])
      BY <1>2 DEF SeCrea
    <2>2. PICK r \in IngresoRow : r = [mes |-> hoy, neto |-> n, estado |-> "pendiente"]
      BY <1>0, NetosNaturales DEF IngresoRow
    <2>3. hoy' = hoy /\ ingresos' = Append(ingresos, r) /\ r.mes = hoy
      BY <1>2, <2>1, <2>2 DEF SeCrea
    <2>4. /\ ingresos' \in Seq(IngresoRow) /\ Len(ingresos') = Len(ingresos) + 1
          /\ ingresos'[Len(ingresos) + 1] = r
          /\ \A i \in 1..Len(ingresos) : ingresos'[i] = ingresos[i]
      BY <1>0, <2>3, AppendProperties
    <2>5. DOMAIN ingresos' = 1..(Len(ingresos) + 1)
      BY <2>4, LenProperties
    <2>6. ~MesAntes(hoy, hoy)
      BY <1>0 DEF Mes, MesAntes
    <2>7. ASSUME NEW i \in DOMAIN ingresos'
          PROVE  ~MesAntes(hoy, ingresos'[i].mes)
      <3>1. CASE i = Len(ingresos) + 1
        BY <2>3, <2>4, <2>6, <3>1
      <3>2. CASE i \in 1..Len(ingresos)
        BY <1>0, <2>4, <3>2
      <3>3. QED BY <1>0, <2>5, <3>1, <3>2
    <2>8. QED BY <1>0, <2>3, <2>4, <2>7 DEF IInvCertificado
  <1>3. CASE SePagaOReembolsa
    <2>1. PICK i \in DOMAIN ingresos, e \in {"completado", "reembolsado"} :
              ingresos' = [ingresos EXCEPT ![i].estado = e]
      BY <1>3 DEF SePagaOReembolsa
    <2>2. PICK r : r = [ingresos[i] EXCEPT !.estado = e]
      OBVIOUS
    <2>3. ingresos[i] \in [mes: Mes, neto: Nat, estado: {"pendiente", "completado", "reembolsado"}]
      BY <1>0 DEF IngresoRow
    <2>4. r \in IngresoRow /\ r.mes = ingresos[i].mes
      BY <2>2, <2>3 DEF IngresoRow
    <2>5. hoy' = hoy /\ ingresos' = [ingresos EXCEPT ![i] = r]
      BY <1>3, <2>1, <2>2 DEF SePagaOReembolsa
    <2>6. /\ ingresos' \in Seq(IngresoRow) /\ Len(ingresos') = Len(ingresos)
          /\ DOMAIN ingresos' = DOMAIN ingresos
          /\ \A k \in DOMAIN ingresos : ingresos'[k] = IF k = i THEN r ELSE ingresos[k]
      BY <1>0, <2>4, <2>5, ExceptSeq
    <2>7. ASSUME NEW k \in DOMAIN ingresos
          PROVE  ~MesAntes(hoy, ingresos'[k].mes)
      BY <1>0, <2>4, <2>6
    <2>8. QED BY <1>0, <2>5, <2>6, <2>7 DEF IInvCertificado
  <1>4. QED BY <1>1, <1>2, <1>3 DEF NextCertificado

LEMMA CertificadoQuieto ==
    ASSUME IInvCertificado, UNCHANGED certificadoVars
    PROVE  IInvCertificado'
  BY DEF IInvCertificado, certificadoVars

LEMMA CertificadoAlInicio ==
    ASSUME InitCertificado
    PROVE  IInvCertificado
  <1>1. hoy \in Mes /\ hoy[1] > 2 /\ ingresos = <<>>
    BY InicioEsMes DEF InitCertificado, Mes
  <1>2. QED BY <1>1, EmptySeq DEF IInvCertificado

LEMMA AlcanzaCertificado ==
    ASSUME IInvCertificado
    PROVE  VentanaContigua /\ HistorialCuadra
  <1>1. VentanaContigua
    BY LaVentana DEF IInvCertificado, VentanaContigua
  <1>2. QED BY <1>1, CuadraHistorial
-----------------------------------------------------------------------------
(* The subscription of a user *)

LEMMA PeticionesDeSuscripcion == DePeticiones(PeticionSuscripcion)
  BY NadaNoEsSuscripcion DEF DePeticiones, PeticionSuscripcion

\* A request to subscribe remembers its plan; one that cancels found a row, and
\* rows stay.
SabeDelPlan(h) ==
    peticion[h] # Nada =>
        /\ peticion[h].op = "suscribir" => peticion[h].dato \in Planes
        /\ peticion[h].op = "cancelar_suscripcion" => suscripcion # Nada

IInvSuscripciones ==
    /\ Ranuras(PeticionSuscripcion)
    /\ SuscripcionesOK
    /\ PlanSuscrito
    /\ \A h \in Hilos : SabeDelPlan(h)

LEMMA PlanQueSigue ==
    ASSUME NEW h, NEW W, SabeDelPlan(h), SigueIgual(h, W),
           suscripcion # Nada => suscripcion' # Nada
    PROVE  SabeDelPlan(h)'
  BY DEF SabeDelPlan, SigueIgual

LEMMA PasoSuscripciones ==
    ASSUME IInvSuscripciones, NextSuscripciones
    PROVE  IInvSuscripciones'
  <1>0. /\ Ranuras(PeticionSuscripcion) /\ DePeticiones(PeticionSuscripcion)
        /\ suscripcion \in SuscripcionRow \cup {Nada} /\ plan \in Planes
        /\ plan # "free" => Activa /\ suscripcion.plan = plan
        /\ \A h \in Hilos : SabeDelPlan(h)
        /\ Nada \notin SuscripcionRow
    BY PeticionesDeSuscripcion, NadaNoEsSuscripcion DEF IInvSuscripciones, SuscripcionesOK, PlanSuscrito
  <1>1. CASE Caduca
    <2>1. /\ suscripcion \in SuscripcionRow /\ suscripcion' = [suscripcion EXCEPT !.vigente = FALSE]
          /\ plan' = plan /\ peticion' = peticion /\ obsoleta' = obsoleta
      BY <1>0, <1>1 DEF Caduca, Activa, servidor
    <2>2. /\ suscripcion' \in SuscripcionRow /\ suscripcion'.estado = suscripcion.estado
          /\ suscripcion'.plan = suscripcion.plan
      BY <2>1 DEF SuscripcionRow
    <2>3. SuscripcionesOK' /\ PlanSuscrito'
      BY <1>0, <2>1, <2>2 DEF SuscripcionesOK, PlanSuscrito, Activa
    <2>4. \A h \in Hilos : SabeDelPlan(h)'
      BY <1>0, <2>1, <2>2 DEF SabeDelPlan
    <2>5. QED BY <1>0, <2>1, <2>3, <2>4 DEF IInvSuscripciones, Ranuras
  <1>2. ASSUME NEW h \in Hilos, NEW p \in Planes, Suscribirse(h, p)
        PROVE  IInvSuscripciones'
    <2>1. /\ Llega(h, "suscribir", {<<"suscripcion">>}, p)
          /\ suscripcion' = suscripcion /\ plan' = plan
      BY <1>2 DEF Suscribirse, suscripcionVars
    <2>2. PeticionNueva("suscribir", {<<"suscripcion">>}, p) \in PeticionSuscripcion
      BY DEF PeticionNueva, PeticionSuscripcion, Peticion
    <2>3. /\ Ranuras(PeticionSuscripcion)'
          /\ peticion'[h].op = "suscribir" /\ peticion'[h].dato = p
          /\ \A g \in Hilos \ {h} : peticion'[g] = peticion[g]
      BY <1>0, <2>1, <2>2, AlLlegar
    <2>4. \A g \in Hilos : SabeDelPlan(g)'
      BY <1>0, <2>1, <2>3 DEF SabeDelPlan
    <2>5. QED BY <1>0, <2>1, <2>3, <2>4 DEF IInvSuscripciones, SuscripcionesOK, PlanSuscrito, Activa
  <1>3. ASSUME NEW h \in Hilos, CommitSuscribirse(h)
        PROVE  IInvSuscripciones'
    <2>1. /\ peticion[h] # Nada /\ peticion[h].dato \in Planes
          /\ suscripcion = Nada
          /\ suscripcion' = [plan |-> peticion[h].dato, estado |-> "activa", vigente |-> TRUE]
          /\ plan' = peticion[h].dato
          /\ Termina(h, {<<"suscripcion">>})
      BY <1>0, <1>3 DEF CommitSuscribirse, EnCurso, Dato, SabeDelPlan
    <2>2. suscripcion' \in SuscripcionRow /\ suscripcion'.estado = "activa" /\ suscripcion'.plan = plan'
      BY <2>1 DEF SuscripcionRow
    <2>3. /\ Ranuras(PeticionSuscripcion)' /\ peticion'[h] = Nada
          /\ \A g \in Hilos \ {h} : SigueIgual(g, {<<"suscripcion">>})
      BY <1>0, <2>1, AlTerminar
    <2>4. \A g \in Hilos \ {h} : SabeDelPlan(g)'
      BY <1>0, <2>1, <2>3, PlanQueSigue
    <2>5. SabeDelPlan(h)'
      BY <2>3 DEF SabeDelPlan
    <2>6. QED BY <1>0, <2>1, <2>2, <2>3, <2>4, <2>5
              DEF IInvSuscripciones, SuscripcionesOK, PlanSuscrito, Activa
  <1>4. ASSUME NEW h \in Hilos, SuscripcionDuplicada(h)
        PROVE  IInvSuscripciones'
    <2>1. Falla(h) /\ suscripcion' = suscripcion /\ plan' = plan
      BY <1>4 DEF SuscripcionDuplicada, suscripcionVars
    <2>2. /\ Ranuras(PeticionSuscripcion)' /\ peticion'[h] = Nada
          /\ \A g \in Hilos \ {h} : peticion'[g] = peticion[g]
      BY <1>0, <2>1, AlFallar
    <2>3. \A g \in Hilos : SabeDelPlan(g)'
      BY <1>0, <2>1, <2>2 DEF SabeDelPlan
    <2>4. QED BY <1>0, <2>1, <2>2, <2>3 DEF IInvSuscripciones, SuscripcionesOK, PlanSuscrito, Activa
  <1>5. ASSUME NEW h \in Hilos, CancelarSuscripcion(h)
        PROVE  IInvSuscripciones'
    <2>1. /\ Llega(h, "cancelar_suscripcion", {<<"suscripcion">>}, Nada)
          /\ suscripcion' = suscripcion /\ plan' = plan /\ suscripcion # Nada
      BY <1>5 DEF CancelarSuscripcion, suscripcionVars, Activa
    <2>2. PeticionNueva("cancelar_suscripcion", {<<"suscripcion">>}, Nada) \in PeticionSuscripcion
      BY DEF PeticionNueva, PeticionSuscripcion, Peticion
    <2>3. /\ Ranuras(PeticionSuscripcion)'
          /\ peticion'[h].op = "cancelar_suscripcion"
          /\ \A g \in Hilos \ {h} : peticion'[g] = peticion[g]
      BY <1>0, <2>1, <2>2, AlLlegar
    <2>4. \A g \in Hilos : SabeDelPlan(g)'
      BY <1>0, <2>1, <2>3 DEF SabeDelPlan
    <2>5. QED BY <1>0, <2>1, <2>3, <2>4 DEF IInvSuscripciones, SuscripcionesOK, PlanSuscrito, Activa
  <1>6. ASSUME NEW h \in Hilos, CommitCancelarSuscripcion(h)
        PROVE  IInvSuscripciones'
    <2>1. /\ peticion[h] # Nada /\ suscripcion \in SuscripcionRow
          /\ suscripcion' = [suscripcion EXCEPT !.estado = "cancelada", !.vigente = FALSE]
          /\ plan' = "free"
          /\ Termina(h, {<<"suscripcion">>})
      BY <1>0, <1>6 DEF CommitCancelarSuscripcion, EnCurso, SabeDelPlan
    <2>2. suscripcion' \in SuscripcionRow
      BY <2>1 DEF SuscripcionRow
    <2>3. /\ Ranuras(PeticionSuscripcion)' /\ peticion'[h] = Nada
          /\ \A g \in Hilos \ {h} : SigueIgual(g, {<<"suscripcion">>})
      BY <1>0, <2>1, AlTerminar
    <2>4. \A g \in Hilos \ {h} : SabeDelPlan(g)'
      BY <1>0, <2>2, <2>3, PlanQueSigue
    <2>5. SabeDelPlan(h)'
      BY <2>3 DEF SabeDelPlan
    <2>6. QED BY <1>0, <2>1, <2>2, <2>3, <2>4, <2>5, HayPlanGratis
              DEF IInvSuscripciones, SuscripcionesOK, PlanSuscrito
  <1>7. QED BY <1>1, <1>2, <1>3, <1>4, <1>5, <1>6 DEF NextSuscripciones

LEMMA SuscripcionesQuietas ==
    ASSUME IInvSuscripciones, UNCHANGED <<suscripcionVars, servidor>>
    PROVE  IInvSuscripciones'
  <1>1. /\ suscripcion' = suscripcion /\ plan' = plan
        /\ peticion' = peticion /\ obsoleta' = obsoleta
    BY DEF suscripcionVars, servidor
  <1>2. QED BY <1>1 DEF IInvSuscripciones, Ranuras, SuscripcionesOK, PlanSuscrito, Activa, SabeDelPlan

LEMMA SuscripcionesAlInicio ==
    ASSUME InitSuscripciones
    PROVE  /\ SuscripcionesOK /\ PlanSuscrito
           /\ Ranuras(PeticionSuscripcion) /\ (\A h \in Hilos : peticion[h] = Nada)
                => IInvSuscripciones
  BY HayPlanGratis DEF InitSuscripciones, SuscripcionesOK, PlanSuscrito, IInvSuscripciones, SabeDelPlan
-----------------------------------------------------------------------------
(* The payment methods of a user, and of a merchant *)

LEMMA PeticionesDeMetodos == DePeticiones(PeticionMetodo)
  BY NadaNoEsMetodo DEF DePeticiones, PeticionMetodo

Ids == 1..MaxMetodos
LaListaEntera == {<<"metodos">>} \cup {Metodo(i) : i \in Ids}
LosPrincipales == {<<"principales">>}

\* What a request remembers, by its operation.
RecuerdaSuTipo(h) ==
    LET op == peticion[h].op
        d == peticion[h].dato
    IN  /\ op = "billetera" => d \in MetodoRow /\ d.tipo = "billetera"
        /\ op = "vincular" => d \in MetodoRow /\ d.tipo = "banco"
        /\ op = "marcar" => d \in [elegido: Ids, cambian: SUBSET Ids]
        /\ op = "desvincular" => d \in [borra: Ids, era: BOOLEAN]
        /\ op = "suceder" => d \in Ids
        /\ op = "agregar" => /\ d \in [principal: BOOLEAN, desmarca: SUBSET Ids]
                             /\ ~d.principal => d.desmarca = {}

\* All rows are loaded; those of a merchant only to make one principal.
CargaTodo(h) ==
    /\ peticion[h].op # "agregar" => LaListaEntera \subseteq peticion[h].lee
    /\ peticion[h].op = "agregar" /\ peticion[h].dato.principal
            => LosPrincipales \subseteq peticion[h].lee

\* A request that is not behind knows the rows as they are.  The successor of
\* the principal account finds no other, unless a commit was behind.
SabeDeMetodos(h) ==
    LET op == peticion[h].op
        d == peticion[h].dato
    IN  /\ op = "billetera" => Billeteras = {} /\ (d.principal <=> Principales = {})
        /\ op = "vincular" => (d.principal <=> Bancos = {})
        /\ op = "marcar" =>
                d.elegido \in Filas /\ d.cambian = {j \in Filas : metodos[j].principal # (j = d.elegido)}
        /\ op = "desvincular" => d.borra \in Bancos /\ (d.era <=> metodos[d.borra].principal)
        /\ op = "suceder" => d \in Filas /\ (~obsoleta => Principales \cap Bancos = {})

SabeDelComercio(h) ==
    peticion[h].op = "agregar" /\ peticion[h].dato.principal =>
        peticion[h].dato.desmarca = {i \in DOMAIN comercio : comercio[i].principal}

SabeDe(h) ==
    peticion[h] # Nada =>
        /\ RecuerdaSuTipo(h) /\ CargaTodo(h)
        /\ ~peticion[h].vieja => SabeDeMetodos(h) /\ SabeDelComercio(h)

IInvMetodos ==
    /\ Ranuras(PeticionMetodo)
    /\ MetodosOK /\ Len(comercio) <= MaxMetodos
    /\ \A i \in Ids : i > ultimo => metodos[i] = Nada
    /\ \A h \in Hilos : SabeDe(h)
    /\ PrincipalEnSerie

\* The rows are as they were, or the request learns that they changed.
LEMMA SabeLoMismo ==
    ASSUME NEW g, SabeDe(g), NEW W, SigueIgual(g, W),
           obsoleta \in BOOLEAN, obsoleta => obsoleta',
           metodos' = metodos \/ W \cap LaListaEntera # {},
           \/ /\ DOMAIN comercio' = DOMAIN comercio
              /\ \A i \in DOMAIN comercio : comercio'[i].principal <=> comercio[i].principal
           \/ W \cap LosPrincipales # {}
           \/ {i \in DOMAIN comercio' : comercio'[i].principal}
                = {i \in DOMAIN comercio : comercio[i].principal}
    PROVE  SabeDe(g)'
  <1> SUFFICES ASSUME peticion'[g] # Nada
               PROVE  SabeDe(g)'
    BY DEF SabeDe
  <1>1. /\ peticion[g] # Nada
        /\ peticion'[g].op = peticion[g].op /\ peticion'[g].lee = peticion[g].lee
        /\ peticion'[g].dato = peticion[g].dato
        /\ ~peticion'[g].vieja => ~peticion[g].vieja /\ peticion[g].lee \cap W = {}
    BY DEF SigueIgual
  <1>2. RecuerdaSuTipo(g) /\ CargaTodo(g) /\ (~peticion[g].vieja => SabeDeMetodos(g) /\ SabeDelComercio(g))
    BY <1>1 DEF SabeDe
  <1>3. RecuerdaSuTipo(g)'
    BY <1>1, <1>2 DEF RecuerdaSuTipo
  <1>4. CargaTodo(g)'
    BY <1>1, <1>2 DEF CargaTodo, LaListaEntera, Metodo
  <1>5. ASSUME ~peticion'[g].vieja
        PROVE  SabeDeMetodos(g)'
    <2>1. CASE peticion[g].op = "agregar"
      BY <1>1, <2>1 DEF SabeDeMetodos
    <2>2. CASE peticion[g].op # "agregar"
      <3>1. metodos' = metodos
        BY <1>1, <1>2, <1>5, <2>2 DEF CargaTodo
      <3>2. SabeDeMetodos(g)
        BY <1>1, <1>2, <1>5
      <3>3. Filas' = Filas /\ Bancos' = Bancos /\ Billeteras' = Billeteras /\ Principales' = Principales
        BY <3>1 DEF Filas, Bancos, Billeteras, Principales
      <3>4. QED BY <1>1, <3>1, <3>2, <3>3 DEF SabeDeMetodos
    <2>3. QED BY <2>1, <2>2
  <1>6. ASSUME ~peticion'[g].vieja
        PROVE  SabeDelComercio(g)'
    <2>1. ASSUME peticion[g].op = "agregar", peticion[g].dato.principal
          PROVE  peticion[g].dato.desmarca = {i \in DOMAIN comercio' : comercio'[i].principal}
      <3>1. peticion[g].dato.desmarca = {i \in DOMAIN comercio : comercio[i].principal}
        BY <1>1, <1>2, <1>6, <2>1 DEF SabeDelComercio
      <3>2. W \cap LosPrincipales = {}
        BY <1>1, <1>2, <1>6, <2>1 DEF CargaTodo
      <3>3. QED BY <3>1, <3>2
    <2>2. QED BY <1>1, <2>1 DEF SabeDelComercio
  <1>7. QED BY <1>3, <1>4, <1>5, <1>6 DEF SabeDe

\* Rows as they were, for every slot but h.
LEMMA SabenIgual ==
    ASSUME NEW h, \A g \in Hilos : SabeDe(g), obsoleta \in BOOLEAN,
           \A g \in Hilos \ {h} : peticion'[g] = peticion[g],
           UNCHANGED <<metodosVars, obsoleta>>
    PROVE  \A g \in Hilos \ {h} : SabeDe(g)'
  <1> SUFFICES ASSUME NEW g \in Hilos \ {h}
               PROVE  SabeDe(g)'
    OBVIOUS
  <1>1. SigueIgual(g, {})
    BY IgualSinAge
  <1>2. metodos' = metodos /\ comercio' = comercio /\ obsoleta' = obsoleta
    BY DEF metodosVars
  <1>3. QED BY <1>1, <1>2, SabeLoMismo

LEMMA MetodosEs ==
    ASSUME IInvMetodos
    PROVE  /\ Ranuras(PeticionMetodo) /\ DePeticiones(PeticionMetodo)
           /\ obsoleta \in BOOLEAN
           /\ metodos \in [Ids -> MetodoRow \cup {Nada}] /\ DOMAIN metodos = Ids
           /\ Nada \notin MetodoRow
           /\ \A i \in Ids : metodos[i] \in MetodoRow \cup {Nada}
           /\ \A i : i \in Filas <=> i \in Ids /\ metodos[i] \in MetodoRow
           /\ \A i \in Filas : /\ metodos[i].tipo \in {"billetera", "banco"}
                               /\ metodos[i].principal \in BOOLEAN
           /\ \A i : i \in Bancos <=> i \in Filas /\ metodos[i].tipo = "banco"
           /\ \A i : i \in Billeteras <=> i \in Filas /\ metodos[i].tipo = "billetera"
           /\ \A i : i \in Principales <=> i \in Filas /\ metodos[i].principal
           /\ ultimo \in Nat /\ ultimo <= MaxMetodos /\ cortada \in BOOLEAN
           /\ comercio \in Seq(ComercioRow)
           /\ LaLista = LaListaEntera
  <1>1. /\ Ranuras(PeticionMetodo) /\ DePeticiones(PeticionMetodo)
        /\ metodos \in [Ids -> MetodoRow \cup {Nada}] /\ DOMAIN metodos = Ids
        /\ ultimo \in 0..MaxMetodos /\ cortada \in BOOLEAN
        /\ comercio \in Seq(ComercioRow)
    BY PeticionesDeMetodos DEF IInvMetodos, MetodosOK, Ids
  <1>2. Nada \notin MetodoRow
    BY NadaNoEsMetodo
  <1>3. \A i \in Ids : metodos[i] \in MetodoRow \cup {Nada}
    BY <1>1
  <1>4. \A i : i \in Filas <=> i \in Ids /\ metodos[i] \in MetodoRow
    BY <1>1, <1>2, <1>3 DEF Filas
  <1>5. \A i \in Filas : /\ metodos[i].tipo \in {"billetera", "banco"}
                         /\ metodos[i].principal \in BOOLEAN
    BY <1>4 DEF MetodoRow
  <1>6. \A i : i \in Bancos <=> i \in Filas /\ metodos[i].tipo = "banco"
    BY DEF Bancos
  <1>7. \A i : i \in Billeteras <=> i \in Filas /\ metodos[i].tipo = "billetera"
    BY <1>5, <1>6 DEF Billeteras
  <1>8. LaLista = LaListaEntera
    BY <1>1 DEF LaLista, LaListaEntera
  <1>9. obsoleta \in BOOLEAN
    BY <1>1 DEF Ranuras
  <1>10. \A i : i \in Principales <=> i \in Filas /\ metodos[i].principal
    BY DEF Principales
  <1>11. ultimo \in Nat /\ ultimo <= MaxMetodos
    BY <1>1, MaxMetodosEsNatural
  <1>12. QED BY <1>1, <1>2, <1>3, <1>4, <1>5, <1>6, <1>7, <1>8, <1>9, <1>10, <1>11

\* The four facts of PrincipalEnSerie.
UnaBilletera == \A i, j \in Billeteras : i = j
UnaCuenta == \A i, j \in Principales \cap Bancos : i = j
HayPrincipal ==
    Filas # {} /\ ~cortada /\ (\A h \in Hilos : ~EnCurso(h, "suceder")) => Principales # {}
UnoDelComercio ==
    \A i, j \in DOMAIN comercio : comercio[i].principal /\ comercio[j].principal => i = j

LEMMA EnSeriePorPartes ==
    PrincipalEnSerie <=> (~obsoleta => UnaBilletera /\ UnaCuenta /\ HayPrincipal /\ UnoDelComercio)
  BY DEF PrincipalEnSerie, UnaBilletera, UnaCuenta, HayPrincipal, UnoDelComercio

\* A request that loads and writes nothing.
LEMMA PasoCarga ==
    ASSUME IInvMetodos, NEW h \in Hilos, NEW op, NEW lee, NEW d,
           Llega(h, op, lee, d), UNCHANGED metodosVars,
           PeticionNueva(op, lee, d) \in PeticionMetodo,
           op # "suceder", SabeDe(h)'
    PROVE  IInvMetodos'
  <1>1. /\ Ranuras(PeticionMetodo) /\ DePeticiones(PeticionMetodo) /\ obsoleta \in BOOLEAN
        /\ \A g \in Hilos : SabeDe(g)
    BY MetodosEs DEF IInvMetodos
  <1>2. /\ Ranuras(PeticionMetodo)' /\ obsoleta' = obsoleta /\ peticion[h] = Nada
        /\ peticion'[h].op = op
        /\ \A g \in Hilos \ {h} : peticion'[g] = peticion[g]
    BY <1>1, AlLlegar
  <1>3. metodos' = metodos /\ ultimo' = ultimo /\ cortada' = cortada /\ comercio' = comercio
    BY DEF metodosVars
  <1>4. \A g \in Hilos : SabeDe(g)'
    BY <1>1, <1>2, SabenIgual
  <1>5. \A g \in Hilos : EnCurso(g, "suceder") => EnCurso(g, "suceder")'
    BY <1>2 DEF EnCurso
  <1>6. PrincipalEnSerie'
    <2>1. Filas' = Filas /\ Bancos' = Bancos /\ Billeteras' = Billeteras /\ Principales' = Principales
      BY <1>3 DEF Filas, Bancos, Billeteras, Principales
    <2>2. PrincipalEnSerie
      BY DEF IInvMetodos
    <2>3. QED BY <1>2, <1>3, <1>5, <2>1, <2>2 DEF PrincipalEnSerie
  <1>7. QED BY <1>2, <1>3, <1>4, <1>6 DEF IInvMetodos, MetodosOK

LEMMA PasoListar ==
    ASSUME IInvMetodos, NEW h \in Hilos, ListarMetodos(h)
    PROVE  IInvMetodos'
  <1>0. Ranuras(PeticionMetodo) /\ DePeticiones(PeticionMetodo) /\ LaLista = LaListaEntera
    BY MetodosEs
  <1>a. PICK b \in BOOLEAN : b <=> Principales = {}
    OBVIOUS
  <1>b. b = (Principales = {})
    BY <1>a
  <1>c. PICK d : d = [tipo |-> "billetera", principal |-> b]
    OBVIOUS
  <1>1. /\ d \in MetodoRow /\ d = [tipo |-> "billetera", principal |-> Principales = {}]
        /\ d.tipo = "billetera" /\ (d.principal <=> Principales = {})
    BY <1>a, <1>b, <1>c DEF MetodoRow
  <1>2. /\ Llega(h, "billetera", LaListaEntera, d) /\ UNCHANGED metodosVars /\ Billeteras = {}
    BY <1>0, <1>1 DEF ListarMetodos
  <1>3. PeticionNueva("billetera", LaListaEntera, d) \in PeticionMetodo
    BY <1>1 DEF PeticionNueva, PeticionMetodo, Peticion, LaListaEntera, Metodo, Ids
  <1>4. peticion'[h].op = "billetera" /\ peticion'[h].lee = LaListaEntera /\ peticion'[h].dato = d
    BY <1>0, <1>2, <1>3, AlLlegar
  <1>5. SabeDe(h)'
    <2>1. Billeteras' = Billeteras /\ Principales' = Principales
      BY <1>2 DEF metodosVars, Billeteras, Bancos, Filas, Principales
    <2>2. RecuerdaSuTipo(h)' /\ CargaTodo(h)'
      BY <1>1, <1>4 DEF RecuerdaSuTipo, CargaTodo, LaListaEntera, Metodo
    <2>3. SabeDeMetodos(h)' /\ SabeDelComercio(h)'
      BY <1>1, <1>2, <1>4, <2>1 DEF SabeDeMetodos, SabeDelComercio
    <2>4. QED BY <2>2, <2>3 DEF SabeDe
  <1>6. QED BY <1>2, <1>3, <1>5, PasoCarga

LEMMA PasoVincular ==
    ASSUME IInvMetodos, NEW h \in Hilos, VincularBanco(h)
    PROVE  IInvMetodos'
  <1>0. Ranuras(PeticionMetodo) /\ DePeticiones(PeticionMetodo) /\ LaLista = LaListaEntera
    BY MetodosEs
  <1>a. PICK b \in BOOLEAN : b <=> Bancos = {}
    OBVIOUS
  <1>b. b = (Bancos = {})
    BY <1>a
  <1>c. PICK d : d = [tipo |-> "banco", principal |-> b]
    OBVIOUS
  <1>1. /\ d \in MetodoRow /\ d = [tipo |-> "banco", principal |-> Bancos = {}]
        /\ d.tipo = "banco" /\ (d.principal <=> Bancos = {})
    BY <1>a, <1>b, <1>c DEF MetodoRow
  <1>2. /\ Llega(h, "vincular", LaListaEntera, d) /\ UNCHANGED metodosVars
    BY <1>0, <1>1 DEF VincularBanco
  <1>3. PeticionNueva("vincular", LaListaEntera, d) \in PeticionMetodo
    BY <1>1 DEF PeticionNueva, PeticionMetodo, Peticion, LaListaEntera, Metodo, Ids
  <1>4. peticion'[h].op = "vincular" /\ peticion'[h].lee = LaListaEntera /\ peticion'[h].dato = d
    BY <1>0, <1>2, <1>3, AlLlegar
  <1>5. SabeDe(h)'
    <2>1. Bancos' = Bancos
      BY <1>2 DEF metodosVars, Bancos, Filas
    <2>2. RecuerdaSuTipo(h)' /\ CargaTodo(h)'
      BY <1>1, <1>4 DEF RecuerdaSuTipo, CargaTodo, LaListaEntera, Metodo
    <2>3. SabeDeMetodos(h)' /\ SabeDelComercio(h)'
      BY <1>1, <1>2, <1>4, <2>1 DEF SabeDeMetodos, SabeDelComercio
    <2>4. QED BY <2>2, <2>3 DEF SabeDe
  <1>6. QED BY <1>2, <1>3, <1>5, PasoCarga

LEMMA PasoMarcar ==
    ASSUME IInvMetodos, NEW h \in Hilos, NEW i \in Filas, MarcarPrincipal(h, i)
    PROVE  IInvMetodos'
  <1>0. /\ Ranuras(PeticionMetodo) /\ DePeticiones(PeticionMetodo) /\ LaLista = LaListaEntera
        /\ Filas \subseteq Ids
    BY MetodosEs
  <1>1. PICK C : C = {j \in Filas : metodos[j].principal # (j = i)}
    OBVIOUS
  <1>c. PICK d : d = [elegido |-> i, cambian |-> C]
    OBVIOUS
  <1>2. /\ d \in [elegido: Ids, cambian: SUBSET Ids]
        /\ d = [elegido |-> i, cambian |-> C] /\ d.elegido = i /\ d.cambian = C
    BY <1>0, <1>1, <1>c
  <1>3. /\ Llega(h, "marcar", LaListaEntera, d) /\ UNCHANGED metodosVars
    BY <1>0, <1>1, <1>2 DEF MarcarPrincipal
  <1>4. PeticionNueva("marcar", LaListaEntera, d) \in PeticionMetodo
    BY <1>2 DEF PeticionNueva, PeticionMetodo, Peticion, LaListaEntera, Metodo, Ids
  <1>5. peticion'[h].op = "marcar" /\ peticion'[h].lee = LaListaEntera /\ peticion'[h].dato = d
    BY <1>0, <1>3, <1>4, AlLlegar
  <1>6. SabeDe(h)'
    <2>1. Filas' = Filas /\ metodos' = metodos
      BY <1>3 DEF metodosVars, Filas
    <2>2. RecuerdaSuTipo(h)' /\ CargaTodo(h)'
      BY <1>2, <1>5 DEF RecuerdaSuTipo, CargaTodo, LaListaEntera, Metodo
    <2>3. SabeDeMetodos(h)' /\ SabeDelComercio(h)'
      BY <1>1, <1>2, <1>5, <2>1 DEF SabeDeMetodos, SabeDelComercio
    <2>4. QED BY <2>2, <2>3 DEF SabeDe
  <1>7. QED BY <1>3, <1>4, <1>6, PasoCarga

LEMMA PasoDesvincular ==
    ASSUME IInvMetodos, NEW h \in Hilos, NEW i \in Filas, Desvincular(h, i)
    PROVE  IInvMetodos'
  <1>0. /\ Ranuras(PeticionMetodo) /\ DePeticiones(PeticionMetodo) /\ LaLista = LaListaEntera
        /\ i \in Ids /\ i \in Bancos /\ metodos[i].principal \in BOOLEAN
    BY MetodosEs DEF Desvincular
  <1>c. PICK d : d = [borra |-> i, era |-> metodos[i].principal]
    OBVIOUS
  <1>1. /\ d \in [borra: Ids, era: BOOLEAN]
        /\ d = [borra |-> i, era |-> metodos[i].principal]
        /\ d.borra = i /\ (d.era <=> metodos[i].principal)
    BY <1>0, <1>c
  <1>2. /\ Llega(h, "desvincular", LaListaEntera, d) /\ UNCHANGED metodosVars
    BY <1>0, <1>1 DEF Desvincular
  <1>3. PeticionNueva("desvincular", LaListaEntera, d) \in PeticionMetodo
    BY <1>1 DEF PeticionNueva, PeticionMetodo, Peticion, LaListaEntera, Metodo, Ids
  <1>4. peticion'[h].op = "desvincular" /\ peticion'[h].lee = LaListaEntera /\ peticion'[h].dato = d
    BY <1>0, <1>2, <1>3, AlLlegar
  <1>5. SabeDe(h)'
    <2>1. Bancos' = Bancos /\ metodos' = metodos
      BY <1>2 DEF metodosVars, Bancos, Filas
    <2>2. RecuerdaSuTipo(h)' /\ CargaTodo(h)'
      BY <1>1, <1>4 DEF RecuerdaSuTipo, CargaTodo, LaListaEntera, Metodo
    <2>3. SabeDeMetodos(h)' /\ SabeDelComercio(h)'
      BY <1>0, <1>1, <1>4, <2>1 DEF SabeDeMetodos, SabeDelComercio
    <2>4. QED BY <2>2, <2>3 DEF SabeDe
  <1>6. QED BY <1>2, <1>3, <1>5, PasoCarga

\* Who looks for a successor goes on doing so until its own step.
LEMMA SiguenSucediendo ==
    ASSUME NEW h \in Hilos, NEW W, \A g \in Hilos \ {h} : SigueIgual(g, W)
    PROVE  \A g \in Hilos \ {h} : EnCurso(g, "suceder")' <=> EnCurso(g, "suceder")
  BY DEF EnCurso, SigueIgual

\* A commit of h on the rows of the user: the others learn of it.
LEMMA LosDemasSaben ==
    ASSUME NEW h \in Hilos, NEW W, \A g \in Hilos : SabeDe(g), obsoleta \in BOOLEAN,
           \A g \in Hilos \ {h} : SigueIgual(g, W), obsoleta => obsoleta',
           metodos' = metodos \/ W \cap LaListaEntera # {},
           comercio' = comercio
    PROVE  \A g \in Hilos \ {h} : SabeDe(g)'
  BY SabeLoMismo

LEMMA PasoInserta ==
    ASSUME IInvMetodos, NEW h \in Hilos, NEW op \in {"billetera", "vincular"}, Inserta(h, op)
    PROVE  IInvMetodos'
  <1>0. /\ Ranuras(PeticionMetodo) /\ DePeticiones(PeticionMetodo) /\ obsoleta \in BOOLEAN
        /\ DOMAIN metodos = Ids /\ Nada \notin MetodoRow
        /\ metodos \in [Ids -> MetodoRow \cup {Nada}]
        /\ \A i : i \in Filas <=> i \in Ids /\ metodos[i] \in MetodoRow
        /\ \A i : i \in Bancos <=> i \in Filas /\ metodos[i].tipo = "banco"
        /\ \A i : i \in Billeteras <=> i \in Filas /\ metodos[i].tipo = "billetera"
        /\ \A i : i \in Principales <=> i \in Filas /\ metodos[i].principal
        /\ ultimo \in Nat /\ cortada \in BOOLEAN /\ comercio \in Seq(ComercioRow)
    BY MetodosEs
  <1>1. PICK d, n : d = peticion[h].dato /\ n = ultimo + 1
    OBVIOUS
  <1>2. /\ peticion[h] # Nada /\ peticion[h].op = op
        /\ ultimo < MaxMetodos /\ ultimo' = n
        /\ metodos' = [metodos EXCEPT ![n] = d]
        /\ Termina(h, {<<"metodos">>, Metodo(n)})
        /\ cortada' = cortada /\ comercio' = comercio
    BY <1>1 DEF Inserta, EnCurso, Dato
  <1>3. /\ n \in Ids /\ metodos[n] = Nada /\ n \notin Filas /\ n \in Nat /\ n <= MaxMetodos
        /\ \A i \in Ids : i > n => metodos[i] = Nada
    <2>1. n \in Ids /\ n \in Nat /\ n <= MaxMetodos
      BY <1>0, <1>1, <1>2, MaxMetodosEsNatural DEF Ids
    <2>2. \A i \in Ids : i > ultimo => metodos[i] = Nada
      BY DEF IInvMetodos
    <2>3. metodos[n] = Nada
      BY <1>0, <1>1, <2>1, <2>2
    <2>4. \A i \in Ids : i > n => metodos[i] = Nada
      BY <1>0, <1>1, <2>2 DEF Ids
    <2>5. QED BY <1>0, <2>1, <2>3, <2>4
  <1>4. /\ SabeDe(h) /\ \A g \in Hilos : SabeDe(g)
    BY DEF IInvMetodos
  <1>5. d \in MetodoRow /\ (op = "vincular" => d.tipo = "banco") /\ (op = "billetera" => d.tipo = "billetera")
    BY <1>1, <1>2, <1>4 DEF SabeDe, RecuerdaSuTipo
  <1>6. ~peticion[h].vieja =>
            /\ op = "billetera" => Billeteras = {} /\ (d.principal <=> Principales = {})
            /\ op = "vincular" => (d.principal <=> Bancos = {})
    BY <1>1, <1>2, <1>4 DEF SabeDe, SabeDeMetodos
  <1>7. /\ Ranuras(PeticionMetodo)' /\ peticion'[h] = Nada
        /\ ~obsoleta' => ~obsoleta /\ ~peticion[h].vieja
        /\ \A g \in Hilos \ {h} : SigueIgual(g, {<<"metodos">>, Metodo(n)})
    BY <1>0, <1>2, AlTerminar
  <1>8. \A g \in Hilos : SabeDe(g)'
    <2>1. {<<"metodos">>, Metodo(n)} \cap LaListaEntera # {}
      BY DEF LaListaEntera
    <2>2. \A g \in Hilos \ {h} : SabeDe(g)'
      BY <1>0, <1>2, <1>4, <1>7, <2>1, LosDemasSaben
    <2>3. SabeDe(h)'
      BY <1>7 DEF SabeDe
    <2>4. QED BY <2>2, <2>3
  <1>9. /\ metodos' \in [Ids -> MetodoRow \cup {Nada}]
        /\ metodos'[n] = d /\ \A i \in Ids \ {n} : metodos'[i] = metodos[i]
    BY <1>0, <1>2, <1>3, <1>5
  <1>10. MetodosOK' /\ (Len(comercio) <= MaxMetodos)' /\ \A i \in Ids : i > ultimo' => metodos'[i] = Nada
    <2>1. ultimo' \in 0..MaxMetodos
      BY <1>2, <1>3, MaxMetodosEsNatural
    <2>2. MetodosOK'
      BY <1>0, <1>2, <1>9, <2>1 DEF MetodosOK, Ids
    <2>3. ASSUME NEW i \in Ids, i > ultimo'
          PROVE  metodos'[i] = Nada
      BY <1>2, <1>3, <1>9, <2>3
    <2>4. QED BY <1>2, <2>2, <2>3 DEF IInvMetodos
  <1>11. /\ \A i : i \in Filas' <=> i \in Filas \/ i = n
         /\ \A i : i \in Bancos' <=> i \in Bancos \/ (i = n /\ op = "vincular")
         /\ \A i : i \in Billeteras' <=> i \in Billeteras \/ (i = n /\ op = "billetera")
         /\ \A i : i \in Principales' <=> i \in Principales \/ (i = n /\ d.principal)
    <2>1. \A i : i \in Filas' <=> i \in Filas \/ i = n
      BY <1>0, <1>3, <1>5, <1>9 DEF Filas
    <2>2. \A i : i \in Bancos' <=> i \in Bancos \/ (i = n /\ op = "vincular")
      BY <1>0, <1>3, <1>5, <1>9, <2>1 DEF Bancos
    <2>3. \A i : i \in Billeteras' <=> i \in Billeteras \/ (i = n /\ op = "billetera")
      BY <1>0, <1>3, <2>1, <2>2 DEF Billeteras
    <2>4. \A i : i \in Principales' <=> i \in Principales \/ (i = n /\ d.principal)
      BY <1>0, <1>3, <1>9, <2>1 DEF Principales
    <2>5. QED BY <2>1, <2>2, <2>3, <2>4
  <1>12. PrincipalEnSerie'
    <2> SUFFICES ASSUME ~obsoleta'
                 PROVE  UnaBilletera' /\ UnaCuenta' /\ HayPrincipal' /\ UnoDelComercio'
      BY EnSeriePorPartes DEF PrincipalEnSerie, UnaBilletera, UnaCuenta, HayPrincipal, UnoDelComercio
    <2>1. UnaBilletera /\ UnaCuenta /\ HayPrincipal /\ UnoDelComercio /\ ~peticion[h].vieja
      BY <1>7, EnSeriePorPartes DEF IInvMetodos
    <2>2. UnaBilletera'
      BY <1>6, <1>11, <2>1 DEF UnaBilletera
    <2>3. UnaCuenta'
      BY <1>0, <1>3, <1>6, <1>11, <2>1 DEF UnaCuenta
    <2>4. HayPrincipal'
      <3>1. ASSUME ~cortada', \A g \in Hilos : ~EnCurso(g, "suceder")'
            PROVE  Principales' # {}
        <4>1. \A g \in Hilos : ~EnCurso(g, "suceder")
          <5>1. \A g \in Hilos \ {h} : ~EnCurso(g, "suceder")
            BY <1>7, <3>1, SiguenSucediendo
          <5>2. ~EnCurso(h, "suceder")
            BY <1>2 DEF EnCurso
          <5>3. QED BY <5>1, <5>2
        <4>2. Filas # {} => Principales # {}
          BY <1>2, <2>1, <3>1, <4>1 DEF HayPrincipal
        <4>3. CASE Principales # {}
          BY <1>11, <4>3
        <4>4. CASE Principales = {}
          <5>1. Filas = {} /\ Bancos = {}
            BY <1>0, <4>2, <4>4
          <5>2. d.principal
            BY <1>6, <2>1, <4>4, <5>1
          <5>3. QED BY <1>11, <5>2
        <4>5. QED BY <4>3, <4>4
      <3>2. QED BY <3>1 DEF HayPrincipal
    <2>5. UnoDelComercio'
      BY <1>2, <2>1 DEF UnoDelComercio
    <2>6. QED BY <2>2, <2>3, <2>4, <2>5
  <1>13. QED BY <1>7, <1>8, <1>10, <1>12 DEF IInvMetodos

LEMMA PasoCommitMarcar ==
    ASSUME IInvMetodos, NEW h \in Hilos, CommitMarcar(h)
    PROVE  IInvMetodos'
  <1>0. /\ Ranuras(PeticionMetodo) /\ DePeticiones(PeticionMetodo) /\ obsoleta \in BOOLEAN
        /\ DOMAIN metodos = Ids /\ Nada \notin MetodoRow
        /\ metodos \in [Ids -> MetodoRow \cup {Nada}]
        /\ \A i \in Ids : metodos[i] \in MetodoRow \cup {Nada}
        /\ \A i : i \in Filas <=> i \in Ids /\ metodos[i] \in MetodoRow
        /\ \A i : i \in Bancos <=> i \in Filas /\ metodos[i].tipo = "banco"
        /\ \A i : i \in Billeteras <=> i \in Filas /\ metodos[i].tipo = "billetera"
        /\ \A i : i \in Principales <=> i \in Filas /\ metodos[i].principal
        /\ \A i \in Filas : metodos[i].principal \in BOOLEAN
        /\ ultimo \in Nat /\ ultimo <= MaxMetodos
        /\ cortada \in BOOLEAN /\ comercio \in Seq(ComercioRow)
    BY MetodosEs
  <1>1. PICK C, e, W : /\ C = peticion[h].dato.cambian /\ e = peticion[h].dato.elegido
                       /\ W = {Metodo(j) : j \in C}
    OBVIOUS
  <1>2. /\ peticion[h] # Nada /\ peticion[h].op = "marcar" /\ C \subseteq Filas
        /\ metodos' = [j \in DOMAIN metodos |->
                IF j \in C THEN [metodos[j] EXCEPT !.principal = (j = e)] ELSE metodos[j]]
        /\ Termina(h, W)
        /\ ultimo' = ultimo /\ cortada' = cortada /\ comercio' = comercio
    BY <1>1 DEF CommitMarcar, EnCurso, Dato
  <1>3. \A g \in Hilos : SabeDe(g)
    BY DEF IInvMetodos
  <1>4. ~peticion[h].vieja => e \in Filas /\ C = {j \in Filas : metodos[j].principal # (j = e)}
    BY <1>1, <1>2, <1>3 DEF SabeDe, SabeDeMetodos
  <1>5. /\ Ranuras(PeticionMetodo)' /\ peticion'[h] = Nada
        /\ ~obsoleta' => ~obsoleta /\ ~peticion[h].vieja
        /\ \A g \in Hilos \ {h} : SigueIgual(g, W)
    BY <1>0, <1>2, AlTerminar
  <1>6. ASSUME NEW j \in Ids
        PROVE  /\ j \notin C => metodos'[j] = metodos[j]
               /\ j \in C => /\ metodos'[j] \in MetodoRow
                             /\ metodos'[j].tipo = metodos[j].tipo
                             /\ metodos'[j].principal <=> (j = e)
    <2>1. ASSUME j \in C
          PROVE  /\ metodos'[j] \in MetodoRow
                 /\ metodos'[j].tipo = metodos[j].tipo
                 /\ metodos'[j].principal <=> (j = e)
      <3>1. metodos[j] \in [tipo: {"billetera", "banco"}, principal: BOOLEAN]
        BY <1>0, <1>2, <2>1 DEF MetodoRow
      <3>2. metodos'[j] = [metodos[j] EXCEPT !.principal = (j = e)]
        BY <1>0, <1>2, <2>1
      <3>3. PICK b \in BOOLEAN : b = (j = e)
        OBVIOUS
      <3>4. metodos'[j] = [metodos[j] EXCEPT !.principal = b]
        BY <3>2, <3>3
      <3>5. QED BY <3>1, <3>3, <3>4 DEF MetodoRow
    <2>2. j \notin C => metodos'[j] = metodos[j]
      BY <1>0, <1>2
    <2>3. QED BY <2>1, <2>2
  <1>7. DOMAIN metodos' = Ids /\ metodos' \in [Ids -> MetodoRow \cup {Nada}]
    <2>1. \A j \in Ids : metodos'[j] \in MetodoRow \cup {Nada}
      BY <1>0, <1>6
    <2>2. metodos' = [j \in Ids |-> metodos'[j]]
      BY <1>0, <1>2
    <2>3. QED BY <2>1, <2>2
  <1>8. /\ \A i : i \in Filas' <=> i \in Filas
        /\ \A i : i \in Bancos' <=> i \in Bancos
        /\ \A i : i \in Billeteras' <=> i \in Billeteras
        /\ \A i : i \in Principales' <=> i \in Filas /\ IF i \in C THEN i = e ELSE metodos[i].principal
    <2>1. \A i : i \in Filas' <=> i \in Filas
      BY <1>0, <1>2, <1>6, <1>7 DEF Filas
    <2>2. \A i : i \in Bancos' <=> i \in Bancos
      BY <1>0, <1>2, <1>6, <2>1 DEF Bancos
    <2>3. \A i : i \in Billeteras' <=> i \in Billeteras
      BY <2>1, <2>2 DEF Billeteras
    <2>4. \A i : i \in Principales' <=> i \in Filas /\ IF i \in C THEN i = e ELSE metodos[i].principal
      BY <1>0, <1>2, <1>6, <2>1 DEF Principales
    <2>5. QED BY <2>1, <2>2, <2>3, <2>4
  <1>9. \A g \in Hilos : SabeDe(g)'
    <2>1. metodos' = metodos \/ W \cap LaListaEntera # {}
      <3>1. CASE C = {}
        <4>1. \A j \in Ids : metodos'[j] = metodos[j]
          BY <1>6, <3>1
        <4>2. QED BY <1>0, <1>7, <4>1
      <3>2. CASE C # {}
        <4>1. PICK j \in C : j \in Ids
          BY <1>0, <1>2, <3>2
        <4>2. Metodo(j) \in W /\ Metodo(j) \in LaListaEntera
          BY <1>1, <4>1 DEF LaListaEntera
        <4>3. QED BY <4>2
      <3>3. QED BY <3>1, <3>2
    <2>2. \A g \in Hilos \ {h} : SabeDe(g)'
      BY <1>0, <1>2, <1>3, <1>5, <2>1, LosDemasSaben
    <2>3. SabeDe(h)'
      BY <1>5 DEF SabeDe
    <2>4. QED BY <2>2, <2>3
  <1>10. MetodosOK' /\ (Len(comercio) <= MaxMetodos)' /\ \A i \in Ids : i > ultimo' => metodos'[i] = Nada
    <2>1. MetodosOK'
      BY <1>0, <1>2, <1>7, MaxMetodosEsNatural DEF MetodosOK, Ids
    <2>2. ASSUME NEW i \in Ids, i > ultimo'
          PROVE  metodos'[i] = Nada
      <3>1. metodos[i] = Nada
        BY <1>2, <2>2 DEF IInvMetodos
      <3>2. QED BY <1>0, <1>2, <1>6, <3>1
    <2>3. QED BY <1>2, <2>1, <2>2 DEF IInvMetodos
  <1>11. PrincipalEnSerie'
    <2> SUFFICES ASSUME ~obsoleta'
                 PROVE  UnaBilletera' /\ UnaCuenta' /\ HayPrincipal' /\ UnoDelComercio'
      BY EnSeriePorPartes DEF PrincipalEnSerie, UnaBilletera, UnaCuenta, HayPrincipal, UnoDelComercio
    <2>1. /\ UnaBilletera /\ UnaCuenta /\ HayPrincipal /\ UnoDelComercio
          /\ e \in Filas /\ C = {j \in Filas : metodos[j].principal # (j = e)}
      BY <1>4, <1>5, EnSeriePorPartes DEF IInvMetodos
    <2>2. \A i : i \in Principales' <=> i = e
      BY <1>0, <1>8, <2>1
    <2>3. UnaBilletera'
      BY <1>8, <2>1 DEF UnaBilletera
    <2>4. UnaCuenta' /\ HayPrincipal'
      BY <2>2 DEF UnaCuenta, HayPrincipal
    <2>5. UnoDelComercio'
      BY <1>2, <2>1 DEF UnoDelComercio
    <2>6. QED BY <2>3, <2>4, <2>5
  <1>12. QED BY <1>5, <1>9, <1>10, <1>11 DEF IInvMetodos

LEMMA PasoCommitDesvincular ==
    ASSUME IInvMetodos, NEW h \in Hilos, CommitDesvincular(h)
    PROVE  IInvMetodos'
  <1>0. /\ Ranuras(PeticionMetodo) /\ DePeticiones(PeticionMetodo) /\ obsoleta \in BOOLEAN
        /\ DOMAIN metodos = Ids /\ Nada \notin MetodoRow
        /\ metodos \in [Ids -> MetodoRow \cup {Nada}]
        /\ \A i : i \in Filas <=> i \in Ids /\ metodos[i] \in MetodoRow
        /\ \A i : i \in Bancos <=> i \in Filas /\ metodos[i].tipo = "banco"
        /\ \A i : i \in Billeteras <=> i \in Filas /\ metodos[i].tipo = "billetera"
        /\ \A i : i \in Principales <=> i \in Filas /\ metodos[i].principal
        /\ ultimo \in Nat /\ ultimo <= MaxMetodos
        /\ cortada \in BOOLEAN /\ comercio \in Seq(ComercioRow)
        /\ LaLista = LaListaEntera
    BY MetodosEs
  <1>1. PICK b, resto, entre, W, d :
            /\ b = peticion[h].dato.borra
            /\ resto = Filas \ {b}
            /\ entre = (IF resto \cap Bancos # {} THEN resto \cap Bancos ELSE resto)
            /\ W = {<<"metodos">>, Metodo(b)}
            /\ d = (CHOOSE j \in entre : \A k \in entre : j <= k)
    OBVIOUS
  <1>2. /\ peticion[h] # Nada /\ peticion[h].op = "desvincular"
        /\ metodos' = [metodos EXCEPT ![b] = Nada]
        /\ IF peticion[h].dato.era /\ resto # {} THEN Sigue(h, W, "suceder", LaListaEntera, d)
           ELSE Termina(h, W)
        /\ ultimo' = ultimo /\ cortada' = cortada /\ comercio' = comercio
    BY <1>0, <1>1 DEF CommitDesvincular, EnCurso, Dato
  <1>3. \A g \in Hilos : SabeDe(g)
    BY DEF IInvMetodos
  <1>4. b \in Ids /\ peticion[h].dato.era \in BOOLEAN
    BY <1>1, <1>2, <1>3 DEF SabeDe, RecuerdaSuTipo
  <1>5. ~peticion[h].vieja => b \in Bancos /\ (peticion[h].dato.era <=> metodos[b].principal)
    BY <1>1, <1>2, <1>3 DEF SabeDe, SabeDeMetodos
  <1>6. resto # {} => d \in entre /\ d \in Ids /\ d \in resto
    <2>1. ASSUME resto # {}
          PROVE  d \in entre
      <3>1. entre # {} /\ entre \in SUBSET Nat
        BY <1>0, <1>1, <2>1 DEF Ids
      <3>2. \E j \in entre : \A k \in entre : j <= k
        BY <3>1, Minimo
      <3>3. QED BY <1>1, <3>2
    <2>2. entre \subseteq resto /\ resto \subseteq Ids
      BY <1>0, <1>1
    <2>3. QED BY <2>1, <2>2
  <1>7. W \cap LaListaEntera # {}
    BY <1>1 DEF LaListaEntera
  <1>8. /\ metodos' \in [Ids -> MetodoRow \cup {Nada}]
        /\ metodos'[b] = Nada /\ \A i \in Ids \ {b} : metodos'[i] = metodos[i]
    BY <1>0, <1>2, <1>4
  <1>9. /\ \A i : i \in Filas' <=> i \in Filas /\ i # b
        /\ \A i : i \in Bancos' <=> i \in Bancos /\ i # b
        /\ \A i : i \in Billeteras' <=> i \in Billeteras /\ i # b
        /\ \A i : i \in Principales' <=> i \in Principales /\ i # b
    <2>1. \A i : i \in Filas' <=> i \in Filas /\ i # b
      BY <1>0, <1>8 DEF Filas
    <2>2. \A i : i \in Bancos' <=> i \in Bancos /\ i # b
      BY <1>0, <1>8, <2>1 DEF Bancos
    <2>3. \A i : i \in Billeteras' <=> i \in Billeteras /\ i # b
      BY <2>1, <2>2 DEF Billeteras
    <2>4. \A i : i \in Principales' <=> i \in Principales /\ i # b
      BY <1>0, <1>8, <2>1 DEF Principales
    <2>5. QED BY <2>1, <2>2, <2>3, <2>4
  <1>10. MetodosOK' /\ (Len(comercio) <= MaxMetodos)' /\ \A i \in Ids : i > ultimo' => metodos'[i] = Nada
    <2>1. MetodosOK'
      BY <1>0, <1>2, <1>8, MaxMetodosEsNatural DEF MetodosOK, Ids
    <2>2. ASSUME NEW i \in Ids, i > ultimo'
          PROVE  metodos'[i] = Nada
      <3>1. metodos[i] = Nada
        BY <1>2, <2>2 DEF IInvMetodos
      <3>2. QED BY <1>8, <3>1
    <2>3. QED BY <1>2, <2>1, <2>2 DEF IInvMetodos
  \* The other slots, whether this one goes on or not.
  <1>11. ASSUME Ranuras(PeticionMetodo)', ~obsoleta' => ~obsoleta /\ ~peticion[h].vieja,
                \A g \in Hilos \ {h} : SigueIgual(g, W), SabeDe(h)',
                ~obsoleta' => HayPrincipal'
         PROVE  IInvMetodos'
    <2>1. \A g \in Hilos \ {h} : SabeDe(g)'
      BY <1>0, <1>2, <1>3, <1>7, <1>11, LosDemasSaben
    <2>2. PrincipalEnSerie'
      <3> SUFFICES ASSUME ~obsoleta'
                   PROVE  UnaBilletera' /\ UnaCuenta' /\ HayPrincipal' /\ UnoDelComercio'
        BY EnSeriePorPartes DEF PrincipalEnSerie, UnaBilletera, UnaCuenta, HayPrincipal, UnoDelComercio
      <3>1. UnaBilletera /\ UnaCuenta /\ UnoDelComercio
        BY <1>11, EnSeriePorPartes DEF IInvMetodos
      <3>2. UnaBilletera' /\ UnaCuenta'
        BY <1>9, <3>1 DEF UnaBilletera, UnaCuenta
      <3>3. UnoDelComercio'
        BY <1>2, <3>1 DEF UnoDelComercio
      <3>4. QED BY <1>11, <3>2, <3>3
    <2>3. QED BY <1>10, <1>11, <2>1, <2>2 DEF IInvMetodos
  <1>12. CASE peticion[h].dato.era /\ resto # {}
    <2>1. Sigue(h, W, "suceder", LaListaEntera, d)
      BY <1>2, <1>12
    <2>2. PeticionNueva("suceder", LaListaEntera, d) \in PeticionMetodo
      BY <1>6, <1>12 DEF PeticionNueva, PeticionMetodo, Peticion, LaListaEntera, Metodo, Ids
    <2>3. /\ Ranuras(PeticionMetodo)' /\ peticion'[h] # Nada
          /\ ~obsoleta' => ~obsoleta /\ ~peticion[h].vieja
          /\ peticion'[h].op = "suceder" /\ peticion'[h].lee = LaListaEntera
          /\ peticion'[h].dato = d
          /\ \A g \in Hilos \ {h} : SigueIgual(g, W)
      BY <1>0, <1>2, <2>1, <2>2, AlSeguir
    <2>4. SabeDe(h)'
      <3>1. RecuerdaSuTipo(h)' /\ CargaTodo(h)' /\ SabeDelComercio(h)'
        BY <1>6, <1>12, <2>3 DEF RecuerdaSuTipo, CargaTodo, SabeDelComercio, LaListaEntera, Metodo
      <3>2. d \in Filas'
        BY <1>1, <1>6, <1>9, <1>12
      <3>3. ASSUME ~obsoleta'
            PROVE  Principales' \cap Bancos' = {}
        <4>1. UnaCuenta /\ b \in Bancos /\ b \in Principales
          BY <1>0, <1>5, <1>12, <2>3, <3>3, EnSeriePorPartes DEF IInvMetodos
        <4>2. QED BY <1>9, <4>1 DEF UnaCuenta
      <3>4. SabeDeMetodos(h)'
        BY <2>3, <3>2, <3>3 DEF SabeDeMetodos
      <3>5. QED BY <3>1, <3>4 DEF SabeDe
    <2>5. HayPrincipal'
      <3>1. EnCurso(h, "suceder")'
        BY <2>3 DEF EnCurso
      <3>2. QED BY <3>1 DEF HayPrincipal
    <2>6. QED BY <1>11, <2>3, <2>4, <2>5
  <1>13. CASE ~(peticion[h].dato.era /\ resto # {})
    <2>1. Termina(h, W)
      BY <1>2, <1>13
    <2>2. /\ Ranuras(PeticionMetodo)' /\ peticion'[h] = Nada
          /\ ~obsoleta' => ~obsoleta /\ ~peticion[h].vieja
          /\ \A g \in Hilos \ {h} : SigueIgual(g, W)
      BY <1>0, <1>2, <2>1, AlTerminar
    <2>3. SabeDe(h)'
      BY <2>2 DEF SabeDe
    <2>4. ASSUME ~obsoleta'
          PROVE  HayPrincipal'
      <3>1. ASSUME Filas' # {}, ~cortada', \A g \in Hilos : ~EnCurso(g, "suceder")'
            PROVE  Principales' # {}
        <4>1. \A g \in Hilos : ~EnCurso(g, "suceder")
          <5>1. \A g \in Hilos \ {h} : ~EnCurso(g, "suceder")
            BY <2>2, <3>1, SiguenSucediendo
          <5>2. ~EnCurso(h, "suceder")
            BY <1>2 DEF EnCurso
          <5>3. QED BY <5>1, <5>2
        <4>2. resto # {} /\ Filas # {}
          BY <1>1, <1>9, <3>1
        <4>3. ~metodos[b].principal
          BY <1>5, <1>13, <2>2, <2>4, <4>2
        <4>4. HayPrincipal
          BY <2>2, <2>4, EnSeriePorPartes DEF IInvMetodos
        <4>5. PICK p \in Principales : TRUE
          BY <1>2, <3>1, <4>1, <4>2, <4>4 DEF HayPrincipal
        <4>6. p # b
          BY <1>0, <4>3, <4>5
        <4>7. QED BY <1>9, <4>5, <4>6
      <3>2. QED BY <3>1 DEF HayPrincipal
    <2>5. QED BY <1>11, <2>2, <2>3, <2>4
  <1>14. QED BY <1>12, <1>13

LEMMA PasoSuceder ==
    ASSUME IInvMetodos, NEW h \in Hilos, CommitSuceder(h)
    PROVE  IInvMetodos'
  <1>0. /\ Ranuras(PeticionMetodo) /\ DePeticiones(PeticionMetodo) /\ obsoleta \in BOOLEAN
        /\ DOMAIN metodos = Ids /\ Nada \notin MetodoRow
        /\ metodos \in [Ids -> MetodoRow \cup {Nada}]
        /\ \A i : i \in Filas <=> i \in Ids /\ metodos[i] \in MetodoRow
        /\ \A i : i \in Bancos <=> i \in Filas /\ metodos[i].tipo = "banco"
        /\ \A i : i \in Principales <=> i \in Filas /\ metodos[i].principal
        /\ ultimo \in Nat /\ ultimo <= MaxMetodos
        /\ cortada \in BOOLEAN /\ comercio \in Seq(ComercioRow)
    BY MetodosEs
  <1>1. PICK d, r, W : /\ d = peticion[h].dato /\ W = {Metodo(d)}
                       /\ r = [metodos[d] EXCEPT !.principal = TRUE]
    OBVIOUS
  <1>2. /\ peticion[h] # Nada /\ peticion[h].op = "suceder" /\ d \in Filas
        /\ metodos' = [metodos EXCEPT ![d] = r]
        /\ Termina(h, W)
        /\ ultimo' = ultimo /\ cortada' = cortada /\ comercio' = comercio
    BY <1>1 DEF CommitSuceder, EnCurso, Dato
  <1>3. \A g \in Hilos : SabeDe(g)
    BY DEF IInvMetodos
  <1>4. ~peticion[h].vieja => (~obsoleta => Principales \cap Bancos = {})
    BY <1>1, <1>2, <1>3 DEF SabeDe, SabeDeMetodos
  <1>5. /\ Ranuras(PeticionMetodo)' /\ peticion'[h] = Nada
        /\ ~obsoleta' => ~obsoleta /\ ~peticion[h].vieja
        /\ \A g \in Hilos \ {h} : SigueIgual(g, W)
    BY <1>0, <1>2, AlTerminar
  <1>6. /\ d \in Ids /\ r \in MetodoRow /\ r.principal /\ r.tipo = metodos[d].tipo
    <2>1. metodos[d] \in [tipo: {"billetera", "banco"}, principal: BOOLEAN] /\ d \in Ids
      BY <1>0, <1>2 DEF MetodoRow
    <2>2. QED BY <1>1, <2>1 DEF MetodoRow
  <1>7. /\ metodos' \in [Ids -> MetodoRow \cup {Nada}]
        /\ metodos'[d] = r /\ \A i \in Ids \ {d} : metodos'[i] = metodos[i]
    BY <1>0, <1>2, <1>6
  <1>8. /\ \A i : i \in Filas' <=> i \in Filas
        /\ \A i : i \in Bancos' <=> i \in Bancos
        /\ \A i : i \in Billeteras' <=> i \in Billeteras
        /\ \A i : i \in Principales' <=> i \in Principales \/ i = d
    <2>1. \A i : i \in Filas' <=> i \in Filas
      BY <1>0, <1>2, <1>6, <1>7 DEF Filas
    <2>2. \A i : i \in Bancos' <=> i \in Bancos
      BY <1>0, <1>2, <1>6, <1>7, <2>1 DEF Bancos
    <2>3. \A i : i \in Billeteras' <=> i \in Billeteras
      BY <2>1, <2>2 DEF Billeteras
    <2>4. \A i : i \in Principales' <=> i \in Principales \/ i = d
      BY <1>0, <1>2, <1>6, <1>7, <2>1 DEF Principales
    <2>5. QED BY <2>1, <2>2, <2>3, <2>4
  <1>9. \A g \in Hilos : SabeDe(g)'
    <2>1. Metodo(d) \in W /\ Metodo(d) \in LaListaEntera
      BY <1>1, <1>6 DEF LaListaEntera
    <2>2. \A g \in Hilos \ {h} : SabeDe(g)'
      BY <1>0, <1>2, <1>3, <1>5, <2>1, LosDemasSaben
    <2>3. SabeDe(h)'
      BY <1>5 DEF SabeDe
    <2>4. QED BY <2>2, <2>3
  <1>10. MetodosOK' /\ (Len(comercio) <= MaxMetodos)' /\ \A i \in Ids : i > ultimo' => metodos'[i] = Nada
    <2>1. MetodosOK'
      BY <1>0, <1>2, <1>7, MaxMetodosEsNatural DEF MetodosOK, Ids
    <2>2. ASSUME NEW i \in Ids, i > ultimo'
          PROVE  metodos'[i] = Nada
      <3>1. metodos[i] = Nada
        BY <1>2, <2>2 DEF IInvMetodos
      <3>2. QED BY <1>0, <1>2, <1>7, <3>1
    <2>3. QED BY <1>2, <2>1, <2>2 DEF IInvMetodos
  <1>11. PrincipalEnSerie'
    <2> SUFFICES ASSUME ~obsoleta'
                 PROVE  UnaBilletera' /\ UnaCuenta' /\ HayPrincipal' /\ UnoDelComercio'
      BY EnSeriePorPartes DEF PrincipalEnSerie, UnaBilletera, UnaCuenta, HayPrincipal, UnoDelComercio
    <2>1. /\ UnaBilletera /\ UnoDelComercio /\ Principales \cap Bancos = {}
      BY <1>4, <1>5, EnSeriePorPartes DEF IInvMetodos
    <2>2. UnaBilletera'
      BY <1>8, <2>1 DEF UnaBilletera
    <2>3. UnaCuenta'
      BY <1>8, <2>1 DEF UnaCuenta
    <2>4. HayPrincipal'
      BY <1>8 DEF HayPrincipal
    <2>5. UnoDelComercio'
      BY <1>2, <2>1 DEF UnoDelComercio
    <2>6. QED BY <2>2, <2>3, <2>4, <2>5
  <1>12. QED BY <1>5, <1>9, <1>10, <1>11 DEF IInvMetodos

LEMMA PasoDesaparecida ==
    ASSUME IInvMetodos, NEW h \in Hilos, FilaDesaparecida(h)
    PROVE  IInvMetodos'
  <1>0. /\ Ranuras(PeticionMetodo) /\ obsoleta \in BOOLEAN
        /\ \A g \in Hilos : SabeDe(g) /\ MetodosOK /\ Len(comercio) <= MaxMetodos
    BY MetodosEs DEF IInvMetodos
  <1>1. /\ Falla(h) /\ metodos' = metodos /\ ultimo' = ultimo /\ comercio' = comercio
        /\ cortada' = (cortada \/ EnCurso(h, "suceder"))
    BY DEF FilaDesaparecida
  <1>2. /\ Ranuras(PeticionMetodo)' /\ obsoleta' = obsoleta /\ peticion'[h] = Nada
        /\ \A g \in Hilos \ {h} : peticion'[g] = peticion[g]
    BY <1>0, <1>1, AlFallar
  <1>3. ASSUME NEW g \in Hilos
        PROVE  SabeDe(g)'
    <2>1. CASE g = h
      BY <1>2, <2>1 DEF SabeDe
    <2>2. CASE g # h
      <3>1. SigueIgual(g, {})
        BY <1>2, <2>2, IgualSinAge
      <3>2. QED BY <1>0, <1>1, <1>2, <3>1, SabeLoMismo
    <2>3. QED BY <2>1, <2>2
  <1>4. MetodosOK' /\ (Len(comercio) <= MaxMetodos)' /\ \A i \in Ids : i > ultimo' => metodos'[i] = Nada
    <2>1. (cortada \/ EnCurso(h, "suceder")) \in BOOLEAN
      OBVIOUS
    <2>2. MetodosOK'
      BY <1>0, <1>1, <2>1 DEF MetodosOK
    <2>3. QED BY <1>1, <2>2 DEF IInvMetodos
  <1>5. PrincipalEnSerie'
    <2>1. Filas' = Filas /\ Bancos' = Bancos /\ Billeteras' = Billeteras /\ Principales' = Principales
      BY <1>1 DEF Filas, Bancos, Billeteras, Principales
    <2>2. ASSUME ~cortada', \A g \in Hilos : ~EnCurso(g, "suceder")'
          PROVE  ~cortada /\ \A g \in Hilos : ~EnCurso(g, "suceder")
      BY <1>1, <1>2, <2>2 DEF EnCurso
    <2>3. PrincipalEnSerie
      BY DEF IInvMetodos
    <2>4. QED BY <1>1, <1>2, <2>1, <2>2, <2>3 DEF PrincipalEnSerie
  <1>6. QED BY <1>2, <1>3, <1>4, <1>5 DEF IInvMetodos

LEMMA PasoCaidaMetodos ==
    ASSUME IInvMetodos, CaidaMetodos
    PROVE  IInvMetodos'
  <1>1. /\ SePierden /\ metodos' = metodos /\ ultimo' = ultimo /\ comercio' = comercio
        /\ cortada' = TRUE
    BY DEF CaidaMetodos
  <1>2. Ranuras(PeticionMetodo)' /\ obsoleta' = obsoleta /\ \A h \in Hilos : peticion'[h] = Nada
    BY <1>1, MetodosEs, AlPerderse
  <1>3. \A h \in Hilos : SabeDe(h)'
    BY <1>2 DEF SabeDe
  <1>4. MetodosOK' /\ (Len(comercio) <= MaxMetodos)' /\ \A i \in Ids : i > ultimo' => metodos'[i] = Nada
    BY <1>1 DEF IInvMetodos, MetodosOK
  <1>5. PrincipalEnSerie'
    BY <1>1, <1>2 DEF IInvMetodos, PrincipalEnSerie, Filas, Bancos, Billeteras, Principales
  <1>6. QED BY <1>2, <1>3, <1>4, <1>5 DEF IInvMetodos

LEMMA ComercioEs ==
    ASSUME IInvMetodos
    PROVE  /\ comercio \in Seq(ComercioRow) /\ Len(comercio) \in Nat /\ Len(comercio) <= MaxMetodos
           /\ DOMAIN comercio = 1..Len(comercio) /\ DOMAIN comercio \subseteq Ids
           /\ \A i \in DOMAIN comercio : /\ comercio[i] \in ComercioRow
                                         /\ comercio[i].principal \in BOOLEAN
  <1>1. comercio \in Seq(ComercioRow) /\ Len(comercio) <= MaxMetodos
    BY DEF IInvMetodos, MetodosOK
  <1>2. DOMAIN comercio = 1..Len(comercio) /\ Len(comercio) \in Nat
    BY <1>1, LenProperties
  <1>3. \A i \in DOMAIN comercio : comercio[i] \in ComercioRow
    BY <1>1, <1>2, ElementOfSeq
  <1>4. QED BY <1>1, <1>2, <1>3, MaxMetodosEsNatural DEF ComercioRow, Ids

LEMMA PasoAgregar ==
    ASSUME IInvMetodos, NEW h \in Hilos, NEW b \in BOOLEAN, AgregarMetodo(h, b)
    PROVE  IInvMetodos'
  <1>0. Ranuras(PeticionMetodo) /\ DePeticiones(PeticionMetodo)
    BY MetodosEs
  <1>1. PICK D, L, d : /\ D = {i \in DOMAIN comercio : b /\ comercio[i].principal}
                       /\ L = (IF b THEN {<<"principales">>} ELSE {})
                       /\ d = [principal |-> b, desmarca |-> D]
    OBVIOUS
  <1>2. /\ d \in [principal: BOOLEAN, desmarca: SUBSET Ids] /\ d.principal = b /\ d.desmarca = D
        /\ ~b => D = {}
        /\ b => D = {i \in DOMAIN comercio : comercio[i].principal}
    BY <1>1, ComercioEs
  <1>3. Llega(h, "agregar", L, d) /\ UNCHANGED metodosVars
    BY <1>1 DEF AgregarMetodo
  <1>4. PeticionNueva("agregar", L, d) \in PeticionMetodo
    BY <1>1, <1>2 DEF PeticionNueva, PeticionMetodo, Peticion, Ids
  <1>5. peticion'[h].op = "agregar" /\ peticion'[h].lee = L /\ peticion'[h].dato = d
    BY <1>0, <1>3, <1>4, AlLlegar
  <1>6. SabeDe(h)'
    <2>1. RecuerdaSuTipo(h)' /\ CargaTodo(h)'
      BY <1>1, <1>2, <1>5 DEF RecuerdaSuTipo, CargaTodo, LosPrincipales
    <2>2. SabeDeMetodos(h)' /\ SabeDelComercio(h)'
      BY <1>2, <1>3, <1>5 DEF SabeDeMetodos, SabeDelComercio, metodosVars
    <2>3. QED BY <2>1, <2>2 DEF SabeDe
  <1>7. QED BY <1>3, <1>4, <1>6, PasoCarga

\* The rows of the user stay; the merchant's move.
LEMMA PasoComercio ==
    ASSUME IInvMetodos, UNCHANGED <<metodos, ultimo, cortada>>,
           Ranuras(PeticionMetodo)', ~obsoleta' => ~obsoleta,
           \A g \in Hilos : EnCurso(g, "suceder") => EnCurso(g, "suceder")',
           comercio' \in Seq(ComercioRow), Len(comercio') <= MaxMetodos,
           \A g \in Hilos : SabeDe(g)',
           ~obsoleta' => UnoDelComercio'
    PROVE  IInvMetodos'
  <1>1. MetodosOK' /\ (Len(comercio) <= MaxMetodos)' /\ \A i \in Ids : i > ultimo' => metodos'[i] = Nada
    BY DEF IInvMetodos, MetodosOK
  <1>2. PrincipalEnSerie'
    <2> SUFFICES ASSUME ~obsoleta'
                 PROVE  UnaBilletera' /\ UnaCuenta' /\ HayPrincipal' /\ UnoDelComercio'
      BY EnSeriePorPartes DEF PrincipalEnSerie, UnaBilletera, UnaCuenta, HayPrincipal, UnoDelComercio
    <2>1. UnaBilletera /\ UnaCuenta /\ HayPrincipal
      BY EnSeriePorPartes DEF IInvMetodos
    <2>2. Filas' = Filas /\ Bancos' = Bancos /\ Billeteras' = Billeteras /\ Principales' = Principales
      BY DEF Filas, Bancos, Billeteras, Principales
    <2>3. UnaBilletera' /\ UnaCuenta'
      BY <2>1, <2>2 DEF UnaBilletera, UnaCuenta
    <2>4. HayPrincipal'
      BY <2>1, <2>2 DEF HayPrincipal
    <2>5. QED BY <2>3, <2>4
  <1>3. QED BY <1>1, <1>2 DEF IInvMetodos

LEMMA PasoCommitAgregar ==
    ASSUME IInvMetodos, NEW h \in Hilos, CommitAgregar(h)
    PROVE  IInvMetodos'
  <1>0. /\ Ranuras(PeticionMetodo) /\ DePeticiones(PeticionMetodo) /\ obsoleta \in BOOLEAN
        /\ \A g \in Hilos : SabeDe(g)
    BY MetodosEs DEF IInvMetodos
  <1>1. /\ comercio \in Seq(ComercioRow) /\ Len(comercio) \in Nat
        /\ DOMAIN comercio = 1..Len(comercio)
        /\ \A i \in DOMAIN comercio : /\ comercio[i] \in ComercioRow
                                      /\ comercio[i].principal \in BOOLEAN
    BY ComercioEs
  <1>2. PICK p, D, W, n, base :
            /\ p = peticion[h].dato.principal /\ D = peticion[h].dato.desmarca
            /\ W = (IF p THEN {<<"principales">>} ELSE {})
            /\ n = [principal |-> p, activo |-> TRUE]
            /\ base = [i \in DOMAIN comercio |->
                    IF i \in D THEN [comercio[i] EXCEPT !.principal = FALSE] ELSE comercio[i]]
    OBVIOUS
  <1>3. /\ peticion[h] # Nada /\ peticion[h].op = "agregar" /\ Len(comercio) < MaxMetodos
        /\ comercio' = Append(base, n)
        /\ Termina(h, W)
        /\ metodos' = metodos /\ ultimo' = ultimo /\ cortada' = cortada
    BY <1>2 DEF CommitAgregar, EnCurso, Dato
  <1>4. p \in BOOLEAN /\ (~p => D = {}) /\ n \in ComercioRow /\ n.principal = p
    <2>1. p \in BOOLEAN /\ (~p => D = {})
      BY <1>0, <1>2, <1>3 DEF SabeDe, RecuerdaSuTipo
    <2>2. QED BY <1>2, <2>1 DEF ComercioRow
  <1>5. p /\ ~peticion[h].vieja => D = {i \in DOMAIN comercio : comercio[i].principal}
    BY <1>0, <1>2, <1>3 DEF SabeDe, SabeDelComercio
  <1>6. /\ Ranuras(PeticionMetodo)' /\ peticion'[h] = Nada
        /\ ~obsoleta' => ~obsoleta /\ ~peticion[h].vieja
        /\ \A g \in Hilos \ {h} : SigueIgual(g, W)
    BY <1>0, <1>3, AlTerminar
  <1>7. ASSUME NEW i \in DOMAIN comercio
        PROVE  base[i] \in ComercioRow /\ (base[i].principal <=> comercio[i].principal /\ i \notin D)
    <2>1. CASE i \notin D
      BY <1>1, <1>2, <2>1
    <2>2. CASE i \in D
      <3>1. base[i] = [comercio[i] EXCEPT !.principal = FALSE]
        BY <1>2, <2>2
      <3>2. comercio[i] \in [principal: BOOLEAN, activo: BOOLEAN]
        BY <1>1 DEF ComercioRow
      <3>3. QED BY <2>2, <3>1, <3>2 DEF ComercioRow
    <2>3. QED BY <2>1, <2>2
  <1>8. base \in Seq(ComercioRow) /\ Len(base) = Len(comercio)
    <2>1. base \in [1..Len(comercio) -> ComercioRow]
      BY <1>1, <1>2, <1>7
    <2>2. base \in Seq(ComercioRow)
      BY <1>1, <2>1
    <2>3. QED BY <1>1, <2>1, <2>2, LenProperties
  <1>9. PICK l : l = Len(comercio) + 1
    OBVIOUS
  <1>10. /\ comercio' \in Seq(ComercioRow) /\ Len(comercio') = l
         /\ comercio'[l] = n
         /\ \A i \in 1..Len(comercio) : comercio'[i] = base[i]
         /\ DOMAIN comercio' = 1..l
    <2>1. /\ comercio' \in Seq(ComercioRow) /\ Len(comercio') = l
          /\ comercio'[l] = n
          /\ \A i \in 1..Len(comercio) : comercio'[i] = base[i]
      BY <1>3, <1>4, <1>8, <1>9, AppendProperties
    <2>2. QED BY <2>1, LenProperties
  <1>11. /\ \A i : i \in DOMAIN comercio' <=> i \in DOMAIN comercio \/ i = l
         /\ l \notin DOMAIN comercio /\ l <= MaxMetodos
         /\ comercio'[l].principal <=> p
         /\ \A i \in DOMAIN comercio :
                comercio'[i].principal <=> comercio[i].principal /\ i \notin D
    <2>1. \A i : i \in 1..l <=> i \in 1..Len(comercio) \/ i = l
      BY <1>1, <1>9
    <2>2. l \notin 1..Len(comercio) /\ l <= MaxMetodos
      BY <1>1, <1>3, <1>9, MaxMetodosEsNatural
    <2>3. QED BY <1>1, <1>4, <1>7, <1>10, <2>1, <2>2
  <1>12. ASSUME NEW g \in Hilos
         PROVE  SabeDe(g)'
    <2>1. CASE g = h
      BY <1>6, <2>1 DEF SabeDe
    <2>2. CASE g # h
      <3>1. CASE p
        <4>1. W \cap LosPrincipales # {}
          BY <1>2, <3>1 DEF LosPrincipales
        <4>2. QED BY <1>0, <1>3, <1>6, <2>2, <4>1, SabeLoMismo
      <3>2. CASE ~p
        <4>1. {i \in DOMAIN comercio' : comercio'[i].principal}
                = {i \in DOMAIN comercio : comercio[i].principal}
          BY <1>4, <1>11, <3>2
        <4>2. QED BY <1>0, <1>3, <1>6, <2>2, <4>1, SabeLoMismo
      <3>3. QED BY <3>1, <3>2
    <2>3. QED BY <2>1, <2>2
  <1>13. ASSUME ~obsoleta'
         PROVE  UnoDelComercio'
    <2>1. UnoDelComercio /\ (p => D = {i \in DOMAIN comercio : comercio[i].principal})
      BY <1>5, <1>6, <1>13, EnSeriePorPartes DEF IInvMetodos
    <2>2. CASE p
      BY <1>11, <2>1, <2>2 DEF UnoDelComercio
    <2>3. CASE ~p
      BY <1>11, <2>1, <2>3 DEF UnoDelComercio
    <2>4. QED BY <2>2, <2>3
  <1>14. \A g \in Hilos : EnCurso(g, "suceder") => EnCurso(g, "suceder")'
    <2>1. ~EnCurso(h, "suceder")
      BY <1>3 DEF EnCurso
    <2>2. QED BY <1>6, <2>1, SiguenSucediendo
  <1>15. QED BY <1>3, <1>6, <1>10, <1>11, <1>12, <1>13, <1>14, PasoComercio

LEMMA PasoDesactivar ==
    ASSUME IInvMetodos, NEW i \in DOMAIN comercio, DesactivarMetodo(i)
    PROVE  IInvMetodos'
  <1>0. /\ Ranuras(PeticionMetodo) /\ obsoleta \in BOOLEAN
        /\ \A g \in Hilos : SabeDe(g)
    BY MetodosEs DEF IInvMetodos
  <1>1. /\ comercio \in Seq(ComercioRow) /\ Len(comercio) <= MaxMetodos
        /\ comercio[i] \in [principal: BOOLEAN, activo: BOOLEAN]
    BY ComercioEs DEF ComercioRow
  <1>2. PICK r : r = [comercio[i] EXCEPT !.activo = FALSE]
    OBVIOUS
  <1>3. /\ comercio' = [comercio EXCEPT ![i] = r]
        /\ metodos' = metodos /\ ultimo' = ultimo /\ cortada' = cortada
        /\ peticion' = peticion /\ obsoleta' = obsoleta
    BY <1>2 DEF DesactivarMetodo, servidor
  <1>4. r \in ComercioRow /\ r.principal = comercio[i].principal
    BY <1>1, <1>2 DEF ComercioRow
  <1>5. /\ comercio' \in Seq(ComercioRow) /\ Len(comercio') = Len(comercio)
        /\ DOMAIN comercio' = DOMAIN comercio
        /\ \A k \in DOMAIN comercio : comercio'[k] = IF k = i THEN r ELSE comercio[k]
    BY <1>1, <1>3, <1>4, ExceptSeq
  <1>6. \A k \in DOMAIN comercio : comercio'[k].principal <=> comercio[k].principal
    BY <1>4, <1>5
  <1>7. ASSUME NEW g \in Hilos
        PROVE  SabeDe(g)'
    <2>1. SigueIgual(g, {})
      BY <1>3, IgualSinAge
    <2>2. QED BY <1>0, <1>3, <1>5, <1>6, <2>1, SabeLoMismo
  <1>8. ~obsoleta' => UnoDelComercio'
    <2>1. ~obsoleta => UnoDelComercio
      BY EnSeriePorPartes DEF IInvMetodos
    <2>2. QED BY <1>3, <1>5, <1>6, <2>1 DEF UnoDelComercio
  <1>9. Ranuras(PeticionMetodo)' /\ \A g \in Hilos : EnCurso(g, "suceder") => EnCurso(g, "suceder")'
    BY <1>0, <1>3 DEF Ranuras, EnCurso
  <1>10. QED BY <1>1, <1>3, <1>5, <1>7, <1>8, <1>9, PasoComercio

LEMMA PasoMetodos ==
    ASSUME IInvMetodos, NextMetodos \/ NextComercio
    PROVE  IInvMetodos'
  <1>1. CASE CaidaMetodos
    BY <1>1, PasoCaidaMetodos
  <1>2. ASSUME NEW h \in Hilos,
               \/ ListarMetodos(h) \/ VincularBanco(h)
               \/ \E i \in Filas : MarcarPrincipal(h, i) \/ Desvincular(h, i)
        PROVE  IInvMetodos'
    BY <1>2, PasoListar, PasoVincular, PasoMarcar, PasoDesvincular
  <1>3. ASSUME NEW h \in Hilos, Inserta(h, "billetera") \/ Inserta(h, "vincular")
        PROVE  IInvMetodos'
    BY <1>3, PasoInserta
  <1>4. ASSUME NEW h \in Hilos,
               CommitMarcar(h) \/ CommitDesvincular(h) \/ CommitSuceder(h) \/ FilaDesaparecida(h)
        PROVE  IInvMetodos'
    BY <1>4, PasoCommitMarcar, PasoCommitDesvincular, PasoSuceder, PasoDesaparecida
  <1>5. ASSUME NEW i \in DOMAIN comercio, DesactivarMetodo(i)
        PROVE  IInvMetodos'
    BY <1>5, PasoDesactivar
  <1>6. ASSUME NEW h \in Hilos, CommitAgregar(h) \/ \E b \in BOOLEAN : AgregarMetodo(h, b)
        PROVE  IInvMetodos'
    BY <1>6, PasoCommitAgregar, PasoAgregar
  <1>7. CASE NextMetodos
    BY <1>1, <1>2, <1>3, <1>4, <1>7 DEF NextMetodos
  <1>8. CASE NextComercio
    BY <1>5, <1>6, <1>8 DEF NextComercio
  <1>9. QED BY <1>7, <1>8

LEMMA MetodosQuietos ==
    ASSUME IInvMetodos, UNCHANGED <<metodosVars, servidor>>
    PROVE  IInvMetodos'
  <1>1. /\ metodos' = metodos /\ ultimo' = ultimo /\ cortada' = cortada /\ comercio' = comercio
        /\ peticion' = peticion /\ obsoleta' = obsoleta
    BY DEF metodosVars, servidor
  <1>2. Ranuras(PeticionMetodo)' /\ \A g \in Hilos : EnCurso(g, "suceder") => EnCurso(g, "suceder")'
    BY <1>1, MetodosEs DEF Ranuras, EnCurso
  <1>3. ASSUME NEW g \in Hilos
        PROVE  SabeDe(g)'
    <2>1. SigueIgual(g, {}) /\ SabeDe(g) /\ obsoleta \in BOOLEAN
      BY <1>1, IgualSinAge, MetodosEs DEF IInvMetodos
    <2>2. QED BY <1>1, <2>1, SabeLoMismo
  <1>4. ~obsoleta' => UnoDelComercio'
    BY <1>1, EnSeriePorPartes DEF IInvMetodos, UnoDelComercio
  <1>5. QED BY <1>1, <1>2, <1>3, <1>4, ComercioEs, PasoComercio

LEMMA MetodosAlInicio ==
    ASSUME InitMetodos
    PROVE  /\ MetodosOK /\ PrincipalEnSerie
           /\ Ranuras(PeticionMetodo) /\ (\A h \in Hilos : peticion[h] = Nada) => IInvMetodos
  <1>1. /\ metodos = [i \in Ids |-> Nada] /\ ultimo = 0 /\ cortada = FALSE
        /\ comercio = <<>> /\ comercio \in Seq(ComercioRow) /\ Len(comercio) = 0
    BY EmptySeq DEF InitMetodos, Ids
  <1>2. MetodosOK
    <2>1. metodos \in [Ids -> MetodoRow \cup {Nada}]
      BY <1>1
    <2>2. 0 \in 0..MaxMetodos
      BY MaxMetodosEsNatural
    <2>3. ultimo \in 0..MaxMetodos /\ cortada \in BOOLEAN
      BY <1>1, <2>2
    <2>4. QED BY <1>1, <2>1, <2>3 DEF MetodosOK, Ids
  <1>3. Filas = {}
    BY <1>1 DEF Filas
  <1>4. PrincipalEnSerie
    BY <1>1, <1>3 DEF PrincipalEnSerie, Billeteras, Bancos, Principales
  <1>5. QED BY <1>1, <1>2, <1>4, MaxMetodosEsNatural DEF IInvMetodos, SabeDe
-----------------------------------------------------------------------------
(* The server with all its areas *)

\* Each moves only in its area; in the others it is as it began.
DondeSeMueve ==
    /\ area = "pagos" => IInvPagos
    /\ area # "pagos" => InitPagos
DondeSeDecide ==
    /\ area = "hitos" => IInvHitos
    /\ area # "hitos" => InitHitos
DondeSeGasta ==
    /\ area = "monedas" => IInvMonedas
    /\ area # "monedas" => InitMonedas
DondeSeSuscribe ==
    /\ area = "suscripcion" => IInvSuscripciones
    /\ area # "suscripcion" => InitSuscripciones
DondeSeElige ==
    /\ area \in {"metodos", "comercio"} => IInvMetodos
    /\ area \notin {"metodos", "comercio"} => InitMetodos

\* The payment as it begins, on a free server.
LEMMA PagosAlInicio ==
    ASSUME InitServidor, InitPagos
    PROVE  IInvPagos
  <1>1. /\ \A h \in Hilos : peticion[h] = Nada
        /\ Ranuras(PeticionPago)
    BY DEF InitServidor, Ranuras
  <1>2. \A h \in Hilos : ~Cobrando(h) /\ SabeDelPago(h) /\ SabeDeDisputas(h)
    BY <1>1 DEF Cobrando, EnCurso, SabeDelPago, SabeDeDisputas, ConOp
  <1>3. \A h \in Hilos : CobroPropio(h)
    BY <1>2 DEF CobroPropio
  <1>4. /\ pago = Nada /\ cobros = {} /\ perdidos = {} /\ intentos = 0
        /\ disputas = <<>> /\ disputas \in Seq(EstadoDisputa)
    BY DEF InitPagos
  <1>5. FirmePagos
    BY <1>1, <1>2, <1>3, <1>4 DEF FirmePagos, CompletadoCobrado
  <1>6. Abiertas = {}
    BY <1>4 DEF Abiertas
  <1>7. QED BY <1>4, <1>5, <1>6 DEF IInvPagos, PagosEnSerie, CobroUnicoEnSerie, DisputaUnicaEnSerie

\* The milestones as they begin, on a free server.
LEMMA HitosAlInicio ==
    ASSUME InitServidor, InitHitos
    PROVE  IInvHitos
  <1>1. /\ \A h \in Hilos : peticion[h] = Nada
        /\ Ranuras(PeticionHito)
    BY DEF InitServidor, Ranuras
  <1>2. hitos = <<>> /\ hitos \in Seq(HitoRow) /\ tarea = Nada
    BY DEF InitHitos
  <1>3. QED BY <1>1, <1>2 DEF IInvHitos, FirmeHitos, SabeDeHitos, SabeLaTarea,
                AprobadoConFecha, NumerosUnicosEnSerie

LEMMA AlEmpezar == Init => DondeSeMueve /\ DondeSeDecide
  <1>1. ASSUME Init
        PROVE  DondeSeMueve
    BY <1>1, PagosAlInicio DEF Init, DondeSeMueve
  <1>2. ASSUME Init
        PROVE  DondeSeDecide
    BY <1>2, HitosAlInicio DEF Init, DondeSeDecide
  <1>3. QED BY <1>1, <1>2

LEMMA Paso == DondeSeMueve /\ [Next]_vars => DondeSeMueve'
  <1> SUFFICES ASSUME DondeSeMueve, [Next]_vars
               PROVE  DondeSeMueve'
    OBVIOUS
  <1>1. CASE EnPagos
    BY <1>1, PasoPagos DEF EnPagos, DondeSeMueve
  <1>2. CASE EnHitos \/ EnMonedas \/ EnSuscripcion \/ EnMetodos \/ EnCertificado
    <2>1. area # "pagos" /\ area' = area /\ UNCHANGED pagos
      BY <1>2 DEF EnHitos, EnMonedas, EnSuscripcion, EnMetodos, EnCertificado
    <2>2. QED BY <2>1 DEF DondeSeMueve, InitPagos, pagos
  <1>3. CASE UNCHANGED vars
    <2>1. UNCHANGED <<area, servidor, pagos>>
      BY <1>3 DEF vars
    <2>2. CASE area = "pagos"
      <3>1. peticion' = peticion /\ obsoleta' = obsoleta /\ UNCHANGED pagos
        BY <2>1 DEF servidor
      <3>2. IInvPagos'
        BY <2>2, <3>1, Quieto DEF DondeSeMueve, pagos
      <3>3. QED BY <2>1, <2>2, <3>2 DEF DondeSeMueve
    <2>3. CASE area # "pagos"
      BY <2>1, <2>3 DEF DondeSeMueve, InitPagos, pagos
    <2>4. QED BY <2>2, <2>3
  <1>4. QED BY <1>1, <1>2, <1>3 DEF Next

LEMMA HitosVacios ==
    ASSUME InitHitos, UNCHANGED hitosVars
    PROVE  InitHitos' /\ Firme
  <1>1. hitos = <<>> /\ hitos' = <<>> /\ tarea = Nada /\ tarea' = Nada
    BY DEF InitHitos, hitosVars
  <1>2. QED BY <1>1 DEF InitHitos, Firme, todos_aprobados

LEMMA PasoDecision == DondeSeDecide /\ [Next]_vars => DondeSeDecide' /\ Firme
  <1> SUFFICES ASSUME DondeSeDecide, [Next]_vars
               PROVE  DondeSeDecide' /\ Firme
    OBVIOUS
  <1>1. CASE EnHitos
    BY <1>1, PasoHitos DEF EnHitos, DondeSeDecide
  <1>2. CASE EnPagos \/ EnMonedas \/ EnSuscripcion \/ EnMetodos \/ EnCertificado
    <2>1. area # "hitos" /\ area' = area /\ UNCHANGED hitosVars
      BY <1>2 DEF EnPagos, EnMonedas, EnSuscripcion, EnMetodos, EnCertificado
    <2>2. InitHitos
      BY <2>1 DEF DondeSeDecide
    <2>3. QED BY <2>1, <2>2, HitosVacios DEF DondeSeDecide
  <1>3. CASE UNCHANGED vars
    <2>1. UNCHANGED <<area, servidor, hitosVars>>
      BY <1>3 DEF vars
    <2>2. CASE area = "hitos"
      <3>1. peticion' = peticion /\ obsoleta' = obsoleta /\ hitos' = hitos /\ tarea' = tarea
        BY <2>1 DEF servidor, hitosVars
      <3>2. IInvHitos' /\ Firme
        BY <2>2, <3>1, HitosSinPaso DEF DondeSeDecide
      <3>3. QED BY <2>1, <2>2, <3>2 DEF DondeSeDecide
    <2>3. CASE area # "hitos"
      <3>1. InitHitos
        BY <2>3 DEF DondeSeDecide
      <3>2. QED BY <2>1, <2>3, <3>1, HitosVacios DEF DondeSeDecide
    <2>4. QED BY <2>2, <2>3
  <1>4. QED BY <1>1, <1>2, <1>3 DEF Next

LEMMA Alcanza ==
    ASSUME DondeSeMueve
    PROVE  CobroUnicoEnSerie /\ DisputaUnicaEnSerie /\ CompletadoCobrado
  <1>1. CASE area = "pagos"
    BY <1>1 DEF DondeSeMueve, IInvPagos, FirmePagos, PagosEnSerie
  <1>2. CASE area # "pagos"
    <2>1. pago = Nada /\ cobros = {} /\ disputas = <<>>
      BY <1>2 DEF DondeSeMueve, InitPagos
    <2>2. Abiertas = {}
      BY <2>1 DEF Abiertas
    <2>3. QED BY <2>1, <2>2 DEF CobroUnicoEnSerie, DisputaUnicaEnSerie, CompletadoCobrado
  <1>3. QED BY <1>1, <1>2

\* However many requests race, as long as none commits on a payment that had
\* changed, the charges the gateway accepted are the one the payment refers to
\* and those whose request is on its way or died (controllers/payments.py).
THEOREM CobroUnico == Spec => []CobroUnicoEnSerie
  <1>1. QED BY AlEmpezar, Paso, Alcanza, PTL DEF Spec

\* Whatever races or dies, a completed payment had a charge accepted, and a
\* payment refers to no charge the gateway did not accept.
THEOREM PagadoCobrado == Spec => []CompletadoCobrado
  <1>1. QED BY AlEmpezar, Paso, Alcanza, PTL DEF Spec

\* As long as no request commits on rows that had changed, a contract has at
\* most one open dispute (controllers/disputes.py).
THEOREM UnaDisputa == Spec => []DisputaUnicaEnSerie
  <1>1. QED BY AlEmpezar, Paso, Alcanza, PTL DEF Spec
\* Until a request or the task commits on milestones that had changed, a
\* decision is final and a contract with all its milestones approved stays so
\* (controllers/milestones.py, tasks.py).
THEOREM DecisionFirme == Spec => DecisionFirmeEnSerie
  <1>1. DondeSeDecide /\ [Next]_vars => [Firme]_<<hitosVars, servidor>>
    BY PasoDecision
  <1>2. QED BY AlEmpezar, PasoDecision, <1>1, PTL DEF Spec, DecisionFirmeEnSerie, Firme

LEMMA AlcanzaHitos ==
    ASSUME DondeSeDecide
    PROVE  AprobadoConFecha /\ NumerosUnicosEnSerie
  <1>1. CASE area = "hitos"
    BY <1>1 DEF DondeSeDecide, IInvHitos, FirmeHitos
  <1>2. CASE area # "hitos"
    BY <1>2 DEF DondeSeDecide, InitHitos, AprobadoConFecha, NumerosUnicosEnSerie
  <1>3. QED BY <1>1, <1>2

\* Whatever races, a milestone that counts as approved has the date of its
\* approval; and until such a commit no two have the same number.
THEOREM AprobadosConFecha == Spec => [](AprobadoConFecha /\ NumerosUnicosEnSerie)
  <1>1. QED BY AlEmpezar, PasoDecision, AlcanzaHitos, PTL DEF Spec

-----------------------------------------------------------------------------
(* All areas at once: types, what is unique, and what adds up *)

\* A server nobody has asked anything: its slots hold requests of any kind.
LEMMA PasoGasta == DondeSeGasta /\ [Next]_vars => DondeSeGasta'
  <1> SUFFICES ASSUME DondeSeGasta, [Next]_vars
               PROVE  DondeSeGasta'
    OBVIOUS
  <1>1. CASE EnMonedas
    BY <1>1, PasoMonedas DEF EnMonedas, DondeSeGasta
  <1>2. CASE EnPagos \/ EnHitos \/ EnSuscripcion \/ EnMetodos \/ EnCertificado
    <2>1. area # "monedas" /\ area' = area /\ UNCHANGED monedasVars
      BY <1>2 DEF EnPagos, EnHitos, EnSuscripcion, EnMetodos, EnCertificado
    <2>2. QED BY <2>1 DEF DondeSeGasta, InitMonedas, monedasVars
  <1>3. CASE UNCHANGED vars
    <2>1. area' = area /\ UNCHANGED <<monedasVars, servidor>>
      BY <1>3 DEF vars
    <2>2. CASE area = "monedas"
      BY <2>1, <2>2, MonedasQuietas DEF DondeSeGasta
    <2>3. CASE area # "monedas"
      BY <2>1, <2>3 DEF DondeSeGasta, InitMonedas, monedasVars
    <2>4. QED BY <2>2, <2>3
  <1>4. QED BY <1>1, <1>2, <1>3 DEF Next

LEMMA PasoSuscribe == DondeSeSuscribe /\ [Next]_vars => DondeSeSuscribe'
  <1> SUFFICES ASSUME DondeSeSuscribe, [Next]_vars
               PROVE  DondeSeSuscribe'
    OBVIOUS
  <1>1. CASE EnSuscripcion
    BY <1>1, PasoSuscripciones DEF EnSuscripcion, DondeSeSuscribe
  <1>2. CASE EnPagos \/ EnHitos \/ EnMonedas \/ EnMetodos \/ EnCertificado
    <2>1. area # "suscripcion" /\ area' = area /\ UNCHANGED suscripcionVars
      BY <1>2 DEF EnPagos, EnHitos, EnMonedas, EnMetodos, EnCertificado
    <2>2. QED BY <2>1 DEF DondeSeSuscribe, InitSuscripciones, suscripcionVars
  <1>3. CASE UNCHANGED vars
    <2>1. area' = area /\ UNCHANGED <<suscripcionVars, servidor>>
      BY <1>3 DEF vars
    <2>2. CASE area = "suscripcion"
      BY <2>1, <2>2, SuscripcionesQuietas DEF DondeSeSuscribe
    <2>3. CASE area # "suscripcion"
      BY <2>1, <2>3 DEF DondeSeSuscribe, InitSuscripciones, suscripcionVars
    <2>4. QED BY <2>2, <2>3
  <1>4. QED BY <1>1, <1>2, <1>3 DEF Next

LEMMA PasoElige == DondeSeElige /\ [Next]_vars => DondeSeElige'
  <1> SUFFICES ASSUME DondeSeElige, [Next]_vars
               PROVE  DondeSeElige'
    OBVIOUS
  <1>1. CASE EnMetodos
    BY <1>1, PasoMetodos DEF EnMetodos, DondeSeElige
  <1>2. CASE EnPagos \/ EnHitos \/ EnMonedas \/ EnSuscripcion \/ EnCertificado
    <2>1. area \notin {"metodos", "comercio"} /\ area' = area /\ UNCHANGED metodosVars
      BY <1>2 DEF EnPagos, EnHitos, EnMonedas, EnSuscripcion, EnCertificado
    <2>2. QED BY <2>1 DEF DondeSeElige, InitMetodos, metodosVars
  <1>3. CASE UNCHANGED vars
    <2>1. area' = area /\ UNCHANGED <<metodosVars, servidor>>
      BY <1>3 DEF vars
    <2>2. CASE area \in {"metodos", "comercio"}
      BY <2>1, <2>2, MetodosQuietos DEF DondeSeElige
    <2>3. CASE area \notin {"metodos", "comercio"}
      BY <2>1, <2>3 DEF DondeSeElige, InitMetodos, metodosVars
    <2>4. QED BY <2>2, <2>3
  <1>4. QED BY <1>1, <1>2, <1>3 DEF Next

LEMMA PasoCertifica == IInvCertificado /\ [Next]_vars => IInvCertificado'
  <1> SUFFICES ASSUME IInvCertificado, [Next]_vars
               PROVE  IInvCertificado'
    OBVIOUS
  <1>1. CASE EnCertificado
    BY <1>1, PasoCertificado DEF EnCertificado
  <1>2. CASE EnPagos \/ EnHitos \/ EnMonedas \/ EnSuscripcion \/ EnMetodos \/ UNCHANGED vars
    BY <1>2, CertificadoQuieto
       DEF EnPagos, EnHitos, EnMonedas, EnSuscripcion, EnMetodos, vars
  <1>3. QED BY <1>1, <1>2 DEF Next

\* Only the life cycle of the contract moves its estado.
ElContrato == contrato \in EstadoContrato

LEMMA PasoElContrato == ElContrato /\ [Next]_vars => ElContrato'
  <1> SUFFICES ASSUME ElContrato, [Next]_vars
               PROVE  ElContrato'
    OBVIOUS
  <1>1. CASE NextPagos
    <2>1. CASE MueveContrato \/ CaidaPagos
      BY <2>1 DEF MueveContrato, CaidaPagos, ElContrato
    <2>2. ASSUME NEW h \in Hilos,
                 \/ CrearPago(h) \/ CommitCrearPago(h) \/ PagoDuplicado(h)
                 \/ ConfirmarPago(h) \/ ReintentarPago(h) \/ CommitCargo(h) \/ CommitRechazo(h)
                 \/ ReembolsarPago(h) \/ CommitReembolso(h)
          PROVE  contrato' = contrato
      BY <2>2 DEF CrearPago, CommitCrearPago, PagoDuplicado, ConfirmarPago, ReintentarPago,
                  Cobra, CommitCargo, CommitRechazo, EscribePago, ReembolsarPago,
                  CommitReembolso, pagos
    <2>3. ASSUME NEW h \in Hilos,
                 \/ AbrirDisputa(h) \/ CommitDisputa(h) \/ CommitResolver(h)
                 \/ \E d \in DOMAIN disputas : ResolverDisputa(h, d)
          PROVE  contrato' = contrato
      BY <2>3 DEF AbrirDisputa, CommitDisputa, CommitResolver, ResolverDisputa, pagos
    <2>4. QED BY <1>1, <2>1, <2>2, <2>3 DEF NextPagos, ElContrato
  <1>2. CASE EnHitos \/ EnMonedas \/ EnSuscripcion \/ EnMetodos \/ EnCertificado \/ UNCHANGED vars
    <2>1. UNCHANGED pagos
      BY <1>2 DEF EnHitos, EnMonedas, EnSuscripcion, EnMetodos, EnCertificado, vars
    <2>2. QED BY <2>1 DEF pagos, ElContrato
  <1>3. QED BY <1>1, <1>2 DEF Next, EnPagos

IInv ==
    /\ DondeSeMueve /\ DondeSeDecide /\ DondeSeGasta /\ DondeSeSuscribe /\ DondeSeElige
    /\ IInvCertificado /\ ElContrato

LEMMA EmpiezaTodo == Init => IInv
  <1> SUFFICES ASSUME Init
               PROVE  IInv
    OBVIOUS
  <1>1. DondeSeMueve /\ DondeSeDecide
    BY AlEmpezar
  <1>2. DondeSeGasta
    BY ServidorLibre, MonedasAlInicio DEF Init, DondeSeGasta
  <1>3. DondeSeSuscribe
    BY ServidorLibre, SuscripcionesAlInicio DEF Init, DondeSeSuscribe
  <1>4. DondeSeElige
    BY ServidorLibre, MetodosAlInicio DEF Init, DondeSeElige
  <1>5. IInvCertificado
    BY CertificadoAlInicio DEF Init
  <1>6. ElContrato
    BY DEF Init, InitPagos, ElContrato, EstadoContrato
  <1>7. QED BY <1>1, <1>2, <1>3, <1>4, <1>5, <1>6 DEF IInv

LEMMA PasoTodo == IInv /\ [Next]_vars => IInv'
  BY Paso, PasoDecision, PasoGasta, PasoSuscribe, PasoElige, PasoCertifica, PasoElContrato DEF IInv

LEMMA AlcanzaElPago ==
    ASSUME IInv
    PROVE  PagosOK
  <1>1. CASE area = "pagos"
    <2>1. FirmePagos
      BY <1>1 DEF IInv, DondeSeMueve, IInvPagos
    <2>2. cobros \subseteq 1..intentos /\ perdidos \subseteq cobros /\ intentos \in Nat
      BY <2>1 DEF FirmePagos
    <2>3. QED BY <2>1, <2>2 DEF FirmePagos, PagosOK, IInv, ElContrato
  <1>2. CASE area # "pagos"
    <2>1. pago = Nada /\ disputas = <<>> /\ intentos = 0 /\ cobros = {} /\ perdidos = {}
      BY <1>2 DEF IInv, DondeSeMueve, InitPagos
    <2>2. QED BY <2>1 DEF PagosOK, IInv, ElContrato
  <1>3. QED BY <1>1, <1>2

LEMMA AlcanzaLosHitos ==
    ASSUME IInv
    PROVE  HitosOK
  <1>1. CASE area = "hitos"
    BY <1>1 DEF IInv, DondeSeDecide, IInvHitos, FirmeHitos, HitosOK
  <1>2. CASE area # "hitos"
    <2>1. hitos = <<>> /\ tarea = Nada
      BY <1>2 DEF IInv, DondeSeDecide, InitHitos
    <2>2. QED BY <2>1 DEF HitosOK
  <1>3. QED BY <1>1, <1>2

LEMMA AlcanzaLasMonedas ==
    ASSUME IInv
    PROVE  MonedasOK /\ MonedasEnSerie /\ NadiePierdeMonedas
  <1>1. CASE area = "monedas"
    BY <1>1, AlcanzaMonedas DEF IInv, DondeSeGasta
  <1>2. CASE area # "monedas"
    <2>1. monedas = <<>> /\ otorgadas = 0 /\ gastadas = 0
      BY <1>2 DEF IInv, DondeSeGasta, InitMonedas
    <2>2. Suma(monedas) = 0
      BY <2>1, SumaEs, SumaNada
    <2>3. QED BY <2>1, <2>2 DEF MonedasOK, MonedasEnSerie, NadiePierdeMonedas
  <1>3. QED BY <1>1, <1>2

LEMMA AlcanzaElPlan ==
    ASSUME IInv
    PROVE  SuscripcionesOK /\ PlanSuscrito
  <1>1. CASE area = "suscripcion"
    BY <1>1 DEF IInv, DondeSeSuscribe, IInvSuscripciones
  <1>2. CASE area # "suscripcion"
    BY <1>2, SuscripcionesAlInicio DEF IInv, DondeSeSuscribe
  <1>3. QED BY <1>1, <1>2

LEMMA AlcanzaLosMetodos ==
    ASSUME IInv
    PROVE  MetodosOK /\ PrincipalEnSerie
  <1>1. CASE area \in {"metodos", "comercio"}
    BY <1>1 DEF IInv, DondeSeElige, IInvMetodos
  <1>2. CASE area \notin {"metodos", "comercio"}
    BY <1>2, MetodosAlInicio DEF IInv, DondeSeElige
  <1>3. QED BY <1>1, <1>2

\* In every area and whatever races, rows have their types, a milestone that
\* counts as approved has its date, a completed payment its charge, no user
\* loses coins that no use asked for, a paid plan has its subscription, and the
\* window of the certificate is of twelve months in a row.
THEOREM CobrosFirmes == Spec => []CobrosOK
  <1>1. ASSUME IInv
        PROVE  CobrosOK
    <2>1. CompletadoCobrado /\ AprobadoConFecha /\ VentanaContigua
      BY <1>1, Alcanza, AlcanzaHitos, AlcanzaCertificado DEF IInv
    <2>2. QED BY <1>1, <2>1, AlcanzaElPago, AlcanzaLosHitos, AlcanzaLasMonedas, AlcanzaElPlan,
                 AlcanzaLosMetodos DEF CobrosOK
  <1>2. QED BY EmpiezaTodo, PasoTodo, <1>1, PTL DEF Spec

\* While no request commits on rows that had changed: one open dispute at most,
\* no two milestones of one number, one wallet, one principal account, and some
\* principal method (controllers/disputes.py, milestones.py,
\* payment_methods.py, merchant.py).
THEOREM Unicos == Spec => []UnicosEnSerie
  <1>1. ASSUME IInv
        PROVE  UnicosEnSerie
    BY <1>1, Alcanza, AlcanzaHitos, AlcanzaLosMetodos DEF IInv, UnicosEnSerie
  <1>2. QED BY EmpiezaTodo, PasoTodo, <1>1, PTL DEF Spec

\* The rows of coins hold exactly what was granted and not spent until a use
\* commits on rows that had changed; and the history of the certificate counts
\* every completed payment of the last twelve months once (services/wallet.py,
\* controllers/payments.py).
THEOREM Cuadran == Spec => []SumasCuadran
  <1>1. ASSUME IInv
        PROVE  SumasCuadran
    BY <1>1, AlcanzaLasMonedas, AlcanzaCertificado DEF IInv, SumasCuadran
  <1>2. QED BY EmpiezaTodo, PasoTodo, <1>1, PTL DEF Spec
=============================================================================
