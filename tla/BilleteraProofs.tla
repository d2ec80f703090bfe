--------------------------- MODULE BilleteraProofs ---------------------------
(***************************************************************************)
(* Proofs about Billetera for any number of racing requests, contracts,    *)
(* prices and amounts.                                                     *)
(***************************************************************************)
EXTENDS Billetera, TLAPS

\* The commission, taken twice from the provider, still fits in the price.
LEMMA ComisionCabe ==
    ASSUME NEW k \in Contratos
    PROVE  /\ Precio[k] \in Nat
           /\ ComisionDe(k) \in Nat
           /\ 2 * ComisionDe(k) <= Precio[k]
  <1>1. Precio[k] \in Nat
    BY PreciosNat
  <1>2. (12 * Precio[k]) \div 100 \in Nat /\ 2 * ((12 * Precio[k]) \div 100) <= Precio[k]
    BY <1>1, SMT
  <1>3. ComisionDe(k) \in {0, (12 * Precio[k]) \div 100}
    BY DEF ComisionDe, Comision
  <1>4. QED BY <1>1, <1>2, <1>3

\* What TypeOK says of a slot in use.
LEMMA PeticionTipos ==
    ASSUME TypeOK, NEW h \in Hilos, peticion[h] # Nada
    PROVE  /\ peticion[h] \in Peticion
           /\ peticion[h].op \in Operacion
           /\ peticion[h].k \in Contratos \cup {Nada}
           /\ peticion[h].monto \in Nat
           /\ peticion[h].estado \in EstadoContrato \cup {Nada}
           /\ peticion[h].foto \in Cuenta \cup {Nada}
           /\ peticion[h].fase \in Fase
  <1>1. peticion[h] \in Peticion
    BY DEF TypeOK
  <1>2. QED BY <1>1 DEF Peticion

\* The requests of the other slots keep what they know and what they hold, as
\* long as the step of h touches neither their locks nor, when one of them
\* holds it, the wallet.
LEMMA Ajenas ==
    ASSUME IInv, NEW h \in Hilos, NEW g \in Hilos, g # h,
           peticion'[g] = peticion[g], peticion[g] # Nada,
           \A k \in Contratos : cerrojoContrato[k] \notin {Nada, h}
                => cerrojoContrato'[k] = cerrojoContrato[k],
           cerrojoBilletera \notin {Nada, h}
                => cerrojoBilletera' = cerrojoBilletera /\ billetera' = billetera,
           billetera # Nada => billetera' # Nada
    PROVE  PeticionCoherente(g)' /\ Bloqueos(g)'
  <1>1. PeticionCoherente(g) /\ Bloqueos(g) /\ TypeOK
    BY DEF IInv
  <1>2. PeticionCoherente(g)'
    BY <1>1 DEF PeticionCoherente, Procede
  <1>3. g # Nada
    BY NadaEsNadie
  <1>4. peticion[g].k \in Contratos \cup {Nada}
    BY <1>1, PeticionTipos
  <1>5. peticion[g].fase \in {"billetera", "sin_pago"} => peticion[g].k \in Contratos
    BY <1>1 DEF PeticionCoherente
  <1>6. \A k \in Contratos : cerrojoContrato[k] = g => cerrojoContrato'[k] = g
    BY <1>3
  <1>7. cerrojoBilletera = g => cerrojoBilletera' = g /\ billetera' = billetera
    BY <1>3
  <1>8. Bloqueos(g)'
    BY <1>1, <1>4, <1>5, <1>6, <1>7 DEF Bloqueos
  <1>9. QED BY <1>2, <1>8

\* The same for a step that replaces only the request of h: what is left to
\* prove of the invariant concerns h and the rows.
LEMMA Paso ==
    ASSUME IInv, NEW h \in Hilos, NEW p \in Peticion \cup {Nada},
           peticion' = [peticion EXCEPT ![h] = p],
           \A k \in Contratos : cerrojoContrato[k] \notin {Nada, h}
                => cerrojoContrato'[k] = cerrojoContrato[k],
           cerrojoBilletera \notin {Nada, h}
                => cerrojoBilletera' = cerrojoBilletera /\ billetera' = billetera,
           billetera # Nada => billetera' # Nada,
           TypeOK', SaldoNoNegativo', CuadraEnSerie', PagoUnicoEnSerie',
           p # Nada => PeticionCoherente(h)' /\ Bloqueos(h)'
    PROVE  IInv'
  <1>1. SUFFICES ASSUME NEW g \in Hilos, peticion'[g] # Nada
                 PROVE  PeticionCoherente(g)' /\ Bloqueos(g)'
    BY DEF IInv
  <1>2. TypeOK
    BY DEF IInv
  <1>3. CASE g = h
    BY <1>1, <1>2, <1>3 DEF TypeOK
  <1>4. CASE g # h
    <2>1. peticion'[g] = peticion[g]
      BY <1>2, <1>4 DEF TypeOK
    <2>2. QED BY <1>1, <1>4, <2>1, Ajenas
  <1>5. QED BY <1>3, <1>4

\* A step that leaves the data alone keeps what is said of them.
LEMMA DatosQuietos ==
    ASSUME IInv, UNCHANGED datos
    PROVE  /\ SaldoNoNegativo' /\ CuadraEnSerie' /\ PagoUnicoEnSerie'
           /\ billetera' = billetera
  BY DEF IInv, datos, SaldoNoNegativo, CuadraEnSerie, PagoUnicoEnSerie, Base
-----------------------------------------------------------------------------
(* Arrival *)

\* A request that loads its first row.  What is left: what it knows.
LEMMA PideInv ==
    ASSUME IInv, NEW h \in Hilos, NEW op \in Operacion,
           NEW k \in Contratos \cup {Nada}, NEW monto \in Nat, NEW fase \in Fase,
           Pide(h, op, k, monto, fase),
           PeticionCoherente(h)' /\ Bloqueos(h)'
    PROVE  IInv'
  <1> DEFINE p == [op |-> op, k |-> k, monto |-> monto, fase |-> fase,
                   estado |-> IF k = Nada THEN Nada ELSE contrato[k],
                   foto |-> IF k = Nada THEN billetera ELSE Nada]
  <1>1. TypeOK
    BY DEF IInv
  <1>2. p \in Peticion
    BY <1>1 DEF TypeOK, Peticion
  <1>3. peticion' = [peticion EXCEPT ![h] = p] /\ UNCHANGED <<datos, cerrojos>>
    BY DEF Pide
  <1> HIDE DEF p
  <1>4. TypeOK'
    BY <1>1, <1>2, <1>3 DEF TypeOK, datos, cerrojos
  <1>5. QED
    BY <1>2, <1>3, <1>4, DatosQuietos, Paso DEF cerrojos

\* What Pide puts in the slot of h.
LEMMA PideFoto ==
    ASSUME TypeOK, NEW h \in Hilos, NEW op, NEW k, NEW monto, NEW fase,
           Pide(h, op, k, monto, fase)
    PROVE  /\ peticion'[h].op = op
           /\ peticion'[h].k = k
           /\ peticion'[h].monto = monto
           /\ peticion'[h].fase = fase
           /\ k = Nada => peticion'[h].foto = billetera
           /\ k # Nada => peticion'[h].estado = contrato[k] /\ peticion'[h].foto = Nada
           /\ billetera' = billetera
  <1> DEFINE p == [op |-> op, k |-> k, monto |-> monto, fase |-> fase,
                   estado |-> IF k = Nada THEN Nada ELSE contrato[k],
                   foto |-> IF k = Nada THEN billetera ELSE Nada]
  <1>1. peticion'[h] = p
    BY DEF Pide, TypeOK
  <1>2. billetera' = billetera
    BY DEF Pide, datos
  <1>3. QED BY <1>1, <1>2

LEMMA ConsultarInv ==
    ASSUME IInv, NEW h \in Hilos, Consultar(h)
    PROVE  IInv'
  <1>1. TypeOK /\ Pide(h, "consultar", Nada, 0, "crea") /\ billetera = Nada
    BY DEF IInv, Consultar
  <1>2. PeticionCoherente(h)' /\ Bloqueos(h)'
    BY <1>1, PideFoto DEF PeticionCoherente, Bloqueos
  <1>3. QED BY <1>1, <1>2, PideInv DEF Operacion, Fase

LEMMA DepositarInv ==
    ASSUME IInv, NEW h \in Hilos, NEW monto \in Depositos, Depositar(h, monto)
    PROVE  IInv'
  <1> DEFINE fase == IF billetera = Nada THEN "crea" ELSE "mueve"
  <1>1. TypeOK /\ SaldoNoNegativo /\ Pide(h, "depositar", Nada, monto, fase)
    BY DEF IInv, Depositar
  <1>2. monto \in Nat
    BY MontosPositivos
  <1>3. billetera' = billetera
    BY <1>1, PideFoto DEF datos
  <1>4. PeticionCoherente(h)' /\ Bloqueos(h)'
    BY <1>1, <1>3, PideFoto DEF PeticionCoherente, Bloqueos, SaldoNoNegativo
  <1>5. QED BY <1>1, <1>2, <1>4, PideInv DEF Operacion, Fase

LEMMA RetirarInv ==
    ASSUME IInv, NEW h \in Hilos, NEW monto \in Retiros, Retirar(h, monto)
    PROVE  IInv'
  <1>1. /\ TypeOK /\ SaldoNoNegativo /\ Pide(h, "retirar", Nada, monto, "mueve")
        /\ billetera # Nada /\ billetera.saldo >= monto
    BY DEF IInv, Retirar
  <1>2. monto \in Nat
    BY MontosPositivos
  <1>3. billetera' = billetera
    BY <1>1, PideFoto DEF datos
  <1>4. PeticionCoherente(h)' /\ Bloqueos(h)'
    BY <1>1, <1>3, PideFoto DEF PeticionCoherente, Bloqueos, SaldoNoNegativo
  <1>5. QED BY <1>1, <1>2, <1>4, PideInv DEF Operacion, Fase

LEMMA CambiarEstadoInv ==
    ASSUME IInv, NEW h \in Hilos, NEW k \in Contratos,
           NEW op \in {"completar", "confirmar", "cancelar"}, CambiarEstado(h, op, k)
    PROVE  IInv'
  <1>1. /\ TypeOK /\ Pide(h, op, k, 0, "contrato") /\ Admite(op, contrato[k])
        /\ k # Nada /\ contrato[k] \in EstadoContrato
    BY NadaEsNadie DEF IInv, CambiarEstado, TypeOK
  <1>2. PeticionCoherente(h)' /\ Bloqueos(h)'
    BY <1>1, PideFoto DEF PeticionCoherente, Bloqueos
  <1>3. QED BY <1>1, <1>2, PideInv DEF Operacion, Fase
-----------------------------------------------------------------------------
(* Steps between the load and the commit *)

\* A request that goes on with another foto, another fase and the locks
\* it took.  What is left: what it knows and what it holds.
LEMMA SigueInv ==
    ASSUME IInv, NEW h \in Hilos, NEW foto \in Cuenta \cup {Nada}, NEW fase \in Fase,
           peticion[h] # Nada,
           Sigue(h, [peticion[h] EXCEPT !.foto = foto, !.fase = fase]),
           UNCHANGED datos,
           cerrojoContrato' \in [Contratos -> Hilos \cup {Nada}],
           cerrojoBilletera' \in Hilos \cup {Nada},
           \A k \in Contratos : cerrojoContrato[k] \notin {Nada, h}
                => cerrojoContrato'[k] = cerrojoContrato[k],
           cerrojoBilletera \notin {Nada, h} => cerrojoBilletera' = cerrojoBilletera,
           PeticionCoherente(h)' /\ Bloqueos(h)'
    PROVE  IInv'
  <1> DEFINE p == [peticion[h] EXCEPT !.foto = foto, !.fase = fase]
  <1>1. TypeOK
    BY DEF IInv
  <1>2. peticion[h] \in Peticion
    BY <1>1, PeticionTipos
  <1>3. p \in Peticion
    BY <1>2 DEF Peticion
  <1>4. peticion' = [peticion EXCEPT ![h] = p]
    BY DEF Sigue
  <1> HIDE DEF p
  <1>5. TypeOK'
    BY <1>1, <1>3, <1>4 DEF TypeOK, datos
  <1>6. QED BY <1>3, <1>4, <1>5, DatosQuietos, Paso

\* What Sigue puts in the slot of h.
LEMMA SigueFoto ==
    ASSUME TypeOK, NEW h \in Hilos, NEW foto, NEW fase, peticion[h] # Nada,
           Sigue(h, [peticion[h] EXCEPT !.foto = foto, !.fase = fase])
    PROVE  /\ peticion'[h].op = peticion[h].op
           /\ peticion'[h].k = peticion[h].k
           /\ peticion'[h].monto = peticion[h].monto
           /\ peticion'[h].estado = peticion[h].estado
           /\ peticion'[h].foto = foto
           /\ peticion'[h].fase = fase
  <1>1. peticion'[h] = [peticion[h] EXCEPT !.foto = foto, !.fase = fase]
    BY DEF Sigue, TypeOK
  <1>2. peticion[h] \in Peticion
    BY PeticionTipos
  <1>3. QED BY <1>1, <1>2 DEF Peticion

\* The same when only the fase changes.
LEMMA SigueFase ==
    ASSUME TypeOK, NEW h \in Hilos, NEW fase, peticion[h] # Nada,
           Sigue(h, [peticion[h] EXCEPT !.fase = fase])
    PROVE  /\ Sigue(h, [peticion[h] EXCEPT !.foto = peticion[h].foto, !.fase = fase])
           /\ peticion'[h].op = peticion[h].op
           /\ peticion'[h].k = peticion[h].k
           /\ peticion'[h].monto = peticion[h].monto
           /\ peticion'[h].estado = peticion[h].estado
           /\ peticion'[h].foto = peticion[h].foto
           /\ peticion'[h].fase = fase
  <1>1. peticion[h] \in Peticion
    BY PeticionTipos
  <1>2. [peticion[h] EXCEPT !.fase = fase]
            = [peticion[h] EXCEPT !.foto = peticion[h].foto, !.fase = fase]
    BY <1>1 DEF Peticion
  <1>3. peticion'[h] = [peticion[h] EXCEPT !.fase = fase]
    BY DEF Sigue, TypeOK
  <1>4. QED BY <1>1, <1>2, <1>3 DEF Sigue, Peticion

\* What the invariant says of one slot in use.
LEMMA Sabe ==
    ASSUME IInv, NEW h \in Hilos, peticion[h] # Nada
    PROVE  /\ TypeOK
           /\ peticion[h].op \in Operacion
           /\ peticion[h].k \in Contratos \cup {Nada}
           /\ peticion[h].monto \in Nat
           /\ peticion[h].foto \in Cuenta \cup {Nada}
           /\ peticion[h].fase \in Fase
           /\ PeticionCoherente(h) /\ Bloqueos(h)
  BY PeticionTipos DEF IInv

LEMMA TomaContratoInv ==
    ASSUME IInv, NEW h \in Hilos, TomaContrato(h)
    PROVE  IInv'
  <1> DEFINE fase == IF peticion[h].op = "confirmar" THEN "billetera" ELSE "listo"
             k == peticion[h].k
  <1>1. /\ peticion[h] # Nada /\ peticion[h].fase = "contrato"
        /\ cerrojoContrato[k] = Nada
        /\ cerrojoContrato' = [cerrojoContrato EXCEPT ![k] = h]
        /\ Sigue(h, [peticion[h] EXCEPT !.fase = fase])
        /\ UNCHANGED datos /\ cerrojoBilletera' = cerrojoBilletera
    BY DEF TomaContrato
  <1>2. /\ TypeOK /\ PeticionCoherente(h)
        /\ peticion[h].foto \in Cuenta \cup {Nada}
    BY <1>1, Sabe
  <1>3. /\ peticion[h].op \in {"completar", "confirmar", "cancelar"}
        /\ k \in Contratos
    BY <1>1, <1>2 DEF PeticionCoherente
  <1>4. Sigue(h, [peticion[h] EXCEPT !.foto = peticion[h].foto, !.fase = fase])
    BY <1>1, <1>2, SigueFase
  <1>5. billetera' = billetera
    BY <1>1 DEF datos
  <1>6. cerrojoContrato'[k] = h
    BY <1>1, <1>2, <1>3 DEF TypeOK
  <1>campos. /\ peticion'[h].op = peticion[h].op
         /\ peticion'[h].k = peticion[h].k
         /\ peticion'[h].monto = peticion[h].monto
         /\ peticion'[h].estado = peticion[h].estado
         /\ peticion'[h].foto = peticion[h].foto
         /\ peticion'[h].fase = fase
    BY <1>1, <1>2, SigueFase
  <1>7. PeticionCoherente(h)'
    BY <1>1, <1>2, <1>3, <1>5, <1>campos DEF PeticionCoherente, Procede
  <1>8. Bloqueos(h)'
    BY <1>1, <1>2, <1>3, <1>6, <1>campos DEF Bloqueos
  <1>9. /\ cerrojoContrato' \in [Contratos -> Hilos \cup {Nada}]
        /\ cerrojoBilletera' \in Hilos \cup {Nada}
        /\ \A j \in Contratos : cerrojoContrato[j] \notin {Nada, h}
                => cerrojoContrato'[j] = cerrojoContrato[j]
    BY <1>1, <1>2 DEF TypeOK
  <1>10. fase \in Fase
    BY DEF Fase
  <1> HIDE DEF fase, k
  <1>11. QED BY <1>1, <1>2, <1>4, <1>7, <1>8, <1>9, <1>10, SigueInv

LEMMA LeeBilleteraInv ==
    ASSUME IInv, NEW h \in Hilos, LeeBilletera(h)
    PROVE  IInv'
  <1> DEFINE k == peticion[h].k
             fase == IF ~Procede(k, billetera) THEN "sin_pago"
                     ELSE IF billetera = Nada THEN "crea" ELSE "mueve"
  <1>1. /\ peticion[h] # Nada /\ peticion[h].fase = "billetera"
        /\ Sigue(h, [peticion[h] EXCEPT !.foto = billetera, !.fase = fase])
        /\ UNCHANGED <<datos, cerrojos>>
    BY DEF LeeBilletera
  <1>2. TypeOK /\ PeticionCoherente(h) /\ Bloqueos(h) /\ SaldoNoNegativo
    BY <1>1, Sabe DEF IInv
  <1>3. peticion[h].op = "confirmar" /\ cerrojoContrato[k] = h
    BY <1>1, <1>2 DEF PeticionCoherente, Bloqueos
  <1>4. UNCHANGED <<billetera, cerrojoContrato, cerrojoBilletera>>
    BY <1>1 DEF datos, cerrojos
  <1>5. fase \in {"sin_pago", "crea", "mueve"} /\ (fase # "sin_pago" => Procede(k, billetera))
        /\ (fase = "crea" => billetera = Nada) /\ (fase = "mueve" => billetera # Nada)
    OBVIOUS
  <1> HIDE DEF fase
  <1>campos. /\ peticion'[h].op = peticion[h].op
         /\ peticion'[h].k = peticion[h].k
         /\ peticion'[h].monto = peticion[h].monto
         /\ peticion'[h].estado = peticion[h].estado
         /\ peticion'[h].foto = billetera
         /\ peticion'[h].fase = fase
    BY <1>1, <1>2, SigueFoto
  <1>6. PeticionCoherente(h)'
    BY <1>1, <1>2, <1>3, <1>4, <1>5, <1>campos
    DEF PeticionCoherente, SaldoNoNegativo, Procede
  <1>7. Bloqueos(h)'
    BY <1>1, <1>2, <1>3, <1>4, <1>5, <1>campos DEF Bloqueos
  <1>8. /\ billetera \in Cuenta \cup {Nada} /\ fase \in Fase
        /\ cerrojoContrato \in [Contratos -> Hilos \cup {Nada}]
        /\ cerrojoBilletera \in Hilos \cup {Nada}
    BY <1>2, <1>5 DEF TypeOK, Fase
  <1> HIDE DEF k
  <1>9. QED BY <1>1, <1>4, <1>6, <1>7, <1>8, SigueInv

\* The wallet row, or the key of a new one, is taken by h.
LEMMA TomaBilleteraInv ==
    ASSUME IInv, NEW h \in Hilos, peticion[h] # Nada,
           peticion[h].fase \in {"crea", "mueve"},
           peticion[h].fase = "crea" => billetera = Nada,
           cerrojoBilletera = Nada, cerrojoBilletera' = h,
           Sigue(h, [peticion[h] EXCEPT !.fase = "listo"]),
           UNCHANGED <<datos, cerrojoContrato>>
    PROVE  IInv'
  <1>1. /\ TypeOK /\ PeticionCoherente(h) /\ Bloqueos(h)
        /\ peticion[h].foto \in Cuenta \cup {Nada}
    BY Sabe
  <1>2. Sigue(h, [peticion[h] EXCEPT !.foto = peticion[h].foto, !.fase = "listo"])
    BY <1>1, SigueFase
  <1>3. billetera' = billetera
    BY DEF datos
  <1>campos. /\ peticion'[h].op = peticion[h].op
         /\ peticion'[h].k = peticion[h].k
         /\ peticion'[h].monto = peticion[h].monto
         /\ peticion'[h].estado = peticion[h].estado
         /\ peticion'[h].foto = peticion[h].foto
         /\ peticion'[h].fase = "listo"
    BY <1>1, SigueFase
  <1>4. PeticionCoherente(h)'
    BY <1>1, <1>3, <1>campos DEF PeticionCoherente, Procede
  <1>5. Bloqueos(h)'
    BY <1>1, <1>3, <1>campos DEF Bloqueos, PeticionCoherente
  <1>6. /\ "listo" \in Fase /\ cerrojoBilletera' \in Hilos \cup {Nada}
        /\ cerrojoContrato' \in [Contratos -> Hilos \cup {Nada}]
    BY <1>1 DEF Fase, TypeOK
  <1>7. QED BY <1>1, <1>2, <1>4, <1>5, <1>6, SigueInv

LEMMA CreaBilleteraInv ==
    ASSUME IInv, NEW h \in Hilos, CreaBilletera(h)
    PROVE  IInv'
  BY TomaBilleteraInv DEF CreaBilletera

LEMMA MueveBilleteraInv ==
    ASSUME IInv, NEW h \in Hilos, MueveBilletera(h)
    PROVE  IInv'
  BY TomaBilleteraInv DEF MueveBilletera
-----------------------------------------------------------------------------
(* Commits *)

\* The end of a request.  What is left: the rows it wrote.
LEMMA TerminaInv ==
    ASSUME IInv, NEW h \in Hilos, peticion[h] # Nada, Termina(h),
           billetera' \in Cuenta \cup {Nada},
           contrato' \in [Contratos -> EstadoContrato],
           libro' \in [n: Nat, suma: Int, retirado: Nat],
           pagos' \in [Contratos -> Nat],
           obsoleta' \in BOOLEAN,
           cerrojoBilletera # h => billetera' = billetera,
           billetera # Nada => billetera' # Nada,
           SaldoNoNegativo', CuadraEnSerie', PagoUnicoEnSerie'
    PROVE  IInv'
  <1>1. TypeOK
    BY DEF IInv
  <1>2. /\ peticion' = [peticion EXCEPT ![h] = Nada]
        /\ cerrojoContrato' = [k \in Contratos |-> IF cerrojoContrato[k] = h
                                                   THEN Nada ELSE cerrojoContrato[k]]
        /\ cerrojoBilletera' = IF cerrojoBilletera = h THEN Nada ELSE cerrojoBilletera
    BY DEF Termina
  <1>3. TypeOK'
    BY <1>1, <1>2 DEF TypeOK
  <1>4. /\ \A k \in Contratos : cerrojoContrato[k] \notin {Nada, h}
                => cerrojoContrato'[k] = cerrojoContrato[k]
        /\ cerrojoBilletera \notin {Nada, h}
                => cerrojoBilletera' = cerrojoBilletera /\ billetera' = billetera
        /\ billetera # Nada => billetera' # Nada
    BY <1>1, <1>2 DEF TypeOK
  <1>5. QED BY <1>2, <1>3, <1>4, Paso

LEMMA LlaveDuplicadaInv ==
    ASSUME IInv, NEW h \in Hilos, LlaveDuplicada(h)
    PROVE  IInv'
  <1>1. peticion[h] # Nada /\ Termina(h) /\ UNCHANGED datos
    BY DEF LlaveDuplicada
  <1>2. SaldoNoNegativo' /\ CuadraEnSerie' /\ PagoUnicoEnSerie'
    BY <1>1, DatosQuietos
  <1>3. /\ billetera' \in Cuenta \cup {Nada} /\ billetera' = billetera
        /\ contrato' \in [Contratos -> EstadoContrato]
        /\ libro' \in [n: Nat, suma: Int, retirado: Nat]
        /\ pagos' \in [Contratos -> Nat] /\ obsoleta' \in BOOLEAN
    BY <1>1 DEF IInv, TypeOK, datos
  <1>4. QED BY <1>1, <1>2, <1>3, TerminaInv

\* What a request that is ready to commit holds.
LEMMA ListaSabe ==
    ASSUME IInv, NEW h \in Hilos, NEW op, Lista(h, op)
    PROVE  /\ peticion[h] # Nada /\ peticion[h].op = op /\ TypeOK
           /\ peticion[h].monto \in Nat
           /\ peticion[h].foto \in Cuenta \cup {Nada}
           /\ PeticionCoherente(h)
           /\ op \notin {"completar", "cancelar"} => cerrojoBilletera = h
  <1>1. peticion[h] # Nada /\ peticion[h].op = op /\ peticion[h].fase = "listo"
    BY DEF Lista
  <1>2. QED BY <1>1, Sabe DEF Bloqueos

\* The saldo that was loaded is at least zero, and zero for a new wallet.
LEMMA BaseTipos ==
    ASSUME NEW foto \in Cuenta \cup {Nada},
           foto # Nada => foto.saldo >= 0 /\ foto.bloqueado >= 0
    PROVE  /\ Base(foto) \in Cuenta
           /\ Base(foto).saldo \in Int /\ Base(foto).bloqueado \in Int
           /\ Base(foto).saldo >= 0 /\ Base(foto).bloqueado >= 0
  <1>1. CASE foto = Nada
    BY <1>1 DEF Base, Cuenta
  <1>2. CASE foto # Nada
    BY <1>2 DEF Base, Cuenta
  <1>3. QED BY <1>1, <1>2

\* A commit that adds monto, zero or more, to the loaded balance: nothing goes
\* below zero, and the accounts match when the loaded wallet is the committed one.
LEMMA AbonaCuadra ==
    ASSUME IInv, NEW h \in Hilos, peticion[h] # Nada,
           NEW monto \in Nat, NEW n \in Nat,
           Abona(h, monto), Asienta(n, monto, 0),
           BilleteraObsoleta(h) => obsoleta', obsoleta => obsoleta'
    PROVE  /\ billetera' \in Cuenta /\ billetera' # Nada
           /\ libro' \in [n: Nat, suma: Int, retirado: Nat]
           /\ SaldoNoNegativo' /\ CuadraEnSerie'
  <1> DEFINE foto == peticion[h].foto
  <1>1. /\ TypeOK /\ PeticionCoherente(h) /\ foto \in Cuenta \cup {Nada}
        /\ SaldoNoNegativo /\ CuadraEnSerie
    BY Sabe DEF IInv
  <1>2. /\ Base(foto).saldo \in Int /\ Base(foto).saldo >= 0
        /\ Base(billetera).bloqueado \in Int /\ Base(billetera).bloqueado >= 0
    BY <1>1, BaseTipos DEF TypeOK, SaldoNoNegativo, PeticionCoherente
  <1>3. billetera' = [saldo |-> Base(foto).saldo + monto,
                      bloqueado |-> Base(billetera).bloqueado]
    BY DEF Abona
  <1>4. libro' = [n |-> libro.n + n, suma |-> libro.suma + monto,
                  retirado |-> libro.retirado + 0]
    BY DEF Asienta
  <1>5. libro.n \in Nat /\ libro.suma \in Int /\ libro.retirado \in Nat
    BY <1>1 DEF TypeOK
  <1> HIDE DEF foto
  <1>6. /\ billetera' \in Cuenta
        /\ billetera'.saldo = Base(foto).saldo + monto
        /\ billetera'.bloqueado = Base(billetera).bloqueado
    BY <1>2, <1>3 DEF Cuenta
  <1>7. billetera' # Nada
    BY <1>6, NadaEsNadie
  <1>8. /\ libro' \in [n: Nat, suma: Int, retirado: Nat]
        /\ libro'.suma = libro.suma + monto /\ libro'.retirado = libro.retirado
    BY <1>4, <1>5
  <1>9. SaldoNoNegativo'
    BY <1>2, <1>6 DEF SaldoNoNegativo
  <1>10. ASSUME ~obsoleta' PROVE Base(billetera)' = billetera' /\ foto = billetera /\ ~obsoleta
    BY <1>7, <1>10 DEF Base, BilleteraObsoleta, foto
  <1>11. CuadraEnSerie'
    BY <1>1, <1>2, <1>6, <1>8, <1>10 DEF CuadraEnSerie
  <1>12. QED BY <1>6, <1>7, <1>8, <1>9, <1>11

\* A commit that leaves the contracts alone keeps them paid once.
LEMMA SinContrato ==
    ASSUME IInv, contrato' = contrato, pagos' = pagos, obsoleta => obsoleta'
    PROVE  PagoUnicoEnSerie'
  BY DEF IInv, PagoUnicoEnSerie

LEMMA CommitConsultaInv ==
    ASSUME IInv, NEW h \in Hilos, CommitConsulta(h)
    PROVE  IInv'
  <1>1. /\ Lista(h, "consultar") /\ Abona(h, 0) /\ Termina(h)
        /\ obsoleta' = (obsoleta \/ BilleteraObsoleta(h))
        /\ contrato' = contrato /\ libro' = libro /\ pagos' = pagos
    BY DEF CommitConsulta
  <1>2. TypeOK /\ peticion[h] # Nada /\ cerrojoBilletera = h
    BY <1>1, ListaSabe
  <1>3. Asienta(0, 0, 0)
    BY <1>1, <1>2 DEF Asienta, TypeOK
  <1>4. /\ billetera' \in Cuenta /\ billetera' # Nada
        /\ SaldoNoNegativo' /\ CuadraEnSerie'
    BY <1>1, <1>2, <1>3, AbonaCuadra
  <1>5. PagoUnicoEnSerie'
    BY <1>1, SinContrato
  <1>6. obsoleta' \in BOOLEAN
    BY <1>1, <1>2 DEF TypeOK, BilleteraObsoleta
  <1>7. QED BY <1>1, <1>2, <1>4, <1>5, <1>6, TerminaInv DEF TypeOK

LEMMA CommitDepositoInv ==
    ASSUME IInv, NEW h \in Hilos, CommitDeposito(h)
    PROVE  IInv' /\ billetera' # Nada
  <1>1. /\ Lista(h, "depositar") /\ Termina(h)
        /\ Abona(h, peticion[h].monto) /\ Asienta(1, peticion[h].monto, 0)
        /\ obsoleta' = (obsoleta \/ BilleteraObsoleta(h))
        /\ contrato' = contrato /\ pagos' = pagos
    BY DEF CommitDeposito
  <1>2. /\ TypeOK /\ peticion[h] # Nada /\ cerrojoBilletera = h
        /\ peticion[h].monto \in Nat
    BY <1>1, ListaSabe
  <1>3. /\ billetera' \in Cuenta /\ billetera' # Nada
        /\ libro' \in [n: Nat, suma: Int, retirado: Nat]
        /\ SaldoNoNegativo' /\ CuadraEnSerie'
    BY <1>1, <1>2, AbonaCuadra
  <1>4. PagoUnicoEnSerie'
    BY <1>1, SinContrato
  <1>5. obsoleta' \in BOOLEAN
    BY <1>1, <1>2 DEF TypeOK, BilleteraObsoleta
  <1>6. QED BY <1>1, <1>2, <1>3, <1>4, <1>5, TerminaInv DEF TypeOK

\* The loaded balance suffices for the amount, whatever the committed one is.
LEMMA CommitRetiroInv ==
    ASSUME IInv, NEW h \in Hilos, CommitRetiro(h)
    PROVE  IInv' /\ billetera' # Nada
  <1> DEFINE foto == peticion[h].foto
             monto == peticion[h].monto
  <1>1. /\ Lista(h, "retirar") /\ Termina(h)
        /\ billetera' = [saldo |-> foto.saldo - monto, bloqueado |-> foto.bloqueado + monto]
        /\ Asienta(1, -monto, monto)
        /\ obsoleta' = (obsoleta \/ BilleteraObsoleta(h))
        /\ contrato' = contrato /\ pagos' = pagos
    BY DEF CommitRetiro
  <1>2. /\ TypeOK /\ peticion[h] # Nada /\ cerrojoBilletera = h
        /\ monto \in Nat /\ foto \in Cuenta \cup {Nada} /\ PeticionCoherente(h)
        /\ peticion[h].op = "retirar" /\ CuadraEnSerie
    BY <1>1, ListaSabe DEF IInv
  <1>3. foto # Nada /\ foto.saldo >= monto /\ foto.bloqueado >= 0
    BY <1>2 DEF PeticionCoherente
  <1>4. foto \in Cuenta /\ foto.saldo \in Int /\ foto.bloqueado \in Int
    BY <1>2, <1>3 DEF Cuenta
  <1>5. libro' = [n |-> libro.n + 1, suma |-> libro.suma + (-monto),
                  retirado |-> libro.retirado + monto]
    BY <1>1 DEF Asienta
  <1>6. libro.n \in Nat /\ libro.suma \in Int /\ libro.retirado \in Nat
    BY <1>2 DEF TypeOK
  <1> HIDE DEF foto, monto
  <1>7. /\ billetera' \in Cuenta
        /\ billetera'.saldo = foto.saldo - monto /\ billetera'.bloqueado = foto.bloqueado + monto
    BY <1>1, <1>2, <1>4 DEF Cuenta
  <1>8. billetera' # Nada
    BY <1>7, NadaEsNadie
  <1>9. /\ libro' \in [n: Nat, suma: Int, retirado: Nat]
        /\ libro'.suma = libro.suma - monto /\ libro'.retirado = libro.retirado + monto
    BY <1>2, <1>5, <1>6
  <1>10. SaldoNoNegativo'
    BY <1>2, <1>3, <1>4, <1>7 DEF SaldoNoNegativo
  <1>11. ASSUME ~obsoleta'
         PROVE  /\ Base(billetera)' = billetera' /\ Base(billetera) = foto /\ ~obsoleta
    BY <1>1, <1>3, <1>8, <1>11 DEF Base, BilleteraObsoleta, foto
  <1>12. CuadraEnSerie'
    BY <1>2, <1>4, <1>6, <1>7, <1>9, <1>11 DEF CuadraEnSerie
  <1>13. PagoUnicoEnSerie'
    BY <1>1, SinContrato
  <1>14. obsoleta' \in BOOLEAN
    BY <1>1, <1>2 DEF TypeOK, BilleteraObsoleta
  <1>15. QED
    BY <1>1, <1>2, <1>7, <1>8, <1>9, <1>10, <1>12, <1>13, <1>14, TerminaInv DEF TypeOK

\* The estado a commit leaves in its contract.  If the row is still as it was
\* loaded it was never settled: a settled contract admits no operation.
LEMMA EscribeEstadoUnico ==
    ASSUME IInv, NEW h \in Hilos, peticion[h] # Nada,
           peticion[h].op \in {"completar", "confirmar", "cancelar"},
           NEW estado \in EstadoContrato, EscribeEstado(h, estado),
           ContratoObsoleto(h) => obsoleta', obsoleta => obsoleta'
    PROVE  /\ peticion[h].k \in Contratos
           /\ contrato' \in [Contratos -> EstadoContrato]
           /\ ~obsoleta' => pagos[peticion[h].k] = 0
           /\ pagos' = pagos => PagoUnicoEnSerie'
           /\ (estado = "completado" /\ pagos' = [pagos EXCEPT ![peticion[h].k] = @ + 1])
                => PagoUnicoEnSerie' /\ pagos' \in [Contratos -> Nat]
  <1> DEFINE k == peticion[h].k
  <1>1. TypeOK /\ PeticionCoherente(h) /\ PagoUnicoEnSerie
    BY Sabe DEF IInv
  <1>2. k \in Contratos /\ Admite(peticion[h].op, peticion[h].estado)
    BY <1>1 DEF PeticionCoherente
  <1>3. contrato' = [contrato EXCEPT ![k] = estado]
    BY DEF EscribeEstado
  <1>4. contrato' \in [Contratos -> EstadoContrato]
    BY <1>1, <1>3 DEF TypeOK
  <1>5. ASSUME ~obsoleta' PROVE pagos[k] = 0 /\ ~obsoleta
    <2>1. contrato[k] = peticion[h].estado /\ ~obsoleta
      BY <1>5 DEF ContratoObsoleto
    <2>2. contrato[k] # "completado"
      BY <1>2, <2>1 DEF Admite
    <2>3. pagos[k] \in Nat
      BY <1>1, <1>2 DEF TypeOK
    <2>4. QED BY <1>1, <1>2, <2>1, <2>2, <2>3 DEF PagoUnicoEnSerie
  <1> HIDE DEF k
  <1>6. ASSUME pagos' = pagos PROVE PagoUnicoEnSerie'
    <2>1. SUFFICES ASSUME ~obsoleta', NEW j \in Contratos, pagos[j] > 0
                   PROVE  pagos[j] = 1 /\ contrato'[j] = "completado"
      BY <1>6 DEF PagoUnicoEnSerie
    <2>2. j # k /\ ~obsoleta
      BY <1>5, <2>1
    <2>3. contrato'[j] = contrato[j]
      BY <1>1, <1>3, <2>2 DEF TypeOK
    <2>4. QED BY <1>1, <2>1, <2>2, <2>3 DEF PagoUnicoEnSerie
  <1>7. ASSUME estado = "completado", pagos' = [pagos EXCEPT ![k] = @ + 1]
        PROVE  PagoUnicoEnSerie' /\ pagos' \in [Contratos -> Nat]
    <2>1. pagos' \in [Contratos -> Nat] /\ pagos'[k] = pagos[k] + 1
      BY <1>1, <1>2, <1>7 DEF TypeOK
    <2>2. SUFFICES ASSUME ~obsoleta', NEW j \in Contratos, pagos'[j] > 0
                   PROVE  pagos'[j] = 1 /\ contrato'[j] = "completado"
      BY <2>1 DEF PagoUnicoEnSerie
    <2>3. pagos[k] = 0 /\ ~obsoleta
      BY <1>5, <2>2
    <2>4. CASE j = k
      BY <1>1, <1>2, <1>3, <1>7, <2>1, <2>3, <2>4 DEF TypeOK
    <2>5. CASE j # k
      <3>1. contrato'[j] = contrato[j] /\ pagos'[j] = pagos[j]
        BY <1>1, <1>3, <1>7, <2>5 DEF TypeOK
      <3>2. QED BY <1>1, <2>2, <2>3, <3>1 DEF PagoUnicoEnSerie
    <2>6. QED BY <2>4, <2>5
  <1>8. QED BY <1>2, <1>4, <1>5, <1>6, <1>7 DEF k

LEMMA CommitConfirmacionInv ==
    ASSUME IInv, NEW h \in Hilos, CommitConfirmacion(h)
    PROVE  IInv' /\ billetera' # Nada
  <1> DEFINE k == peticion[h].k
             comision == ComisionDe(k)
             n == IF comision > 0 THEN 2 ELSE 1
             saldo == Precio[k] - 2 * comision
  <1>1. /\ Lista(h, "confirmar") /\ Termina(h) /\ EscribeEstado(h, "completado")
        /\ pagos' = [pagos EXCEPT ![k] = @ + 1]
        /\ Abona(h, saldo) /\ Asienta(n, saldo, 0)
        /\ obsoleta' = (obsoleta \/ BilleteraObsoleta(h) \/ ContratoObsoleto(h))
    BY DEF CommitConfirmacion
  <1>2. /\ TypeOK /\ peticion[h] # Nada /\ peticion[h].op = "confirmar"
        /\ cerrojoBilletera = h
    BY <1>1, ListaSabe
  <1>3. /\ k \in Contratos /\ contrato' \in [Contratos -> EstadoContrato]
        /\ PagoUnicoEnSerie' /\ pagos' \in [Contratos -> Nat]
    BY <1>1, <1>2, EscribeEstadoUnico DEF EstadoContrato
  <1>4. n \in Nat /\ saldo \in Nat
    BY <1>3, ComisionCabe
  <1> HIDE DEF n, saldo, comision
  <1>5. /\ billetera' \in Cuenta /\ billetera' # Nada
        /\ libro' \in [n: Nat, suma: Int, retirado: Nat]
        /\ SaldoNoNegativo' /\ CuadraEnSerie'
    BY <1>1, <1>2, <1>4, AbonaCuadra
  <1>6. obsoleta' \in BOOLEAN
    BY <1>1, <1>2 DEF TypeOK, BilleteraObsoleta, ContratoObsoleto
  <1>7. QED BY <1>1, <1>2, <1>3, <1>5, <1>6, TerminaInv

\* The commits that write the estado and no wallet.
LEMMA CommitEstadoInv ==
    ASSUME IInv, NEW h \in Hilos, peticion[h] # Nada,
           peticion[h].op \in {"completar", "confirmar", "cancelar"},
           NEW estado \in EstadoContrato, EscribeEstado(h, estado),
           obsoleta' = (obsoleta \/ ContratoObsoleto(h)), Termina(h),
           UNCHANGED <<billetera, libro, pagos>>
    PROVE  IInv'
  <1>1. TypeOK /\ SaldoNoNegativo /\ CuadraEnSerie
    BY DEF IInv
  <1>2. contrato' \in [Contratos -> EstadoContrato] /\ PagoUnicoEnSerie'
    BY EscribeEstadoUnico
  <1>3. SaldoNoNegativo' /\ CuadraEnSerie'
    BY <1>1 DEF SaldoNoNegativo, CuadraEnSerie, Base
  <1>4. obsoleta' \in BOOLEAN
    BY <1>1 DEF TypeOK, ContratoObsoleto
  <1>5. /\ billetera' \in Cuenta \cup {Nada} /\ billetera' = billetera
        /\ libro' \in [n: Nat, suma: Int, retirado: Nat]
        /\ pagos' \in [Contratos -> Nat]
    BY <1>1 DEF TypeOK
  <1>6. QED BY <1>2, <1>3, <1>4, <1>5, TerminaInv

LEMMA CommitSinPagoInv ==
    ASSUME IInv, NEW h \in Hilos, CommitSinPago(h)
    PROVE  IInv'
  <1>1. peticion[h] # Nada /\ peticion[h].fase = "sin_pago"
    BY DEF CommitSinPago
  <1>2. peticion[h].op = "confirmar"
    BY <1>1, Sabe DEF PeticionCoherente
  <1>3. QED BY <1>1, <1>2, CommitEstadoInv DEF CommitSinPago, EstadoContrato

LEMMA CommitCompletarInv ==
    ASSUME IInv, NEW h \in Hilos, CommitCompletar(h)
    PROVE  IInv'
  BY CommitEstadoInv DEF CommitCompletar, Lista, EstadoContrato

LEMMA CommitCancelarInv ==
    ASSUME IInv, NEW h \in Hilos, CommitCancelar(h)
    PROVE  IInv'
  BY CommitEstadoInv DEF CommitCancelar, Lista, EstadoContrato
-----------------------------------------------------------------------------
LEMMA InicialInv == Init => IInv
  <1> SUFFICES ASSUME Init PROVE IInv
    OBVIOUS
  <1>1. /\ contrato = [k \in Contratos |-> "en_progreso"]
        /\ pagos = [k \in Contratos |-> 0]
        /\ cerrojoContrato = [k \in Contratos |-> Nada] /\ cerrojoBilletera = Nada
        /\ peticion = [h \in Hilos |-> Nada] /\ obsoleta = FALSE
    BY DEF Init
  <1>2. /\ billetera \in Cuenta \cup {Nada}
        /\ libro \in [n: Nat, suma: Int, retirado: Nat]
        /\ SaldoNoNegativo /\ CuadraEnSerie
    <2>1. CASE billetera = Nada /\ libro = [n |-> 0, suma |-> 0, retirado |-> 0]
      BY <2>1 DEF SaldoNoNegativo, CuadraEnSerie, Base
    <2>2. CASE \E s \in SaldosIniciales :
                    /\ billetera = [saldo |-> s, bloqueado |-> 0]
                    /\ libro = [n |-> 0, suma |-> s, retirado |-> 0]
      <3>1. PICK s \in Nat : /\ billetera = [saldo |-> s, bloqueado |-> 0]
                             /\ libro = [n |-> 0, suma |-> s, retirado |-> 0]
        BY <2>2, SaldosNat
      <3>2. billetera \in Cuenta
        BY <3>1 DEF Cuenta
      <3>3. billetera # Nada
        BY <3>2, NadaEsNadie
      <3>4. QED BY <3>1, <3>2, <3>3 DEF SaldoNoNegativo, CuadraEnSerie, Base
    <2>3. QED BY <2>1, <2>2 DEF Init
  <1>3. TypeOK
    BY <1>1, <1>2 DEF TypeOK, EstadoContrato
  <1>4. PagoUnicoEnSerie
    BY <1>1 DEF PagoUnicoEnSerie
  <1>5. QED BY <1>1, <1>2, <1>3, <1>4 DEF IInv

LEMMA PasoInv == IInv /\ [Next]_vars => IInv'
  <1> SUFFICES ASSUME IInv, [Next]_vars PROVE IInv'
    OBVIOUS
  <1>1. CASE UNCHANGED vars
    BY <1>1 DEF vars, IInv, TypeOK, SaldoNoNegativo, CuadraEnSerie, PagoUnicoEnSerie,
                Base, PeticionCoherente, Procede, Bloqueos
  <1>2. ASSUME NEW h \in Hilos, Llega(h) PROVE IInv'
    BY <1>2, ConsultarInv, DepositarInv, RetirarInv, CambiarEstadoInv DEF Llega
  <1>3. ASSUME NEW h \in Hilos, Avanza(h) PROVE IInv'
    BY <1>3, TomaContratoInv, LeeBilleteraInv, CreaBilleteraInv, LlaveDuplicadaInv,
       MueveBilleteraInv, CommitConsultaInv, CommitDepositoInv, CommitRetiroInv,
       CommitConfirmacionInv, CommitSinPagoInv, CommitCompletarInv, CommitCancelarInv
    DEF Avanza
  <1>4. QED BY <1>1, <1>2, <1>3 DEF Next

\* The inductive invariant: what every request knows and holds, and the accounts.
THEOREM Invariante == Spec => []IInv
  BY InicialInv, PasoInv, PTL DEF Spec

\* Whatever requests race, neither column of the wallet goes below zero.
THEOREM NuncaNegativo == Spec => []SaldoNoNegativo
  <1>1. IInv => SaldoNoNegativo
    BY DEF IInv
  <1>2. QED BY <1>1, Invariante, PTL

\* Balance and Transactions agree until some commit is stale.
THEOREM Cuadra == Spec => []CuadraEnSerie
  <1>1. IInv => CuadraEnSerie
    BY DEF IInv
  <1>2. QED BY <1>1, Invariante, PTL

\* A contract is settled once, and stays completado, until some commit is stale.
THEOREM UnPagoEnSerie == Spec => []PagoUnicoEnSerie
  <1>1. IInv => PagoUnicoEnSerie
    BY DEF IInv
  <1>2. QED BY <1>1, Invariante, PTL

\* The wallet, once it exists, changes only in a commit that adds a Transaction,
\* however many requests try to create it.
THEOREM CambiaConAsiento == Spec => SaldoConAsiento
  <1> DEFINE Asentado == billetera # Nada => /\ billetera' # Nada
                                             /\ billetera' # billetera => libro'.n > libro.n
  <1>1. ASSUME IInv, [Next]_vars, billetera # Nada
        PROVE  /\ billetera' # Nada
               /\ billetera' # billetera => libro'.n > libro.n
    <2>1. libro.n \in Nat
      BY <1>1 DEF IInv, TypeOK
    <2>2. CASE UNCHANGED billetera
      BY <1>1, <2>2
    <2>3. ASSUME NEW h \in Hilos, Lista(h, "consultar"), CommitConsulta(h) PROVE FALSE
      <3>1. peticion[h] # Nada /\ peticion[h].op = "consultar" /\ peticion[h].fase = "listo"
        BY <2>3 DEF Lista
      <3>2. PeticionCoherente(h) /\ Bloqueos(h)
        BY <1>1, <3>1, Sabe
      <3>3. QED BY <1>1, <3>1, <3>2 DEF PeticionCoherente, Bloqueos
    <2>4. ASSUME NEW h \in Hilos,
                 CommitDeposito(h) \/ CommitRetiro(h) \/ CommitConfirmacion(h)
          PROVE  libro'.n > libro.n /\ billetera' # Nada
      <3>1. billetera' # Nada
        BY <1>1, <2>4, CommitDepositoInv, CommitRetiroInv, CommitConfirmacionInv
      <3>2. libro'.n > libro.n
        BY <2>1, <2>4 DEF CommitDeposito, CommitRetiro, CommitConfirmacion, Asienta
      <3>3. QED BY <3>1, <3>2
    <2>5. QED
      BY <1>1, <2>2, <2>3, <2>4
      DEF Next, Llega, Avanza, vars, datos, Pide, Consultar, Depositar, Retirar,
          CambiarEstado, TomaContrato, LeeBilletera, CreaBilletera, LlaveDuplicada,
          MueveBilletera, CommitConsulta, CommitSinPago, CommitCompletar, CommitCancelar
  <1>2. IInv /\ [Next]_vars => [Asentado]_vars
    BY <1>1
  <1>3. QED BY <1>2, Invariante, PTL DEF Spec, SaldoConAsiento
=============================================================================
