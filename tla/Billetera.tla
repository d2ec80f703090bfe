------------------------------ MODULE Billetera ------------------------------
(***************************************************************************)
(* The wallet of one provider (PDS) and the contracts that are settled in  *)
(* it, under racing requests.                                              *)
(*                                                                         *)
(* A request is one database transaction at READ COMMITTED.  It loads rows *)
(* without locking them, decides on what it loaded, and flushes UPDATEs    *)
(* that take the row's lock and write absolute values; the lock is held    *)
(* until the commit, when the writes become visible.  The columns a flush  *)
(* writes are therefore applied in the commit here, and the waiting for    *)
(* the lock is a step of its own.                                          *)
(***************************************************************************)
EXTENDS Tarifas

CONSTANTS
    Hilos,            \* request slots of the server
    Contratos,        \* contracts of the provider, each on its own solicitud
    Precio,           \* Contratos -> presupuesto of the solicitud (0 if missing)
    Modo,             \* Contratos -> its modality
    Depositos,        \* amounts deposited (1000 or more, by the schema)
    Retiros,          \* amounts withdrawn (10000 or more)
    SaldosIniciales,  \* balances the wallet may start with
    MaxEntradas,      \* bound: no new movement after that many transactions
    Nada              \* NULL, no row, no lock

ASSUME PreciosNat == Precio \in [Contratos -> Nat]
ASSUME ModosValidos == Modo \in [Contratos -> Modalidad]
ASSUME MontosPositivos == Depositos \subseteq Nat \ {0} /\ Retiros \subseteq Nat \ {0}
ASSUME SaldosNat == SaldosIniciales \subseteq Nat
ASSUME MaxNat == MaxEntradas \in Nat

\* Row types of the database.  Of a contract, the estados its parties move it
\* through once it is signed.
Cuenta == [saldo: Int, bloqueado: Int]
EstadoContrato == {"en_progreso", "completado_pendiente", "completado", "cancelado"}

\* A request: what it asks, the contract and the estado it loaded of it, the
\* amount, the wallet it loaded, and how far it got:
\*   contrato   the contract is loaded and the estado accepted
\*   billetera  (confirmar) the contract is written, the wallet comes next
\*   crea       there was no wallet: about to insert one
\*   mueve      the wallet is loaded and the amount accepted
\*   sin_pago   (confirmar) the settlement raised, or there is no price
\*   listo      everything is flushed, the commit comes next
Operacion == {"consultar", "depositar", "retirar", "completar", "confirmar", "cancelar"}
Fase == {"contrato", "billetera", "crea", "mueve", "sin_pago", "listo"}
Peticion == [op: Operacion, k: Contratos \cup {Nada}, monto: Nat,
             estado: EstadoContrato \cup {Nada}, foto: Cuenta \cup {Nada}, fase: Fase]

ASSUME NadaEsNadie ==
    /\ Nada \notin Hilos /\ Nada \notin Contratos
    /\ Nada \notin EstadoContrato /\ Nada \notin Cuenta /\ Nada \notin Peticion

VARIABLES
    billetera,         \* the committed wallet, or Nada
    contrato,          \* estado of each contract
    libro,             \* the committed Transactions: how many, their sum, and
                       \* the part of it that was withdrawn
    pagos,             \* history: settlements committed for each contract
    cerrojoContrato,   \* holder of the lock of each contract row
    cerrojoBilletera,  \* holder of the lock of the wallet row (or of its key)
    peticion,          \* the request of each slot
    obsoleta           \* history: some commit wrote a row that had changed
                       \* since the request loaded it

datos == <<billetera, contrato, libro, pagos, obsoleta>>
cerrojos == <<cerrojoContrato, cerrojoBilletera>>
vars == <<billetera, contrato, libro, pagos, cerrojoContrato, cerrojoBilletera,
          peticion, obsoleta>>

TypeOK ==
    /\ billetera \in Cuenta \cup {Nada}
    /\ contrato \in [Contratos -> EstadoContrato]
    /\ libro \in [n: Nat, suma: Int, retirado: Nat]
    /\ pagos \in [Contratos -> Nat]
    /\ cerrojoContrato \in [Contratos -> Hilos \cup {Nada}]
    /\ cerrojoBilletera \in Hilos \cup {Nada}
    /\ peticion \in [Hilos -> Peticion \cup {Nada}]
    /\ obsoleta \in BOOLEAN

\* Signed contracts, and a wallet that does not exist yet or holds what its
\* earlier deposits left.
Init ==
    /\ \/ /\ billetera = Nada
          /\ libro = [n |-> 0, suma |-> 0, retirado |-> 0]
       \/ \E s \in SaldosIniciales :
            /\ billetera = [saldo |-> s, bloqueado |-> 0]
            /\ libro = [n |-> 0, suma |-> s, retirado |-> 0]
    /\ contrato = [k \in Contratos |-> "en_progreso"]
    /\ pagos = [k \in Contratos |-> 0]
    /\ cerrojoContrato = [k \in Contratos |-> Nada]
    /\ cerrojoBilletera = Nada
    /\ peticion = [h \in Hilos |-> Nada]
    /\ obsoleta = FALSE

\* What get_or_create_wallet works on: the row it loaded, or a new one.
Base(foto) == IF foto = Nada THEN [saldo |-> 0, bloqueado |-> 0] ELSE foto

ComisionDe(k) == Comision(ModalidadEfectiva(Modo[k]), Precio[k])
-----------------------------------------------------------------------------
(* A request arrives and loads its first row. *)

Pide(h, op, k, monto, fase) ==
    /\ peticion[h] = Nada
    /\ libro.n < MaxEntradas
    /\ peticion' = [peticion EXCEPT ![h] =
            [op |-> op, k |-> k, monto |-> monto, fase |-> fase,
             estado |-> IF k = Nada THEN Nada ELSE contrato[k],
             foto |-> IF k = Nada THEN billetera ELSE Nada]]
    /\ UNCHANGED <<datos, cerrojos>>

\* GET /wallet/ writes nothing when the wallet exists.
Consultar(h) ==
    /\ billetera = Nada
    /\ Pide(h, "consultar", Nada, 0, "crea")

Depositar(h, monto) ==
    Pide(h, "depositar", Nada, monto, IF billetera = Nada THEN "crea" ELSE "mueve")

\* Mutant: the balance is not compared.
RetirarSinSaldo(h, monto) ==
    /\ billetera # Nada
    /\ Pide(h, "retirar", Nada, monto, "mueve")

\* A withdrawal without wallet or without balance is refused at once.
Retirar(h, monto) ==
    /\ billetera # Nada
    /\ billetera.saldo >= monto
    /\ Pide(h, "retirar", Nada, monto, "mueve")

\* Mutant: a contract that was confirmed is confirmed again.
AdmiteOtraVez(op, estado) ==
    \/ op = "completar" /\ estado = "en_progreso"
    \/ op = "confirmar" /\ estado \in {"completado_pendiente", "completado"}
    \/ op = "cancelar" /\ estado \notin {"completado", "cancelado"}

\* The estado from which PATCH /contracts/<id>/estado accepts each accion.
Admite(op, estado) ==
    \/ op = "completar" /\ estado = "en_progreso"
    \/ op = "confirmar" /\ estado = "completado_pendiente"
    \/ op = "cancelar" /\ estado \notin {"completado", "cancelado"}

CambiarEstado(h, op, k) ==
    /\ Admite(op, contrato[k])
    /\ Pide(h, op, k, 0, "contrato")
-----------------------------------------------------------------------------
(* The steps of a request that was accepted. *)

Sigue(h, cambio) == peticion' = [peticion EXCEPT ![h] = cambio]

\* The request ends: its transaction is over and its locks are free.
Termina(h) ==
    /\ peticion' = [peticion EXCEPT ![h] = Nada]
    /\ cerrojoContrato' =
            [k \in Contratos |-> IF cerrojoContrato[k] = h THEN Nada ELSE cerrojoContrato[k]]
    /\ cerrojoBilletera' = IF cerrojoBilletera = h THEN Nada ELSE cerrojoBilletera

\* The new estado is flushed, for confirmar by the query of get_modalidad: from
\* here on another request that writes the contract waits.
TomaContrato(h) ==
    /\ peticion[h] # Nada
    /\ peticion[h].fase = "contrato"
    /\ cerrojoContrato[peticion[h].k] = Nada
    /\ cerrojoContrato' = [cerrojoContrato EXCEPT ![peticion[h].k] = h]
    /\ Sigue(h, [peticion[h] EXCEPT
                    !.fase = IF peticion[h].op = "confirmar" THEN "billetera" ELSE "listo"])
    /\ UNCHANGED <<datos, cerrojoBilletera>>

\* The settlement runs to its end: there is a price, and the commission fits in
\* a wallet that exists.  The net amount needs neither.
Procede(k, foto) ==
    /\ Precio[k] > 0
    /\ ComisionDe(k) > 0 => foto # Nada /\ foto.saldo >= ComisionDe(k)

\* The settlement loads the wallet once: the second query of the transaction
\* returns the object the first one loaded.  An exception is swallowed.
LeeBilletera(h) ==
    /\ peticion[h] # Nada
    /\ peticion[h].fase = "billetera"
    /\ Sigue(h, [peticion[h] EXCEPT
            !.foto = billetera,
            !.fase = IF ~Procede(peticion[h].k, billetera) THEN "sin_pago"
                     ELSE IF billetera = Nada THEN "crea" ELSE "mueve"])
    /\ UNCHANGED <<datos, cerrojos>>

\* Mutant: user_id is not UNIQUE.
CreaBilleteraDoble(h) ==
    /\ peticion[h] # Nada
    /\ peticion[h].fase = "crea"
    /\ cerrojoBilletera = Nada
    /\ cerrojoBilletera' = h
    /\ Sigue(h, [peticion[h] EXCEPT !.fase = "listo"])
    /\ UNCHANGED <<datos, cerrojoContrato>>

\* INSERT of the wallet: it waits for whoever is inserting the same user_id or
\* holds that row, and fails when the row is there by then.
CreaBilletera(h) ==
    /\ peticion[h] # Nada
    /\ peticion[h].fase = "crea"
    /\ cerrojoBilletera = Nada
    /\ billetera = Nada
    /\ cerrojoBilletera' = h
    /\ Sigue(h, [peticion[h] EXCEPT !.fase = "listo"])
    /\ UNCHANGED <<datos, cerrojoContrato>>

\* Mutant: the failed transaction keeps the contract locked.
LlaveDuplicadaSinSoltar(h) ==
    /\ peticion[h] # Nada
    /\ peticion[h].fase = "crea"
    /\ billetera # Nada
    /\ peticion' = [peticion EXCEPT ![h] = Nada]
    /\ UNCHANGED <<datos, cerrojos>>

\* The UNIQUE user_id of the wallets table: the flush rolls the transaction
\* back.  For a confirmation the except swallows this exception too, but the
\* session refuses to go on: the handler fails and the estado is not written.
LlaveDuplicada(h) ==
    /\ peticion[h] # Nada
    /\ peticion[h].fase = "crea"
    /\ cerrojoBilletera = Nada
    /\ billetera # Nada
    /\ Termina(h)
    /\ UNCHANGED datos

\* Mutant: the UPDATE does not wait for the row.
MueveSinEsperar(h) ==
    /\ peticion[h] # Nada
    /\ peticion[h].fase = "mueve"
    /\ cerrojoBilletera' = h
    /\ Sigue(h, [peticion[h] EXCEPT !.fase = "listo"])
    /\ UNCHANGED <<datos, cerrojoContrato>>

\* UPDATE of the wallet.
MueveBilletera(h) ==
    /\ peticion[h] # Nada
    /\ peticion[h].fase = "mueve"
    /\ cerrojoBilletera = Nada
    /\ cerrojoBilletera' = h
    /\ Sigue(h, [peticion[h] EXCEPT !.fase = "listo"])
    /\ UNCHANGED <<datos, cerrojoContrato>>
-----------------------------------------------------------------------------
(* Commits. *)

Lista(h, op) ==
    /\ peticion[h] # Nada
    /\ peticion[h].op = op
    /\ peticion[h].fase = "listo"

\* The saldo is written from the loaded value; saldo_bloqueado only by a
\* withdrawal, the others leave the committed one.
Abona(h, monto) ==
    billetera' = [saldo |-> Base(peticion[h].foto).saldo + monto,
                  bloqueado |-> Base(billetera).bloqueado]

\* n Transactions are added with the sum monto.
Asienta(n, monto, retiro) ==
    libro' = [n |-> libro.n + n, suma |-> libro.suma + monto,
              retirado |-> libro.retirado + retiro]

BilleteraObsoleta(h) == peticion[h].foto # billetera
ContratoObsoleto(h) == peticion[h].estado # contrato[peticion[h].k]

CommitConsulta(h) ==
    /\ Lista(h, "consultar")
    /\ Abona(h, 0)
    /\ obsoleta' = (obsoleta \/ BilleteraObsoleta(h))
    /\ Termina(h)
    /\ UNCHANGED <<contrato, libro, pagos>>

CommitDeposito(h) ==
    /\ Lista(h, "depositar")
    /\ Abona(h, peticion[h].monto)
    /\ Asienta(1, peticion[h].monto, 0)
    /\ obsoleta' = (obsoleta \/ BilleteraObsoleta(h))
    /\ Termina(h)
    /\ UNCHANGED <<contrato, pagos>>

\* Mutant: the amount is blocked but stays available.
CommitRetiroSinRestar(h) ==
    LET p == peticion[h]
    IN  /\ Lista(h, "retirar")
        /\ billetera' = [saldo |-> p.foto.saldo, bloqueado |-> p.foto.bloqueado + p.monto]
        /\ Asienta(1, -p.monto, p.monto)
        /\ obsoleta' = (obsoleta \/ BilleteraObsoleta(h))
        /\ Termina(h)
        /\ UNCHANGED <<contrato, pagos>>

CommitRetiro(h) ==
    LET p == peticion[h]
    IN  /\ Lista(h, "retirar")
        /\ billetera' = [saldo |-> p.foto.saldo - p.monto,
                         bloqueado |-> p.foto.bloqueado + p.monto]
        /\ Asienta(1, -p.monto, p.monto)
        /\ obsoleta' = (obsoleta \/ BilleteraObsoleta(h))
        /\ Termina(h)
        /\ UNCHANGED <<contrato, pagos>>

EscribeEstado(h, estado) == contrato' = [contrato EXCEPT ![peticion[h].k] = estado]

\* One Transaction for the net amount and one for the commission, which is
\* taken from the balance although the net amount left it out already.
CommitConfirmacion(h) ==
    LET k == peticion[h].k
        comision == ComisionDe(k)
        saldo == Precio[k] - 2 * comision
    IN  /\ Lista(h, "confirmar")
        /\ EscribeEstado(h, "completado")
        /\ pagos' = [pagos EXCEPT ![k] = @ + 1]
        /\ Abona(h, saldo)
        /\ Asienta(IF comision > 0 THEN 2 ELSE 1, saldo, 0)
        /\ obsoleta' = (obsoleta \/ BilleteraObsoleta(h) \/ ContratoObsoleto(h))
        /\ Termina(h)

\* The exception was swallowed: the contract is confirmed all the same.
CommitSinPago(h) ==
    /\ peticion[h] # Nada
    /\ peticion[h].fase = "sin_pago"
    /\ EscribeEstado(h, "completado")
    /\ obsoleta' = (obsoleta \/ ContratoObsoleto(h))
    /\ Termina(h)
    /\ UNCHANGED <<billetera, libro, pagos>>

CommitCompletar(h) ==
    /\ Lista(h, "completar")
    /\ EscribeEstado(h, "completado_pendiente")
    /\ obsoleta' = (obsoleta \/ ContratoObsoleto(h))
    /\ Termina(h)
    /\ UNCHANGED <<billetera, libro, pagos>>

CommitCancelar(h) ==
    /\ Lista(h, "cancelar")
    /\ EscribeEstado(h, "cancelado")
    /\ obsoleta' = (obsoleta \/ ContratoObsoleto(h))
    /\ Termina(h)
    /\ UNCHANGED <<billetera, libro, pagos>>
-----------------------------------------------------------------------------
Llega(h) ==
    \/ Consultar(h)
    \/ \E m \in Depositos : Depositar(h, m)
    \/ \E m \in Retiros : Retirar(h, m)
    \/ \E k \in Contratos, op \in {"completar", "confirmar", "cancelar"} :
            CambiarEstado(h, op, k)

\* A request that was accepted goes on.
Avanza(h) ==
    \/ TomaContrato(h)
    \/ LeeBilletera(h)
    \/ CreaBilletera(h)
    \/ LlaveDuplicada(h)
    \/ MueveBilletera(h)
    \/ CommitConsulta(h)
    \/ CommitDeposito(h)
    \/ CommitRetiro(h)
    \/ CommitConfirmacion(h)
    \/ CommitSinPago(h)
    \/ CommitCompletar(h)
    \/ CommitCancelar(h)

Next == \E h \in Hilos : Llega(h) \/ Avanza(h)

\* A handler runs to its end by itself, and PostgreSQL grants a row lock to its
\* waiters in turn: a request that can go on again and again does.  Nothing
\* makes a request arrive.
Equidad == \A h \in Hilos : SF_vars(Avanza(h))

Spec == Init /\ [][Next]_vars /\ Equidad
-----------------------------------------------------------------------------
(* Properties *)

\* Whatever requests race, the balance and the blocked amount never go below
\* zero, although no CHECK guards the columns and every decision is made on a
\* loaded balance: the value written is the loaded one, which sufficed.
SaldoNoNegativo ==
    billetera # Nada => billetera.saldo >= 0 /\ billetera.bloqueado >= 0

\* While no commit hit a row that had changed since its load, the balance is
\* the sum of the Transactions and saldo_bloqueado the sum of the withdrawals.
CuadraEnSerie ==
    ~obsoleta =>
        /\ Base(billetera).saldo = libro.suma
        /\ Base(billetera).bloqueado = libro.retirado

\* In the same case a contract is settled at most once, and one that was
\* settled stays completado: nobody cancels or completes it afterwards.
PagoUnicoEnSerie ==
    ~obsoleta => \A k \in Contratos :
        pagos[k] > 0 => pagos[k] = 1 /\ contrato[k] = "completado"

\* What a request on its way knows.  The estado it loaded admits its operation;
\* the wallet it loaded was never negative and suffices for what it is about to
\* write, and a wallet it found is still there.
PeticionCoherente(h) ==
    LET p == peticion[h]
    IN  /\ p.op \in {"completar", "confirmar", "cancelar"} =>
                p.k \in Contratos /\ p.estado \in EstadoContrato /\ Admite(p.op, p.estado)
        /\ p.fase = "contrato" => p.op \in {"completar", "confirmar", "cancelar"}
        /\ p.fase \in {"billetera", "sin_pago"} => p.op = "confirmar"
        /\ p.fase = "crea" => p.foto = Nada /\ p.op # "retirar"
        /\ p.fase = "mueve" => p.foto # Nada
        /\ p.foto # Nada => billetera # Nada /\ p.foto.saldo >= 0 /\ p.foto.bloqueado >= 0
        /\ p.op = "consultar" => p.foto = Nada
        /\ p.op = "retirar" => p.foto # Nada /\ p.foto.saldo >= p.monto
        /\ (p.op = "confirmar" /\ p.fase \in {"crea", "mueve", "listo"}) => Procede(p.k, p.foto)

\* A request that flushed a row holds its lock until its commit; so a wallet
\* that it inserted is still missing for everybody else.
Bloqueos(h) ==
    LET p == peticion[h]
    IN  /\ p.fase \in {"billetera", "sin_pago"} => cerrojoContrato[p.k] = h
        /\ (p.fase \in {"crea", "mueve", "listo"} /\ p.k # Nada) => cerrojoContrato[p.k] = h
        /\ (p.fase = "listo" /\ p.op \notin {"completar", "cancelar"}) =>
                /\ cerrojoBilletera = h
                /\ p.foto = Nada => billetera = Nada

\* The inductive invariant.
IInv ==
    /\ TypeOK
    /\ SaldoNoNegativo
    /\ CuadraEnSerie
    /\ PagoUnicoEnSerie
    /\ \A h \in Hilos : peticion[h] # Nada => PeticionCoherente(h) /\ Bloqueos(h)

\* However many requests create the wallet at once, its creation never undoes a
\* committed balance: once it exists it never disappears, and it only changes
\* together with a Transaction.
SaldoConAsiento ==
    [][billetera # Nada =>
            /\ billetera' # Nada
            /\ billetera' # billetera => libro'.n > libro.n]_vars

\* Every request that was accepted is answered: no two of them wait for each
\* other's rows, and an error leaves no row locked.
TodaPeticionResponde ==
    \A h \in Hilos : peticion[h] # Nada ~> peticion[h] = Nada
=============================================================================
