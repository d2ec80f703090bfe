------------------------------- MODULE Pagos -------------------------------
(***************************************************************************)
(* The payment of one contract through a gateway, and the disputes of that *)
(* contract.  The charge happens between the load and the commit of its    *)
(* request, outside the database: cobros are the charges the gateway       *)
(* accepted, whatever became of the request.                               *)
(***************************************************************************)
EXTENDS Servidor, Sequences

CONSTANTS
    Respuestas,     \* what the gateway may answer: TRUE accepted, FALSE rejected
    MaxCobros,      \* bound: charges attempted
    MaxDisputas     \* bound: disputes ever opened

ASSUME RespuestasSonBooleanas == Respuestas \subseteq BOOLEAN

EstadoPago == {"pendiente", "completado", "reembolsado", "fallido"}
EstadoDisputa == {"abierta", "resuelta"}
EstadoContrato == {"vivo", "completado", "cancelado"}

\* referencia: of a charge; Nada is the one it was created with, or an error.
PagoRow == [estado: EstadoPago, referencia: Nat \cup {Nada}, motivo: BOOLEAN]

PeticionPago ==
    Peticion({"crear_pago", "confirmar", "reintentar", "reembolsar", "disputar", "resolver"},
             {<<"contrato">>, <<"pago">>, <<"disputas">>}, Nat \cup {Nada})

ASSUME NadaNoEsPago == Nada \notin PagoRow \cup PeticionPago

VARIABLES
    contrato,   \* estado of the contract; vivo: pendiente, activo, disputado...
    pago,       \* its row in payments, or Nada
    disputas,   \* its rows in disputes, by id
    intentos,   \* history: charges asked of the gateway so far
    cobros,     \* history: those it accepted
    perdidos    \* history: those whose request died before its commit

pagos == <<contrato, pago, disputas, intentos, cobros, perdidos>>

InitPagos ==
    /\ contrato = "vivo" /\ pago = Nada /\ disputas = <<>>
    /\ intentos = 0 /\ cobros = {} /\ perdidos = {}

\* Signature, confirmation, cancellation, moderation (module Contratacion).
MueveContrato ==
    /\ contrato' \in EstadoContrato \ {contrato}
    /\ Escriben({<<"contrato">>})
    /\ UNCHANGED <<pago, disputas, intentos, cobros, perdidos>>
-----------------------------------------------------------------------------
(* The payment.  The solicitante or an administrator asks. *)

\* Nothing looks for a payment of the contract: contract_id is UNIQUE.
CrearPago(h) ==
    /\ contrato = "completado"
    /\ Llega(h, "crear_pago", {<<"contrato">>}, Nada)
    /\ UNCHANGED pagos

CommitCrearPago(h) ==
    /\ EnCurso(h, "crear_pago")
    /\ pago = Nada
    /\ pago' = [estado |-> "pendiente", referencia |-> Nada, motivo |-> FALSE]
    /\ Termina(h, {<<"pago">>})
    /\ UNCHANGED <<contrato, disputas, intentos, cobros, perdidos>>

PagoDuplicado(h) ==
    /\ EnCurso(h, "crear_pago")
    /\ pago # Nada
    /\ Falla(h)
    /\ UNCHANGED pagos

\* The gateway is asked between the load and the commit.
Cobra(h, op) ==
    /\ intentos < MaxCobros
    /\ intentos' = intentos + 1
    /\ \E ok \in Respuestas :
        /\ Llega(h, op, {<<"pago">>}, IF ok THEN intentos' ELSE Nada)
        /\ cobros' = IF ok THEN cobros \cup {intentos'} ELSE cobros
    /\ UNCHANGED <<contrato, pago, disputas, perdidos>>

\* Mutant: a payment that failed is confirmed, one that was made is retried.
ReintentarHecho(h) == pago # Nada /\ pago.estado # "reembolsado" /\ Cobra(h, "reintentar")

ConfirmarPago(h) == pago # Nada /\ pago.estado = "pendiente" /\ Cobra(h, "confirmar")
ReintentarPago(h) == pago # Nada /\ pago.estado = "fallido" /\ Cobra(h, "reintentar")

EscribePago(h, row) ==
    /\ pago' = row
    /\ Termina(h, {<<"pago">>})
    /\ UNCHANGED <<contrato, disputas, intentos, cobros, perdidos>>

CommitCargo(h) ==
    /\ EnCurso(h, "confirmar") \/ EnCurso(h, "reintentar")
    /\ Dato(h) # Nada
    /\ EscribePago(h, [pago EXCEPT !.estado = "completado", !.referencia = Dato(h)])

\* A first charge that is rejected makes the payment fallido.  A retry that is
\* rejected only writes the error, if it is not the one that was loaded.
CommitRechazo(h) ==
    /\ \/ /\ EnCurso(h, "confirmar")
          /\ Dato(h) = Nada
          /\ EscribePago(h, [pago EXCEPT !.estado = "fallido", !.referencia = Nada])
       \/ /\ EnCurso(h, "reintentar")
          /\ Dato(h) = Nada
          /\ \E r \in {pago.referencia, Nada} : EscribePago(h, [pago EXCEPT !.referencia = r])

\* A payment that is still pendiente can be refunded too.
ReembolsarPago(h) ==
    /\ pago # Nada
    /\ pago.estado \notin {"reembolsado", "fallido"}
    /\ Llega(h, "reembolsar", {<<"pago">>}, Nada)
    /\ UNCHANGED pagos

CommitReembolso(h) ==
    /\ EnCurso(h, "reembolsar")
    /\ EscribePago(h, [pago EXCEPT !.estado = "reembolsado", !.motivo = TRUE])

\* Accepted charges whose request has not committed.
Cobrando(h) == (EnCurso(h, "confirmar") \/ EnCurso(h, "reintentar")) /\ Dato(h) # Nada
EnVuelo == {Dato(h) : h \in {g \in Hilos : Cobrando(g)}}

CaidaPagos ==
    /\ EnVuelo # {}
    /\ perdidos' = perdidos \cup EnVuelo
    /\ SePierden
    /\ UNCHANGED <<contrato, pago, disputas, intentos, cobros>>
-----------------------------------------------------------------------------
(* Disputes.  A party opens one, an administrator resolves it. *)

Abiertas == {d \in DOMAIN disputas : disputas[d] = "abierta"}

\* Mutant: the open dispute is not looked for.
AbrirOtraDisputa(h) ==
    /\ contrato = "vivo"
    /\ Len(disputas) < MaxDisputas
    /\ Llega(h, "disputar", {<<"contrato">>, <<"disputas">>}, Nada)
    /\ UNCHANGED pagos

AbrirDisputa(h) ==
    /\ contrato = "vivo"
    /\ Abiertas = {}
    /\ Len(disputas) < MaxDisputas
    /\ Llega(h, "disputar", {<<"contrato">>, <<"disputas">>}, Nada)
    /\ UNCHANGED pagos

CommitDisputa(h) ==
    /\ EnCurso(h, "disputar")
    /\ disputas' = Append(disputas, "abierta")
    /\ Termina(h, {<<"disputas">>})
    /\ UNCHANGED <<contrato, pago, intentos, cobros, perdidos>>

ResolverDisputa(h, d) ==
    /\ disputas[d] = "abierta"
    /\ Llega(h, "resolver", {<<"disputas">>}, d)
    /\ UNCHANGED pagos

CommitResolver(h) ==
    /\ EnCurso(h, "resolver")
    /\ disputas' = [disputas EXCEPT ![Dato(h)] = "resuelta"]
    /\ Termina(h, {<<"disputas">>})
    /\ UNCHANGED <<contrato, pago, intentos, cobros, perdidos>>
-----------------------------------------------------------------------------
NextPagos ==
    \/ MueveContrato
    \/ CaidaPagos
    \/ \E h \in Hilos :
        \/ CrearPago(h) \/ CommitCrearPago(h) \/ PagoDuplicado(h)
        \/ ConfirmarPago(h) \/ ReintentarPago(h) \/ CommitCargo(h) \/ CommitRechazo(h)
        \/ ReembolsarPago(h) \/ CommitReembolso(h)
        \/ AbrirDisputa(h) \/ CommitDisputa(h) \/ CommitResolver(h)
        \/ \E d \in DOMAIN disputas : ResolverDisputa(h, d)

PagosOK ==
    /\ contrato \in EstadoContrato
    /\ pago \in PagoRow \cup {Nada}
    /\ disputas \in Seq(EstadoDisputa)
    /\ intentos \in Nat /\ cobros \subseteq Nat /\ perdidos \subseteq Nat

\* Every charge the gateway accepted is the one the payment refers to, unless
\* its request is on its way or died with the process, while no request
\* committed on a payment that had changed: nobody pays a contract twice.
CobroUnicoEnSerie ==
    ~obsoleta => cobros \ (perdidos \cup EnVuelo)
                    = IF pago = Nada THEN {} ELSE {pago.referencia} \ {Nada}

\* Whatever races, a payment is completed only if the gateway accepted a charge,
\* and it refers to no other.
CompletadoCobrado ==
    pago # Nada => /\ pago.estado = "completado" => cobros # {}
                   /\ pago.referencia # Nada => pago.referencia \in cobros

\* While no request committed on rows that had changed, a contract has at most
\* one open dispute.
DisputaUnicaEnSerie == ~obsoleta => \A d, e \in Abiertas : d = e
=============================================================================
