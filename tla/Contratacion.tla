---------------------------- MODULE Contratacion ----------------------------
(***************************************************************************)
(* The hiring core of ChambeApp: a service request (solicitud), the offers *)
(* (ofertas) the providers make on it, the contracts that come out of the  *)
(* negotiation, and the settlement of a contract in the provider's wallet. *)
(*                                                                         *)
(* One action per HTTP handler, each one database transaction that commits *)
(* at its end and aborts before any write.  Handlers are serial here: two  *)
(* requests that load the same rows before either commits are the subject  *)
(* of the modules that split a handler in two.  The first parameter u of   *)
(* an action is the user of the token.                                     *)
(***************************************************************************)
EXTENDS Tarifas, FiniteSets

CONSTANTS
    Usuarios,            \* registered users
    PDS,                 \* those with role pds; the others publish
    Solicitudes, Ofertas, Contratos,     \* identifiers rows may take
    Montos,              \* amounts a form may carry
    MontoMinimo,         \* least budget of a solicitud (50000)
    Limite,              \* PLANES_LIMITE_POSTULACIONES by provider
    EstadosManuales,     \* estados the owner and the moderators set by hand
    SaldosIniciales,     \* wallets at the start: balances, or Nada
    MonedasIniciales,    \* coins at the start
    Nada                 \* NULL

ASSUME UsuariosPDS == PDS \subseteq Usuarios /\ Nada \notin Usuarios
ASSUME MontosEnteros == Montos \subseteq Int /\ Nada \notin Int
ASSUME LimiteTipo == Limite \in [PDS -> Nat \cup {Nada}]
ASSUME InicialesNaturales ==
    /\ SaldosIniciales \subseteq Nat \cup {Nada}
    /\ MonedasIniciales \subseteq Nat
ASSUME NadaNoEsId ==
    Nada \notin Solicitudes /\ Nada \notin Ofertas /\ Nada \notin Contratos

EstadoSolicitud == {"borrador", "publicado", "en_progreso", "completado",
                    "cancelado", "oculto", "rechazado", "asignada"}
EstadoOferta == {"pendiente", "contraoferta", "aceptada", "rechazada"}
EstadoContrato == {"pendiente", "en_progreso", "completado_pendiente",
                   "completado", "cancelado", "marcado"}

ASSUME ManualesEstado == EstadosManuales \subseteq EstadoSolicitud

VARIABLES
    solicitudes,   \* row of each solicitud
    ofertas,       \* row of each oferta
    contratos,     \* row of each contract
    chambas,       \* contracts with an execution record (chamba)
    saldo,         \* balance of each wallet, Nada without a wallet
    monedas,       \* coins of each user
    pagos,         \* transactions of each contract: how many, amounts
    trato          \* history: the terms under which a contract was made

vars == <<solicitudes, ofertas, contratos, chambas, saldo, monedas, pagos, trato>>
-----------------------------------------------------------------------------
Monto == Int \cup {Nada}

SolicitudRow == [estado: EstadoSolicitud \cup {"inexistente"},
                 solicitante: Usuarios \cup {Nada},
                 presupuesto: Monto, modalidad: Modalidad]
OfertaRow == [estado: EstadoOferta \cup {"inexistente"},
              solicitud: Solicitudes \cup {Nada}, pds: Usuarios \cup {Nada},
              monto: Monto, contra: Monto, delMes: BOOLEAN]
ContratoRow == [estado: EstadoContrato \cup {"inexistente"},
                solicitud: Solicitudes \cup {Nada},
                proveedor: Usuarios \cup {Nada},
                inicio_en: BOOLEAN, fin_en: BOOLEAN, confirmado_en: BOOLEAN]
PagoRow == [veces: Nat, neto: Int, comision: Int]
TratoRow == [monto: Monto, quien: {"solicitante", "pds", "directo", "nadie"},
             contraofertada: BOOLEAN]

TypeOK ==
    /\ solicitudes \in [Solicitudes -> SolicitudRow]
    /\ ofertas \in [Ofertas -> OfertaRow]
    /\ contratos \in [Contratos -> ContratoRow]
    /\ chambas \in SUBSET Contratos
    /\ saldo \in [Usuarios -> Monto]
    /\ monedas \in [Usuarios -> Int]
    /\ pagos \in [Contratos -> PagoRow]
    /\ trato \in [Contratos -> TratoRow]

SinSolicitud == [estado |-> "inexistente", solicitante |-> Nada,
                 presupuesto |-> Nada, modalidad |-> "ninguna"]
SinOferta == [estado |-> "inexistente", solicitud |-> Nada, pds |-> Nada,
              monto |-> Nada, contra |-> Nada, delMes |-> FALSE]
SinContrato == [estado |-> "inexistente", solicitud |-> Nada, proveedor |-> Nada,
                inicio_en |-> FALSE, fin_en |-> FALSE, confirmado_en |-> FALSE]
SinPago == [veces |-> 0, neto |-> 0, comision |-> 0]
SinTrato == [monto |-> Nada, quien |-> "nadie", contraofertada |-> FALSE]

Init ==
    /\ solicitudes = [s \in Solicitudes |-> SinSolicitud]
    /\ ofertas = [o \in Ofertas |-> SinOferta]
    /\ contratos = [k \in Contratos |-> SinContrato]
    /\ chambas = {}
    /\ saldo \in [Usuarios -> SaldosIniciales]
    /\ monedas \in [Usuarios -> MonedasIniciales]
    /\ pagos = [k \in Contratos |-> SinPago]
    /\ trato = [k \in Contratos |-> SinTrato]

Existe(row) == row.estado # "inexistente"
Dueno(s) == solicitudes[s].solicitante
SolicitanteDe(k) == Dueno(contratos[k].solicitud)
Participa(u, k) == u \in {SolicitanteDe(k), contratos[k].proveedor}
-----------------------------------------------------------------------------
(* Solicitudes *)

PublicarSolicitud(u, s, presupuesto) ==
    /\ ~Existe(solicitudes[s])
    /\ u \notin PDS
    /\ presupuesto # Nada => presupuesto >= MontoMinimo
    /\ solicitudes' = [solicitudes EXCEPT ![s] =
            [estado |-> "publicado", solicitante |-> u,
             presupuesto |-> presupuesto, modalidad |-> "ninguna"]]
    /\ UNCHANGED <<ofertas, contratos, chambas, saldo, monedas, pagos, trato>>

\* The owner may write any estado, whatever the current one.
CambiarEstadoSolicitud(u, s, e) ==
    /\ Existe(solicitudes[s])
    /\ u = Dueno(s)
    /\ solicitudes' = [solicitudes EXCEPT ![s].estado = e]
    /\ UNCHANGED <<ofertas, contratos, chambas, saldo, monedas, pagos, trato>>

\* approve | reject | hide, by an administrator.
ModerarSolicitud(s, e) ==
    /\ Existe(solicitudes[s])
    /\ e \in {"publicado", "rechazado", "oculto"}
    /\ solicitudes' = [solicitudes EXCEPT ![s].estado = e]
    /\ UNCHANGED <<ofertas, contratos, chambas, saldo, monedas, pagos, trato>>

\* Mutant: a later choice replaces the first.
RedefinirModalidad(u, s, tipo) ==
    /\ Existe(solicitudes[s])
    /\ u = Dueno(s)
    /\ solicitudes' = [solicitudes EXCEPT ![s].modalidad = tipo]
    /\ UNCHANGED <<ofertas, contratos, chambas, saldo, monedas, pagos, trato>>

\* The first choice stands; an administrator may make it for the owner, with
\* the same effect.
DefinirModalidad(u, s, tipo) ==
    /\ Existe(solicitudes[s])
    /\ u = Dueno(s)
    /\ solicitudes[s].modalidad = "ninguna"
    /\ solicitudes' = [solicitudes EXCEPT ![s].modalidad = tipo]
    /\ UNCHANGED <<ofertas, contratos, chambas, saldo, monedas, pagos, trato>>
-----------------------------------------------------------------------------
(* Ofertas *)

OfertasDelMes(u) ==
    {o \in Ofertas : Existe(ofertas[o]) /\ ofertas[o].pds = u /\ ofertas[o].delMes}

\* The estado of the solicitud is not looked at.
Ofertar(u, s, o, monto) ==
    /\ u \in PDS
    /\ Existe(solicitudes[s])
    /\ Dueno(s) # u
    /\ Limite[u] # Nada => Cardinality(OfertasDelMes(u)) < Limite[u]
    /\ ~Existe(ofertas[o])
    /\ ofertas' = [ofertas EXCEPT ![o] =
            [estado |-> "pendiente", solicitud |-> s, pds |-> u,
             monto |-> monto, contra |-> Nada, delMes |-> TRUE]]
    /\ UNCHANGED <<solicitudes, contratos, chambas, saldo, monedas, pagos, trato>>

\* The first day of a month: the count of the plan's limit starts again.
CambiaMes ==
    /\ \E o \in Ofertas : ofertas[o].delMes
    /\ ofertas' = [o \in Ofertas |-> [ofertas[o] EXCEPT !.delMes = FALSE]]
    /\ UNCHANGED <<solicitudes, contratos, chambas, saldo, monedas, pagos, trato>>

\* The agreed price: the counter-offer while one is open, or when the
\* provider accepts one; else the offer's; else the budget.
MontoAcordado(o, aceptaContra) ==
    LET oferta == ofertas[o]
    IN  IF oferta.contra # Nada /\ (aceptaContra \/ oferta.estado = "contraoferta")
        THEN oferta.contra
        ELSE IF oferta.monto # Nada THEN oferta.monto
        ELSE solicitudes[oferta.solicitud].presupuesto

Abierta == {"pendiente", "contraoferta"}

\* Mutant: only the pending offers are rejected, counter-offers stay open.
RechazaPendientes(o) ==
    [x \in Ofertas |->
        IF x = o THEN [ofertas[x] EXCEPT !.estado = "aceptada"]
        ELSE IF ofertas[x].solicitud = ofertas[o].solicitud
                /\ ofertas[x].estado = "pendiente"
             THEN [ofertas[x] EXCEPT !.estado = "rechazada"]
             ELSE ofertas[x]]

\* Mutant: every open offer of the solicitud is accepted.
AceptaTodas(o) ==
    [x \in Ofertas |->
        IF ofertas[x].solicitud = ofertas[o].solicitud
        THEN [ofertas[x] EXCEPT !.estado = "aceptada"]
        ELSE ofertas[x]]

\* ofertas after o is accepted: every other open offer of its solicitud is
\* rejected.
TrasAceptar(o) ==
    [x \in Ofertas |->
        IF x = o THEN [ofertas[x] EXCEPT !.estado = "aceptada"]
        ELSE IF ofertas[x].solicitud = ofertas[o].solicitud
                /\ ofertas[x].estado \in Abierta
             THEN [ofertas[x] EXCEPT !.estado = "rechazada"]
             ELSE ofertas[x]]

MonedasAlAceptar(s) ==
    IF solicitudes[s].modalidad = "B_sin_comision" THEN MonedasModalidadB ELSE 0

\* Mutant: the error of usar_monedas is swallowed like the others.
MonedasSinVerificar(p, c) == TRUE

\* usar_monedas raises when the coins are too few, and the handler aborts.
MonedasBastan(p, c) == monedas[p] >= c

\* Both acceptances: the price goes to the solicitud, modality B takes the
\* provider's coins, and the contract k is created.
Formalizar(o, k, aceptaContra) ==
    LET s == ofertas[o].solicitud
        p == ofertas[o].pds
        m == MontoAcordado(o, aceptaContra)
        c == MonedasAlAceptar(s)
    IN  /\ ~Existe(contratos[k])
        /\ MonedasBastan(p, c)
        /\ solicitudes' = [solicitudes EXCEPT
                ![s].presupuesto = IF m # Nada THEN m ELSE @,
                ![s].modalidad = ModalidadEfectiva(@)]
        /\ monedas' = [monedas EXCEPT ![p] = @ - c]
        /\ contratos' = [contratos EXCEPT ![k] =
                [SinContrato EXCEPT !.estado = "pendiente", !.solicitud = s,
                                    !.proveedor = p]]
        /\ ofertas' = TrasAceptar(o)
        /\ trato' = [trato EXCEPT ![k] =
                [monto |-> m, quien |-> IF aceptaContra THEN "pds" ELSE "solicitante",
                 contraofertada |-> ofertas[o].estado = "contraoferta"]]
        /\ UNCHANGED <<chambas, saldo, pagos>>

\* Neither acceptance looks at the estado of the oferta or of the solicitud.
AceptarOferta(u, o, k) ==
    /\ Existe(ofertas[o])
    /\ u = Dueno(ofertas[o].solicitud)
    /\ Formalizar(o, k, FALSE)

AceptarContraoferta(u, o, k) ==
    /\ Existe(ofertas[o])
    /\ u = ofertas[o].pds
    /\ Formalizar(o, k, TRUE)

\* The solicitante at any time, the provider while a counter-offer is open.
NegociaOferta(u, o) ==
    /\ Existe(ofertas[o])
    /\ \/ u = Dueno(ofertas[o].solicitud)
       \/ u = ofertas[o].pds /\ ofertas[o].estado = "contraoferta"

RechazarOferta(u, o) ==
    /\ NegociaOferta(u, o)
    /\ ofertas' = [ofertas EXCEPT ![o].estado = "rechazada"]
    /\ UNCHANGED <<solicitudes, contratos, chambas, saldo, monedas, pagos, trato>>

Contraofertar(u, o, monto) ==
    /\ NegociaOferta(u, o)
    /\ ofertas' = [ofertas EXCEPT ![o].estado = "contraoferta", ![o].contra = monto]
    /\ UNCHANGED <<solicitudes, contratos, chambas, saldo, monedas, pagos, trato>>
-----------------------------------------------------------------------------
(* Contratos *)

\* A contract without an offer: any user may be named provider.
CrearContrato(u, s, p, k) ==
    /\ Existe(solicitudes[s])
    /\ solicitudes[s].estado = "publicado"
    /\ u = Dueno(s)
    /\ ~Existe(contratos[k])
    /\ contratos' = [contratos EXCEPT ![k] =
            [SinContrato EXCEPT !.estado = "pendiente", !.solicitud = s,
                                !.proveedor = p]]
    /\ trato' = [trato EXCEPT ![k] =
            [monto |-> solicitudes[s].presupuesto, quien |-> "directo",
             contraofertada |-> FALSE]]
    /\ UNCHANGED <<solicitudes, ofertas, chambas, saldo, monedas, pagos>>

\* Mutant: signing does not look at the estado.
FirmarSinMirar(u, k) ==
    /\ Existe(contratos[k])
    /\ u = contratos[k].proveedor
    /\ contratos' = [contratos EXCEPT ![k].estado = "en_progreso",
                                      ![k].inicio_en = TRUE]
    /\ solicitudes' = [solicitudes EXCEPT ![contratos[k].solicitud].estado = "asignada"]
    /\ chambas' = chambas \cup {k}
    /\ UNCHANGED <<ofertas, saldo, monedas, pagos, trato>>

\* Mutant: signing leaves the chamba for a later request.
FirmarSinChamba(u, k) ==
    /\ contratos[k].estado = "pendiente"
    /\ u = contratos[k].proveedor
    /\ contratos' = [contratos EXCEPT ![k].estado = "en_progreso",
                                      ![k].inicio_en = TRUE]
    /\ solicitudes' = [solicitudes EXCEPT ![contratos[k].solicitud].estado = "asignada"]
    /\ UNCHANGED <<ofertas, chambas, saldo, monedas, pagos, trato>>

\* aceptar: the provider signs; the solicitud is assigned and the chamba born.
FirmarContrato(u, k) ==
    /\ contratos[k].estado = "pendiente"
    /\ u = contratos[k].proveedor
    /\ contratos' = [contratos EXCEPT ![k].estado = "en_progreso",
                                      ![k].inicio_en = TRUE]
    /\ solicitudes' = [solicitudes EXCEPT ![contratos[k].solicitud].estado = "asignada"]
    /\ chambas' = chambas \cup {k}
    /\ UNCHANGED <<ofertas, saldo, monedas, pagos, trato>>

\* Mutant: a contract may be completed before it is signed.
CompletarSinFirma(u, k) ==
    /\ contratos[k].estado \in {"pendiente", "en_progreso"}
    /\ u = contratos[k].proveedor
    /\ contratos' = [contratos EXCEPT ![k].estado = "completado_pendiente",
                                      ![k].fin_en = TRUE]
    /\ solicitudes' = [solicitudes EXCEPT ![contratos[k].solicitud].estado = "completado"]
    /\ UNCHANGED <<ofertas, chambas, saldo, monedas, pagos, trato>>

\* completar: the provider's half of the dual confirmation.
CompletarContrato(u, k) ==
    /\ contratos[k].estado = "en_progreso"
    /\ u = contratos[k].proveedor
    /\ contratos' = [contratos EXCEPT ![k].estado = "completado_pendiente",
                                      ![k].fin_en = TRUE]
    /\ solicitudes' = [solicitudes EXCEPT ![contratos[k].solicitud].estado = "completado"]
    /\ UNCHANGED <<ofertas, chambas, saldo, monedas, pagos, trato>>

\* The amount and commission of the settlement of k, read when it happens.
MontoTotal(k) ==
    LET b == solicitudes[contratos[k].solicitud].presupuesto
    IN  IF b = Nada THEN 0 ELSE b
ComisionDe(k) ==
    LET s == solicitudes[contratos[k].solicitud]
    IN  Comision(ModalidadEfectiva(s.modalidad), MontoTotal(k))

\* descontar_comision raises without a wallet or with too little in it, and
\* the handler swallows the exception: nothing is credited.
PagoProcede(k) ==
    LET w == saldo[contratos[k].proveedor]
    IN  /\ MontoTotal(k) > 0
        /\ ComisionDe(k) > 0 => (w # Nada /\ w >= ComisionDe(k))

\* Mutant: the gross amount is recorded, the net is credited.
LiquidarBruto(k) ==
    LET p == contratos[k].proveedor
        c == ComisionDe(k)
        n == MontoTotal(k) - c
    IN  /\ saldo' = [saldo EXCEPT ![p] = (IF @ = Nada THEN 0 ELSE @) - c + n]
        /\ monedas' = [monedas EXCEPT ![p] = @ + MonedasGanadas]
        /\ pagos' = [pagos EXCEPT ![k] =
                [veces |-> @.veces + 1, neto |-> @.neto + MontoTotal(k),
                 comision |-> @.comision + c]]

\* The commission is taken from the balance, then the net is credited.
Liquidar(k) ==
    LET p == contratos[k].proveedor
        c == ComisionDe(k)
        n == MontoTotal(k) - c
    IN  /\ saldo' = [saldo EXCEPT ![p] = (IF @ = Nada THEN 0 ELSE @) - c + n]
        /\ monedas' = [monedas EXCEPT ![p] = @ + MonedasGanadas]
        /\ pagos' = [pagos EXCEPT ![k] =
                [veces |-> @.veces + 1, neto |-> @.neto + n,
                 comision |-> @.comision + c]]

\* confirmar: the solicitante's half, and the settlement.
ConfirmarContrato(u, k) ==
    /\ contratos[k].estado = "completado_pendiente"
    /\ u = SolicitanteDe(k)
    /\ contratos' = [contratos EXCEPT ![k].estado = "completado",
                                      ![k].confirmado_en = TRUE]
    /\ solicitudes' = [solicitudes EXCEPT
            ![contratos[k].solicitud].modalidad = ModalidadEfectiva(@)]
    /\ \/ PagoProcede(k) /\ Liquidar(k)
       \/ ~PagoProcede(k) /\ UNCHANGED <<saldo, monedas, pagos>>
    /\ UNCHANGED <<ofertas, chambas, trato>>

CancelarContrato(u, k) ==
    /\ Existe(contratos[k])
    /\ Participa(u, k)
    /\ contratos[k].estado \notin {"completado", "cancelado"}
    /\ contratos' = [contratos EXCEPT ![k].estado = "cancelado"]
    /\ UNCHANGED <<solicitudes, ofertas, chambas, saldo, monedas, pagos, trato>>

\* Mutant: a moderator may also put a contract back to work.
ModerarRestituye(k, e) ==
    /\ Existe(contratos[k])
    /\ e \in {"cancelado", "marcado", "en_progreso"}
    /\ contratos' = [contratos EXCEPT ![k].estado = e]
    /\ UNCHANGED <<solicitudes, ofertas, chambas, saldo, monedas, pagos, trato>>

\* cancel | flag, by an administrator, from any estado.
ModerarContrato(k, e) ==
    /\ Existe(contratos[k])
    /\ e \in {"cancelado", "marcado"}
    /\ contratos' = [contratos EXCEPT ![k].estado = e]
    /\ UNCHANGED <<solicitudes, ofertas, chambas, saldo, monedas, pagos, trato>>

\* Mutant: a forced completion settles like a confirmation.
ForzarConPago(k, e) ==
    /\ Existe(contratos[k])
    /\ e \in {"completado", "cancelado"}
    /\ contratos' = [contratos EXCEPT ![k].estado = e]
    /\ IF e = "completado" /\ PagoProcede(k)
       THEN Liquidar(k)
       ELSE UNCHANGED <<saldo, monedas, pagos>>
    /\ UNCHANGED <<solicitudes, ofertas, chambas, trato>>

\* complete | cancel, by the superadmin, from any estado; no settlement.
ForzarContrato(k, e) ==
    /\ Existe(contratos[k])
    /\ e \in {"completado", "cancelado"}
    /\ contratos' = [contratos EXCEPT ![k].estado = e]
    /\ UNCHANGED <<solicitudes, ofertas, chambas, saldo, monedas, pagos, trato>>

\* POST /chambas/: the estado of the contract is not looked at.
CrearChamba(u, k) ==
    /\ Existe(contratos[k])
    /\ Participa(u, k)
    /\ k \notin chambas
    /\ chambas' = chambas \cup {k}
    /\ UNCHANGED <<solicitudes, ofertas, contratos, saldo, monedas, pagos, trato>>
-----------------------------------------------------------------------------
NextSolicitud ==
    \E u \in Usuarios, s \in Solicitudes :
        \/ \E m \in Montos \cup {Nada} : PublicarSolicitud(u, s, m)
        \/ \E e \in EstadosManuales : CambiarEstadoSolicitud(u, s, e)
        \/ \E e \in EstadosManuales : ModerarSolicitud(s, e)
        \/ \E t \in TipoModalidad : DefinirModalidad(u, s, t)

NextOferta ==
    \/ \E u \in Usuarios, s \in Solicitudes, o \in Ofertas, m \in Montos \cup {Nada} :
            Ofertar(u, s, o, m)
    \/ CambiaMes
    \/ \E u \in Usuarios, o \in Ofertas :
        \/ \E k \in Contratos : AceptarOferta(u, o, k)
        \/ \E k \in Contratos : AceptarContraoferta(u, o, k)
        \/ RechazarOferta(u, o)
        \/ \E m \in Montos \cup {Nada} : Contraofertar(u, o, m)

NextContrato ==
    \/ \E u, p \in Usuarios, s \in Solicitudes, k \in Contratos : CrearContrato(u, s, p, k)
    \/ \E u \in Usuarios, k \in Contratos :
        \/ FirmarContrato(u, k)
        \/ CompletarContrato(u, k)
        \/ ConfirmarContrato(u, k)
        \/ CancelarContrato(u, k)
        \/ CrearChamba(u, k)
    \/ \E k \in Contratos, e \in EstadoContrato :
        \/ ModerarContrato(k, e)
        \/ ForzarContrato(k, e)

Next == NextSolicitud \/ NextOferta \/ NextContrato

Spec == Init /\ [][Next]_vars
-----------------------------------------------------------------------------
(* Safety of the handlers as they are *)

\* The stamps of a contract appear in the order of the protocol: a confirmed
\* contract was completed, a completed one was signed, and a signed one has
\* its chamba, whatever moderation, overrides and cancellations did between.
FirmaEnOrden ==
    \A k \in Contratos :
        /\ contratos[k].confirmado_en => contratos[k].fin_en
        /\ contratos[k].fin_en => contratos[k].inicio_en
        /\ contratos[k].inicio_en => k \in chambas

\* A contract pays its provider at most once, and never before the
\* solicitante confirmed it: neither a forced completion nor a flagged and
\* cancelled contract moves money.
PagoUnico ==
    \A k \in Contratos :
        /\ pagos[k].veces <= 1
        /\ pagos[k].veces = 1 => contratos[k].confirmado_en

\* No sequence of settlements and acceptances overdraws a wallet or spends
\* coins the provider has not: the columns have no CHECK, only the comparisons
\* of the handlers keep them from going negative.
SinSobregiro ==
    \A u \in Usuarios : (saldo[u] # Nada => saldo[u] >= 0) /\ monedas[u] >= 0

\* An accepted offer is backed by a contract with its provider on its
\* solicitud: what the provider reads as accepted can be signed or was.
AceptadaConContrato ==
    \A o \in Ofertas : ofertas[o].estado = "aceptada" =>
        \E k \in Contratos : /\ Existe(contratos[k])
                             /\ contratos[k].proveedor = ofertas[o].pds
                             /\ contratos[k].solicitud = ofertas[o].solicitud

\* A contract that left its working states never works again: after a
\* cancellation, completion or flag nobody can sign, complete or confirm it.
Activo == {"pendiente", "en_progreso", "completado_pendiente"}
NoResucita ==
    [][\A k \in Contratos :
        (Existe(contratos[k]) /\ contratos[k].estado \notin Activo)
            => contratos'[k].estado \notin Activo]_vars

\* When an offer is accepted, no other offer of its solicitud stays open.
CierreExcluyente ==
    [][\A o, x \in Ofertas :
        (/\ ofertas[o].estado # "aceptada" /\ ofertas'[o].estado = "aceptada"
         /\ x # o /\ ofertas[x].solicitud = ofertas[o].solicitud)
            => ofertas'[x].estado \notin Abierta]_vars

\* A balance moves exactly by the transactions recorded for one contract of its
\* owner: no credit without its entry, no entry that did not move the balance.
Libro(u, s) == IF s[u] = Nada THEN 0 ELSE s[u]
MovimientosRegistrados ==
    [][\A u \in Usuarios : saldo'[u] # saldo[u] =>
        \E k \in Contratos :
            /\ contratos[k].proveedor = u
            /\ Libro(u, saldo') - Libro(u, saldo) =
                  (pagos'[k].neto - pagos[k].neto) - (pagos'[k].comision - pagos[k].comision)
            /\ \A j \in Contratos \ {k} : pagos'[j] = pagos[j]]_vars

\* The charging modality of a solicitud is chosen once, and an acceptance is
\* always under a chosen one: it costs the provider coins exactly when the
\* modality that will rule the settlement is the one without commission.
ModalidadFija ==
    [][/\ \A s \in Solicitudes : solicitudes[s].modalidad # "ninguna"
                => solicitudes'[s].modalidad = solicitudes[s].modalidad
       /\ \A o \in Ofertas :
            (ofertas[o].estado # "aceptada" /\ ofertas'[o].estado = "aceptada") =>
                LET m == solicitudes'[ofertas[o].solicitud].modalidad
                    p == ofertas[o].pds
                IN  /\ m # "ninguna"
                    /\ monedas'[p] < monedas[p] <=> m = "B_sin_comision"]_vars
-----------------------------------------------------------------------------
(* What the comments of the code say and the handlers do not keep *)

\* ofertas.py: "El monto acordado se convierte en el nuevo precio de la
\* solicitud (el contrato lee el presupuesto del servicio)": what a contract
\* pays is what its parties agreed on.
PrecioAcordado ==
    \A k \in Contratos : pagos[k].veces > 0 =>
        pagos[k].neto + pagos[k].comision = trato[k].monto

\* ofertas.py: "solicitante acepta, o pds acepta contraoferta": a provider
\* closes a deal only when a counter-offer was on the table.
PdsAceptaContraoferta ==
    \A k \in Contratos : trato[k].quien = "pds" => trato[k].contraofertada

\* contracts.py: a confirmed contract tells the provider "¡Pago procesado!".
ConfirmadoPagado ==
    \A k \in Contratos :
        (/\ contratos[k].confirmado_en
         /\ trato[k].monto \in Int /\ trato[k].monto > 0)
            => pagos[k].veces = 1

\* config.py: the commission is "12% sobre el monto del servicio": a paid
\* contract leaves its provider the price minus the commission.
GananciaMenosComision ==
    [][\A k \in Contratos : pagos'[k] # pagos[k] =>
        LET p == contratos[k].proveedor
        IN  Libro(p, saldo') - Libro(p, saldo) = MontoTotal(k) - ComisionDe(k)]_vars
-----------------------------------------------------------------------------
(* Contratacion implements CicloContrato: the phase of a contract is its   *)
(* estado and it is paid when its transactions are in the wallet.          *)
Ciclo == INSTANCE CicloContrato WITH
            fase <- [k \in Contratos |-> contratos[k].estado],
            cobrado <- [k \in Contratos |-> pagos[k].veces > 0]

\* Every behaviour of the handlers is, contract by contract, one of the
\* abstract life cycle.
CicloCumplido == Ciclo!Spec

\* The inductive strengthening of FirmaEnOrden and PagoUnico: rows that do not
\* exist are blank, the estado implies the stamps it needs, and an active
\* contract was neither confirmed nor paid.
Referencias ==
    /\ \A o \in Ofertas : Existe(ofertas[o]) =>
            /\ ofertas[o].solicitud \in Solicitudes
            /\ ofertas[o].pds \in Usuarios
    /\ \A k \in Contratos : Existe(contratos[k]) =>
            /\ contratos[k].solicitud \in Solicitudes
            /\ contratos[k].proveedor \in Usuarios

SellosDelEstado ==
    \A k \in Contratos :
        /\ ~Existe(contratos[k]) => /\ contratos[k] = SinContrato
                                    /\ k \notin chambas
        /\ contratos[k].estado = "en_progreso" => contratos[k].inicio_en
        /\ contratos[k].estado = "completado_pendiente" =>
                contratos[k].inicio_en /\ contratos[k].fin_en
        /\ contratos[k].estado \in Activo => ~contratos[k].confirmado_en

IInv ==
    /\ TypeOK
    /\ Referencias
    /\ SellosDelEstado
    /\ FirmaEnOrden
    /\ PagoUnico
    /\ SinSobregiro
=============================================================================
