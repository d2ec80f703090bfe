------------------------------ MODULE Soporte ------------------------------
(***************************************************************************)
(* The desk of the staff: a support ticket, the terms and conditions, a    *)
(* setting (of the model's weights), a request for verification, and the   *)
(* audit log, where each change leaves what it found and what it wrote in  *)
(* its own transaction.                                                    *)
(***************************************************************************)
EXTENDS Servidor, Sequences

CONSTANT MaxCambios     \* bound: audited changes of each

EstadoTicket == {"open", "pending", "closed"}
Prioridad == {"normal", "high"}   \* stands for assigned_to as well
Valores == {"a", "b"}
Dictamenes == {"approved", "rejected"}

TicketRow == [estado: EstadoTicket, prioridad: Prioridad, resuelto: BOOLEAN]
RevisionRow == [status: {"pending"} \cup Dictamenes, revisor: Hilos \cup {Nada}]
Fotos == [estado: EstadoTicket, prioridad: Prioridad]

\* A request remembers the row it loaded, and what it will leave.
PeticionSoporte ==
    Peticion({"atender", "tyc", "ajuste", "revisar"},
             {<<"ticket">>, <<"tyc">>, <<"ajuste">>, <<"revision">>},
             [cargado: TicketRow, estado: EstadoTicket \cup {Nada}, nuevo: Fotos] \cup Nat
                \cup [cargado: Valores \cup {Nada}, valor: Valores]
                \cup [cargada: RevisionRow, status: Dictamenes])

ASSUME NadaNoEsSoporte == Nada \notin EstadoTicket \cup TicketRow \cup PeticionSoporte

VARIABLES
    ticket,     \* the row, or Nada
    tyc,        \* version in force in SystemConfig, 0 if there is none
    ajuste,     \* a SystemConfig value, or Nada
    revision,   \* a row of verifications: [status, revisor]
    bitacora    \* audit_logs of each of them: before and after

soporteVars == <<ticket, tyc, ajuste, revision, bitacora>>

InitSoporte ==
    /\ ticket = Nada /\ tyc = 0
    /\ ajuste = Nada /\ revision = [status |-> "pending", revisor |-> Nada]
    /\ bitacora = [ticket |-> <<>>, tyc |-> <<>>, ajuste |-> <<>>, revision |-> <<>>]

Foto(estado, prioridad) == [estado |-> estado, prioridad |-> prioridad]
-----------------------------------------------------------------------------
\* Anybody opens one; a report of a business opens one of high priority.
AbrirTicket(prioridad) ==
    /\ ticket = Nada
    /\ ticket' = [estado |-> "open", prioridad |-> prioridad, resuelto |-> FALSE]
    /\ UNCHANGED <<tyc, ajuste, revision, bitacora, servidor>>

\* Each field is optional (Nada).
AtenderTicket(h, estado, prioridad) ==
    /\ ticket # Nada
    /\ Len(bitacora.ticket) < MaxCambios
    /\ Llega(h, "atender", {<<"ticket">>},
             [cargado |-> ticket, estado |-> estado,
              nuevo |-> Foto(IF estado = Nada THEN ticket.estado ELSE estado,
                             IF prioridad = Nada THEN ticket.prioridad ELSE prioridad)])
    /\ UNCHANGED soporteVars

\* Mutant: reopening keeps the date.
CommitAtenderSinReabrir(h) ==
    LET d == Dato(h)
        c == d.cargado
    IN  /\ EnCurso(h, "atender")
        /\ ticket' = [estado |-> IF d.nuevo.estado = c.estado THEN ticket.estado ELSE d.nuevo.estado,
                      prioridad |-> IF d.nuevo.prioridad = c.prioridad THEN ticket.prioridad
                                    ELSE d.nuevo.prioridad,
                      resuelto |-> ticket.resuelto \/ d.estado = "closed"]
        /\ bitacora' = [bitacora EXCEPT !.ticket = Append(@,
                [antes |-> Foto(c.estado, c.prioridad), despues |-> d.nuevo])]
        /\ Termina(h, {<<"ticket">>})
        /\ UNCHANGED <<tyc, ajuste, revision>>

\* The date of resolution follows the estado that was sent; a column that keeps
\* its loaded value is not written.
CommitAtender(h) ==
    LET d == Dato(h)
        c == d.cargado
    IN  /\ EnCurso(h, "atender")
        /\ ticket' = [estado |-> IF d.nuevo.estado = c.estado THEN ticket.estado ELSE d.nuevo.estado,
                      prioridad |-> IF d.nuevo.prioridad = c.prioridad THEN ticket.prioridad
                                    ELSE d.nuevo.prioridad,
                      resuelto |-> \/ d.estado = "closed"
                                   \/ ticket.resuelto /\ (d.estado = Nada \/ ~c.resuelto)]
        /\ bitacora' = [bitacora EXCEPT !.ticket = Append(@,
                [antes |-> Foto(c.estado, c.prioridad), despues |-> d.nuevo])]
        /\ Termina(h, {<<"ticket">>})
        /\ UNCHANGED <<tyc, ajuste, revision>>

\* The next version is one more than the loaded one.
PublicarTyC(h) ==
    /\ Len(bitacora.tyc) < MaxCambios
    /\ Llega(h, "tyc", {<<"tyc">>}, tyc)
    /\ UNCHANGED soporteVars

\* Two first publications insert the same key, which is UNIQUE.
CommitTyC(h) ==
    /\ EnCurso(h, "tyc")
    /\ Dato(h) = 0 => tyc = 0
    /\ tyc' = Dato(h) + 1
    /\ bitacora' = [bitacora EXCEPT !.tyc = Append(@, [antes |-> Dato(h), despues |-> tyc'])]
    /\ Termina(h, {<<"tyc">>})
    /\ UNCHANGED <<ticket, ajuste, revision>>

TyCRepetidos(h) ==
    /\ EnCurso(h, "tyc")
    /\ Dato(h) = 0 /\ tyc # 0
    /\ Falla(h)
    /\ UNCHANGED soporteVars

\* Some values are created when they are missing, and their key is UNIQUE; others
\* must be there.
FijarAjuste(h, valor, crea) ==
    /\ ajuste # Nada \/ crea
    /\ Len(bitacora.ajuste) < MaxCambios
    /\ Llega(h, "ajuste", {<<"ajuste">>}, [cargado |-> ajuste, valor |-> valor])
    /\ UNCHANGED soporteVars

CommitAjuste(h) ==
    LET d == Dato(h)
    IN  /\ EnCurso(h, "ajuste")
        /\ IF d.cargado = Nada /\ ajuste # Nada THEN Falla(h) /\ UNCHANGED <<ajuste, bitacora>>
           ELSE /\ ajuste' = IF d.valor = d.cargado THEN ajuste ELSE d.valor
                /\ bitacora' = [bitacora EXCEPT !.ajuste = Append(@,
                        [antes |-> d.cargado, despues |-> d.valor])]
                /\ Termina(h, {<<"ajuste">>})
        /\ UNCHANGED <<ticket, tyc, revision>>

\* Approved or rejected from any status, by whoever is in the slot.
RevisarIdentidad(h, status) ==
    /\ Len(bitacora.revision) < MaxCambios
    /\ Llega(h, "revisar", {<<"revision">>}, [cargada |-> revision, status |-> status])
    /\ UNCHANGED soporteVars

\* Mutant: the first reviewer stays.
CommitPrimerDictamen(h) ==
    LET d == Dato(h)
    IN  /\ EnCurso(h, "revisar")
        /\ revision' = [status |-> IF d.status = d.cargada.status THEN revision.status ELSE d.status,
                        revisor |-> IF d.cargada.revisor # Nada THEN revision.revisor ELSE h]
        /\ bitacora' = [bitacora EXCEPT !.revision = Append(@,
                [antes |-> d.cargada.status, despues |-> d.status, quien |-> h])]
        /\ Termina(h, {<<"revision">>})
        /\ UNCHANGED <<ticket, tyc, ajuste>>

CommitDictamen(h) ==
    LET d == Dato(h)
    IN  /\ EnCurso(h, "revisar")
        /\ revision' = [status |-> IF d.status = d.cargada.status THEN revision.status ELSE d.status,
                        revisor |-> IF d.cargada.revisor = h THEN revision.revisor ELSE h]
        /\ bitacora' = [bitacora EXCEPT !.revision = Append(@,
                [antes |-> d.cargada.status, despues |-> d.status, quien |-> h])]
        /\ Termina(h, {<<"revision">>})
        /\ UNCHANGED <<ticket, tyc, ajuste>>

NextMesa ==
    \/ \E p \in Prioridad : AbrirTicket(p)
    \/ \E h \in Hilos :
        \/ CommitAtender(h) \/ PublicarTyC(h) \/ CommitTyC(h) \/ TyCRepetidos(h)
        \/ \E estado \in EstadoTicket \cup {Nada}, p \in Prioridad \cup {Nada} :
                AtenderTicket(h, estado, p)

\* The two desks share no row: tickets and terms, settings and verifications.
NextPanel ==
    \E h \in Hilos :
        \/ CommitAjuste(h) \/ CommitDictamen(h)
        \/ \E valor \in Valores, crea \in BOOLEAN : FijarAjuste(h, valor, crea)
        \/ \E status \in Dictamenes : RevisarIdentidad(h, status)
-----------------------------------------------------------------------------
SoporteOK ==
    /\ ticket = Nada \/ ticket \in TicketRow
    /\ tyc \in Nat /\ ajuste \in Valores \cup {Nada}
    /\ revision \in RevisionRow

Ultima(log) == log[Len(log)]
Encadenada(log) == \A i \in 1..(Len(log) - 1) : log[i].despues = log[i + 1].antes

\* Unless a change was computed from a row that had changed: a ticket has its
\* date of resolution exactly while it is closed, the audit log is a chain in
\* which every change starts from what the one before left, each publication of
\* the terms has a version of its own, and the setting and the verification are
\* what the last entry says, by whom it says.
AuditoriaEnSerie ==
    ~obsoleta =>
        /\ ticket # Nada => (ticket.resuelto <=> ticket.estado = "closed")
        /\ Encadenada(bitacora.ticket) /\ Encadenada(bitacora.tyc)
        /\ Encadenada(bitacora.ajuste) /\ Encadenada(bitacora.revision)
        /\ bitacora.ajuste # <<>> => ajuste = Ultima(bitacora.ajuste).despues
        /\ bitacora.revision # <<>> =>
                /\ revision.status = Ultima(bitacora.revision).despues
                /\ revision.revisor = Ultima(bitacora.revision).quien
        /\ \A i, j \in DOMAIN bitacora.tyc :
                bitacora.tyc[i].despues = bitacora.tyc[j].despues => i = j
=============================================================================
