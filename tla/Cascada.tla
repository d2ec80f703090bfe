------------------------------ MODULE Cascada ------------------------------
(***************************************************************************)
(* The cascade of notifications of one solicitud: phases of growing        *)
(* radius, each a task that notifies, logs, queues the next and only then  *)
(* commits the phase.  The broker hands a task to a worker once; a worker  *)
(* that dies loses it.                                                     *)
(***************************************************************************)
EXTENDS Servidor, Sequences

CONSTANTS NumFases,     \* phases of the configuration (3)
          MaxCaidas     \* bound: processes that die

ASSUME NumFasesEsPositivo == NumFases \in Nat \ {0}

CascadaRow == [fase: 1..NumFases, estado: {"activa", "cancelada", "completada"},
               registro: Seq(1..NumFases)]

\* A request remembers the phase it notifies, or the row.
PeticionCascada ==
    Peticion({"iniciar", "encolar", "cancelar", "notificar", "registrar", "seguir", "cerrar"},
             {<<"cascada">>, <<"registro">>}, (1..NumFases) \cup CascadaRow \cup {Nada})

ASSUME NadaNoEsCascada == Nada \notin CascadaRow \cup PeticionCascada

VARIABLES
    cascada,     \* the row of notification_cascades, or Nada
    cola,        \* tasks send_phase_task in the broker
    enviadas,    \* history: per phase, times its notifications were committed
    caidas       \* history: processes that died

cascadaVars == <<cascada, cola, enviadas, caidas>>

InitCascada ==
    /\ cascada = Nada /\ cola = 0 /\ caidas = 0
    /\ enviadas = [f \in 1..NumFases |-> 0]

FilaCascada == {<<"cascada">>}
-----------------------------------------------------------------------------
\* A cascade that exists is returned as it is.
IniciarCascada(h) ==
    /\ cascada = Nada
    /\ Llega(h, "iniciar", FilaCascada, Nada)
    /\ UNCHANGED cascadaVars

\* UNIQUE solicitud_id.
CommitIniciar(h) ==
    /\ EnCurso(h, "iniciar")
    /\ IF cascada = Nada
       THEN /\ cascada' = [fase |-> 1, estado |-> "activa", registro |-> <<>>]
            /\ Sigue(h, FilaCascada, "encolar", {}, Nada)
       ELSE Falla(h) /\ UNCHANGED cascada
    /\ UNCHANGED <<cola, enviadas, caidas>>

\* The first phase is queued after the commit.
Encolar(h) ==
    /\ EnCurso(h, "encolar")
    /\ cola' = cola + 1
    /\ Termina(h, {})
    /\ UNCHANGED <<cascada, enviadas, caidas>>

\* Whatever its estado is.
CancelarCascada(h) ==
    /\ cascada # Nada
    /\ Llega(h, "cancelar", FilaCascada, Nada)
    /\ UNCHANGED cascadaVars

CommitCancelar(h) ==
    /\ EnCurso(h, "cancelar")
    /\ cascada' = [cascada EXCEPT !.estado = "cancelada"]
    /\ Termina(h, FilaCascada)
    /\ UNCHANGED <<cola, enviadas, caidas>>
-----------------------------------------------------------------------------
(* send_phase, in a worker *)

\* The next phase is queued with a countdown of minutes: its task does not start
\* before the process that queued it has committed or died.
TomarTarea(h) ==
    /\ cola > 0 /\ \A g \in Hilos : ~EnCurso(g, "cerrar")
    /\ cola' = cola - 1
    /\ IF cascada.estado = "activa" THEN Llega(h, "notificar", FilaCascada, cascada.fase)
       ELSE peticion[h] = Nada /\ UNCHANGED servidor
    /\ UNCHANGED <<cascada, enviadas, caidas>>

\* The notifications of the phase are committed, and the row expires.
NotificarFase(h) ==
    /\ EnCurso(h, "notificar")
    /\ enviadas' = [enviadas EXCEPT ![Dato(h)] = @ + 1]
    /\ Sigue(h, {}, "registrar", FilaCascada, cascada)
    /\ UNCHANGED <<cascada, cola, caidas>>

\* log_phase: into an empty log a new list, which is written; into any other an
\* append in place, which the session does not see.
RegistrarFase(h) ==
    /\ EnCurso(h, "registrar")
    /\ cascada' = [cascada EXCEPT !.registro = IF Dato(h).registro = <<>> THEN <<Dato(h).fase>> ELSE @]
    /\ Sigue(h, {<<"registro">>}, "seguir", FilaCascada, cascada')
    /\ UNCHANGED <<cola, enviadas, caidas>>

\* The next phase is queued before this one is committed.
EncolarSiguiente(h) ==
    /\ EnCurso(h, "seguir")
    /\ cola' = IF Dato(h).fase < NumFases THEN cola + 1 ELSE cola
    /\ Avanza(h, "cerrar", {}, Dato(h))
    /\ UNCHANGED <<cascada, enviadas, caidas>>

\* Mutant: the phase stays.
CommitFaseSinAvanzar(h) ==
    LET d == Dato(h)
    IN  /\ EnCurso(h, "cerrar")
        /\ cascada' = IF d.fase < NumFases THEN cascada
                      ELSE [cascada EXCEPT !.estado = IF d.estado = "completada" THEN @ ELSE "completada"]
        /\ Termina(h, FilaCascada)
        /\ UNCHANGED <<cola, enviadas, caidas>>

CommitFase(h) ==
    LET d == Dato(h)
    IN  /\ EnCurso(h, "cerrar")
        /\ cascada' = IF d.fase < NumFases THEN [cascada EXCEPT !.fase = d.fase + 1]
                      ELSE [cascada EXCEPT !.estado = IF d.estado = "completada" THEN @ ELSE "completada"]
        /\ Termina(h, FilaCascada)
        /\ UNCHANGED <<cola, enviadas, caidas>>

\* The process of h dies between two of its steps.
MuereProceso(h) ==
    /\ peticion[h] # Nada
    /\ caidas < MaxCaidas
    /\ caidas' = caidas + 1
    /\ Falla(h)
    /\ UNCHANGED <<cascada, cola, enviadas>>

NextCascada ==
    \E h \in Hilos :
        \/ IniciarCascada(h) \/ CommitIniciar(h) \/ Encolar(h)
        \/ CancelarCascada(h) \/ CommitCancelar(h)
        \/ TomarTarea(h) \/ NotificarFase(h) \/ RegistrarFase(h)
        \/ EncolarSiguiente(h) \/ CommitFase(h) \/ MuereProceso(h)
-----------------------------------------------------------------------------
\* In every race and after any death: phases are notified in order, and a
\* completed cascade has notified them all.
CascadaOK ==
    /\ cascada = Nada \/ cascada.fase \in 1..NumFases
    /\ cola \in Nat
    /\ \A f \in 2..NumFases : enviadas[f] > 0 => enviadas[f - 1] > 0
    /\ cascada # Nada => (cascada.estado = "completada" => enviadas[NumFases] > 0)

\* Unless a process died: a phase is notified once, and an active cascade always
\* has a task in the broker or a process at work on it (after a death it may
\* stay active for ever).
FaseUnaVezSinCaidas ==
    caidas = 0 =>
        /\ \A f \in 1..NumFases : enviadas[f] <= 1
        /\ cascada # Nada /\ cascada.estado = "activa" =>
                cola > 0 \/ \E h \in Hilos : \E op \in {"encolar", "notificar", "registrar",
                                                        "seguir", "cerrar"} : EnCurso(h, op)
=============================================================================
