---------------------------- MODULE Suscripciones ----------------------------
(***************************************************************************)
(* The subscription of one user and the plan of the profile, which decides *)
(* how many offers the user may make (Contratacion: Limite).               *)
(***************************************************************************)
EXTENDS Servidor

CONSTANT Planes        \* of PLANES_CATALOGO; free is one

ASSUME HayPlanGratis == "free" \in Planes

\* vigente: fin_en is in the future.
SuscripcionRow == [plan: Planes, estado: {"activa", "cancelada"}, vigente: BOOLEAN]

PeticionSuscripcion ==
    Peticion({"suscribir", "cancelar_suscripcion"}, {<<"suscripcion">>}, Planes \cup {Nada})

ASSUME NadaNoEsSuscripcion == Nada \notin SuscripcionRow \cup PeticionSuscripcion

VARIABLES
    suscripcion,   \* the row of the user, or Nada
    plan           \* of the profile; destacado is a function of it

suscripcionVars == <<suscripcion, plan>>

InitSuscripciones == suscripcion = Nada /\ plan = "free"

Activa == suscripcion # Nada /\ suscripcion.estado = "activa"
-----------------------------------------------------------------------------
\* The active rows are loaded, to be cancelled by the commit.
Suscribirse(h, p) ==
    /\ Llega(h, "suscribir", {<<"suscripcion">>}, p)
    /\ UNCHANGED suscripcionVars

\* Mutant: the profile is updated by a transaction of its own.
SuscripcionDuplicadaConPlan(h) ==
    /\ EnCurso(h, "suscribir")
    /\ suscripcion # Nada
    /\ plan' = Dato(h)
    /\ Falla(h)
    /\ UNCHANGED suscripcion

CommitSuscribirse(h) ==
    /\ EnCurso(h, "suscribir")
    /\ suscripcion = Nada
    /\ suscripcion' = [plan |-> Dato(h), estado |-> "activa", vigente |-> TRUE]
    /\ plan' = Dato(h)
    /\ Termina(h, {<<"suscripcion">>})

\* A new row is inserted whether or not there is one, and user_id is UNIQUE:
\* nothing of the second subscription survives, the cancellation included.
SuscripcionDuplicada(h) ==
    /\ EnCurso(h, "suscribir")
    /\ suscripcion # Nada
    /\ Falla(h)
    /\ UNCHANGED suscripcionVars

CancelarSuscripcion(h) ==
    /\ Activa
    /\ suscripcion.vigente
    /\ Llega(h, "cancelar_suscripcion", {<<"suscripcion">>}, Nada)
    /\ UNCHANGED suscripcionVars

CommitCancelarSuscripcion(h) ==
    /\ EnCurso(h, "cancelar_suscripcion")
    /\ suscripcion' = [suscripcion EXCEPT !.estado = "cancelada", !.vigente = FALSE]
    /\ plan' = "free"
    /\ Termina(h, {<<"suscripcion">>})

\* Thirty days pass: nobody sets vencida, nobody takes the plan back.
Caduca ==
    /\ Activa
    /\ suscripcion.vigente
    /\ suscripcion' = [suscripcion EXCEPT !.vigente = FALSE]
    /\ UNCHANGED <<plan, servidor>>

NextSuscripciones ==
    \/ Caduca
    \/ \E h \in Hilos :
        \/ CommitSuscribirse(h) \/ SuscripcionDuplicada(h)
        \/ CancelarSuscripcion(h) \/ CommitCancelarSuscripcion(h)
        \/ \E p \in Planes : Suscribirse(h, p)

SuscripcionesOK == suscripcion \in SuscripcionRow \cup {Nada} /\ plan \in Planes

\* Whatever races, the profile has the plan of a subscription that was not
\* cancelled: failed and late requests leave no plan behind.
PlanSuscrito == plan # "free" => Activa /\ suscripcion.plan = plan
=============================================================================
