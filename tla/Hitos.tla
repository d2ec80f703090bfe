------------------------------- MODULE Hitos -------------------------------
(***************************************************************************)
(* The payment milestones of one contract: the solicitante creates them    *)
(* once and approves or rejects each; a periodic task approves those that  *)
(* have waited 48 hours.  The task is a transaction of a Celery worker,    *)
(* which may die in the middle of it and is started again by the beat.     *)
(***************************************************************************)
EXTENDS Servidor, Sequences

CONSTANTS MaxHitos,       \* of one creation; the schema admits 1 to 12
          MaxFilasHitos   \* bound: rows of all creations

EstadoHito == {"pendiente", "aprobado", "rechazado"}

\* fecha: aprobado_en is set; vencido: created more than 48 hours ago.
HitoRow == [numero: Nat, estado: EstadoHito, fecha: BOOLEAN, vencido: BOOLEAN]

PeticionHito ==
    Peticion({"crear_hitos", "aprobar", "rechazar"}, {<<"hitos">>} \cup ({"hito"} \X Nat), Nat)

\* A run of the task: what it will approve, and whether any of it changed since.
TareaRow == [ids: SUBSET Nat, vieja: BOOLEAN]

ASSUME NadaNoEsHito == Nada \notin PeticionHito \cup TareaRow
ASSUME CotaHitos == MaxHitos \in Nat

VARIABLES
    hitos,   \* the milestones of the contract, by id
    tarea    \* the run of the task in flight: what it will approve, or Nada

hitosVars == <<hitos, tarea>>

InitHitos == hitos = <<>> /\ tarea = Nada

\* A commit of the milestones in ids, as a run of the task sees it.
AtrasaTarea(ids) ==
    tarea' = IF tarea # Nada /\ tarea.ids \cap ids # {} THEN [tarea EXCEPT !.vieja = TRUE]
             ELSE tarea

Fila(i) == <<"hito", i>>
-----------------------------------------------------------------------------
(* The solicitante, or an administrator *)

\* Mutant: milestones that exist are not counted.
CrearMasHitos(h) ==
    /\ Len(hitos) < MaxFilasHitos
    /\ \E n \in 1..MaxHitos : Llega(h, "crear_hitos", {<<"hitos">>}, n)
    /\ UNCHANGED hitosVars

\* The count of the milestones and their INSERT are two statements, and no
\* column is UNIQUE.
CrearHitos(h) ==
    /\ hitos = <<>>
    /\ \E n \in 1..MaxHitos : Llega(h, "crear_hitos", {<<"hitos">>}, n)
    /\ UNCHANGED hitosVars

CommitCrearHitos(h) ==
    /\ EnCurso(h, "crear_hitos")
    /\ Len(hitos) + Dato(h) <= MaxFilasHitos
    /\ hitos' = hitos \o [i \in 1..Dato(h) |->
            [numero |-> i, estado |-> "pendiente", fecha |-> FALSE, vencido |-> FALSE]]
    /\ Termina(h, {<<"hitos">>})
    /\ UNCHANGED tarea

\* Mutant: a decision does not look at the estado.
DecidirSiempre(h, i, decision) ==
    /\ Llega(h, decision, {Fila(i)}, i)
    /\ UNCHANGED hitosVars

DecidirHito(h, i, decision) ==
    /\ hitos[i].estado = "pendiente"
    /\ Llega(h, decision, {Fila(i)}, i)
    /\ UNCHANGED hitosVars

EscribeHito(h, row) ==
    /\ hitos' = [hitos EXCEPT ![Dato(h)] = row]
    /\ Termina(h, {Fila(Dato(h))})
    /\ AtrasaTarea({Dato(h)})

CommitAprobar(h) ==
    /\ EnCurso(h, "aprobar")
    /\ EscribeHito(h, [hitos[Dato(h)] EXCEPT !.estado = "aprobado", !.fecha = TRUE])

CommitRechazar(h) ==
    /\ EnCurso(h, "rechazar")
    /\ EscribeHito(h, [hitos[Dato(h)] EXCEPT !.estado = "rechazado"])
-----------------------------------------------------------------------------
(* The task auto_approve_milestones *)

Vencidos == {i \in DOMAIN hitos : hitos[i].estado = "pendiente" /\ hitos[i].vencido}

\* 48 hours have passed since milestone i was created.
Vence(i) ==
    /\ ~hitos[i].vencido
    /\ hitos' = [hitos EXCEPT ![i].vencido = TRUE]
    /\ UNCHANGED <<servidor, tarea>>

TareaLee ==
    /\ tarea = Nada
    /\ Vencidos # {}
    /\ tarea' = [ids |-> Vencidos, vieja |-> FALSE]
    /\ UNCHANGED <<servidor, hitos>>

\* Mutant: the task flushes and never commits.
TareaSinCommit ==
    /\ tarea # Nada
    /\ tarea' = Nada
    /\ UNCHANGED <<servidor, hitos>>

\* Whatever was decided since its query is overwritten.
TareaCommit ==
    /\ tarea # Nada
    /\ hitos' = [i \in DOMAIN hitos |->
            IF i \in tarea.ids THEN [hitos[i] EXCEPT !.estado = "aprobado", !.fecha = TRUE]
            ELSE hitos[i]]
    /\ peticion' = [h \in Hilos |-> Envejece(peticion[h], {Fila(i) : i \in tarea.ids})]
    /\ obsoleta' = (obsoleta \/ tarea.vieja)
    /\ tarea' = Nada

TareaMuere ==
    /\ tarea # Nada
    /\ tarea' = Nada
    /\ UNCHANGED <<servidor, hitos>>
-----------------------------------------------------------------------------
NextHitos ==
    \/ TareaLee \/ TareaCommit \/ TareaMuere
    \/ \E i \in DOMAIN hitos : Vence(i)
    \/ \E h \in Hilos :
        \/ CrearHitos(h) \/ CommitCrearHitos(h) \/ CommitAprobar(h) \/ CommitRechazar(h)
        \/ \E i \in DOMAIN hitos :
            DecidirHito(h, i, "aprobar") \/ DecidirHito(h, i, "rechazar")

HitosOK ==
    /\ hitos \in Seq(HitoRow)
    /\ tarea \in TareaRow \cup {Nada}

todos_aprobados == hitos # <<>> /\ \A i \in DOMAIN hitos : hitos[i].estado = "aprobado"

\* Whatever races, a milestone that counts as approved has its date.
AprobadoConFecha == \A i \in DOMAIN hitos : hitos[i].estado = "aprobado" => hitos[i].fecha

\* While no commit wrote a row that had changed, milestones have different numbers.
NumerosUnicosEnSerie ==
    ~obsoleta => \A i, j \in DOMAIN hitos : hitos[i].numero = hitos[j].numero => i = j

\* Until such a commit a decision is final: the task does not approve what was
\* rejected, nor anybody reject what was approved, and a contract whose
\* milestones are all approved stays so.
DecisionFirmeEnSerie ==
    [][~obsoleta' =>
        /\ \A i \in DOMAIN hitos : hitos[i].estado # "pendiente" =>
                i \in DOMAIN hitos' /\ hitos'[i].estado = hitos[i].estado
        /\ todos_aprobados => todos_aprobados']_<<hitosVars, servidor>>

\* A milestone nobody decides on is approved by the task.
HitoResuelto ==
    \A i \in 1..MaxHitos :
        (i \in DOMAIN hitos /\ hitos[i].estado = "pendiente")
            ~> (i \in DOMAIN hitos /\ hitos[i].estado # "pendiente")
=============================================================================
