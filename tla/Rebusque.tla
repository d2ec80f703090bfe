------------------------------ MODULE Rebusque ------------------------------
(***************************************************************************)
(* What the maranas promise while their requests do not overtake each      *)
(* other: published, assigned, delivered, and paid exactly when both       *)
(* parties have confirmed; the solicitante may cancel one until then.      *)
(* Once a request has decided on rows that changed meanwhile, nothing is   *)
(* promised.                                                               *)
(***************************************************************************)
EXTENDS Naturals

CONSTANT MaxFilas   \* bound on the ids

VARIABLES ciclo,      \* where each marana is
          confirman   \* the parties that confirmed the payment of each

Ids == 1..MaxFilas
Partes == {"solicitante", "prestador"}

Init == /\ ciclo = [m \in Ids |-> "inexistente"]
        /\ confirman = [m \in Ids |-> {}]

Pasa(m, de, a) ==
    /\ ciclo[m] = de
    /\ ciclo' = [ciclo EXCEPT ![m] = a]
    /\ UNCHANGED confirman

Confirma(m, parte) ==
    /\ ciclo[m] = "completado"
    /\ confirman' = [confirman EXCEPT ![m] = @ \cup {parte}]
    /\ ciclo' = [ciclo EXCEPT ![m] =
                    IF confirman'[m] = Partes THEN "pagado" ELSE "completado"]

SePierde == /\ ciclo' = [m \in Ids |-> "incierto"]
            /\ confirman' = [m \in Ids |-> {}]

Next ==
    \/ \E m \in Ids :
        \/ Pasa(m, "inexistente", "publicado")
        \/ Pasa(m, "publicado", "asignado")
        \/ Pasa(m, "asignado", "completado")
        \/ \E de \in {"publicado", "asignado", "completado"} : Pasa(m, de, "cancelado")
        \/ \E parte \in Partes : Confirma(m, parte)
    \/ SePierde

Spec == Init /\ [][Next]_<<ciclo, confirman>>
=============================================================================
