---------------------------- MODULE HitosChamba ----------------------------
(***************************************************************************)
(* What the execution record promises, however its requests race: its      *)
(* milestones are reached one at a time, each after those it requires, and *)
(* none is ever lost.                                                      *)
(***************************************************************************)
VARIABLE hitos   \* the milestones reached

Hito == {"inicio", "evidencia", "cierre", "validacion", "pago_solicitante",
         "pago_prestador", "liquidacion", "final"}

Requiere == [inicio |-> {},
             evidencia |-> {"inicio"},
             cierre |-> {"inicio", "evidencia"},
             validacion |-> {"cierre"},
             pago_solicitante |-> {"cierre"},
             pago_prestador |-> {"cierre"},
             liquidacion |-> {"cierre", "pago_solicitante", "pago_prestador"},
             final |-> {"liquidacion"}]

Init == hitos = {}

Alcanza(x) == /\ Requiere[x] \subseteq hitos
              /\ hitos' = hitos \cup {x}

Next == \E x \in Hito : Alcanza(x)

Spec == Init /\ [][Next]_hitos
=============================================================================
