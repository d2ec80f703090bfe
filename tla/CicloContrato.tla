--------------------------- MODULE CicloContrato ---------------------------
(***************************************************************************)
(* What the platform promises about each contract, whatever offers,        *)
(* moderation and wallets do around it: it is signed, delivered and        *)
(* confirmed in that order; it can be taken out of that order only towards *)
(* an inactive phase, for good; and it is paid at most once, in the very   *)
(* step of its confirmation.                                               *)
(***************************************************************************)
CONSTANT Contratos

VARIABLES
    fase,       \* phase of each contract
    cobrado     \* whether its provider was paid

vars == <<fase, cobrado>>

Fase == {"inexistente", "pendiente", "en_progreso", "completado_pendiente",
         "completado", "cancelado", "marcado"}
Inactiva == {"completado", "cancelado", "marcado"}

Init ==
    /\ fase = [k \in Contratos |-> "inexistente"]
    /\ cobrado = [k \in Contratos |-> FALSE]

Avanza(k, de, a) ==
    /\ fase[k] = de
    /\ fase' = [fase EXCEPT ![k] = a]
    /\ UNCHANGED cobrado

Nace(k) == Avanza(k, "inexistente", "pendiente")
Firma(k) == Avanza(k, "pendiente", "en_progreso")
Entrega(k) == Avanza(k, "en_progreso", "completado_pendiente")

\* The provider may go unpaid, but it is now or never.
Confirma(k) ==
    /\ fase[k] = "completado_pendiente"
    /\ ~cobrado[k]
    /\ fase' = [fase EXCEPT ![k] = "completado"]
    /\ \E pago \in BOOLEAN : cobrado' = [cobrado EXCEPT ![k] = pago]

\* A cancellation, a moderation or an override.
Interviene(k) ==
    /\ fase[k] # "inexistente"
    /\ \E e \in Inactiva : fase' = [fase EXCEPT ![k] = e]
    /\ UNCHANGED cobrado

Next ==
    \E k \in Contratos :
        Nace(k) \/ Firma(k) \/ Entrega(k) \/ Confirma(k) \/ Interviene(k)

Spec == Init /\ [][Next]_vars
=============================================================================
