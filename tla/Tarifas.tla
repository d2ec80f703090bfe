------------------------------ MODULE Tarifas ------------------------------
(***************************************************************************)
(* Prices of the platform, shared by the modules that move money: the      *)
(* commission taken from the provider (PDS), the coins modality B costs    *)
(* and the coins a finished service earns.                                 *)
(***************************************************************************)
EXTENDS Integers

CONSTANT UmbralComision   \* COMMISSION_EXEMPT_THRESHOLD (50000 COP)

ASSUME UmbralNat == UmbralComision \in Nat

\* Modalidad of a solicitud; "ninguna" stands for the missing row.
TipoModalidad == {"A_comision", "B_sin_comision"}
Modalidad == TipoModalidad \cup {"ninguna"}

\* get_modalidad: a missing row is created with the default, A.
ModalidadEfectiva(m) == IF m = "ninguna" THEN "A_comision" ELSE m

\* int(monto_total * 0.12) under modality A from the threshold on.
Comision(modalidad, monto) ==
    IF modalidad = "A_comision" /\ monto >= UmbralComision
    THEN (12 * monto) \div 100
    ELSE 0

MonedasModalidadB == 50
MonedasGanadas == 10
=============================================================================
