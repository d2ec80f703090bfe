------------------------------ MODULE MCCobros ------------------------------
(* The instance of Cobros that TLC checks. *)
EXTENDS Cobros

DosHilos == {1, 2}
Junio == <<2025, 6>>
=============================================================================
