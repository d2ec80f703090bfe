----------------------------- MODULE MCBilletera -----------------------------
(***************************************************************************)
(* Small instances of Billetera: a contract whose commission has to fit in *)
(* the wallet and one without commission, amounts in thousands of pesos.   *)
(***************************************************************************)
EXTENDS Billetera, TLC

CONSTANTS h1, h2, grande, chico

DosHilos == {h1, h2}
DosContratos == {grande, chico}
PrecioMC == (grande :> 50) @@ (chico :> 20)
ModoMC == [k \in DosContratos |-> "A_comision"]
=============================================================================
