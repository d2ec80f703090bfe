------------------------------ MODULE MCChamba ------------------------------
(***************************************************************************)
(* Small instances of Chamba: two racing requests of two parties, a site,  *)
(* a position inside its radius and one outside.                           *)
(***************************************************************************)
EXTENDS Chamba

CONSTANTS h1, h2

DosHilos == {h1, h2}
=============================================================================
