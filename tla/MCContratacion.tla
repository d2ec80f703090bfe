--------------------------- MODULE MCContratacion ---------------------------
(***************************************************************************)
(* Small instances of Contratacion.  Amounts are scaled: the budget        *)
(* minimum and the commission threshold, both 50000 in the code, are 50.   *)
(***************************************************************************)
EXTENDS Contratacion

CONSTANTS sol, p1, p2

MCUsuarios == {sol, p1, p2}
MCPDS == {p1, p2}

\* One provider is on a limited plan, the other on the unlimited one.
MCLimite == [p \in MCPDS |-> IF p = p1 THEN 1 ELSE Nada]

\* One provider alone, on the unlimited plan.
UnPDS == {p1}
UnaPareja == {sol, p1}
SinLimite == [p \in UnPDS |-> Nada]

\* The negotiation alone: contracts are born and stay unsigned.
NextNegociacion == NextSolicitud \/ NextOferta
SpecNegociacion == Init /\ [][NextNegociacion]_vars
=============================================================================
