------------------------------ MODULE MCMaranas ------------------------------
EXTENDS Maranas, TLC

CONSTANTS h1, h2, p1, p2

DosHilos == {h1, h2}
DosPds == {p1, p2}
Simetria == Permutations(DosHilos) \cup Permutations(DosPds)
=============================================================================
