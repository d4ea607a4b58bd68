------------------------------ MODULE MCGate ------------------------------
EXTENDS Gate, TLC

CONSTANTS full, lite

MCRings == <<full, lite>>
MCPopulated == {<<lite, 1>>}
Symmetric == Permutations(Redeems)
=============================================================================
