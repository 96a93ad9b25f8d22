----------------------------- MODULE MCEmployee -----------------------------
\* Small instances of Employee: the chunks c1, c2 and, for the ring buffers at
\* their limit, capacities of one and two.
EXTENDS Employee, TLC

CONSTANTS c1, c2

MCChunks == {c1, c2}
MCSymmetry == Permutations(MCChunks)
OneChunk == {c1}
=============================================================================
