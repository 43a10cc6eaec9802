--------------------------- MODULE MCCliTransfer ---------------------------
\* A small instance of CliTransfer with two streams.
EXTENDS CliTransfer, TLC

CONSTANTS s1, s2

MCStream == {s1, s2}

MCSymmetry == Permutations(MCStream)

=============================================================================
