--------------------------- MODULE MCInterference ---------------------------
EXTENDS Interference, TLC

\* PID flows differ in nothing but their name.
FlowSymmetry == Permutations(PidFlows)
=============================================================================
