------------------------------- MODULE MCLogin -------------------------------
(***************************************************************************)
(* Model checking of the login: Login.cfg gives the constants.             *)
(***************************************************************************)
EXTENDS Login, TLC

\* No thunk is named: it does not matter which of them runs what.
ThunkSymmetry == Permutations(Thunks)
=============================================================================
