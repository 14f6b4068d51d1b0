\* Two logins, by SPID, CieID or CIE and PIN, with two thunks in flight.
CONSTANTS
  Methods = {"spid", "cieL2", "cieL3"}
  Thunks = {k1, k2}
  MaxAttempts = 2
  MaxChallenges = 2
  Nothing = Nothing
SYMMETRY ThunkSymmetry
SPECIFICATION Spec
INVARIANT LoginTypeOK
INVARIANT PidOfItsAttempt
INVARIANT ProofAsRequested
INVARIANT ChallengeOfFlow
INVARIANT LoadingExplained
