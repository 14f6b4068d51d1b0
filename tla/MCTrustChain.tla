---------------------------- MODULE MCTrustChain ----------------------------
EXTENDS TrustChain, TLC

CONSTANTS rp, other, authority, anchor

\* The relying party and another one, an intermediate authority of both and the
\* trust anchor.
ThreeLevels ==
  rp :> authority @@ other :> authority @@ authority :> anchor @@ anchor :> NoEntity

Regime(rolling, orderly, misnaming) ==
  [rolling |-> rolling, orderly |-> orderly, misnaming |-> misnaming]

\* Orderly rollovers below the anchor, emergencies up to it, wrong names with
\* rollovers of the authority, and wrong names of the authority too.
SomeRegimes ==
  {Regime({rp, authority}, TRUE, {}), Regime({authority, anchor}, FALSE, {}),
   Regime({authority}, TRUE, {rp}), Regime({}, TRUE, {rp, authority})}
OnlyMisnamed == {Regime({}, TRUE, {rp})}
=============================================================================
