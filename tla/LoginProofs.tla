----------------------------- MODULE LoginProofs -----------------------------
(***************************************************************************)
(* Proofs about the login, for any number of attempts, challenges and      *)
(* thunks in flight.                                                       *)
(***************************************************************************)
EXTENDS Login, TLAPS

Phases == {"pushed", "session", "challenged", "validated", "coded", "redeemed"}
Proved == {"validated", "coded", "redeemed"}

AttemptRecords == [method : AllMethods, proof : BOOLEAN, bound : Nat, phase : Phases, given : Nat]

\* The issuer: a code challenge per attempt.
IssuerInvariant ==
  /\ attempts \in Seq(AttemptRecords)
  /\ \A a \in Attempts : attempts[a].bound = a

\* The slices of the store name attempts that were made; the parameters of a
\* login with the PIN are of one without another proof.
StoreInvariant ==
  /\ pidScreen \in [proof : BOOLEAN] \cup {Nothing}
  /\ params # Nothing =>
       params.attempt \in Attempts
         /\ (params.method = "cieL3" => ~attempts[params.attempt].proof)
  /\ pid # Nothing => pid.code = pid.verifier
  /\ challenge # Nothing => challenge.attempt \in Attempts
  /\ validation # Nothing =>
       validation \in Attempts /\ attempts[validation].phase \in Proved

\* The web views are told what was asked for with their attempt.
ScreenInvariant ==
  /\ login # Nothing =>
       /\ login \in [attempt : Attempts, proof : BOOLEAN, app : BOOLEAN, closing : BOOLEAN]
       /\ login.proof = attempts[login.attempt].proof
  /\ cie # Nothing =>
       cie.url = Nothing \/ (cie.url \in Attempts /\ ~attempts[cie.url].proof)

ThunkOK(t) ==
  /\ t.kind = "prepare" =>
       t.method \in AllMethods /\ t.proof \in BOOLEAN /\ (t.method = "cieL3" => ~t.proof)
  /\ t.kind \in {"init", "validate", "continue"} => t.attempt \in Attempts
  /\ t.kind = "init" => attempts[t.attempt].proof
  /\ t.kind = "continue" =>
       t.verifier \in Attempts
         /\ (attempts[t.attempt].proof => attempts[t.attempt].phase \in Proved)

ThunkInvariant == DOMAIN thunk = Thunks /\ \A k \in Thunks : ThunkOK(thunk[k])

LoginInvariant == IssuerInvariant /\ StoreInvariant /\ ScreenInvariant /\ ThunkInvariant

-----------------------------------------------------------------------------
(* The issuer: attempts are added and go forward *)

\* What was asked for stays, and what is proved stays proved.
Forward ==
  /\ Attempts \subseteq Attempts'
  /\ \A a \in Attempts :
       /\ attempts'[a].proof = attempts[a].proof
       /\ attempts[a].phase \in Proved => attempts'[a].phase \in Proved

LEMMA Stays == ASSUME IssuerInvariant, UNCHANGED attempts
               PROVE  IssuerInvariant' /\ Forward
BY DEF IssuerInvariant, Forward, Attempts

LEMMA Advances ==
  ASSUME IssuerInvariant, NEW a \in Attempts, NEW phase \in Phases, Advance(a, phase),
         attempts[a].phase \in Proved => phase \in Proved
  PROVE  IssuerInvariant' /\ Forward /\ attempts'[a].phase = phase
<1> DEFINE advanced == [attempts[a] EXCEPT !.phase = phase]
<1>0. advanced \in AttemptRecords
  <2>1. attempts[a] \in AttemptRecords
    BY DEF IssuerInvariant, Attempts
  <2> QED BY <2>1 DEF AttemptRecords
<1> HIDE DEF advanced
<1>1. attempts' \in Seq(AttemptRecords) /\ Len(attempts') = Len(attempts)
  <2>1. attempts' = [attempts EXCEPT ![a] = advanced]
    BY DEF Advance, advanced
  <2> QED BY <1>0, <2>1 DEF IssuerInvariant, Attempts
<1>2. \A b \in Attempts : /\ attempts'[b].proof = attempts[b].proof
                          /\ attempts'[b].bound = attempts[b].bound
                          /\ b # a => attempts'[b] = attempts[b]
  BY DEF IssuerInvariant, Advance, Attempts, AttemptRecords
<1>3. attempts'[a].phase = phase
  BY DEF IssuerInvariant, Advance, Attempts, AttemptRecords
<1> QED BY <1>1, <1>2, <1>3 DEF IssuerInvariant, Forward, Attempts

LEMMA ChallengeAdvances ==
  ASSUME IssuerInvariant, NEW a \in Attempts, attempts[a].phase \notin Proved,
         attempts' = [attempts EXCEPT ![a].phase = "challenged", ![a].given = @ + 1]
  PROVE  IssuerInvariant' /\ Forward
<1> DEFINE advanced == [attempts[a] EXCEPT !.phase = "challenged", !.given = @ + 1]
<1>0. advanced \in AttemptRecords
  <2>1. attempts[a] \in AttemptRecords
    BY DEF IssuerInvariant, Attempts
  <2>2. attempts[a].given + 1 \in Nat /\ "challenged" \in Phases
    BY <2>1 DEF AttemptRecords, Phases
  <2> HIDE DEF Phases
  <2> QED BY <2>1, <2>2 DEF AttemptRecords
<1> HIDE DEF advanced
<1>1. attempts' \in Seq(AttemptRecords) /\ Len(attempts') = Len(attempts)
  <2>1. attempts' = [attempts EXCEPT ![a] = advanced]
    BY DEF advanced
  <2> QED BY <1>0, <2>1 DEF IssuerInvariant, Attempts
<1>2. \A b \in Attempts : /\ attempts'[b].proof = attempts[b].proof
                          /\ attempts'[b].bound = attempts[b].bound
                          /\ b # a => attempts'[b] = attempts[b]
  BY DEF IssuerInvariant, Attempts, AttemptRecords
<1> QED BY <1>1, <1>2 DEF IssuerInvariant, Forward, Attempts

LEMMA IsPushed ==
  ASSUME LoginInvariant, NEW k \in Thunks, thunk[k].kind = "prepare",
         attempts' = Append(attempts, Pushed(k, Len(attempts) + 1))
  PROVE  /\ IssuerInvariant' /\ Forward
         /\ Len(attempts) + 1 \in Attempts'
         /\ attempts'[Len(attempts) + 1].proof = thunk[k].proof
<1>1. Pushed(k, Len(attempts) + 1) \in AttemptRecords
  BY DEF LoginInvariant, IssuerInvariant, ThunkInvariant, ThunkOK, Pushed, AttemptRecords,
         CodeChallenge, Phases
<1>2. /\ attempts' \in Seq(AttemptRecords)
      /\ Len(attempts') = Len(attempts) + 1
      /\ \A b \in Attempts : attempts'[b] = attempts[b]
      /\ attempts'[Len(attempts) + 1] = Pushed(k, Len(attempts) + 1)
  BY <1>1 DEF LoginInvariant, IssuerInvariant, Attempts
<1>3. /\ Pushed(k, Len(attempts) + 1).bound = Len(attempts) + 1
      /\ Pushed(k, Len(attempts) + 1).proof = thunk[k].proof
  BY DEF Pushed, CodeChallenge
<1>4. Len(attempts) \in Nat
  BY DEF LoginInvariant, IssuerInvariant
<1> QED BY <1>2, <1>3, <1>4 DEF LoginInvariant, IssuerInvariant, Forward, Attempts

\* The redirect of a web view leaves the issuer where the proof that was asked
\* for has been given, or was not asked for.
LEMMA IsAuthenticated ==
  ASSUME IssuerInvariant, NEW a \in Attempts, NEW proof \in BOOLEAN, Authenticated(a, proof)
  PROVE  IssuerInvariant' /\ Forward
<1>1. CASE attempts[a].phase = "pushed"
  <2>1. (IF proof THEN "session" ELSE "coded") \in Phases
    BY DEF Phases
  <2> QED BY <1>1, <2>1, Advances DEF Authenticated, Proved
<1>2. CASE attempts[a].phase # "pushed"
  BY <1>2, Stays DEF Authenticated
<1> QED BY <1>1, <1>2
-----------------------------------------------------------------------------
(* What the other parts keep when the issuer goes forward *)

LEMMA ScreensKept ==
  ASSUME ScreenInvariant, Forward, UNCHANGED <<login, cie>>
  PROVE  ScreenInvariant'
<1>1. login # Nothing => login' \in [attempt : Attempts', proof : BOOLEAN, app : BOOLEAN,
                                     closing : BOOLEAN]
  BY DEF ScreenInvariant, Forward
<1>2. login # Nothing => login.attempt \in Attempts
  BY DEF ScreenInvariant
<1> QED BY <1>1, <1>2 DEF ScreenInvariant, Forward

LEMMA ThunkKept == ASSUME NEW t, ThunkOK(t), Forward PROVE ThunkOK(t)'
BY DEF ThunkOK, Forward

LEMMA ThunksKept ==
  ASSUME ThunkInvariant, Forward, UNCHANGED thunk PROVE ThunkInvariant'
BY DEF ThunkInvariant, ThunkOK, Forward

\* A slice stays, is dropped, or names an attempt that was made.
LEMMA StoreKept ==
  ASSUME StoreInvariant, Forward, UNCHANGED pidScreen,
         \/ params' \in {params, Nothing}
         \/ /\ params'.attempt \in Attempts'
            /\ params'.method = "cieL3" => ~attempts'[params'.attempt].proof,
         pid' \in {pid, Nothing},
         challenge' \in {challenge, Nothing} \/ challenge'.attempt \in Attempts',
         validation' \in {validation, Nothing}
  PROVE  StoreInvariant'
<1>1. params # Nothing =>
        params.attempt \in Attempts' /\ attempts'[params.attempt].proof = attempts[params.attempt].proof
  BY DEF StoreInvariant, Forward
<1>2. validation # Nothing => validation \in Attempts' /\ attempts'[validation].phase \in Proved
  BY DEF StoreInvariant, Forward
<1>3. challenge # Nothing => challenge.attempt \in Attempts'
  BY DEF StoreInvariant, Forward
<1> QED BY <1>1, <1>2, <1>3 DEF StoreInvariant

LEMMA ThunkRuns ==
  ASSUME ThunkInvariant, Forward, NEW k \in Thunks, NEW t, Run(k, t), ThunkOK(t)'
  PROVE  ThunkInvariant'
BY DEF ThunkInvariant, ThunkOK, Forward, Run

LEMMA ThunkEnds ==
  ASSUME ThunkInvariant, Forward, NEW k \in Thunks, End(k)
  PROVE  ThunkInvariant'
BY ThunkRuns DEF ThunkOK, End, Idle

\* The redirect handlers keep the slices, and what they run knows its attempt.
LEMMA InitDispatched ==
  ASSUME StoreInvariant, ThunkInvariant, Forward, NEW k \in Thunks, NEW a \in Attempts,
         attempts[a].proof, DispatchInit(k, a), UNCHANGED <<pid, pidScreen>>
  PROVE  StoreInvariant' /\ ThunkInvariant'
<1>1. StoreInvariant'
  BY StoreKept DEF DispatchInit, MrtdReset
<1>2. ThunkOK([kind |-> "init", attempt |-> a])'
  BY DEF ThunkOK, Forward
<1>3. ThunkInvariant'
  BY <1>2, ThunkRuns, ThunksKept DEF DispatchInit
<1> QED BY <1>1, <1>3

LEMMA ContinueDispatched ==
  ASSUME StoreInvariant, ThunkInvariant, Forward, NEW k \in Thunks, NEW a \in Attempts,
         attempts[a].proof => attempts[a].phase \in Proved, DispatchContinue(k, a),
         UNCHANGED <<pid, pidScreen>>
  PROVE  StoreInvariant' /\ ThunkInvariant'
<1>1. StoreInvariant'
  BY StoreKept DEF DispatchContinue
<1>2. CASE params = Nothing
  BY <1>1, <1>2, ThunksKept DEF DispatchContinue
<1>3. CASE params # Nothing
  <2>0. PICK v : v = params.attempt
    OBVIOUS
  <2>1. ThunkOK([kind |-> "continue", attempt |-> a, verifier |-> v])'
    <3>1. v \in Attempts'
      BY <1>3, <2>0 DEF StoreInvariant, Forward
    <3>2. a \in Attempts' /\ (attempts'[a].proof => attempts'[a].phase \in Proved)
      BY DEF Forward
    <3> QED BY <3>1, <3>2 DEF ThunkOK
  <2> QED BY <1>1, <1>3, <2>0, <2>1, ThunkRuns DEF DispatchContinue
<1> QED BY <1>2, <1>3
-----------------------------------------------------------------------------
(* The steps *)

LEMMA PrepareStep ==
  ASSUME LoginInvariant, NEW k \in Thunks,
         SelectIdp(k) \/ TapCieId(k) \/ ConfirmPin(k) \/ PrepareFulfilled(k) \/ PrepareRejected(k)
  PROVE  LoginInvariant'
<1>1. ASSUME NEW m \in AllMethods, NEW proof \in BOOLEAN, m = "cieL3" => ~proof,
             Prepare(k, m, proof)
      PROVE  LoginInvariant'
  <2>1. IssuerInvariant' /\ Forward
    BY <1>1, Stays DEF LoginInvariant, Prepare
  <2>2. ThunkOK([kind |-> "prepare", method |-> m, proof |-> proof])'
    BY <1>1 DEF ThunkOK
  <2>3. ThunkInvariant'
    BY <1>1, <2>1, <2>2, ThunkRuns DEF LoginInvariant, Prepare
  <2>4. ScreenInvariant'
    BY <1>1, <2>1, ScreensKept DEF LoginInvariant, Prepare, screens
  <2>5. StoreInvariant'
    BY <1>1, <2>1, StoreKept DEF LoginInvariant, Prepare, screens
  <2> QED BY <2>1, <2>3, <2>4, <2>5 DEF LoginInvariant
<1>2. CASE SelectIdp(k) \/ TapCieId(k) \/ ConfirmPin(k)
  <2>1. OnPidScreen => pidScreen.proof \in BOOLEAN
    BY DEF OnPidScreen, LoginInvariant, StoreInvariant
  <2> QED BY <1>1, <1>2, <2>1 DEF SelectIdp, TapCieId, ConfirmPin, AllMethods
<1>3. CASE PrepareFulfilled(k)
  <2> DEFINE a == Len(attempts) + 1
  <2>1. /\ IssuerInvariant' /\ Forward
        /\ a \in Attempts'
        /\ attempts'[a].proof = thunk[k].proof
    BY <1>3, IsPushed DEF PrepareFulfilled
  <2>2. ThunkInvariant'
    BY <1>3, <2>1, ThunkEnds DEF LoginInvariant, PrepareFulfilled
  <2>3. thunk[k].proof \in BOOLEAN /\ (thunk[k].method = "cieL3" => ~thunk[k].proof)
    BY <1>3 DEF LoginInvariant, ThunkInvariant, ThunkOK, PrepareFulfilled
  <2>4. params' = [attempt |-> a, method |-> thunk[k].method]
    BY <1>3 DEF PrepareFulfilled
  <2>5. StoreInvariant'
    <3>1. params'.attempt = a /\ params'.method = thunk[k].method
      BY <2>4
    <3>2. UNCHANGED <<pidScreen, pid, challenge, validation>>
      BY <1>3 DEF PrepareFulfilled
    <3> HIDE DEF a
    <3> QED BY <2>1, <2>3, <3>1, <3>2, StoreKept DEF LoginInvariant
  <2>6. ScreenInvariant'
    <3>1. CASE thunk[k].method = "cieL3"
      BY <1>3, <2>1, <3>1, ScreensKept DEF LoginInvariant, PrepareFulfilled
    <3>2. CASE thunk[k].method # "cieL3"
      <4>1. login' = [attempt |-> a, proof |-> thunk[k].proof, app |-> FALSE, closing |-> FALSE]
        BY <1>3, <3>2 DEF PrepareFulfilled, OpenLogin
      <4>2. login' \in [attempt : Attempts', proof : BOOLEAN, app : BOOLEAN, closing : BOOLEAN]
        BY <2>1, <2>3, <4>1
      <4>3. UNCHANGED cie
        BY <1>3 DEF PrepareFulfilled
      <4> HIDE DEF a
      <4> QED BY <2>1, <4>1, <4>2, <4>3 DEF LoginInvariant, ScreenInvariant, Forward
    <3> QED BY <3>1, <3>2
  <2> QED BY <2>1, <2>2, <2>5, <2>6 DEF LoginInvariant
<1>4. CASE PrepareRejected(k)
  <2>1. IssuerInvariant' /\ Forward
    BY <1>4, Stays DEF LoginInvariant, PrepareRejected
  <2>2. ThunkInvariant' /\ ScreenInvariant' /\ StoreInvariant'
    BY <1>4, <2>1, ThunkEnds, ScreensKept, StoreKept DEF LoginInvariant, PrepareRejected, screens
  <2> QED BY <2>1, <2>2 DEF LoginInvariant
<1> QED BY <1>2, <1>3, <1>4

LEMMA MrtdStep ==
  ASSUME LoginInvariant, NEW k \in Thunks,
         InitFulfilled(k) \/ ValidateFulfilled(k) \/ MrtdFails(k) \/ CardRead(k)
           \/ CallbackRedirect(k)
  PROVE  LoginInvariant'
<1>1. CASE InitFulfilled(k)
  <2> DEFINE a == thunk[k].attempt
  <2>1. a \in Attempts
    BY <1>1 DEF LoginInvariant, ThunkInvariant, ThunkOK, InitFulfilled
  <2>2. IssuerInvariant' /\ Forward
    BY <1>1, <2>1, ChallengeAdvances
    DEF LoginInvariant, InitFulfilled, ChallengeInfo, Proved
  <2>3. challenge' = [attempt |-> a, serial |-> attempts[a].given + 1]
    BY <1>1 DEF InitFulfilled
  <2>4. StoreInvariant'
    <3>1. challenge'.attempt \in Attempts'
      BY <2>1, <2>2, <2>3 DEF Forward
    <3>2. UNCHANGED <<pidScreen, pid, params, validation>>
      BY <1>1 DEF InitFulfilled
    <3> QED BY <2>2, <3>1, <3>2, StoreKept DEF LoginInvariant
  <2>5. ThunkInvariant' /\ ScreenInvariant'
    BY <1>1, <2>2, ThunkEnds, ScreensKept DEF LoginInvariant, InitFulfilled
  <2> QED BY <2>2, <2>4, <2>5 DEF LoginInvariant
<1>2. CASE ValidateFulfilled(k)
  <2> DEFINE a == thunk[k].attempt
  <2>1. a \in Attempts
    BY <1>2 DEF LoginInvariant, ThunkInvariant, ThunkOK, ValidateFulfilled
  <2>2. IssuerInvariant' /\ Forward /\ attempts'[a].phase = "validated"
    BY <1>2, <2>1, Advances DEF LoginInvariant, ValidateFulfilled, Proved, Phases
  <2>3. StoreInvariant'
    BY <1>2, <2>1, <2>2
    DEF LoginInvariant, StoreInvariant, ValidateFulfilled, Forward, screens, Proved
  <2>4. ThunkInvariant' /\ ScreenInvariant'
    BY <1>2, <2>2, ThunkEnds, ScreensKept DEF LoginInvariant, ValidateFulfilled, screens
  <2> QED BY <2>2, <2>3, <2>4 DEF LoginInvariant
<1>3. CASE MrtdFails(k)
  <2>1. IssuerInvariant' /\ Forward
    BY <1>3, Stays DEF LoginInvariant, MrtdFails
  <2>2. ThunkInvariant' /\ ScreenInvariant' /\ StoreInvariant'
    BY <1>3, <2>1, ThunkEnds, ScreensKept, StoreKept
    DEF LoginInvariant, MrtdFails, MrtdRejected, MrtdReset, screens
  <2> QED BY <2>1, <2>2 DEF LoginInvariant
<1>4. CASE CardRead(k)
  <2>1. IssuerInvariant' /\ Forward /\ ScreenInvariant'
    BY <1>4, Stays, ScreensKept DEF LoginInvariant, CardRead
  <2>2. StoreInvariant'
    BY <1>4, <2>1, StoreKept DEF LoginInvariant, CardRead, MrtdReset
  <2>3. CASE params = Nothing \/ challenge = Nothing
    <3>1. ThunkInvariant'
      BY <1>4, <2>1, <2>3, ThunksKept DEF LoginInvariant, CardRead
    <3> QED BY <2>1, <2>2, <3>1 DEF LoginInvariant
  <2>4. CASE ~(params = Nothing \/ challenge = Nothing)
    <3>1. PICK a, signed : a = challenge.attempt /\ signed = internal.reading
      OBVIOUS
    <3>2. ThunkOK([kind |-> "validate", attempt |-> a, signed |-> signed])'
      <4>1. a \in Attempts'
        BY <2>1, <2>4, <3>1 DEF LoginInvariant, StoreInvariant, Forward
      <4> QED BY <4>1 DEF ThunkOK
    <3>3. ThunkInvariant'
      BY <1>4, <2>1, <2>4, <3>1, <3>2, ThunkRuns DEF LoginInvariant, CardRead
    <3> QED BY <2>1, <2>2, <3>3 DEF LoginInvariant
  <2> QED BY <2>3, <2>4
<1>5. CASE CallbackRedirect(k)
  <2>1. validation \in Attempts /\ attempts[validation].phase \in Proved
    BY <1>5 DEF LoginInvariant, StoreInvariant, CallbackRedirect
  <2>2. IssuerInvariant' /\ Forward
    BY <1>5, <2>1, Advances, Stays DEF LoginInvariant, CallbackRedirect, Proved, Phases
  <2>3. StoreInvariant' /\ ThunkInvariant'
    BY <1>5, <2>1, <2>2, ContinueDispatched DEF LoginInvariant, CallbackRedirect
  <2>4. ScreenInvariant'
    BY <1>5, <2>2, ScreensKept DEF LoginInvariant, CallbackRedirect
  <2> QED BY <2>2, <2>3, <2>4 DEF LoginInvariant
<1> QED BY <1>1, <1>2, <1>3, <1>4, <1>5

LEMMA ContinueStep ==
  ASSUME LoginInvariant, NEW k \in Thunks,
         ContinueFulfilled(k) \/ ContinueRejected(k) \/ LoginRedirect(k) \/ CieRedirect(k)
  PROVE  LoginInvariant'
<1>1. CASE ContinueFulfilled(k)
  <2>1. thunk[k].attempt \in Attempts /\ thunk[k].verifier \in Attempts
    BY <1>1 DEF LoginInvariant, ThunkInvariant, ThunkOK, ContinueFulfilled
  <2>2. IssuerInvariant' /\ Forward
    BY <1>1, <2>1, Advances DEF LoginInvariant, ContinueFulfilled, Proved, Phases
  \* The code is bound to the verifier that redeems it.
  <2>3. pid'.code = pid'.verifier
    BY <1>1, <2>1
    DEF LoginInvariant, IssuerInvariant, ContinueFulfilled, CodeExchanged, CodeChallenge
  <2>4. StoreInvariant'
    <3>1. params' = Nothing /\ UNCHANGED <<challenge, validation, pidScreen>>
      BY <1>1 DEF ContinueFulfilled, screens
    <3> QED BY <2>2, <2>3, <3>1 DEF LoginInvariant, StoreInvariant, Forward
  <2>5. ThunkInvariant' /\ ScreenInvariant'
    BY <1>1, <2>2, ThunkEnds, ScreensKept DEF LoginInvariant, ContinueFulfilled, screens
  <2> QED BY <2>2, <2>4, <2>5 DEF LoginInvariant
<1>2. CASE ContinueRejected(k)
  <2>1. IssuerInvariant' /\ Forward
    BY <1>2, Stays DEF LoginInvariant, ContinueRejected
  <2>2. ThunkInvariant' /\ ScreenInvariant' /\ StoreInvariant'
    BY <1>2, <2>1, ThunkEnds, ScreensKept, StoreKept
    DEF LoginInvariant, ContinueRejected, screens
  <2> QED BY <2>1, <2>2 DEF LoginInvariant
<1>3. CASE LoginRedirect(k)
  <2> DEFINE a == login.attempt
  <2>1. /\ a \in Attempts /\ attempts[a].proof \in BOOLEAN
        /\ login \in [attempt : Attempts, proof : BOOLEAN, app : BOOLEAN, closing : BOOLEAN]
        /\ login.proof = attempts[a].proof
    BY <1>3 DEF LoginInvariant, ScreenInvariant, LoginRedirect
  <2>2. IssuerInvariant' /\ Forward
    BY <1>3, <2>1, IsAuthenticated DEF LoginInvariant, LoginRedirect
  <2>3. UNCHANGED <<pid, pidScreen>>
    BY <1>3 DEF LoginRedirect
  <2>4. StoreInvariant' /\ ThunkInvariant'
    <3>1. CASE login.proof
      BY <1>3, <2>1, <2>2, <2>3, <3>1, InitDispatched DEF LoginInvariant, LoginRedirect
    <3>2. CASE ~login.proof
      BY <1>3, <2>1, <2>2, <2>3, <3>2, ContinueDispatched DEF LoginInvariant, LoginRedirect
    <3> QED BY <3>1, <3>2
  <2>5. ScreenInvariant'
    <3>1. CASE login.closing
      BY <1>3, <2>2, <3>1 DEF LoginInvariant, ScreenInvariant, LoginRedirect, Forward
    <3>2. CASE ~login.closing
      <4>1. login' = [login EXCEPT !.closing = TRUE] /\ UNCHANGED cie
        BY <1>3, <3>2 DEF LoginRedirect
      <4>2. login'.attempt = a /\ login'.proof = login.proof
        BY <2>1, <4>1
      <4>3. login' \in [attempt : Attempts', proof : BOOLEAN, app : BOOLEAN, closing : BOOLEAN]
        BY <2>1, <2>2, <4>1 DEF Forward
      <4> HIDE DEF a
      <4> QED BY <2>1, <2>2, <4>1, <4>2, <4>3 DEF LoginInvariant, ScreenInvariant, Forward
    <3> QED BY <3>1, <3>2
  <2> QED BY <2>2, <2>4, <2>5 DEF LoginInvariant
<1>4. CASE CieRedirect(k)
  <2>1. cie.url \in Attempts /\ ~attempts[cie.url].proof
    BY <1>4 DEF LoginInvariant, ScreenInvariant, CieRedirect
  <2>2. IssuerInvariant' /\ Forward
    BY <1>4, <2>1, IsAuthenticated DEF LoginInvariant, CieRedirect
  <2>3. StoreInvariant' /\ ThunkInvariant'
    BY <1>4, <2>1, <2>2, ContinueDispatched DEF LoginInvariant, CieRedirect
  <2>4. ScreenInvariant'
    <3>1. cie' = Nothing /\ UNCHANGED login
      BY <1>4 DEF CieRedirect
    <3>2. login # Nothing => login' \in [attempt : Attempts', proof : BOOLEAN, app : BOOLEAN,
                                         closing : BOOLEAN]
      BY <2>2, <3>1 DEF LoginInvariant, ScreenInvariant, Forward
    <3> QED BY <2>2, <3>1, <3>2 DEF LoginInvariant, ScreenInvariant, Forward
  <2> QED BY <2>2, <2>3, <2>4 DEF LoginInvariant
<1> QED BY <1>1, <1>2, <1>3, <1>4

\* The screens that open, go on or close, and the resets.
LEMMA OtherStep ==
  ASSUME LoginInvariant,
         \/ OpenPidScreen \/ LeavePidScreen \/ ToggleProof
         \/ LoginClosed \/ OpenCieIdApp \/ CieIdAppAnswers \/ CieIdFails
         \/ ConfirmCan \/ InternalClosed \/ CanCancelled \/ InternalFails
         \/ OpenCie \/ ReadCard \/ CieClosed \/ CieFails \/ PidSliceReset \/ Restart
  PROVE  LoginInvariant'
<1>1. UNCHANGED attempts /\ IssuerInvariant' /\ Forward
  BY Stays
  DEF LoginInvariant, OpenPidScreen, LeavePidScreen, OnPidScreen, ToggleProof,
      LoginClosed, OpenCieIdApp, CieIdAppAnswers, CieIdFails,
      ConfirmCan, InternalClosed, CanCancelled, InternalFails, OpenCie, ReadCard, CieClosed,
      CieFails, PidSliceReset, Restart
<1>2. ThunkInvariant'
  <2>1. CASE UNCHANGED thunk
    BY <1>1, <2>1, ThunksKept DEF LoginInvariant
  <2>2. CASE Restart
    BY <2>2 DEF Restart, ThunkInvariant, ThunkOK, Idle
  <2> QED BY <2>1, <2>2
      DEF OpenPidScreen, LeavePidScreen, OnPidScreen, ToggleProof,
          LoginClosed, OpenCieIdApp, CieIdAppAnswers, CieIdFails, ConfirmCan,
          InternalClosed, CanCancelled, InternalFails, OpenCie, ReadCard, CieClosed, CieFails,
          PidSliceReset
<1>3. StoreInvariant'
  <2>1. /\ params' \in {params, Nothing} /\ pid' \in {pid, Nothing}
        /\ challenge' \in {challenge, Nothing} /\ validation' \in {validation, Nothing}
    BY DEF OpenPidScreen, LeavePidScreen, OnPidScreen, ToggleProof,
           LoginClosed, OpenCieIdApp, CieIdAppAnswers, CieIdFails, ConfirmCan,
           InternalClosed, CanCancelled, InternalFails, OpenCie, ReadCard, CieClosed, CieFails,
           PidSliceReset, Restart, PidFlowReset, MrtdReset, slices
  <2>2. pidScreen' \in [proof : BOOLEAN] \cup {Nothing}
    <3>1. pidScreen \in [proof : BOOLEAN] \cup {Nothing}
      BY DEF LoginInvariant, StoreInvariant
    <3>2. CASE OpenPidScreen \/ LeavePidScreen \/ Restart
      <4>1. [proof |-> TRUE] \in [proof : BOOLEAN]
        OBVIOUS
      <4>2. pidScreen' \in {[proof |-> TRUE], Nothing}
        BY <3>2 DEF OpenPidScreen, LeavePidScreen, Restart
      <4> QED BY <4>1, <4>2
    <3>3. CASE ToggleProof
      <4>1. pidScreen' = [proof |-> ~pidScreen.proof]
        BY <3>3 DEF ToggleProof
      <4>2. (~pidScreen.proof) \in BOOLEAN
        OBVIOUS
      <4> QED BY <4>1, <4>2
    <3>4. CASE UNCHANGED pidScreen
      BY <3>1, <3>4
    <3> QED BY <3>2, <3>3, <3>4
        DEF LoginClosed, OpenCieIdApp, CieIdAppAnswers, CieIdFails, ConfirmCan, InternalClosed,
            CanCancelled, InternalFails, OpenCie, ReadCard, CieClosed, CieFails, PidSliceReset,
            screens
  <2> QED BY <1>1, <2>1, <2>2 DEF LoginInvariant, StoreInvariant, Attempts
<1>4. ScreenInvariant'
  <2>1. CASE UNCHANGED <<login, cie>>
    BY <1>1, <2>1, ScreensKept DEF LoginInvariant
  <2>2. CASE LoginClosed \/ CieIdFails \/ OpenCie \/ CieClosed \/ CieFails \/ Restart
    BY <1>1, <2>2
    DEF LoginInvariant, ScreenInvariant, Attempts, LoginClosed, CieIdFails, OpenCie, CieClosed,
        CieFails, Restart
  <2>3. CASE OpenCieIdApp \/ CieIdAppAnswers
    BY <1>1, <2>3
    DEF LoginInvariant, ScreenInvariant, Attempts, OpenCieIdApp, CieIdAppAnswers
  <2>4. CASE ReadCard
    BY <1>1, <2>4
    DEF LoginInvariant, ScreenInvariant, StoreInvariant, Attempts, ReadCard, PageForReader
  <2> QED BY <2>1, <2>2, <2>3, <2>4
      DEF OpenPidScreen, LeavePidScreen, OnPidScreen, ToggleProof,
          ConfirmCan, InternalClosed, CanCancelled, InternalFails, PidSliceReset,
          screens
<1> QED BY <1>1, <1>2, <1>3, <1>4 DEF LoginInvariant
-----------------------------------------------------------------------------
(* The loading of the buttons *)

LoadingInvariant == DOMAIN thunk = Thunks /\ LoadingExplained

\* A thunk that prepares a login goes on, and no other method begins to load
\* than one it is for or that of the parameters, which stay; or else the login
\* was overtaken.
LEMMA LoadingKept ==
  ASSUME LoadingInvariant, DOMAIN thunk' = Thunks,
         \A k \in Thunks : thunk[k].kind = "prepare" => thunk'[k] = thunk[k],
         overtaken => overtaken',
         \/ overtaken'
         \/ UNCHANGED params /\ (loading' \subseteq loading
                                 \/ (params # Nothing /\ loading' = loading \cup {params.method}))
         \/ params = Nothing /\ loading' \subseteq loading
         \/ loading' \subseteq loading \ {MethodOf(params)}
  PROVE  LoadingInvariant'
BY DEF LoadingInvariant, LoadingExplained, MethodOf

LEMMA LoadingStep ==
  ASSUME LoginInvariant, LoadingInvariant, Next PROVE LoadingInvariant'
<1> USE DEF LoadingInvariant
<1>1. ASSUME NEW k \in Thunks, SelectIdp(k) \/ TapCieId(k) \/ ConfirmPin(k)
      PROVE  LoadingInvariant'
  <2>1. PICK m, p : Prepare(k, m, p)
    BY <1>1 DEF SelectIdp, TapCieId, ConfirmPin
  <2> PICK t : t = [kind |-> "prepare", method |-> m, proof |-> p]
    OBVIOUS
  <2>2. /\ thunk' = [thunk EXCEPT ![k] = t] /\ thunk[k] = Idle
        /\ loading' = loading \cup {m} /\ UNCHANGED <<params, overtaken>>
    BY <2>1 DEF Prepare, Loads, Run
  <2>3. \A j \in Thunks : j # k => thunk'[j] = thunk[j]
    BY <2>2
  <2>4. thunk'[k].kind = "prepare" /\ thunk'[k].method = m
    BY <2>2
  <2>5. thunk[k].kind # "prepare"
    BY <2>2 DEF Idle
  <2> QED BY <2>2, <2>3, <2>4, <2>5 DEF LoadingExplained
<1>2. ASSUME NEW k \in Thunks, PrepareFulfilled(k) \/ PrepareRejected(k)
      PROVE  LoadingInvariant'
  <2>1. /\ DOMAIN thunk' = Thunks
        /\ \A j \in Thunks : j # k => thunk'[j] = thunk[j]
    BY <1>2 DEF PrepareFulfilled, PrepareRejected, End, Run
  <2>2. overtaken \/ params # Nothing => overtaken'
    BY <1>2 DEF PrepareFulfilled, PrepareRejected
  <2>3. CASE PrepareFulfilled(k)
    <3>1. /\ params' = [attempt |-> Len(attempts) + 1, method |-> thunk[k].method]
          /\ UNCHANGED loading
      BY <2>3 DEF PrepareFulfilled
    <3>2. params'.method = thunk[k].method /\ params' # Nothing
      <4>1. thunk[k].method \in AllMethods /\ Len(attempts) + 1 \in Nat
        BY <2>3 DEF LoginInvariant, IssuerInvariant, ThunkInvariant, ThunkOK, PrepareFulfilled
      <4> QED BY <3>1, <4>1, LoginAssumption
    <3> QED BY <2>1, <2>2, <3>1, <3>2 DEF LoadingExplained
  <2>4. CASE PrepareRejected(k)
    BY <2>1, <2>2, <2>4 DEF PrepareRejected, Ends, LoadingExplained
  <2> QED BY <1>2, <2>3, <2>4
<1>3. ASSUME NEW k \in Thunks,
             \/ InitFulfilled(k) \/ ValidateFulfilled(k) \/ MrtdFails(k)
             \/ ContinueFulfilled(k) \/ ContinueRejected(k)
      PROVE  LoadingInvariant'
  <2>1. DOMAIN thunk' = Thunks /\ \A j \in Thunks : thunk[j].kind = "prepare" => thunk'[j] = thunk[j]
    BY <1>3 DEF InitFulfilled, ValidateFulfilled, MrtdFails, MrtdRejected, ContinueFulfilled,
                ContinueRejected, End, Run
  <2>2. overtaken => overtaken'
    BY <1>3 DEF InitFulfilled, ValidateFulfilled, MrtdFails, MrtdRejected, ContinueFulfilled,
                ContinueRejected
  <2>3. UNCHANGED <<params, loading>> \/ loading' \subseteq loading \ {MethodOf(params)}
    BY <1>3 DEF InitFulfilled, ValidateFulfilled, MrtdFails, MrtdRejected, ContinueFulfilled,
                ContinueRejected, Ends
  <2> QED BY <2>1, <2>2, <2>3, LoadingKept
<1>4. ASSUME NEW k \in Thunks,
             LoginRedirect(k) \/ CardRead(k) \/ CallbackRedirect(k) \/ CieRedirect(k)
      PROVE  LoadingInvariant'
  <2>1. thunk[k].kind # "prepare"
    <3>1. thunk[k] = Idle
      BY <1>4, Zenon DEF LoginRedirect, CardRead, CallbackRedirect, CieRedirect
    <3> QED BY <3>1 DEF Idle
  <2>2. DOMAIN thunk' = Thunks /\ \A j \in Thunks : thunk[j].kind = "prepare" => thunk'[j] = thunk[j]
    <3>1. UNCHANGED thunk \/ \E t : Run(k, t)
      <4>1. ASSUME NEW a, DispatchInit(k, a) PROVE UNCHANGED thunk \/ \E t : Run(k, t)
        BY <4>1 DEF DispatchInit
      <4>2. ASSUME NEW a, DispatchContinue(k, a) PROVE UNCHANGED thunk \/ \E t : Run(k, t)
        BY <4>2 DEF DispatchContinue
      <4>3. CASE CardRead(k)
        BY <4>3 DEF CardRead
      <4> QED BY <1>4, <4>1, <4>2, <4>3 DEF LoginRedirect, CallbackRedirect, CieRedirect
    <3> QED BY <2>1, <3>1 DEF Run
  <2>3. overtaken => overtaken'
    BY <1>4 DEF LoginRedirect, CardRead, CallbackRedirect, CieRedirect, DispatchInit,
                DispatchContinue
  <2>4. \/ UNCHANGED params /\ (loading' \subseteq loading
                                \/ (params # Nothing /\ loading' = loading \cup {params.method}))
        \/ loading' \subseteq loading \ {MethodOf(params)}
    <3>1. ASSUME NEW a, DispatchInit(k, a)
          PROVE  UNCHANGED params /\ loading' \subseteq loading
      BY <3>1 DEF DispatchInit, Ends
    <3>2. ASSUME NEW a, DispatchContinue(k, a)
          PROVE  UNCHANGED params /\ (loading' \subseteq loading
                                \/ (params # Nothing /\ loading' = loading \cup {params.method}))
      BY <3>2 DEF DispatchContinue, Ends, Loads
    <3>3. CASE LoginRedirect(k) \/ CallbackRedirect(k) \/ CieRedirect(k)
      BY <3>1, <3>2, <3>3 DEF LoginRedirect, CallbackRedirect, CieRedirect
    <3>4. CASE CardRead(k)
      BY <3>4 DEF CardRead, Ends
    <3> QED BY <1>4, <3>3, <3>4
  <2> QED BY <2>2, <2>3, <2>4, LoadingKept
<1>5. CASE \/ OpenPidScreen \/ LeavePidScreen \/ ToggleProof
           \/ LoginClosed \/ OpenCieIdApp \/ CieIdAppAnswers
           \/ ConfirmCan \/ InternalClosed \/ OpenCie \/ ReadCard \/ CieClosed
  <2>1. CASE InternalClosed
    <3>1. UNCHANGED <<thunk, params, loading>>
      BY <2>1 DEF InternalClosed
    <3>2. overtaken => overtaken'
      BY <2>1 DEF InternalClosed
    <3> QED BY <3>1, <3>2 DEF LoadingExplained
  <2>2. CASE \/ OpenPidScreen \/ LeavePidScreen \/ ToggleProof
             \/ LoginClosed \/ OpenCieIdApp \/ CieIdAppAnswers
             \/ ConfirmCan \/ OpenCie \/ ReadCard \/ CieClosed
    <3>1. UNCHANGED <<thunk, params, loading, overtaken>>
      BY <2>2 DEF slices, OpenPidScreen, LeavePidScreen, OnPidScreen, ToggleProof,
                  LoginClosed, OpenCieIdApp, CieIdAppAnswers, ConfirmCan,
                  OpenCie, ReadCard, CieClosed
    <3> QED BY <3>1 DEF LoadingExplained
  <2> QED BY <1>5, <2>1, <2>2
<1>6. CASE CieIdFails \/ CanCancelled \/ InternalFails \/ CieFails \/ PidSliceReset \/ Restart
  BY <1>6 DEF CieIdFails, CanCancelled, InternalFails, CieFails, PidSliceReset, Restart,
              PidFlowReset, LoadingExplained
<1> QED BY <1>1, <1>2, <1>3, <1>4, <1>5, <1>6 DEF Next, ThunkStep
-----------------------------------------------------------------------------
(* The challenge that is shown *)

Given == [attempt : Nat, serial : Nat]
Shown == [challenge : Given, reading : Given \cup {Nothing}, closing : BOOLEAN]

\* A challenge that is stored is shown, unless the login was overtaken or the
\* PID screen was closed: the next login does not find it.  The screen of a
\* challenge is above the PID screen.
FlowInvariant ==
  /\ challenge \in Given \cup {Nothing}
  /\ internal \in Shown \cup {Nothing}
  /\ internal # Nothing => pidScreen # Nothing
  /\ unseen => challenge # Nothing
  /\ ~overtaken /\ ~unseen /\ challenge # Nothing => internal # Nothing
  /\ ChallengeOfFlow

LEMMA IsShown == (\A r \in Shown : r # Nothing) /\ Nothing \notin Given
BY LoginAssumption DEF Shown, Given

\* The challenge stays, shown or not, or is dropped with the parameters.
ChallengeStays ==
  \/ UNCHANGED challenge /\ UNCHANGED unseen
  \/ challenge' = Nothing /\ ~unseen' /\ params' = Nothing

\* Parameters and challenge stay or are dropped, and the screen stays.
LEMMA FlowKept ==
  ASSUME FlowInvariant, overtaken => overtaken',
         params' \in {params, Nothing}, ChallengeStays,
         UNCHANGED internal, internal # Nothing => pidScreen' # Nothing
  PROVE  FlowInvariant'
BY DEF FlowInvariant, ChallengeOfFlow, ChallengeStays

\* The screen goes on with the challenge that it shows.
LEMMA FlowGoesOn ==
  ASSUME FlowInvariant, overtaken => overtaken',
         params' \in {params, Nothing}, ChallengeStays, UNCHANGED pidScreen,
         internal # Nothing, internal' \in Shown,
         internal'.challenge = internal.challenge,
         internal.closing => internal'.closing
  PROVE  FlowInvariant'
BY IsShown DEF FlowInvariant, ChallengeOfFlow, ChallengeStays

LEMMA FlowEnds ==
  ASSUME challenge' = Nothing, ~unseen', internal' = Nothing PROVE FlowInvariant'
BY DEF FlowInvariant, ChallengeOfFlow

LEMMA FlowStep ==
  ASSUME LoginInvariant, FlowInvariant, Next PROVE FlowInvariant'
<1>0. internal # Nothing => pidScreen # Nothing
  BY DEF FlowInvariant
<1>1. ASSUME NEW k \in Thunks, PrepareFulfilled(k) PROVE FlowInvariant'
  <2>1. UNCHANGED <<challenge, unseen, pidScreen>> /\ ShowChallenge(pidScreen, params', challenge)
    BY <1>1 DEF PrepareFulfilled
  <2>2. internal' \in Shown \cup {Nothing} /\ (internal' # Nothing => pidScreen # Nothing)
    BY <2>1 DEF ShowChallenge, FlowInvariant, Shown
  \* Nothing is shown to a login that overtakes none, unless it was unseen.
  <2>3. ~overtaken' /\ ~unseen' => internal = Nothing /\ challenge = Nothing
    <3>1. ~overtaken' => ~overtaken /\ internal = Nothing
      BY <1>1 DEF PrepareFulfilled, Busy
    <3>2. unseen' = unseen
      BY <2>1
    <3>3. ~overtaken /\ ~unseen /\ challenge # Nothing => internal # Nothing
      BY DEF FlowInvariant
    <3> QED BY <3>1, <3>2, <3>3
  <2>4. ~overtaken' /\ ~unseen' => internal' = Nothing
    BY <2>1, <2>3 DEF ShowChallenge
  <2> QED BY <2>1, <2>2, <2>3, <2>4 DEF FlowInvariant, ChallengeOfFlow
<1>2. ASSUME NEW k \in Thunks, InitFulfilled(k) PROVE FlowInvariant'
  <2> PICK a : a = thunk[k].attempt
    OBVIOUS
  <2>1. /\ challenge' = [attempt |-> a, serial |-> attempts[a].given + 1]
        /\ UNCHANGED <<params, pidScreen>> /\ ShowChallenge(pidScreen, params, challenge')
        /\ unseen' <=> (pidScreen = Nothing)
        /\ overtaken' = (overtaken \/ Foreign(a))
    <3>1. unseen' <=> (pidScreen = Nothing)
      BY <1>2, Zenon DEF InitFulfilled
    <3> QED BY <1>2, <3>1 DEF InitFulfilled
  <2>2. a \in Nat /\ attempts[a].given \in Nat
    <3>1. a \in Attempts
      BY <1>2 DEF LoginInvariant, ThunkInvariant, ThunkOK, InitFulfilled
    <3>2. attempts[a] \in AttemptRecords /\ a \in Nat
      BY <3>1 DEF LoginInvariant, IssuerInvariant, Attempts
    <3> QED BY <3>2 DEF AttemptRecords
  <2>3. challenge' \in Given /\ challenge'.attempt = a /\ challenge' # Nothing
    BY <2>1, <2>2, IsShown DEF Given
  <2>4. internal' \in Shown \cup {Nothing} /\ (internal' # Nothing => pidScreen # Nothing)
    BY <2>1, <2>3 DEF ShowChallenge, FlowInvariant, Shown
  <2>5. ~overtaken' => params # Nothing /\ params.attempt = a
    BY <2>1 DEF Foreign
  <2>6. CASE overtaken' \/ unseen'
    BY <2>1, <2>3, <2>4, <2>6 DEF FlowInvariant, ChallengeOfFlow
  <2>7. CASE ~overtaken' /\ ~unseen'
    <3>1. internal' = [challenge |-> challenge', reading |-> Nothing, closing |-> FALSE]
      BY <2>1, <2>3, <2>5, <2>7 DEF ShowChallenge
    <3>2. internal' \in Shown /\ internal'.challenge = challenge'
      BY <2>3, <3>1 DEF Shown
    <3> QED BY <2>1, <2>3, <2>4, <2>5, <3>2, IsShown DEF FlowInvariant, ChallengeOfFlow
  <2> QED BY <2>6, <2>7
<1>3. ASSUME NEW k \in Thunks,
             \/ SelectIdp(k) \/ TapCieId(k) \/ ConfirmPin(k) \/ PrepareRejected(k)
             \/ ValidateFulfilled(k) \/ MrtdFails(k)
             \/ ContinueFulfilled(k) \/ ContinueRejected(k)
      PROVE  FlowInvariant'
  <2>1. ASSUME NEW m, NEW p, Prepare(k, m, p) PROVE FlowInvariant'
    BY <2>1, FlowKept, <1>0 DEF Prepare, screens, ChallengeStays
  <2>2. CASE SelectIdp(k) \/ TapCieId(k) \/ ConfirmPin(k)
    BY <2>1, <2>2 DEF SelectIdp, TapCieId, ConfirmPin
  <2>3. CASE PrepareRejected(k) \/ ValidateFulfilled(k)
    BY <2>3, FlowKept, <1>0 DEF PrepareRejected, ValidateFulfilled, screens, ChallengeStays
  <2>4. CASE MrtdFails(k)
    BY <2>4, FlowKept, <1>0 DEF MrtdFails, MrtdRejected, MrtdReset, screens,
       ChallengeStays
  <2>5. CASE ContinueFulfilled(k) \/ ContinueRejected(k)
    BY <2>5, FlowKept, <1>0 DEF ContinueFulfilled, ContinueRejected, screens, ChallengeStays
  <2> QED BY <1>3, <2>2, <2>3, <2>4, <2>5
<1>4. ASSUME NEW k \in Thunks, LoginRedirect(k) \/ CieRedirect(k) PROVE FlowInvariant'
  <2>1. ASSUME NEW a, DispatchInit(k, a), UNCHANGED <<internal, pidScreen>>
        PROVE  FlowInvariant'
    BY <2>1, FlowKept, <1>0 DEF DispatchInit, MrtdReset, ChallengeStays
  <2>2. ASSUME NEW a, DispatchContinue(k, a), UNCHANGED <<internal, pidScreen>>
        PROVE  FlowInvariant'
    BY <2>2, FlowKept, <1>0 DEF DispatchContinue, ChallengeStays
  <2> QED BY <1>4, <2>1, <2>2 DEF LoginRedirect, CieRedirect
<1>5. ASSUME NEW k \in Thunks, CardRead(k) PROVE FlowInvariant'
  <2>1. internal \in Shown /\ internal' = [internal EXCEPT !.reading = Nothing]
    BY <1>5 DEF CardRead, FlowInvariant
  <2>2. /\ internal' \in Shown /\ internal'.challenge = internal.challenge
        /\ internal'.closing = internal.closing
    BY <2>1 DEF Shown
  <2>3. params' \in {params, Nothing} /\ ChallengeStays /\ UNCHANGED <<overtaken, pidScreen>>
    BY <1>5 DEF CardRead, MrtdReset, ChallengeStays
  <2> QED BY <2>1, <2>2, <2>3, IsShown, FlowGoesOn
<1>6. ASSUME NEW k \in Thunks, CallbackRedirect(k) PROVE FlowInvariant'
  <2>1. internal \in Shown /\ internal' = [internal EXCEPT !.closing = TRUE]
    BY <1>6 DEF CallbackRedirect, FlowInvariant
  <2>2. internal' \in Shown /\ internal'.challenge = internal.challenge /\ internal'.closing
    BY <2>1 DEF Shown
  <2>3. UNCHANGED <<params, pidScreen>> /\ ChallengeStays /\ (overtaken => overtaken')
    BY <1>6 DEF CallbackRedirect, DispatchContinue, ChallengeStays
  <2> QED BY <2>1, <2>2, <2>3, IsShown, FlowGoesOn
<1>7. CASE ConfirmCan
  <2>1. internal \in Shown /\ internal' = [internal EXCEPT !.reading = internal.challenge]
    BY <1>7 DEF ConfirmCan, FlowInvariant
  <2>2. /\ internal' \in Shown /\ internal'.challenge = internal.challenge
        /\ internal'.closing = internal.closing
    BY <2>1 DEF Shown
  <2>3. UNCHANGED <<params, overtaken, pidScreen>> /\ ChallengeStays
    BY <1>7 DEF ConfirmCan, slices, ChallengeStays
  <2> QED BY <2>1, <2>2, <2>3, IsShown, FlowGoesOn
<1>8. CASE InternalClosed \/ CanCancelled \/ InternalFails \/ Restart
  BY <1>8, FlowEnds DEF InternalClosed, CanCancelled, InternalFails, Restart, MrtdReset
<1>9. CASE \/ LeavePidScreen \/ ToggleProof \/ LoginClosed \/ OpenCieIdApp \/ CieIdAppAnswers
           \/ OpenCie \/ ReadCard \/ CieClosed
  <2>1. /\ UNCHANGED <<slices, internal, overtaken>>
        /\ internal # Nothing => pidScreen' # Nothing
    BY <1>0, <1>9
    DEF LeavePidScreen, OnPidScreen, ToggleProof, LoginClosed, OpenCieIdApp, CieIdAppAnswers,
        OpenCie, ReadCard, CieClosed
  <2>2. UNCHANGED <<params, challenge, unseen, internal, overtaken>>
    BY <2>1 DEF slices
  <2> QED BY <2>1, <2>2, FlowKept DEF ChallengeStays
<1>10. CASE CieIdFails \/ CieFails \/ PidSliceReset
  BY <1>10, FlowKept, <1>0
  DEF CieIdFails, CieFails, PidSliceReset, PidFlowReset, screens, ChallengeStays
<1>11. CASE OpenPidScreen
  <2>1. /\ pidScreen = Nothing /\ pidScreen' # Nothing /\ UNCHANGED <<params, challenge, overtaken>>
        /\ unseen' <=> (unseen /\ Foreign(challenge.attempt))
        /\ ShowChallenge(pidScreen', params, challenge)
    <3>1. pidScreen' = [proof |-> TRUE] /\ [proof |-> TRUE] \in [proof : BOOLEAN]
      BY <1>11 DEF OpenPidScreen
    <3>2. unseen' <=> (unseen /\ Foreign(challenge.attempt))
      BY <1>11, Zenon DEF OpenPidScreen
    <3> QED BY <1>11, <3>1, <3>2, LoginAssumption DEF OpenPidScreen
  <2>2. internal = Nothing
    BY <2>1 DEF FlowInvariant
  <2>3. internal' \in Shown \cup {Nothing}
    BY <2>1, <2>2 DEF ShowChallenge, FlowInvariant, Shown
  \* A challenge that was stored while the screen was mounted is on screen, so
  \* that what is shown now was unseen until now.
  <2>4. CASE overtaken' \/ unseen'
    BY <2>1, <2>3, <2>4 DEF FlowInvariant, ChallengeOfFlow, Foreign
  <2>5. CASE ~overtaken' /\ ~unseen' /\ ~unseen
    <3>1. challenge = Nothing /\ internal' = Nothing
      BY <2>1, <2>2, <2>5 DEF FlowInvariant, ShowChallenge
    <3> QED BY <2>1, <2>5, <3>1 DEF FlowInvariant, ChallengeOfFlow
  <2>6. CASE ~overtaken' /\ ~unseen' /\ unseen
    <3>1. challenge \in Given /\ params # Nothing /\ params.attempt = challenge.attempt
      BY <2>1, <2>6 DEF FlowInvariant, Foreign
    <3>2. internal' = [challenge |-> challenge, reading |-> Nothing, closing |-> FALSE]
      BY <2>1, <2>6, <3>1, IsShown DEF ShowChallenge
    <3>3. internal' \in Shown /\ internal'.challenge = challenge
      BY <3>1, <3>2 DEF Shown
    <3> QED BY <2>1, <2>6, <3>1, <3>3, IsShown DEF FlowInvariant, ChallengeOfFlow
  <2> QED BY <2>1, <2>4, <2>5, <2>6 DEF FlowInvariant
<1> QED BY <1>1, <1>2, <1>3, <1>4, <1>5, <1>6, <1>7, <1>8, <1>9, <1>10, <1>11
    DEF Next, ThunkStep
-----------------------------------------------------------------------------
(* Types *)

IssuerBounds ==
  Len(attempts) <= MaxAttempts /\ \A a \in Attempts : attempts[a].given <= MaxChallenges

\* The types that the invariants above leave open.
LoginTyping ==
  /\ IssuerBounds
  /\ params # Nothing => params.method \in AllMethods
  /\ loading \subseteq AllMethods
  /\ pid # Nothing => {pid.code, pid.verifier} \subseteq Attempts
  /\ challenge \in Challenges \cup {Nothing}
  /\ internal # Nothing => internal.challenge \in Challenges
  /\ \A k \in Thunks : thunk[k].kind \in Kinds \cup {"idle"}

LEMMA LoginHasTypes ==
  ASSUME LoginInvariant, FlowInvariant, LoginTyping PROVE LoginTypeOK
<1>1. \A a \in Attempts : attempts[a].method \in AllMethods /\ attempts[a].phase \in Phases
  <2>1. \A a \in Attempts : attempts[a] \in AttemptRecords
    BY DEF LoginInvariant, IssuerInvariant, Attempts
  <2> QED BY <2>1 DEF AttemptRecords
<1>2. login # Nothing => login.attempt \in Attempts
  BY DEF LoginInvariant, ScreenInvariant
<1> QED BY <1>1, <1>2
    DEF LoginInvariant, StoreInvariant, ScreenInvariant, FlowInvariant, LoginTyping,
        IssuerBounds, LoginTypeOK, Phases

\* The issuer makes attempts, and gives challenges, up to the bounds.
LEMMA IssuerBounded ==
  ASSUME LoginInvariant, IssuerBounds, Next
  PROVE  IssuerBounds' /\ Attempts \subseteq Attempts'
<1> DEFINE Bounded == IssuerBounds' /\ Attempts \subseteq Attempts'
<1>0. /\ attempts \in Seq(AttemptRecords) /\ Len(attempts) \in Nat
      /\ \A a \in Attempts : attempts[a] \in AttemptRecords
  BY DEF LoginInvariant, IssuerInvariant, Attempts
<1>1. ASSUME NEW a \in Attempts, NEW phase, Advance(a, phase) PROVE Bounded
  <2>1. attempts[a] \in AttemptRecords
    BY <1>0
  <2>2. [attempts[a] EXCEPT !.phase = phase].given = attempts[a].given
    BY <2>1 DEF AttemptRecords
  <2>3. /\ Len(attempts') = Len(attempts)
        /\ \A b \in Attempts : attempts'[b].given = attempts[b].given
    BY <1>0, <1>1, <2>2 DEF Advance, Attempts
  <2> QED BY <2>3 DEF IssuerBounds, Attempts
<1>2. ASSUME NEW k \in Thunks, PrepareFulfilled(k) PROVE Bounded
  <2>1. attempts' = Append(attempts, Pushed(k, Len(attempts) + 1)) /\ Len(attempts) < MaxAttempts
    BY <1>2 DEF PrepareFulfilled
  <2>2. Pushed(k, Len(attempts) + 1).given = 0 /\ 0 <= MaxChallenges
    BY LoginAssumption DEF Pushed
  <2>3. /\ Len(attempts') = Len(attempts) + 1
        /\ \A b \in Attempts : attempts'[b] = attempts[b]
        /\ attempts'[Len(attempts) + 1] = Pushed(k, Len(attempts) + 1)
    BY <1>0, <2>1 DEF Attempts
  <2>4. Len(attempts') <= MaxAttempts
    BY <1>0, <2>1, <2>3, LoginAssumption
  <2>5. ASSUME NEW b \in Attempts' PROVE attempts'[b].given <= MaxChallenges
    <3>1. b \in Attempts \/ b = Len(attempts) + 1
      BY <1>0, <2>3 DEF Attempts
    <3> QED BY <2>2, <2>3, <3>1 DEF IssuerBounds
  <2> QED BY <1>0, <2>3, <2>4, <2>5 DEF IssuerBounds, Attempts
<1>3. ASSUME NEW k \in Thunks, InitFulfilled(k) PROVE Bounded
  <2> DEFINE a == thunk[k].attempt
             advanced == [attempts[a] EXCEPT !.phase = "challenged", !.given = @ + 1]
  <2>1. a \in Attempts
    BY <1>3 DEF LoginInvariant, ThunkInvariant, ThunkOK, InitFulfilled
  <2>2. attempts[a].given < MaxChallenges /\ attempts[a] \in AttemptRecords
    BY <1>0, <1>3, <2>1 DEF InitFulfilled, ChallengeGiven
  <2>3. advanced.given = attempts[a].given + 1 /\ attempts[a].given \in Nat
    BY <2>2 DEF AttemptRecords
  <2>4. attempts' = [attempts EXCEPT ![a] = advanced]
    BY <1>3 DEF InitFulfilled
  <2> HIDE DEF advanced, a
  <2>5. /\ Len(attempts') = Len(attempts) /\ attempts'[a] = advanced
        /\ \A b \in Attempts : b # a => attempts'[b] = attempts[b]
    BY <1>0, <2>1, <2>4 DEF Attempts
  <2>6. advanced.given <= MaxChallenges
    BY <2>2, <2>3, LoginAssumption
  <2> QED BY <2>5, <2>6 DEF IssuerBounds, Attempts
<1>4. CASE UNCHANGED attempts
  BY <1>4 DEF IssuerBounds, Attempts
<1>5. ASSUME NEW k \in Thunks, LoginRedirect(k) \/ CieRedirect(k) PROVE Bounded
  <2>1. PICK a, proof : a \in Attempts /\ Authenticated(a, proof)
    BY <1>5 DEF LoginRedirect, CieRedirect, LoginInvariant, ScreenInvariant
  <2> QED BY <1>1, <1>4, <2>1 DEF Authenticated
<1>6. ASSUME NEW k \in Thunks, CallbackRedirect(k) PROVE Bounded
  BY <1>1, <1>4, <1>6 DEF CallbackRedirect, LoginInvariant, StoreInvariant
<1>7. ASSUME NEW k \in Thunks, ValidateFulfilled(k) \/ ContinueFulfilled(k) PROVE Bounded
  <2>1. thunk[k].attempt \in Attempts
    BY <1>7 DEF ValidateFulfilled, ContinueFulfilled, LoginInvariant, ThunkInvariant, ThunkOK
  <2> QED BY <1>1, <1>7, <2>1 DEF ValidateFulfilled, ContinueFulfilled
<1>8. ASSUME NEW k \in Thunks,
             \/ SelectIdp(k) \/ TapCieId(k) \/ ConfirmPin(k) \/ PrepareRejected(k) \/ MrtdFails(k)
             \/ ContinueRejected(k) \/ CardRead(k)
      PROVE  UNCHANGED attempts
  BY <1>8 DEF SelectIdp, TapCieId, ConfirmPin, Prepare, PrepareRejected, MrtdFails,
              ContinueRejected, CardRead
<1>9. CASE \/ OpenPidScreen \/ LeavePidScreen \/ ToggleProof
           \/ LoginClosed \/ OpenCieIdApp \/ CieIdAppAnswers \/ CieIdFails
           \/ ConfirmCan \/ InternalClosed \/ CanCancelled \/ InternalFails
           \/ OpenCie \/ ReadCard \/ CieClosed \/ CieFails \/ PidSliceReset \/ Restart
  BY <1>4, <1>9
  DEF OpenPidScreen, LeavePidScreen, OnPidScreen, ToggleProof,
      LoginClosed, OpenCieIdApp, CieIdAppAnswers, CieIdFails, ConfirmCan,
      InternalClosed, CanCancelled, InternalFails, OpenCie, ReadCard, CieClosed, CieFails,
      PidSliceReset, Restart
<1> QED BY <1>2, <1>3, <1>4, <1>5, <1>6, <1>7, <1>8, <1>9 DEF Next, ThunkStep

\* The parameters and the loading buttons are of methods that there are.
LEMMA MethodsTyped ==
  ASSUME LoginInvariant, LoginTyping, Next
  PROVE  /\ params' # Nothing => params'.method \in AllMethods
         /\ loading' \subseteq AllMethods
<1> DEFINE Typed == (params' # Nothing => params'.method \in AllMethods) /\ loading' \subseteq AllMethods
<1>0. (params # Nothing => params.method \in AllMethods) /\ loading \subseteq AllMethods
  BY DEF LoginTyping
<1>1. CASE params' \in {params, Nothing} /\ loading' \subseteq loading
  BY <1>0, <1>1
<1>2. ASSUME NEW k \in Thunks, NEW m \in AllMethods, NEW proof, Prepare(k, m, proof) PROVE Typed
  BY <1>0, <1>2 DEF Prepare, Loads
<1>3. ASSUME NEW k \in Thunks, SelectIdp(k) \/ TapCieId(k) \/ ConfirmPin(k) PROVE Typed
  BY <1>2, <1>3 DEF SelectIdp, TapCieId, ConfirmPin, AllMethods
<1>4. ASSUME NEW k \in Thunks, PrepareFulfilled(k) PROVE Typed
  <2>1. thunk[k].method \in AllMethods
    BY <1>4 DEF PrepareFulfilled, LoginInvariant, ThunkInvariant, ThunkOK
  <2>2. params' = [attempt |-> Len(attempts) + 1, method |-> thunk[k].method] /\ UNCHANGED loading
    BY <1>4 DEF PrepareFulfilled
  <2>3. params'.method = thunk[k].method
    BY <2>2
  <2> QED BY <1>0, <2>1, <2>2, <2>3
<1>5. ASSUME NEW k \in Thunks, NEW a, DispatchInit(k, a) \/ DispatchContinue(k, a) PROVE Typed
  BY <1>0, <1>5 DEF DispatchInit, DispatchContinue, Loads, Ends
<1>6. ASSUME NEW k \in Thunks, LoginRedirect(k) \/ CallbackRedirect(k) \/ CieRedirect(k) PROVE Typed
  BY <1>5, <1>6 DEF LoginRedirect, CallbackRedirect, CieRedirect
<1>7. ASSUME NEW k \in Thunks,
             \/ PrepareRejected(k) \/ InitFulfilled(k) \/ ValidateFulfilled(k) \/ MrtdFails(k)
             \/ ContinueFulfilled(k) \/ ContinueRejected(k) \/ CardRead(k)
      PROVE  params' \in {params, Nothing} /\ loading' \subseteq loading
  BY <1>7 DEF PrepareRejected, InitFulfilled, ValidateFulfilled, MrtdFails, MrtdRejected,
              ContinueFulfilled, ContinueRejected, CardRead, Ends
<1>8. CASE \/ OpenPidScreen \/ LeavePidScreen \/ ToggleProof
           \/ LoginClosed \/ OpenCieIdApp \/ CieIdAppAnswers \/ CieIdFails
           \/ ConfirmCan \/ InternalClosed \/ CanCancelled \/ InternalFails
           \/ OpenCie \/ ReadCard \/ CieClosed \/ CieFails \/ PidSliceReset \/ Restart
  <2>1. params' \in {params, Nothing} /\ loading' \subseteq loading
    BY <1>8
    DEF OpenPidScreen, LeavePidScreen, OnPidScreen, ToggleProof,
        LoginClosed, OpenCieIdApp, CieIdAppAnswers, CieIdFails, ConfirmCan,
        InternalClosed, CanCancelled, InternalFails, OpenCie, ReadCard, CieClosed, CieFails,
        PidSliceReset, Restart, PidFlowReset, slices
  <2> QED BY <1>1, <2>1
<1> QED BY <1>1, <1>3, <1>4, <1>6, <1>7, <1>8 DEF Next, ThunkStep

\* The PID is of attempts that were made, and a thunk is of a known kind.
LEMMA PidTyped ==
  ASSUME LoginInvariant, LoginTyping, Next
  PROVE  pid' # Nothing => {pid'.code, pid'.verifier} \subseteq Attempts'
<1>1. Attempts \subseteq Attempts'
  BY IssuerBounded DEF LoginTyping
<1>2. ASSUME NEW k \in Thunks, ContinueFulfilled(k)
      PROVE  {pid'.code, pid'.verifier} \subseteq Attempts
  <2>1. thunk[k].attempt \in Attempts /\ thunk[k].verifier \in Attempts
    BY <1>2 DEF ContinueFulfilled, LoginInvariant, ThunkInvariant, ThunkOK
  <2>2. pid'.code = thunk[k].attempt /\ pid'.verifier = thunk[k].verifier
    BY <1>2 DEF ContinueFulfilled
  <2> QED BY <2>1, <2>2
<1>3. CASE pid' \in {pid, Nothing}
  BY <1>1, <1>3 DEF LoginTyping
<1>4. ASSUME NEW k \in Thunks,
             \/ SelectIdp(k) \/ TapCieId(k) \/ ConfirmPin(k) \/ PrepareFulfilled(k)
             \/ PrepareRejected(k) \/ InitFulfilled(k) \/ ValidateFulfilled(k) \/ MrtdFails(k)
             \/ ContinueRejected(k) \/ LoginRedirect(k) \/ CardRead(k) \/ CallbackRedirect(k)
             \/ CieRedirect(k)
      PROVE  UNCHANGED pid
  BY <1>4 DEF SelectIdp, TapCieId, ConfirmPin, Prepare, PrepareFulfilled, PrepareRejected,
              InitFulfilled, ValidateFulfilled, MrtdFails, ContinueRejected, LoginRedirect,
              CardRead, CallbackRedirect, CieRedirect
<1>5. CASE \/ OpenPidScreen \/ LeavePidScreen \/ ToggleProof
           \/ LoginClosed \/ OpenCieIdApp \/ CieIdAppAnswers \/ CieIdFails
           \/ ConfirmCan \/ InternalClosed \/ CanCancelled \/ InternalFails
           \/ OpenCie \/ ReadCard \/ CieClosed \/ CieFails \/ PidSliceReset \/ Restart
  <2>1. pid' \in {pid, Nothing}
    BY <1>5
    DEF OpenPidScreen, LeavePidScreen, OnPidScreen, ToggleProof,
        LoginClosed, OpenCieIdApp, CieIdAppAnswers, CieIdFails, ConfirmCan,
        InternalClosed, CanCancelled, InternalFails, OpenCie, ReadCard, CieClosed, CieFails,
        PidSliceReset, Restart, slices
  <2> QED BY <1>3, <2>1
<1> QED BY <1>1, <1>2, <1>3, <1>4, <1>5 DEF Next, ThunkStep

\* The challenges of the slice and of the screen were given within the bounds.
LEMMA ChallengesTyped ==
  ASSUME LoginInvariant, FlowInvariant, LoginTyping, Next
  PROVE  /\ challenge' \in Challenges \cup {Nothing}
         /\ internal' # Nothing => internal'.challenge \in Challenges
<1> DEFINE Typed == /\ challenge' \in Challenges \cup {Nothing}
                    /\ internal' # Nothing => internal'.challenge \in Challenges
<1>0. /\ challenge \in Challenges \cup {Nothing}
      /\ internal # Nothing => internal.challenge \in Challenges
  BY DEF LoginTyping
<1>1. CASE challenge' \in {challenge, Nothing} /\ internal' \in {internal, Nothing}
  BY <1>0, <1>1
<1>2. ASSUME NEW screen, NEW p, NEW c \in Challenges \cup {Nothing},
             ShowChallenge(screen, p, c), challenge' \in {challenge, c}
      PROVE  Typed
  <2>1. CASE internal' = internal
    BY <1>0, <1>2, <2>1
  <2>2. CASE c # Nothing /\ internal' = [challenge |-> c, reading |-> Nothing, closing |-> FALSE]
    <3>1. internal'.challenge = c
      BY <2>2
    <3> QED BY <1>0, <1>2, <2>2, <3>1
  <2> QED BY <1>2, <2>1, <2>2 DEF ShowChallenge
<1>3. ASSUME NEW k \in Thunks, PrepareFulfilled(k) PROVE Typed
  BY <1>0, <1>2, <1>3 DEF PrepareFulfilled
<1>4. ASSUME NEW k \in Thunks, InitFulfilled(k) PROVE Typed
  <2> DEFINE a == thunk[k].attempt
             c == [attempt |-> a, serial |-> attempts[a].given + 1]
  <2>1. challenge' = c /\ ShowChallenge(pidScreen, params, c) /\ attempts[a].given < MaxChallenges
    BY <1>4 DEF InitFulfilled, ChallengeGiven
  <2>2. a \in Attempts
    BY <1>4 DEF LoginInvariant, ThunkInvariant, ThunkOK, InitFulfilled
  <2>3. attempts[a] \in AttemptRecords /\ a \in 1 .. MaxAttempts
    BY <2>2, LoginAssumption DEF LoginInvariant, IssuerInvariant, LoginTyping, IssuerBounds, Attempts
  <2>4. attempts[a].given + 1 \in 1 .. MaxChallenges
    BY <2>1, <2>3, LoginAssumption DEF AttemptRecords
  <2> HIDE DEF a
  <2>5. c \in Challenges
    BY <2>3, <2>4 DEF Challenges
  <2> HIDE DEF c
  <2> QED BY <1>2, <2>1, <2>5
<1>5. ASSUME internal # Nothing, internal' \in Shown, internal'.challenge = internal.challenge,
             challenge' \in {challenge, Nothing}
      PROVE  Typed
  BY <1>0, <1>5
<1>6. ASSUME NEW k \in Thunks, CardRead(k) \/ CallbackRedirect(k) PROVE Typed
  <2>1. internal # Nothing /\ internal \in Shown
    BY <1>6 DEF CardRead, CallbackRedirect, FlowInvariant
  <2>2. \/ internal' = [internal EXCEPT !.reading = Nothing]
        \/ internal' = [internal EXCEPT !.closing = TRUE]
    BY <1>6 DEF CardRead, CallbackRedirect
  <2>3. internal' \in Shown /\ internal'.challenge = internal.challenge
    BY <2>1, <2>2 DEF Shown
  <2>4. challenge' \in {challenge, Nothing}
    BY <1>6 DEF CardRead, CallbackRedirect, MrtdReset, DispatchContinue
  <2> QED BY <1>5, <2>1, <2>3, <2>4
<1>7. ASSUME NEW k \in Thunks,
             \/ SelectIdp(k) \/ TapCieId(k) \/ ConfirmPin(k) \/ PrepareRejected(k)
             \/ ValidateFulfilled(k) \/ MrtdFails(k) \/ ContinueFulfilled(k) \/ ContinueRejected(k)
             \/ LoginRedirect(k) \/ CieRedirect(k)
      PROVE  challenge' \in {challenge, Nothing} /\ UNCHANGED internal
  BY <1>7 DEF SelectIdp, TapCieId, ConfirmPin, Prepare, PrepareRejected, ValidateFulfilled,
              MrtdFails, MrtdRejected, MrtdReset, ContinueFulfilled, ContinueRejected,
              LoginRedirect, CieRedirect, DispatchInit, DispatchContinue, screens
<1>8. CASE \/ LeavePidScreen \/ ToggleProof
           \/ LoginClosed \/ OpenCieIdApp \/ CieIdAppAnswers \/ CieIdFails
           \/ InternalClosed \/ CanCancelled \/ InternalFails
           \/ OpenCie \/ ReadCard \/ CieClosed \/ CieFails \/ PidSliceReset \/ Restart
  <2>1. challenge' \in {challenge, Nothing} /\ internal' \in {internal, Nothing}
    BY <1>8
    DEF LeavePidScreen, OnPidScreen, ToggleProof,
        LoginClosed, OpenCieIdApp, CieIdAppAnswers, CieIdFails, InternalClosed,
        CanCancelled, InternalFails, OpenCie, ReadCard, CieClosed, CieFails, PidSliceReset,
        Restart, MrtdReset, PidFlowReset, slices, screens
  <2> QED BY <1>1, <2>1
<1>9. CASE ConfirmCan
  <2>1. internal \in Shown /\ internal # Nothing
    BY <1>9 DEF ConfirmCan, FlowInvariant
  <2>2. internal' \in Shown /\ internal'.challenge = internal.challenge
    BY <1>9, <2>1 DEF ConfirmCan, Shown
  <2>3. UNCHANGED challenge
    BY <1>9 DEF ConfirmCan, slices
  <2> QED BY <1>5, <2>1, <2>2, <2>3
<1>10. CASE OpenPidScreen
  <2>1. ShowChallenge(pidScreen', params, challenge) /\ UNCHANGED challenge
    BY <1>10 DEF OpenPidScreen
  <2> QED BY <1>0, <1>2, <2>1
<1> QED BY <1>1, <1>3, <1>4, <1>6, <1>7, <1>8, <1>9, <1>10 DEF Next, ThunkStep

LEMMA ThunksTyped ==
  ASSUME LoginInvariant, LoginTyping, Next
  PROVE  \A k \in Thunks : thunk'[k].kind \in Kinds \cup {"idle"}
<1> DEFINE Typed == \A k \in Thunks : thunk'[k].kind \in Kinds \cup {"idle"}
<1>0. DOMAIN thunk = Thunks /\ \A k \in Thunks : thunk[k].kind \in Kinds \cup {"idle"}
  BY DEF LoginInvariant, ThunkInvariant, LoginTyping
<1>1. CASE UNCHANGED thunk
  BY <1>0, <1>1
<1>2. ASSUME NEW k \in Thunks, NEW t, t.kind \in Kinds \cup {"idle"}, Run(k, t) PROVE Typed
  BY <1>0, <1>2 DEF Run
<1>3. ASSUME NEW k \in Thunks, End(k) PROVE Typed
  BY <1>2, <1>3 DEF End, Idle
<1>4. ASSUME NEW k \in Thunks, SelectIdp(k) \/ TapCieId(k) \/ ConfirmPin(k) PROVE Typed
  <2>1. PICK m, proof : Run(k, [kind |-> "prepare", method |-> m, proof |-> proof])
    BY <1>4 DEF SelectIdp, TapCieId, ConfirmPin, Prepare
  <2>2. [kind |-> "prepare", method |-> m, proof |-> proof].kind \in Kinds
    BY DEF Kinds
  <2> QED BY <1>2, <2>1, <2>2
<1>5. ASSUME NEW k \in Thunks, NEW a, DispatchInit(k, a) \/ DispatchContinue(k, a) PROVE Typed
  <2>1. /\ [kind |-> "init", attempt |-> a].kind \in Kinds
        /\ [kind |-> "continue", attempt |-> a, verifier |-> params.attempt].kind \in Kinds
    BY DEF Kinds
  <2> QED BY <1>1, <1>2, <1>5, <2>1 DEF DispatchInit, DispatchContinue
<1>6. ASSUME NEW k \in Thunks, CardRead(k) PROVE Typed
  <2>1. [kind |-> "validate", attempt |-> challenge.attempt, signed |-> internal.reading].kind \in Kinds
    BY DEF Kinds
  <2> QED BY <1>1, <1>2, <1>6, <2>1 DEF CardRead
<1>7. ASSUME NEW k \in Thunks, LoginRedirect(k) \/ CallbackRedirect(k) \/ CieRedirect(k) PROVE Typed
  BY <1>5, <1>7 DEF LoginRedirect, CallbackRedirect, CieRedirect
<1>8. ASSUME NEW k \in Thunks, ThunkStep(k) PROVE Typed
  <2>1. End(k)
    BY <1>8 DEF ThunkStep, PrepareFulfilled, PrepareRejected, InitFulfilled, ValidateFulfilled,
                MrtdFails, MrtdRejected, ContinueFulfilled, ContinueRejected
  <2> QED BY <1>3, <2>1
<1>9. CASE Restart
  BY <1>9 DEF Restart, Idle
<1>10. CASE \/ OpenPidScreen \/ LeavePidScreen \/ ToggleProof
            \/ LoginClosed \/ OpenCieIdApp \/ CieIdAppAnswers \/ CieIdFails
            \/ ConfirmCan \/ InternalClosed \/ CanCancelled \/ InternalFails
            \/ OpenCie \/ ReadCard \/ CieClosed \/ CieFails \/ PidSliceReset
  BY <1>1, <1>10
  DEF OpenPidScreen, LeavePidScreen, OnPidScreen, ToggleProof,
      LoginClosed, OpenCieIdApp, CieIdAppAnswers, CieIdFails, ConfirmCan,
      InternalClosed, CanCancelled, InternalFails, OpenCie, ReadCard, CieClosed, CieFails,
      PidSliceReset
<1> QED BY <1>4, <1>6, <1>7, <1>8, <1>9, <1>10 DEF Next
-----------------------------------------------------------------------------
(* The theorems *)

LEMMA LoginInductive == Spec => []LoginInvariant
<1>1. Init => LoginInvariant
  BY DEF Init, LoginInvariant, IssuerInvariant, StoreInvariant, ScreenInvariant, ThunkInvariant,
         ThunkOK, Idle, Attempts
<1>2. LoginInvariant /\ [Next]_vars => LoginInvariant'
  <2> SUFFICES ASSUME LoginInvariant, [Next]_vars PROVE LoginInvariant'
    OBVIOUS
  <2>1. CASE Next
    BY <2>1, PrepareStep, MrtdStep, ContinueStep, OtherStep DEF Next, ThunkStep
  <2>2. CASE UNCHANGED vars
    <3>1. IssuerInvariant' /\ Forward
      BY <2>2, Stays DEF LoginInvariant, vars
    <3> QED BY <2>2, <3>1, ThunksKept, ScreensKept, StoreKept
        DEF LoginInvariant, vars, slices, screens
  <2> QED BY <2>1, <2>2
<1> QED BY <1>1, <1>2, PTL DEF Spec

\* However many logins were left and redirects were late, the PID of the store
\* came with the code of the attempt whose verifier redeemed it.
THEOREM KeepsPidToAttempt == Spec => []PidOfItsAttempt
<1>1. LoginInvariant => PidOfItsAttempt
  BY DEF LoginInvariant, StoreInvariant, PidOfItsAttempt
<1> QED BY <1>1, LoginInductive, PTL

\* A redirect is handled as the kind of login that was asked for, whatever the
\* switch of the screen says by then.
THEOREM HandlesProofAsRequested == Spec => []ProofAsRequested
<1>1. LoginInvariant => ProofAsRequested
  BY DEF LoginInvariant, ThunkInvariant, ThunkOK, ProofAsRequested, Proved
<1> QED BY <1>1, LoginInductive, PTL

\* No button goes on loading with nobody to end it, unless a login was
\* overtaken: a thunk prepares a login of its method, or the parameters that
\* the next step of the login will end are of its method.
THEOREM ExplainsLoading == Spec => []LoadingExplained
<1>1. Init => LoadingInvariant
  BY DEF Init, LoadingInvariant, LoadingExplained
<1>2. LoginInvariant /\ LoadingInvariant /\ [Next]_vars => LoadingInvariant'
  <2>1. LoadingInvariant /\ UNCHANGED vars => LoadingInvariant'
    BY DEF LoadingInvariant, LoadingExplained, vars, slices
  <2> QED BY <2>1, LoadingStep
<1>3. LoadingInvariant => LoadingExplained
  BY DEF LoadingInvariant
<1> QED BY <1>1, <1>2, <1>3, LoginInductive, PTL DEF Spec

LEMMA FlowInductive == Spec => []FlowInvariant
<1>1. Init => FlowInvariant
  BY DEF Init, FlowInvariant, ChallengeOfFlow
<1>2. LoginInvariant /\ FlowInvariant /\ [Next]_vars => FlowInvariant'
  <2>1. FlowInvariant /\ UNCHANGED vars => FlowInvariant'
    BY DEF FlowInvariant, ChallengeOfFlow, vars, slices, screens
  <2> QED BY <2>1, FlowStep
<1> QED BY <1>1, <1>2, LoginInductive, PTL DEF Spec

\* The internal authentication screen shows the challenge of the login whose
\* parameters are stored, unless a login was overtaken.
THEOREM ShowsChallengeOfFlow == Spec => []ChallengeOfFlow
<1>1. FlowInvariant => ChallengeOfFlow
  BY DEF FlowInvariant
<1> QED BY <1>1, FlowInductive, PTL

\* The attempts and challenges of the issuer stay within their bounds, and the
\* slices, the screens and the thunks name only attempts that were made and
\* challenges that can have been given.
THEOREM LoginTypes == Spec => []LoginTypeOK
<1>1. Init => LoginTyping
  <2> SUFFICES ASSUME Init PROVE LoginTyping
    OBVIOUS
  <2>1. Len(attempts) = 0 /\ Attempts = {}
    BY DEF Init, Attempts
  <2> QED BY <2>1, LoginAssumption DEF Init, LoginTyping, IssuerBounds, Idle
<1>2. LoginInvariant /\ FlowInvariant /\ LoginTyping /\ [Next]_vars => LoginTyping'
  <2> SUFFICES ASSUME LoginInvariant, FlowInvariant, LoginTyping, [Next]_vars PROVE LoginTyping'
    OBVIOUS
  <2>1. CASE Next
    BY <2>1, IssuerBounded, MethodsTyped, PidTyped, ChallengesTyped, ThunksTyped DEF LoginTyping,
       Challenges
  <2>2. CASE UNCHANGED vars
    BY <2>2 DEF LoginTyping, IssuerBounds, Challenges, Attempts, vars, slices, screens
  <2> QED BY <2>1, <2>2
<1>3. LoginInvariant /\ FlowInvariant /\ LoginTyping => LoginTypeOK
  BY LoginHasTypes
<1> QED BY <1>1, <1>2, <1>3, LoginInductive, FlowInductive, PTL DEF Spec
=============================================================================
