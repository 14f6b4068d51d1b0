-------------------------------- MODULE Login --------------------------------
(***************************************************************************)
(* The login that ends in a PID.  A prepared login pushes an authorization *)
(* request; its page is opened in a web view, whose redirect carries a     *)
(* code, or, when the document of the user is to be proved (MRTD PoP), a   *)
(* challenge that the NFC reader signs.  The parameters of the login and   *)
(* the challenge are slices of the store with room for one; the redirect   *)
(* handlers do not compare the state of the request, and the thunks read   *)
(* whatever parameters the store holds when they are dispatched.  The      *)
(* issuer handles a request in the step that handles its answer; an answer *)
(* that is lost is a rejection.                                            *)
(***************************************************************************)
EXTENDS Integers, Sequences, FiniteSets

CONSTANTS
  Methods,        \* the authentication methods the user tries
  Thunks,         \* the thunks that can be in flight at once
  MaxAttempts,    \* bound on the authorization requests that are pushed
  MaxChallenges,  \* bound on the challenges given to one of them
  Nothing         \* a missing value

AllMethods == {"spid", "cieL2", "cieL3"}

ASSUME LoginAssumption ==
  /\ Methods \subseteq AllMethods
  /\ MaxAttempts \in Nat
  /\ MaxChallenges \in Nat
  /\ Nothing \notin Nat
  /\ Nothing \notin [attempt : Nat, method : AllMethods]
  /\ Nothing \notin [attempt : Nat, serial : Nat]
  /\ Nothing \notin [proof : BOOLEAN]
  /\ Nothing \notin [challenge : [attempt : Nat, serial : Nat],
                     reading : [attempt : Nat, serial : Nat] \cup {Nothing},
                     closing : BOOLEAN]

VARIABLES
  attempts,     \* issuer: the authorization requests, in order
  params,       \* store: pidFlowParams
  loading,      \* store: the methods whose pidAsyncStatus is loading
  pid,          \* store: the PID
  challenge,    \* store: the flowParams of the MRTD slice
  validation,   \* store: the validation of the MRTD slice
  pidScreen,    \* the PID screen with its switch, Nothing while unmounted
  login,        \* the web view of PidSpidLogin or CieIdAuthentication
  cie,          \* the CieAuthentication screen (PIN)
  internal,     \* the CieInternalAuthentication screen (CAN)
  thunk,        \* the thunks in flight
  overtaken,    \* history: were parameters replaced or dropped under a login?
  unseen        \* history: was the challenge stored without the PID screen?

slices  == <<params, loading, pid, challenge, validation, unseen>>
screens == <<pidScreen, login, cie, internal>>
vars    == <<attempts, slices, screens, thunk, overtaken>>

Attempts   == 1 .. Len(attempts)
Challenges == [attempt : 1 .. MaxAttempts, serial : 1 .. MaxChallenges]
Idle       == [kind |-> "idle"]
Kinds      == {"prepare", "init", "validate", "continue"}

LoginTypeOK ==
  /\ Len(attempts) <= MaxAttempts
  /\ \A a \in Attempts :
       /\ attempts[a].method \in AllMethods
       /\ attempts[a].phase \in
            {"pushed", "session", "challenged", "validated", "coded", "redeemed"}
  /\ params # Nothing => params.attempt \in Attempts
  /\ loading \subseteq AllMethods
  /\ pid # Nothing => {pid.code, pid.verifier} \subseteq Attempts
  /\ challenge \in Challenges \cup {Nothing}
  /\ validation \in Attempts \cup {Nothing}
  /\ unseen => challenge # Nothing
  /\ pidScreen \in [proof : BOOLEAN] \cup {Nothing}
  /\ login # Nothing => login.attempt \in Attempts
  /\ cie # Nothing => cie.url \in Attempts \cup {Nothing}
  /\ internal # Nothing => internal.challenge \in Challenges
  /\ \A k \in Thunks : thunk[k].kind \in Kinds \cup {"idle"}

Init ==
  /\ attempts = <<>>
  /\ params = Nothing /\ loading = {} /\ pid = Nothing
  /\ challenge = Nothing /\ validation = Nothing
  /\ pidScreen = Nothing
  /\ login = Nothing /\ cie = Nothing /\ internal = Nothing
  /\ thunk = [k \in Thunks |-> Idle]
  /\ overtaken = FALSE /\ unseen = FALSE
-----------------------------------------------------------------------------
(* Helpers *)

\* Faulty variant: every attempt has the same verifier.
CodeChallengeConstant(a) == 0

\* The challenge of the PAR request is derived from the verifier of the
\* attempt; its state is random and kept nowhere.
CodeChallenge(a) == a

Run(k, t) == thunk' = [thunk EXCEPT ![k] = t]
End(k)    == Run(k, Idle)

Advance(a, phase) == attempts' = [attempts EXCEPT ![a].phase = phase]

\* The reducers take the method from the parameters there are by then.
MethodOf(p) == IF p = Nothing THEN "spid" ELSE p.method
Loads(m) == loading' = loading \cup {m}
Ends(m)  == loading' = loading \ {m}

\* Faulty variant: the parameters alone open the screen.
ShowNoChallenge(screen, p, c) ==
  internal' = IF screen # Nothing /\ p # Nothing
              THEN [challenge |-> c, reading |-> Nothing, closing |-> FALSE]
              ELSE internal

\* The effect of the PID screen, which runs when it is mounted and when the
\* challenge or the parameters are new while it is: both together open the
\* internal authentication screen.
ShowChallenge(screen, p, c) ==
  internal' = IF screen # Nothing /\ p # Nothing /\ c # Nothing
              THEN [challenge |-> c, reading |-> Nothing, closing |-> FALSE]
              ELSE internal

\* pidFlowReset
PidFlowReset ==
  /\ params' = Nothing
  /\ loading' = {}

\* Faulty variant: the internal screen leaves the MRTD slice as it is.
MrtdKept == UNCHANGED <<challenge, validation, unseen>>

\* mrtdReset, when the internal authentication screen unmounts
MrtdReset ==
  /\ challenge' = Nothing
  /\ validation' = Nothing
  /\ unseen' = FALSE

\* Another login may be under way: a thunk, or a challenge that is shown.
Busy(ks) == internal # Nothing \/ \E k \in ks : thunk[k].kind # "idle"

Foreign(a) == params = Nothing \/ params.attempt # a
-----------------------------------------------------------------------------
(* preparePidFlowParamsThunk *)

OnPidScreen ==
  pidScreen # Nothing /\ login = Nothing /\ cie = Nothing /\ internal = Nothing

\* From the home screen, whatever is in flight: a challenge that was stored
\* meanwhile is shown.
OpenPidScreen ==
  /\ pidScreen = Nothing /\ login = Nothing
  /\ pidScreen' = [proof |-> TRUE]
  /\ ShowChallenge(pidScreen', params, challenge)
  /\ unseen' = (unseen /\ Foreign(challenge.attempt))
  /\ UNCHANGED <<attempts, params, loading, pid, challenge, validation, login, cie,
                 thunk, overtaken>>

LeavePidScreen ==
  /\ OnPidScreen
  /\ pidScreen' = Nothing
  /\ UNCHANGED <<attempts, slices, login, cie, internal, thunk, overtaken>>

ToggleProof ==
  /\ OnPidScreen
  /\ loading = {}
  /\ pidScreen' = [proof |-> ~pidScreen.proof]
  /\ UNCHANGED <<attempts, slices, login, cie, internal, thunk, overtaken>>

\* A button that loads cannot be tapped.
Prepare(k, m, proof) ==
  /\ thunk[k] = Idle
  /\ m \notin loading
  /\ Loads(m)
  /\ Run(k, [kind |-> "prepare", method |-> m, proof |-> proof])
  /\ UNCHANGED <<attempts, params, pid, challenge, validation, unseen, screens, overtaken>>

\* An identity provider is selected, or the CieID button tapped.
SelectIdp(k) ==
  "spid" \in Methods /\ OnPidScreen /\ Prepare(k, "spid", pidScreen.proof)
TapCieId(k) ==
  "cieL2" \in Methods /\ OnPidScreen /\ Prepare(k, "cieL2", pidScreen.proof)

\* The PIN is confirmed: a login with it needs no other proof.
ConfirmPin(k) ==
  "cieL3" \in Methods /\ cie # Nothing /\ Prepare(k, "cieL3", FALSE)

\* What startUserAuthorization pushes: the proof that is asked for is part of
\* the authorization details.
Pushed(k, a) ==
  [method |-> thunk[k].method, proof |-> thunk[k].proof,
   bound |-> CodeChallenge(a), phase |-> "pushed", given |-> 0]

\* Faulty variant: the web view is told what the switch says by now.
OpenLoginAsSwitched(k, a) ==
  login' = [attempt |-> a, proof |-> pidScreen # Nothing /\ pidScreen.proof,
            app |-> FALSE, closing |-> FALSE]

\* The caller of the thunk opens the web view on the page of the attempt, also
\* when its own screen is gone.
OpenLogin(k, a) ==
  login' = [attempt |-> a, proof |-> thunk[k].proof, app |-> FALSE,
            closing |-> FALSE]

\* The authorization request is pushed and its parameters are stored; the
\* method goes on loading.
PrepareFulfilled(k) ==
  /\ thunk[k].kind = "prepare"
  /\ Len(attempts) < MaxAttempts
  /\ LET a == Len(attempts) + 1 IN
     /\ attempts' = Append(attempts, Pushed(k, a))
     /\ params' = [attempt |-> a, method |-> thunk[k].method]
     /\ IF thunk[k].method = "cieL3" THEN UNCHANGED login ELSE OpenLogin(k, a)
  /\ ShowChallenge(pidScreen, params', challenge)
  /\ overtaken' = (overtaken \/ params # Nothing \/ Busy(Thunks \ {k}))
  /\ End(k)
  /\ UNCHANGED <<loading, pid, challenge, validation, unseen, pidScreen, cie>>

PrepareRejected(k) ==
  /\ thunk[k].kind = "prepare"
  /\ params' = Nothing
  /\ Ends(thunk[k].method)
  /\ overtaken' = (overtaken \/ params # Nothing \/ Busy(Thunks \ {k}))
  /\ End(k)
  /\ UNCHANGED <<attempts, pid, challenge, validation, unseen, screens>>
-----------------------------------------------------------------------------
(* What the thunks of a redirect do when they are dispatched, for attempt a *)

\* initPidMrtdChallengeThunk
DispatchInit(k, a) ==
  IF params = Nothing
  THEN /\ MrtdReset
       /\ Ends("spid")
       /\ UNCHANGED <<params, thunk, overtaken>>
  ELSE /\ Run(k, [kind |-> "init", attempt |-> a])
       /\ overtaken' = (overtaken \/ Foreign(a) \/ Busy(Thunks))
       /\ UNCHANGED <<params, loading, challenge, validation, unseen>>

\* continuePidFlowThunk
DispatchContinue(k, a) ==
  /\ IF params = Nothing
     THEN /\ Ends("spid")
          /\ UNCHANGED <<thunk, overtaken>>
     ELSE /\ Loads(params.method)
          /\ Run(k, [kind |-> "continue", attempt |-> a,
                     verifier |-> params.attempt])
          /\ overtaken' = (overtaken \/ Foreign(a)
                             \/ \E j \in Thunks : thunk[j].kind # "idle")
  /\ UNCHANGED <<params, challenge, validation, unseen>>

\* A rejection of either MRTD thunk drops challenge and parameters.
MrtdRejected(k) ==
  /\ MrtdReset
  /\ params' = Nothing
  /\ Ends(MethodOf(params))
  /\ overtaken' = (overtaken \/ Busy(Thunks \ {k}))
  /\ End(k)
-----------------------------------------------------------------------------
(* The web view of SPID and CieID *)

\* The identity provider authenticates the user and the issuer redirects.
Authenticated(a, proof) ==
  \/ attempts[a].phase = "pushed"
       /\ Advance(a, IF proof THEN "session" ELSE "coded")
  \/ attempts[a].phase # "pushed" /\ UNCHANGED attempts

\* A link of the page opens the CieID app, which answers with the URL that the
\* web view goes on with; the app may never answer.
OpenCieIdApp ==
  /\ login # Nothing /\ ~login.app /\ ~login.closing
  /\ attempts[login.attempt].method = "cieL2"
  /\ attempts[login.attempt].phase = "pushed"
  /\ login' = [login EXCEPT !.app = TRUE]
  /\ UNCHANGED <<attempts, slices, pidScreen, cie, internal, thunk, overtaken>>

CieIdAppAnswers ==
  /\ login # Nothing /\ login.app
  /\ login' = [login EXCEPT !.app = FALSE]
  /\ UNCHANGED <<attempts, slices, pidScreen, cie, internal, thunk, overtaken>>

\* A navigation to the redirect URI; the web view may report one more before
\* the screen is gone.
LoginRedirect(k) ==
  /\ login # Nothing /\ ~login.app
  /\ thunk[k] = Idle
  /\ login.closing => attempts[login.attempt].phase # "pushed"
  /\ Authenticated(login.attempt, attempts[login.attempt].proof)
  /\ IF login.proof THEN DispatchInit(k, login.attempt)
                    ELSE DispatchContinue(k, login.attempt)
  /\ login' = IF login.closing THEN Nothing ELSE [login EXCEPT !.closing = TRUE]
  /\ UNCHANGED <<pid, pidScreen, cie, internal>>

\* The screen is gone, after the redirect or because the user went back.
LoginClosed ==
  /\ login # Nothing
  /\ login' = Nothing
  /\ UNCHANGED <<attempts, slices, pidScreen, cie, internal, thunk, overtaken>>

\* The CieID app or the web view reports an error.
CieIdFails ==
  /\ login # Nothing
  /\ attempts[login.attempt].method = "cieL2"
  /\ login' = Nothing
  /\ PidFlowReset
  /\ overtaken' = (overtaken \/ Busy(Thunks))
  /\ UNCHANGED <<attempts, pid, challenge, validation, unseen, pidScreen, cie, internal,
                 thunk>>
-----------------------------------------------------------------------------
(* MRTD proof of possession *)

\* The redirect of a session carries the challenge information, which must
\* verify with the keys of the issuer and be for this wallet.
ChallengeInfo(a) == attempts[a].phase \in {"session", "challenged"}

\* The issuer gives a session a challenge; how often is up to the issuer.
ChallengeGiven(a) == attempts[a].given < MaxChallenges

\* The challenge and its nonce are stored.
InitFulfilled(k) ==
  /\ thunk[k].kind = "init"
  /\ LET a == thunk[k].attempt IN
     /\ ChallengeInfo(a)
     /\ ChallengeGiven(a)
     /\ attempts' = [attempts EXCEPT ![a].phase = "challenged", ![a].given = @ + 1]
     /\ challenge' = [attempt |-> a, serial |-> attempts[a].given + 1]
     /\ overtaken' = (overtaken \/ Foreign(a))
  /\ unseen' = (pidScreen = Nothing)
  /\ ShowChallenge(pidScreen, params, challenge')
  /\ End(k)
  /\ UNCHANGED <<params, loading, pid, validation, pidScreen, login, cie>>

\* The CAN is confirmed: the reader is to sign the challenge that is shown.
ConfirmCan ==
  /\ internal # Nothing /\ ~internal.closing
  /\ internal.reading = Nothing
  /\ internal' = [internal EXCEPT !.reading = internal.challenge]
  /\ UNCHANGED <<attempts, slices, pidScreen, login, cie, thunk, overtaken>>

\* The card has signed: validatePidMrtdChallengeThunk reads both slices.
CardRead(k) ==
  /\ internal # Nothing /\ ~internal.closing
  /\ internal.reading # Nothing
  /\ thunk[k] = Idle
  /\ IF params = Nothing \/ challenge = Nothing
     THEN /\ MrtdReset
          /\ params' = Nothing
          /\ Ends(MethodOf(params))
          /\ UNCHANGED thunk
     ELSE /\ Run(k, [kind |-> "validate", attempt |-> challenge.attempt,
                     signed |-> internal.reading])
          /\ UNCHANGED <<params, loading, challenge, validation, unseen>>
  /\ internal' = [internal EXCEPT !.reading = Nothing]
  /\ UNCHANGED <<attempts, pid, pidScreen, login, cie, overtaken>>

\* The issuer accepts a signature of the last challenge it gave the session.
ChallengeValid(k) ==
  LET a == thunk[k].attempt IN
  /\ attempts[a].phase = "challenged"
  /\ thunk[k].signed = [attempt |-> a, serial |-> attempts[a].given]

\* The callback URL, with the session, is stored, whether or not its screen is
\* still there.
ValidateFulfilled(k) ==
  /\ thunk[k].kind = "validate"
  /\ ChallengeValid(k)
  /\ Advance(thunk[k].attempt, "validated")
  /\ validation' = thunk[k].attempt
  /\ overtaken' = (overtaken \/ Foreign(thunk[k].attempt) \/ internal = Nothing)
  /\ End(k)
  /\ UNCHANGED <<params, loading, pid, challenge, unseen, screens>>

MrtdFails(k) ==
  /\ thunk[k].kind \in {"init", "validate"}
  /\ MrtdRejected(k)
  /\ UNCHANGED <<attempts, pid, screens>>

\* The callback page is shown, and its redirect carries the code.
CallbackRedirect(k) ==
  /\ internal # Nothing /\ ~internal.closing
  /\ validation # Nothing
  /\ thunk[k] = Idle
  /\ \/ attempts[validation].phase = "validated" /\ Advance(validation, "coded")
     \/ attempts[validation].phase # "validated" /\ UNCHANGED attempts
  /\ DispatchContinue(k, validation)
  /\ internal' = [internal EXCEPT !.closing = TRUE]
  /\ UNCHANGED <<pid, pidScreen, login, cie>>

\* The screen is gone, after the callback or because the user went back.
InternalClosed ==
  /\ internal # Nothing
  /\ internal' = Nothing
  /\ MrtdReset
  /\ overtaken' = (overtaken \/ \E k \in Thunks : thunk[k].kind = "init")
  /\ UNCHANGED <<attempts, params, loading, pid, pidScreen, login, cie, thunk>>

\* The CAN is cancelled: the login is reset.
CanCancelled ==
  /\ internal # Nothing
  /\ internal.reading = Nothing
  /\ internal' = Nothing
  /\ PidFlowReset
  /\ MrtdReset
  /\ overtaken' = (overtaken \/ \E k \in Thunks : thunk[k].kind # "idle")
  /\ UNCHANGED <<attempts, pid, pidScreen, login, cie, thunk>>

\* The reader or the web view of the callback reports an error.
InternalFails ==
  /\ internal # Nothing
  /\ internal.reading # Nothing \/ validation # Nothing
  /\ internal' = Nothing
  /\ PidFlowReset
  /\ MrtdReset
  /\ overtaken' = (overtaken \/ \E k \in Thunks : thunk[k].kind # "idle")
  /\ UNCHANGED <<attempts, pid, pidScreen, login, cie, thunk>>
-----------------------------------------------------------------------------
(* CIE and PIN *)

OpenCie ==
  /\ OnPidScreen
  /\ cie' = [url |-> Nothing]
  /\ UNCHANGED <<attempts, slices, pidScreen, login, internal, thunk, overtaken>>

\* The page of the attempt in the store, also one that the user had left, gives
\* the URL for the reader; the card is read and gives the URL of the next page.
PageForReader(p) == p # Nothing /\ p.method = "cieL3"

ReadCard ==
  /\ cie # Nothing
  /\ PageForReader(params)
  /\ cie.url # params.attempt
  /\ cie' = [url |-> params.attempt]
  /\ UNCHANGED <<attempts, slices, pidScreen, login, internal, thunk, overtaken>>

CieRedirect(k) ==
  /\ cie # Nothing /\ cie.url # Nothing
  /\ thunk[k] = Idle
  /\ Authenticated(cie.url, FALSE)
  /\ DispatchContinue(k, cie.url)
  /\ cie' = Nothing
  /\ UNCHANGED <<pid, pidScreen, login, internal>>

\* The PIN is cancelled or the user goes back: the parameters stay.
CieClosed ==
  /\ cie # Nothing
  /\ cie' = Nothing
  /\ UNCHANGED <<attempts, slices, pidScreen, login, internal, thunk, overtaken>>

CieFails ==
  /\ cie # Nothing
  /\ cie' = Nothing
  /\ PidFlowReset
  /\ overtaken' = (overtaken \/ Busy(Thunks))
  /\ UNCHANGED <<attempts, pid, challenge, validation, unseen, pidScreen, login, internal,
                 thunk>>
-----------------------------------------------------------------------------
(* continuePidFlowThunk *)

\* The redirect carries a code, which the issuer exchanges once.
CodeOf(a) == attempts[a].phase = "coded"

\* The token request proves the verifier of the stored parameters.
CodeExchanged(k) ==
  /\ CodeOf(thunk[k].attempt)
  /\ attempts[thunk[k].attempt].bound = CodeChallenge(thunk[k].verifier)

\* The PID that follows is stored.
ContinueFulfilled(k) ==
  /\ thunk[k].kind = "continue"
  /\ CodeExchanged(k)
  /\ Advance(thunk[k].attempt, "redeemed")
  /\ pid' = [code |-> thunk[k].attempt, verifier |-> thunk[k].verifier]
  /\ params' = Nothing
  /\ Ends(MethodOf(params))
  /\ overtaken' = (overtaken \/ Busy(Thunks \ {k}))
  /\ End(k)
  /\ UNCHANGED <<challenge, validation, unseen, screens>>

\* Faulty variant: the method is left loading.
ContinueRejectedQuietly(k) ==
  /\ thunk[k].kind = "continue"
  /\ params' = Nothing
  /\ overtaken' = (overtaken \/ Busy(Thunks \ {k}))
  /\ End(k)
  /\ UNCHANGED <<attempts, loading, pid, challenge, validation, unseen, screens>>

ContinueRejected(k) ==
  /\ thunk[k].kind = "continue"
  /\ params' = Nothing
  /\ Ends(MethodOf(params))
  /\ overtaken' = (overtaken \/ Busy(Thunks \ {k}))
  /\ End(k)
  /\ UNCHANGED <<attempts, pid, challenge, validation, unseen, screens>>
-----------------------------------------------------------------------------
(* Resets *)

\* instanceReset or sessionReset, from a screen or when a revocation that was
\* started earlier ends: the MRTD slice and the thunks go on.
PidSliceReset ==
  /\ params' = Nothing /\ loading' = {} /\ pid' = Nothing
  /\ overtaken' = (overtaken \/ Busy(Thunks))
  /\ UNCHANGED <<attempts, challenge, validation, unseen, screens, thunk>>

\* The process ends: of these slices only the PID is persisted.
Restart ==
  /\ params' = Nothing /\ loading' = {}
  /\ MrtdReset
  /\ pidScreen' = Nothing
  /\ login' = Nothing /\ cie' = Nothing /\ internal' = Nothing
  /\ thunk' = [k \in Thunks |-> Idle]
  /\ overtaken' = FALSE
  /\ UNCHANGED <<attempts, pid>>

ThunkStep(k) ==
  \/ PrepareFulfilled(k) \/ PrepareRejected(k)
  \/ InitFulfilled(k) \/ ValidateFulfilled(k) \/ MrtdFails(k)
  \/ ContinueFulfilled(k) \/ ContinueRejected(k)

Next ==
  \/ OpenPidScreen \/ LeavePidScreen \/ ToggleProof
  \/ \E k \in Thunks :
       \/ SelectIdp(k) \/ TapCieId(k) \/ ConfirmPin(k)
       \/ ThunkStep(k)
       \/ LoginRedirect(k) \/ CardRead(k) \/ CallbackRedirect(k) \/ CieRedirect(k)
  \/ LoginClosed \/ OpenCieIdApp \/ CieIdAppAnswers \/ CieIdFails
  \/ ConfirmCan \/ InternalClosed \/ CanCancelled \/ InternalFails
  \/ OpenCie \/ ReadCard \/ CieClosed \/ CieFails
  \/ PidSliceReset
  \/ Restart

Spec == Init /\ [][Next]_vars
-----------------------------------------------------------------------------
(* Properties *)

\* The PID that is stored was obtained with a code and the verifier of one
\* attempt: the app does not compare the state of a redirect (thunks/pid.ts),
\* and a redirect of an attempt that was left can meet the parameters of the
\* next; the issuer refuses that code, because it is bound to a verifier.
PidOfItsAttempt == pid # Nothing => pid.code = pid.verifier

\* A redirect with a challenge is never taken for one with a code, nor the
\* other way round, though the user may use the switch while a login is being
\* prepared: the challenge thunk only ever handles a login that asked for the
\* proof of the document, and the code of such a login comes from its callback.
ProofAsRequested ==
  \A k \in Thunks :
    /\ thunk[k].kind = "init" => attempts[thunk[k].attempt].proof
    /\ thunk[k].kind = "continue" /\ attempts[thunk[k].attempt].proof =>
         attempts[thunk[k].attempt].phase \in {"validated", "coded", "redeemed"}

\* The internal authentication screen shows the challenge of the login whose
\* parameters are stored: a challenge that was shown and left does not come up
\* in the next login.  Two cases are left out: logins that were overtaken, and
\* a challenge that came while the PID screen was closed, which nothing drops
\* with its parameters: the MRTD slice has no case for the resets, and the next
\* login is shown a challenge of the one before.
ChallengeOfFlow ==
  internal # Nothing /\ ~internal.closing /\ params # Nothing /\ ~overtaken /\ ~unseen
    => internal.challenge.attempt = params.attempt

\* A method loads only while a thunk works for it or its parameters are
\* stored, so that somebody can end the loading, unless a login was overtaken:
\* the reducers of pid.ts look the method up in parameters that may be gone.
LoadingExplained ==
  \A m \in loading :
    \/ overtaken
    \/ params # Nothing /\ params.method = m
    \/ \E k \in Thunks : thunk[k].kind = "prepare" /\ thunk[k].method = m
=============================================================================
