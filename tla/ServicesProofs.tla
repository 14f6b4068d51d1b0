--------------------------- MODULE ServicesProofs ---------------------------
(***************************************************************************)
(* Proofs about the status checks, the trustmark and the proximity screen, *)
(* for every lifetime and length of time, and any number of credentials,   *)
(* checks, thunks, tasks, mounts and requests.                             *)
(***************************************************************************)
EXTENDS Services, TLAPS

(* The store *)

\* What a step of a service may do to the store and its clock.
StoreStep ==
  Tick \/ (\E t : StoreCredential(t)) \/ ForgetCredentials \/ UNCHANGED storeVars

LEMMA StoreKeeps ==
  ASSUME StoreTypeOK, StoreStep PROVE StoreTypeOK' /\ now <= now'
<1> USE StoreAssumption DEF StoreTypeOK, Time, Serials, storeVars
<1>1. CASE Tick
  BY <1>1 DEF Tick
<1>2. ASSUME NEW t, StoreCredential(t) PROVE StoreTypeOK' /\ now <= now'
  <2>1. serials + 1 \in 1 .. MaxSerial
    BY <1>2 DEF StoreCredential
  <2>2. held' \in [Types -> Serials \cup {Nothing}]
    BY <1>2, <2>1 DEF StoreCredential
  <2>3. now' = now /\ serials' = serials + 1
    BY <1>2 DEF StoreCredential
  <2> QED BY <2>1, <2>2, <2>3
<1>3. CASE ForgetCredentials
  BY <1>3 DEF ForgetCredentials, EmptyStore
<1>4. CASE UNCHANGED storeVars
  BY <1>4
<1> QED BY <1>1, <1>2, <1>3, <1>4 DEF StoreStep

LEMMA StatusStores == ASSUME StatusNext PROVE StoreStep
BY DEF StatusNext, ProviderStep, Publish, ChangeStatus, CheckStep, EvaluateTrust, FetchList,
       RefetchList, Fetch, VerifyList, RefuseList, RequestAssertion, VerifyAssertion, CheckFails,
       StartCheck, StatusReset, StatusRestart, StoreStep

LEMMA TrustmarkStores == ASSUME TrustmarkNext PROVE StoreStep
BY DEF TrustmarkNext, TrustmarkStep, ReadHolderKey, CompareKeys, SignTrustmark, TrustmarkFails,
       OpenScreen, CloseScreen, CredentialStored, RegenerateWiaKey, StoreWia, TrustmarkReset,
       StoreStep
-----------------------------------------------------------------------------
(* Status checks *)

\* A list that the provider made at some time until n.
MadeBy(list, n) == \E i \in 0 .. n : list = ListNow(i)

\* A status that the provider gave, not longer than a Lifetime ago.
TimelyAt(s, result, t) ==
  \E m \in 0 .. t :
    /\ StatusAt(s, m) = result
    /\ Expiring \/ version = "1.0.0" => t - m <= Lifetime

Beginning == {"trust", "list", "assertion"}

CheckOK(k) ==
  /\ k.pc \in Beginning =>
       k \in [pc : Beginning, type : Types, cred : Serials]
  /\ k.pc \in {"refetch", "verifyList", "verifyAssertion"} => k.cred \in Serials
  /\ k.pc \in {"list", "refetch", "verifyList"} => version = "1.3.3"
  /\ k.pc \in {"refetch", "verifyList"} => MadeBy(k.list, now)
  /\ k.pc = "verifyList" => ~k.stale
  /\ k.pc = "verifyAssertion" => k.iat \in 0 .. now /\ k.about \in Serials

ResultOK(r) ==
  /\ r.cred \in Serials /\ r.about = r.cred
  /\ r.at \in 0 .. now
  /\ TimelyAt(r.cred, r.status, r.at)

ProviderInvariant ==
  /\ version \in {"1.0.0", "1.3.3"}
  /\ revoked \in [Serials -> 0 .. Never]
  /\ MadeBy(published, now)
  /\ cached # Nothing => MadeBy(cached, now)

CheckInvariant == DOMAIN check = Checks /\ \A c \in Checks : CheckOK(check[c])

ResultInvariant ==
  DOMAIN status = Types /\ \A t \in Types : status[t] # Nothing => ResultOK(status[t])

StatusInvariant == StoreTypeOK /\ ProviderInvariant /\ CheckInvariant /\ ResultInvariant

\* Later, and when the status of a credential changes, what was made is made.
LEMMA MadeStays ==
  ASSUME now \in Time, now' \in Time, now <= now', NEW list, MadeBy(list, now)
  PROVE  MadeBy(list, now')
BY StoreAssumption DEF MadeBy, Time

\* The status of a credential changes from the next instant on.
LEMMA PastStays ==
  ASSUME StoreTypeOK, revoked \in [Serials -> 0 .. Never], UNCHANGED verdict,
         UNCHANGED revoked \/ \E s \in Serials : ChangeStatus(s),
         NEW r \in Serials, NEW m \in 0 .. now
  PROVE  StatusAt(r, m)' = StatusAt(r, m)
<1>1. CASE UNCHANGED revoked
  BY <1>1 DEF StatusAt
<1>2. ASSUME NEW s \in Serials, ChangeStatus(s) PROVE StatusAt(r, m)' = StatusAt(r, m)
  <2>1. CASE r = s
    BY <1>2, <2>1, StoreAssumption DEF ChangeStatus, StatusAt, Never, StoreTypeOK, Time
  <2>2. CASE r # s
    BY <1>2, <2>2 DEF ChangeStatus, StatusAt
  <2> QED BY <2>1, <2>2
<1> QED BY <1>1, <1>2

LEMMA ResultsStay ==
  ASSUME StatusInvariant, StoreTypeOK', now <= now', UNCHANGED <<version, verdict>>,
         UNCHANGED revoked \/ \E s \in Serials : ChangeStatus(s),
         NEW r, ResultOK(r)
  PROVE  ResultOK(r)'
<1>1. PICK m \in 0 .. r.at : /\ StatusAt(r.cred, m) = r.status
                             /\ Expiring \/ version = "1.0.0" => r.at - m <= Lifetime
  BY DEF ResultOK, TimelyAt
<1>2. m \in 0 .. now /\ r.at \in 0 .. now'
  BY <1>1, StoreAssumption DEF StatusInvariant, StoreTypeOK, Time, ResultOK
<1>3. StatusAt(r.cred, m)' = r.status
  BY <1>1, <1>2, PastStays DEF StatusInvariant, ProviderInvariant, ResultOK
<1> QED BY <1>1, <1>2, <1>3 DEF ResultOK, TimelyAt

LEMMA ChecksStay ==
  ASSUME StatusInvariant, StoreTypeOK', now <= now', UNCHANGED version, NEW k, CheckOK(k)
  PROVE  CheckOK(k)'
<1>1. MadeBy(k.list, now) => MadeBy(k.list, now)'
  BY MadeStays DEF StatusInvariant, StoreTypeOK, MadeBy, ListNow
<1>2. k.iat \in 0 .. now => k.iat \in 0 .. now'
  BY StoreAssumption DEF StatusInvariant, StoreTypeOK, Time
<1> QED BY <1>1, <1>2 DEF CheckOK, Beginning

LEMMA RunsOn ==
  ASSUME CheckInvariant, NEW c \in Checks, NEW k, check' = [check EXCEPT ![c] = k], CheckOK(k)',
         \A j : CheckOK(j) => CheckOK(j)'
  PROVE  CheckInvariant'
BY DEF CheckInvariant

\* What every step of a check needs: nothing but the check, and perhaps the
\* cache, changes.
CheckFrame ==
  UNCHANGED <<storeVars, version, providerVars>>

LEMMA FrameKeeps ==
  ASSUME StatusInvariant, CheckFrame
  PROVE  /\ StoreTypeOK' /\ now <= now'
         /\ \A j : CheckOK(j) => CheckOK(j)'
         /\ \A r : ResultOK(r) => ResultOK(r)'
         /\ cached' \in {cached, published} => ProviderInvariant'
<1>1. StoreTypeOK' /\ now <= now'
  BY StoreKeeps DEF StatusInvariant, CheckFrame, StoreStep
<1>2. \A j : CheckOK(j) => CheckOK(j)'
  BY <1>1, ChecksStay DEF CheckFrame
<1>3. \A r : ResultOK(r) => ResultOK(r)'
  BY <1>1, ResultsStay DEF CheckFrame, providerVars
<1>4. cached' \in {cached, published} => ProviderInvariant'
  BY DEF StatusInvariant, ProviderInvariant, CheckFrame, providerVars, storeVars, MadeBy
<1> QED BY <1>1, <1>2, <1>3, <1>4

\* The end of a check with an error, or with a result.
LEMMA CheckRejected ==
  ASSUME StatusInvariant, CheckFrame, UNCHANGED cached, NEW c \in Checks, Rejected(c)
  PROVE  StatusInvariant'
<1>1. CheckOK(NoCheck)'
  BY DEF CheckOK, Beginning, NoCheck
<1>2. CheckInvariant'
  BY <1>1, FrameKeeps, RunsOn DEF StatusInvariant, Rejected
<1>3. ResultInvariant'
  BY FrameKeeps DEF StatusInvariant, ResultInvariant, Rejected
<1> QED BY <1>2, <1>3, FrameKeeps DEF StatusInvariant

LEMMA CheckFulfilled ==
  ASSUME StatusInvariant, CheckFrame, UNCHANGED cached, NEW c \in Checks, NEW result,
         Fulfilled(c, result), ResultOK(result)
  PROVE  StatusInvariant'
<1>1. CheckOK(NoCheck)'
  BY DEF CheckOK, Beginning, NoCheck
<1>2. CheckInvariant'
  BY <1>1, FrameKeeps, RunsOn DEF StatusInvariant, Fulfilled
<1>3. ResultInvariant'
  BY FrameKeeps DEF StatusInvariant, ResultInvariant, Fulfilled
<1> QED BY <1>2, <1>3, FrameKeeps DEF StatusInvariant

\* A check that goes on.
LEMMA CheckGoesOn ==
  ASSUME StatusInvariant, CheckFrame, cached' \in {cached, published}, UNCHANGED status,
         NEW c \in Checks, NEW k, check' = [check EXCEPT ![c] = k], CheckOK(k)'
  PROVE  StatusInvariant'
<1>1. CheckInvariant'
  BY FrameKeeps, RunsOn DEF StatusInvariant
<1>2. ResultInvariant'
  BY FrameKeeps DEF StatusInvariant, ResultInvariant
<1> QED BY <1>1, <1>2, FrameKeeps DEF StatusInvariant

LEMMA Fetches ==
  ASSUME StatusInvariant, NEW c \in Checks, FetchList(c) \/ RefetchList(c)
  PROVE  StatusInvariant'
<1> DEFINE k(list, next) ==
      [pc |-> next, type |-> check[c].type, cred |-> check[c].cred,
       list |-> list, stale |-> list # published /\ Expired(list, now)]
<1>1. CheckOK(check[c]) /\ CheckFrame /\ UNCHANGED status
  BY DEF StatusInvariant, CheckInvariant, FetchList, RefetchList, Fetch, CheckFrame
<1>2. check[c].pc \in {"list", "refetch"} /\ check[c].cred \in Serials /\ version = "1.3.3"
  BY <1>1 DEF CheckOK, Beginning, FetchList, RefetchList
<1>3. PICK list, next, off :
        /\ off \in BOOLEAN
        /\ list \in Answers(off) /\ Fetch(c, list, off, next)
        /\ next = "verifyList" => off \/ ~Expired(list, now)
        /\ next \in {"refetch", "verifyList"}
  <2>1. CASE FetchList(c)
    <3>1. PICK list \in Answers(FALSE) :
            Fetch(c, list, FALSE, IF Expired(list, now) THEN "refetch" ELSE "verifyList")
      BY <2>1 DEF FetchList
    <3>2. CASE Expired(list, now)
      <4>1. Fetch(c, list, FALSE, "refetch")
        BY <3>1, <3>2
      <4> QED BY <4>1
    <3>3. CASE ~Expired(list, now)
      <4>1. Fetch(c, list, FALSE, "verifyList")
        BY <3>1, <3>3
      <4> QED BY <3>3, <4>1
    <3> QED BY <3>2, <3>3
  <2>2. CASE RefetchList(c)
    BY <2>2 DEF RefetchList
  <2> QED BY <2>1, <2>2
<1>4. list \in {published, cached} /\ (list # published => ~off /\ cached # Nothing)
  BY <1>3 DEF Answers
<1>5. MadeBy(list, now)
  BY <1>4 DEF StatusInvariant, ProviderInvariant
<1>6. cached' \in {cached, published}
  BY <1>3, <1>4 DEF Fetch
<1>7. PICK j : j = k(list, next)
  OBVIOUS
<1>8. CheckOK(j)
  BY <1>2, <1>3, <1>4, <1>5, <1>7 DEF CheckOK, Beginning
<1>9. check' = [check EXCEPT ![c] = j]
  BY <1>3, <1>7 DEF Fetch
<1> QED BY <1>1, <1>6, <1>8, <1>9, FrameKeeps, CheckGoesOn

LEMMA VerifiesList ==
  ASSUME StatusInvariant, NEW c \in Checks, VerifyList(c) PROVE StatusInvariant'
<1>1. /\ check[c].cred \in Serials /\ version = "1.3.3" /\ MadeBy(check[c].list, now)
  BY DEF StatusInvariant, CheckInvariant, CheckOK, Beginning, VerifyList
<1>2. PICK i \in 0 .. now : check[c].list = ListNow(i)
  BY <1>1 DEF MadeBy
<1> DEFINE result == [cred |-> check[c].cred, about |-> check[c].cred,
                      status |-> StatusAt(check[c].cred, check[c].list.iat), at |-> now]
<1>3. now \in Nat /\ i \in Nat /\ i <= now
  BY <1>2, StoreAssumption DEF StatusInvariant, StoreTypeOK, Time
<1>4. check[c].list.iat = i /\ (Expiring => now - i <= Lifetime)
  <2>1. CASE Expiring
    <3>1. check[c].list = [iat |-> i, exp |-> i + Lifetime]
      BY <1>2, <2>1 DEF ListNow
    <3>2. i + Lifetime # Nothing
      BY <1>3, StatusAssumption, StoreAssumption
    <3>3. ~(i + Lifetime < now)
      BY <3>1, <3>2 DEF VerifyList, Verifies, Expired
    <3> QED BY <1>3, <3>1, <3>3, StatusAssumption
  <2>2. CASE ~Expiring
    BY <1>2, <2>2 DEF ListNow
  <2> QED BY <2>1, <2>2
<1>5. TimelyAt(result.cred, result.status, result.at)
  BY <1>1, <1>3, <1>4 DEF TimelyAt
<1>6. ResultOK(result)
  BY <1>1, <1>3, <1>5 DEF ResultOK
<1>7. Fulfilled(c, result) /\ CheckFrame /\ UNCHANGED cached
  BY DEF VerifyList, CheckFrame
<1> HIDE DEF result
<1> QED BY <1>6, <1>7, CheckFulfilled

LEMMA VerifiesAssertion ==
  ASSUME StatusInvariant, NEW c \in Checks, VerifyAssertion(c) PROVE StatusInvariant'
<1>1. CheckFrame /\ UNCHANGED cached
  BY DEF VerifyAssertion, CheckFrame
<1>2. CASE AssertionAccepted(c)
  <2> DEFINE result == [cred |-> check[c].cred, about |-> check[c].about,
                        status |-> "VALID", at |-> now]
  <2>1. /\ check[c].cred \in Serials /\ check[c].about = check[c].cred
        /\ check[c].iat \in 0 .. now
    BY <1>2 DEF StatusInvariant, CheckInvariant, CheckOK, VerifyAssertion, AssertionAccepted,
                BoundToHolder
  <2>2. now \in Nat
    BY StoreAssumption DEF StatusInvariant, StoreTypeOK, Time
  <2>3. ~(check[c].iat + Lifetime < now)
    <3>1. check[c].iat + Lifetime # Nothing
      BY <2>1, <2>2, StatusAssumption, StoreAssumption
    <3> QED BY <1>2, <3>1 DEF AssertionAccepted, Verifies, Expired
  <2>4. StatusAt(check[c].cred, check[c].iat) = "VALID"
    BY <1>2, <2>1 DEF AssertionAccepted
  <2>5. TimelyAt(result.cred, result.status, result.at)
    BY <2>1, <2>2, <2>3, <2>4, StatusAssumption DEF TimelyAt
  <2>6. ResultOK(result)
    BY <2>1, <2>2, <2>5 DEF ResultOK
  <2>7. Fulfilled(c, result)
    BY <1>2 DEF VerifyAssertion
  <2> HIDE DEF result
  <2> QED BY <1>1, <2>6, <2>7, CheckFulfilled
<1>3. CASE ~AssertionAccepted(c)
  BY <1>1, <1>3, CheckRejected DEF VerifyAssertion
<1> QED BY <1>2, <1>3

LEMMA CheckMoves ==
  ASSUME StatusInvariant, NEW c \in Checks, CheckStep(c) PROVE StatusInvariant'
<1>1. CheckOK(check[c])
  BY DEF StatusInvariant, CheckInvariant
<1>2. CASE EvaluateTrust(c)
  <2> DEFINE next == IF version = "1.0.0" THEN "assertion" ELSE "list"
  <2>1. check[c] \in [pc : Beginning, type : Types, cred : Serials]
    BY <1>1, <1>2 DEF CheckOK, Beginning, EvaluateTrust
  <2>2. PICK j : j = [check[c] EXCEPT !.pc = next]
    OBVIOUS
  <2>3. CheckOK(j)
    <3>0. next \in {"assertion", "list"} /\ next \in Beginning
      BY DEF Beginning
    <3> HIDE DEF next
    <3>1. j \in [pc : Beginning, type : Types, cred : Serials] /\ j.pc = next
      BY <2>1, <2>2, <3>0
    <3>2. next = "list" => version = "1.3.3"
      BY DEF StatusInvariant, ProviderInvariant, next
    <3> QED BY <3>0, <3>1, <3>2 DEF CheckOK, Beginning
  <2>4. check' = [check EXCEPT ![c] = j] /\ CheckFrame /\ UNCHANGED <<cached, status>>
    BY <1>2, <2>2 DEF EvaluateTrust, CheckFrame
  <2> QED BY <2>3, <2>4, FrameKeeps, CheckGoesOn
<1>3. CASE FetchList(c) \/ RefetchList(c)
  BY <1>3, Fetches
<1>4. CASE VerifyList(c)
  BY <1>4, VerifiesList
<1>5. CASE RefuseList(c) \/ CheckFails(c)
  BY <1>5, CheckRejected DEF RefuseList, CheckFails, CheckFrame
<1>6. CASE RequestAssertion(c)
  <2>1. PICK s \in 1 .. serials :
          check' = [check EXCEPT ![c] =
            [pc |-> "verifyAssertion", type |-> check[c].type, cred |-> check[c].cred,
             about |-> s, iat |-> now]]
    BY <1>6 DEF RequestAssertion
  <2>2. PICK j : j = [pc |-> "verifyAssertion", type |-> check[c].type, cred |-> check[c].cred,
                      about |-> s, iat |-> now]
    OBVIOUS
  <2>3. s \in Serials /\ now \in 0 .. now /\ check[c].cred \in Serials
    <3>1. check[c].cred \in Serials
      BY <1>1, <1>6 DEF CheckOK, Beginning, RequestAssertion
    <3> QED BY <3>1, StoreAssumption DEF StatusInvariant, StoreTypeOK, Serials, Time
  <2>4. CheckOK(j)
    BY <2>2, <2>3 DEF CheckOK, Beginning
  <2>5. check' = [check EXCEPT ![c] = j] /\ CheckFrame /\ UNCHANGED <<cached, status>>
    BY <1>6, <2>1, <2>2 DEF RequestAssertion, CheckFrame
  <2> QED BY <2>4, <2>5, FrameKeeps, CheckGoesOn
<1>7. CASE VerifyAssertion(c)
  BY <1>7, VerifiesAssertion
<1> QED BY <1>2, <1>3, <1>4, <1>5, <1>6, <1>7 DEF CheckStep

\* The store and its clock move on under the checks.
LEMMA StoreMoves ==
  ASSUME StatusInvariant, StoreStep, UNCHANGED statusVars PROVE StatusInvariant'
<1>1. StoreTypeOK' /\ now <= now'
  BY StoreKeeps DEF StatusInvariant
<1>2. \A j : CheckOK(j) => CheckOK(j)'
  BY <1>1, ChecksStay DEF statusVars
<1>3. \A r : ResultOK(r) => ResultOK(r)'
  BY <1>1, ResultsStay DEF statusVars, providerVars
<1>4. ProviderInvariant'
  BY <1>1, MadeStays DEF StatusInvariant, ProviderInvariant, StoreTypeOK, statusVars, providerVars,
                         MadeBy, ListNow
<1>5. CheckInvariant' /\ ResultInvariant'
  BY <1>2, <1>3 DEF StatusInvariant, CheckInvariant, ResultInvariant, statusVars
<1> QED BY <1>1, <1>4, <1>5 DEF StatusInvariant

LEMMA StatusStep ==
  ASSUME StatusInvariant, StatusNext PROVE StatusInvariant'
<1>1. StoreTypeOK' /\ now <= now'
  BY StatusStores, StoreKeeps DEF StatusInvariant
<1>2. CASE ProviderStep
  <2>1. /\ UNCHANGED <<storeVars, version, verdict, cached, check, status>>
        /\ UNCHANGED revoked \/ \E s \in Serials : ChangeStatus(s)
    BY <1>2 DEF ProviderStep, Publish, ChangeStatus
  <2>2. /\ \A j : CheckOK(j) => CheckOK(j)'
        /\ \A r : ResultOK(r) => ResultOK(r)'
    BY <1>1, <2>1, ChecksStay, ResultsStay
  <2>3. CheckInvariant' /\ ResultInvariant'
    BY <2>1, <2>2 DEF StatusInvariant, CheckInvariant, ResultInvariant
  <2>4. ProviderInvariant'
    <3>1. MadeBy(published, now)'
      <4>1. CASE Publish
        <5>1. published' = ListNow(now) /\ now' = now /\ now \in 0 .. now
          BY <4>1, StoreAssumption DEF Publish, storeVars, StatusInvariant, StoreTypeOK, Time
        <5> QED BY <5>1 DEF MadeBy, ListNow
      <4>2. CASE \E s \in Serials : ChangeStatus(s)
        BY <2>1, <4>2 DEF ChangeStatus, StatusInvariant, ProviderInvariant, storeVars, MadeBy, ListNow
      <4> QED BY <1>2, <4>1, <4>2 DEF ProviderStep
    <3>2. cached' # Nothing => MadeBy(cached, now)'
      BY <2>1 DEF StatusInvariant, ProviderInvariant, storeVars, MadeBy, ListNow
    <3>3. revoked' \in [Serials -> 0 .. Never]
      <4>1. now \in Nat /\ now <= MaxTime /\ MaxTime \in Nat
        BY StoreAssumption DEF StatusInvariant, StoreTypeOK, Time
      <4>2. CASE UNCHANGED revoked
        BY <4>2 DEF StatusInvariant, ProviderInvariant
      <4>3. ASSUME NEW s \in Serials, ChangeStatus(s) PROVE revoked' \in [Serials -> 0 .. Never]
        <5>1. now + 1 \in 0 .. Never
          BY <4>1 DEF Never
        <5> QED BY <4>3, <5>1 DEF ChangeStatus, StatusInvariant, ProviderInvariant
      <4> QED BY <2>1, <4>2, <4>3
    <3> QED BY <2>1, <3>1, <3>2, <3>3 DEF StatusInvariant, ProviderInvariant
  <2> QED BY <1>1, <2>3, <2>4 DEF StatusInvariant
<1>3. ASSUME NEW c \in Checks, CheckStep(c) PROVE StatusInvariant'
  BY <1>3, CheckMoves
<1>4. ASSUME NEW c \in Checks, NEW t \in Types, StartCheck(c, t) PROVE StatusInvariant'
  <2>1. PICK j : j = [pc |-> "trust", type |-> t, cred |-> held[t]]
    OBVIOUS
  <2>2. held[t] \in Serials
    BY <1>4 DEF StartCheck, StatusInvariant, StoreTypeOK
  <2>3. CheckOK(j)
    <3>1. j \in [pc : Beginning, type : Types, cred : Serials] /\ j.pc = "trust"
      BY <2>1, <2>2 DEF Beginning
    <3> QED BY <3>1 DEF CheckOK, Beginning
  <2>4. check' = [check EXCEPT ![c] = j] /\ CheckFrame /\ UNCHANGED <<cached, status>>
    BY <1>4, <2>1 DEF StartCheck, CheckFrame
  <2> QED BY <2>3, <2>4, FrameKeeps, CheckGoesOn
<1>5. CASE (Tick \/ \E t \in Types : StoreCredential(t)) /\ UNCHANGED statusVars
  BY <1>5, StoreMoves DEF StoreStep
<1>6. CASE StatusReset \/ StatusRestart
  <2>1. UNCHANGED <<version, providerVars, cached>> /\ status' = [t \in Types |-> Nothing]
    BY <1>6 DEF StatusReset, StatusRestart
  <2>2. ResultInvariant'
    BY <2>1 DEF ResultInvariant
  <2>3. ProviderInvariant'
    BY <1>1, <2>1, MadeStays
    DEF StatusInvariant, ProviderInvariant, StoreTypeOK, providerVars, MadeBy, ListNow
  <2>4. \A j : CheckOK(j) => CheckOK(j)'
    BY <1>1, <2>1, ChecksStay
  <2>5. CheckInvariant'
    BY <1>6, <2>4
    DEF StatusReset, StatusRestart, StatusInvariant, CheckInvariant, CheckOK, Beginning, NoCheck
  <2> QED BY <1>1, <2>2, <2>3, <2>5 DEF StatusInvariant
<1> QED BY <1>2, <1>3, <1>4, <1>5, <1>6 DEF StatusNext
-----------------------------------------------------------------------------
(* Trustmarks *)

\* A thunk that is about to sign knows whether the key it compared was
\* replaced.
Signing(k) ==
  thunk[k].pc = "sign" =>
    /\ thunk[k] = [pc |-> "sign", type |-> thunk[k].type, wia |-> thunk[k].wia,
                   replaced |-> thunk[k].replaced]
    /\ ~thunk[k].replaced => wiaKey = thunk[k].wia.key

TrustmarkInvariant ==
  /\ DOMAIN thunk = Thunks
  /\ \A k \in Thunks : Signing(k)
  /\ DOMAIN trustmark = Types
  /\ TrustmarkVerifiable

\* A thunk that ends, or goes on to another step than the signature.
LEMMA ThunkGoesOn ==
  ASSUME TrustmarkInvariant, UNCHANGED wiaKey, NEW k \in Thunks, NEW j, j.pc # "sign",
         thunk' = [thunk EXCEPT ![k] = j], UNCHANGED trustmark
  PROVE  TrustmarkInvariant'
BY DEF TrustmarkInvariant, Signing, TrustmarkVerifiable

LEMMA ThunkRejected ==
  ASSUME TrustmarkInvariant, UNCHANGED wiaKey, NEW k \in Thunks, Reject(k)
  PROVE  TrustmarkInvariant'
BY ThunkGoesOn DEF Reject, NoThunk

LEMMA ThunkDispatched ==
  ASSUME TrustmarkInvariant, UNCHANGED wiaKey, NEW k \in Thunks, NEW t \in Types, Dispatch(k, t),
         \A u \in Types : trustmark'[u] \in {trustmark[u], Nothing}, DOMAIN trustmark' = Types
  PROVE  TrustmarkInvariant'
<1>1. TrustmarkVerifiable'
  BY DEF TrustmarkInvariant, TrustmarkVerifiable
<1>2. DOMAIN thunk' = Thunks /\ \A j \in Thunks : Signing(j)'
  <2>1. CASE wia = Nothing
    BY <2>1 DEF TrustmarkInvariant, Dispatch, Signing
  <2>2. CASE wia # Nothing
    <3>1. PICK j : j = [pc |-> "key", type |-> t, wia |-> wia]
      OBVIOUS
    <3>2. thunk' = [thunk EXCEPT ![k] = j] /\ j.pc # "sign"
      BY <2>2, <3>1 DEF Dispatch
    <3> QED BY <3>2 DEF TrustmarkInvariant, Signing
  <2> QED BY <2>1, <2>2
<1> QED BY <1>1, <1>2 DEF TrustmarkInvariant

LEMMA TrustmarkMoves ==
  ASSUME TrustmarkInvariant, NEW k \in Thunks, TrustmarkStep(k) PROVE TrustmarkInvariant'
<1>1. CASE ReadHolderKey(k)
  <2>1. CASE Reject(k)
    BY <1>1, <2>1, ThunkRejected DEF ReadHolderKey
  <2>2. CASE ~Reject(k)
    <3>1. PICK j : j = [pc |-> "compare", type |-> thunk[k].type, wia |-> thunk[k].wia,
                        key |-> wiaKey]
      OBVIOUS
    <3>2. /\ thunk' = [thunk EXCEPT ![k] = j] /\ j.pc # "sign"
          /\ UNCHANGED <<wiaKey, trustmark>>
      BY <1>1, <2>2, <3>1 DEF ReadHolderKey
    <3> QED BY <3>2, ThunkGoesOn
  <2> QED BY <2>1, <2>2
<1>2. CASE CompareKeys(k)
  <2>1. CASE SameThumbprint(k)
    <3>1. PICK j : j = [pc |-> "sign", type |-> thunk[k].type, wia |-> thunk[k].wia,
                        replaced |-> wiaKey # thunk[k].key]
      OBVIOUS
    <3>2. /\ thunk' = [thunk EXCEPT ![k] = j] /\ UNCHANGED <<wiaKey, trustmark>>
          /\ ~j.replaced => wiaKey = j.wia.key
          /\ j = [pc |-> "sign", type |-> j.type, wia |-> j.wia, replaced |-> j.replaced]
      BY <1>2, <2>1, <3>1 DEF CompareKeys, SameThumbprint
    <3> QED BY <3>2 DEF TrustmarkInvariant, Signing, TrustmarkVerifiable
  <2>2. CASE ~SameThumbprint(k)
    BY <1>2, <2>2, ThunkRejected DEF CompareKeys
  <2> QED BY <2>1, <2>2
<1>3. CASE SignTrustmark(k)
  <2> DEFINE mark == [wia |-> thunk[k].wia, signer |-> wiaKey, replaced |-> thunk[k].replaced]
  <2>1. ~mark.replaced => mark.signer = mark.wia.key
    BY <1>3 DEF SignTrustmark, TrustmarkInvariant, Signing
  <2>2. /\ trustmark' = [trustmark EXCEPT ![thunk[k].type] = mark]
        /\ thunk' = [thunk EXCEPT ![k] = NoThunk] /\ UNCHANGED wiaKey
    BY <1>3 DEF SignTrustmark
  <2> HIDE DEF mark
  <2>3. TrustmarkVerifiable' /\ DOMAIN trustmark' = Types
    <3> PICK t0 : t0 = thunk[k].type
      OBVIOUS
    <3>1. \A t \in Types : trustmark'[t] = IF t = t0 THEN mark ELSE trustmark[t]
      BY <2>2 DEF TrustmarkInvariant
    <3> QED BY <2>1, <2>2, <3>1 DEF TrustmarkInvariant, TrustmarkVerifiable
  <2> QED BY <2>2, <2>3 DEF TrustmarkInvariant, Signing, NoThunk
<1>4. CASE TrustmarkFails(k)
  BY <1>4, ThunkRejected DEF TrustmarkFails
<1> QED BY <1>1, <1>2, <1>3, <1>4 DEF TrustmarkStep

LEMMA TrustmarkNextStep ==
  ASSUME TrustmarkInvariant, TrustmarkNext PROVE TrustmarkInvariant'
<1>1. ASSUME NEW k \in Thunks, TrustmarkStep(k) PROVE TrustmarkInvariant'
  BY <1>1, TrustmarkMoves
<1>2. ASSUME NEW k \in Thunks, NEW t \in Types, OpenScreen(k, t) PROVE TrustmarkInvariant'
  BY <1>2, ThunkDispatched DEF OpenScreen, TrustmarkInvariant
<1>3. ASSUME NEW k \in Thunks, NEW t \in Types, CredentialStored(k, t) PROVE TrustmarkInvariant'
  <2>1. CASE open = t
    <3>1. /\ Dispatch(k, t) /\ UNCHANGED wiaKey
          /\ trustmark' = [trustmark EXCEPT ![t] = Nothing]
      BY <1>3, <2>1 DEF CredentialStored
    <3>2. /\ DOMAIN trustmark' = Types
          /\ \A u \in Types : trustmark'[u] \in {trustmark[u], Nothing}
      BY <3>1 DEF TrustmarkInvariant
    <3> QED BY <3>1, <3>2, ThunkDispatched
  <2>2. CASE open # t
    BY <1>3, <2>2 DEF CredentialStored, TrustmarkInvariant, Signing, TrustmarkVerifiable
  <2> QED BY <2>1, <2>2
<1>4. CASE CloseScreen
  BY <1>4 DEF CloseScreen, TrustmarkInvariant, Signing, TrustmarkVerifiable
<1>5. CASE RegenerateWiaKey
  <2>1. /\ DOMAIN thunk' = Thunks /\ UNCHANGED trustmark
        /\ \A k \in Thunks : thunk'[k] = IF thunk[k].pc = "sign"
                                        THEN [thunk[k] EXCEPT !.replaced = TRUE]
                                        ELSE thunk[k]
    BY <1>5 DEF RegenerateWiaKey
  <2>2. ASSUME NEW k \in Thunks PROVE Signing(k)'
    <3>1. CASE thunk[k].pc = "sign"
      <4>1. thunk[k] = [pc |-> "sign", type |-> thunk[k].type, wia |-> thunk[k].wia,
                        replaced |-> thunk[k].replaced]
        BY <3>1 DEF TrustmarkInvariant, Signing
      <4>2. thunk'[k] = [pc |-> "sign", type |-> thunk[k].type, wia |-> thunk[k].wia,
                         replaced |-> TRUE]
        BY <2>1, <3>1, <4>1
      <4> QED BY <4>2 DEF Signing
    <3>2. CASE thunk[k].pc # "sign"
      BY <2>1, <3>2 DEF Signing
    <3> QED BY <3>1, <3>2
  <2> QED BY <2>1, <2>2 DEF TrustmarkInvariant, TrustmarkVerifiable
<1>6. CASE StoreWia \/ (Tick /\ UNCHANGED trustmarkVars)
  BY <1>6 DEF StoreWia, trustmarkVars, TrustmarkInvariant, Signing, TrustmarkVerifiable
<1>7. CASE TrustmarkReset
  BY <1>7 DEF TrustmarkReset, TrustmarkInvariant, Signing, TrustmarkVerifiable
<1> QED BY <1>1, <1>2, <1>3, <1>4, <1>5, <1>6, <1>7 DEF TrustmarkNext
-----------------------------------------------------------------------------
(* The proximity screen *)

Opening   == {"certificate", "permission", "start"}
SomeTasks == {NoTask} \cup [pc : Suspended, mount : Nat]

\* Unless a session could escape its closing: a start that is on its way and
\* the callbacks are of the screen that is mounted, and a session that is open
\* without a screen has somebody to close it.
ProximityInvariant ==
  /\ task \in [Tasks -> SomeTasks]
  /\ mount \in Nat /\ listener \in Nat \cup {Nothing}
  /\ \A k \in Tasks : task[k].pc \in Opening =>
       unclosed \/ (mounted /\ task[k].mount = mount)
  /\ listener # Nothing => unclosed \/ (mounted /\ listener = mount)
  /\ ~mounted /\ session => unclosed \/ \E k \in Tasks : task[k].pc = "close"
  /\ ShownIsCurrent

\* A screen that shows a request goes on with the one it showed before.
Calm ==
  /\ UNCHANGED requests
  /\ ui' = "PRESENTING" /\ request' # Nothing =>
       ui = "PRESENTING" /\ UNCHANGED <<request, trusted>>

LEMMA SomeTask ==
  /\ NoTask \in SomeTasks /\ NoTask.pc = "idle"
  /\ \A pc \in Suspended, m \in Nat : [pc |-> pc, mount |-> m] \in SomeTasks
BY DEF SomeTasks, NoTask

\* A task begins, goes on or ends under the screen.
LEMMA TaskGoesOn ==
  ASSUME ProximityInvariant, NEW k \in Tasks, NEW j \in SomeTasks, task' = [task EXCEPT ![k] = j],
         UNCHANGED <<mount, mounted>>, unclosed => unclosed', Calm,
         j.pc \in Opening => unclosed' \/ (mounted /\ j.mount = mount),
         \/ listener' \in {listener, Nothing}
         \/ listener' = mount /\ (unclosed' \/ mounted)
         \/ listener' \in Nat /\ unclosed',
         ~mounted /\ session' =>
           unclosed' \/ j.pc = "close" \/ (session /\ task[k].pc # "close")
  PROVE  ProximityInvariant'
<1>1. task' \in [Tasks -> SomeTasks] /\ task'[k] = j /\ \A i \in Tasks : i # k => task'[i] = task[i]
  BY DEF ProximityInvariant
<1>2. mount' \in Nat /\ listener' \in Nat \cup {Nothing}
  BY DEF ProximityInvariant
<1>3. \A i \in Tasks : task'[i].pc \in Opening => unclosed' \/ (mounted' /\ task'[i].mount = mount')
  BY <1>1 DEF ProximityInvariant
<1>4. listener' # Nothing => unclosed' \/ (mounted' /\ listener' = mount')
  BY DEF ProximityInvariant
<1>5. ~mounted' /\ session' => unclosed' \/ \E i \in Tasks : task'[i].pc = "close"
  BY <1>1 DEF ProximityInvariant
<1>6. ShownIsCurrent'
  BY DEF ProximityInvariant, ShownIsCurrent, Calm
<1> QED BY <1>1, <1>2, <1>3, <1>4, <1>5, <1>6 DEF ProximityInvariant

LEMMA TaskBegins ==
  ASSUME ProximityInvariant, NEW k \in Tasks, NEW m \in Nat, NEW pc \in Suspended, Begin(k, m, pc),
         UNCHANGED <<mount, mounted, session, requests, uiVars, unclosed>>,
         pc \in Opening => mounted /\ m = mount,
         listener' \in {listener, Nothing}
  PROVE  ProximityInvariant'
<1> PICK j : j = [pc |-> pc, mount |-> m]
  OBVIOUS
<1>1. j \in SomeTasks /\ j.pc = pc /\ j.mount = m
  BY SomeTask
<1>2. task' = [task EXCEPT ![k] = j] /\ task[k].pc = "idle"
  BY SomeTask DEF Begin
<1>3. Calm
  BY DEF Calm, uiVars
<1> QED BY <1>1, <1>2, <1>3, TaskGoesOn

LEMMA GoesOn ==
  ASSUME ProximityInvariant, NEW k \in Tasks, NEW pc \in Suspended, GoOn(k, pc), task[k].pc # "idle"
  PROVE  \E j \in SomeTasks : /\ task' = [task EXCEPT ![k] = j]
                              /\ j.pc = pc /\ j.mount = task[k].mount
<1> DEFINE j == [task[k] EXCEPT !.pc = pc]
<1>1. task[k] \in [pc : Suspended, mount : Nat]
  BY SomeTask DEF ProximityInvariant, SomeTasks
<1>2. j \in SomeTasks /\ j.pc = pc /\ j.mount = task[k].mount
  BY <1>1 DEF SomeTasks
<1>3. task' = [task EXCEPT ![k] = j]
  BY DEF GoOn
<1> QED BY <1>2, <1>3

LEMMA TaskMoves ==
  ASSUME ProximityInvariant, NEW k \in Tasks, ProximityTask(k) PROVE ProximityInvariant'
<1> USE SomeTask
<1>0. \A pc \in {"permission", "start", "qrcode", "close", "send"} : pc \in Suspended
  BY DEF Suspended, Starting
<1>1. CASE ObtainCertificate(k)
  <2>1. Calm /\ UNCHANGED <<mount, mounted, session, listener, unclosed>>
    BY <1>1 DEF ObtainCertificate, SetStatus, Calm, uiVars, nativeVars
  <2>0. task[k].pc = "certificate"
    BY <1>1 DEF ObtainCertificate
  <2>2. CASE GoOn(k, "permission")
    <3>1. PICK j \in SomeTasks : /\ task' = [task EXCEPT ![k] = j]
                                 /\ j.pc = "permission" /\ j.mount = task[k].mount
      BY <1>0, <1>1, <2>2, GoesOn DEF ObtainCertificate
    <3>2. unclosed \/ (mounted /\ j.mount = mount)
      BY <1>1, <3>1 DEF ProximityInvariant, ObtainCertificate, Opening
    <3> QED BY <2>0, <2>1, <3>1, <3>2, TaskGoesOn
  <2>3. CASE End(k)
    BY <2>0, <2>1, <2>3, TaskGoesOn DEF End, Opening
  <2> QED BY <1>1, <2>2, <2>3 DEF ObtainCertificate
<1>2. CASE AskPermissions(k)
  <2>1. Calm /\ UNCHANGED <<mount, mounted, session, listener, unclosed>>
    BY <1>2 DEF AskPermissions, SetStatus, Calm, uiVars, nativeVars
  <2>0. task[k].pc = "permission"
    BY <1>2 DEF AskPermissions
  <2>2. CASE GoOn(k, "start")
    <3>1. PICK j \in SomeTasks : /\ task' = [task EXCEPT ![k] = j]
                                 /\ j.pc = "start" /\ j.mount = task[k].mount
      BY <1>0, <1>2, <2>2, GoesOn DEF AskPermissions
    <3>2. unclosed \/ (mounted /\ j.mount = mount)
      BY <1>2, <3>1 DEF ProximityInvariant, AskPermissions, Opening
    <3> QED BY <2>0, <2>1, <3>1, <3>2, TaskGoesOn
  <2>3. CASE End(k)
    BY <2>0, <2>1, <2>3, TaskGoesOn DEF End, Opening
  <2> QED BY <1>2, <2>2, <2>3 DEF AskPermissions
<1>3. CASE NativeStart(k)
  <2>1. Calm /\ UNCHANGED <<mount, mounted, unclosed>> /\ listener' = task[k].mount
    BY <1>3 DEF NativeStart, Calm, uiVars
  <2>2. PICK j \in SomeTasks : task' = [task EXCEPT ![k] = j] /\ j.pc = "qrcode"
    BY <1>0, <1>3, GoesOn DEF NativeStart
  <2>3. unclosed \/ (mounted /\ task[k].mount = mount)
    BY <1>3 DEF ProximityInvariant, NativeStart, Opening
  <2>4. task[k].mount \in Nat
    BY <1>3 DEF ProximityInvariant, NativeStart, SomeTasks
  <2> QED BY <2>1, <2>2, <2>3, <2>4, TaskGoesOn DEF Opening
<1>4. CASE ObtainQrCode(k) \/ StartFails(k)
  <2>1. Calm /\ UNCHANGED <<mount, mounted, session, listener, unclosed>>
    BY <1>4 DEF ObtainQrCode, StartFails, SetStatus, Calm, uiVars, nativeVars
  <2>2. End(k) /\ task[k].pc # "close"
    BY <1>4 DEF ObtainQrCode, StartFails
  <2> QED BY <2>1, <2>2, TaskGoesOn DEF End, Opening
<1>5. CASE SendTermination(k)
  <2>1. /\ Calm /\ UNCHANGED <<mount, mounted, session, unclosed>>
        /\ listener' \in {listener, Nothing} /\ task[k].pc = "terminate"
    BY <1>5 DEF SendTermination, Calm, uiVars
  <2>2. CASE GoOn(k, "close")
    <3>1. PICK j \in SomeTasks : task' = [task EXCEPT ![k] = j] /\ j.pc = "close"
      BY <1>0, <2>1, <2>2, GoesOn
    <3> QED BY <2>1, <3>1, TaskGoesOn DEF Opening
  <2>3. CASE End(k)
    BY <2>1, <2>3, TaskGoesOn DEF End, Opening
  <2> QED BY <1>5, <2>2, <2>3 DEF SendTermination
<1>6. CASE NativeClose(k)
  <2>1. /\ Calm /\ UNCHANGED <<mount, mounted, listener, unclosed>>
        /\ ~session' /\ End(k)
    BY <1>6 DEF NativeClose, Calm, uiVars
  <2> QED BY <2>1, TaskGoesOn DEF End, Opening
<1>7. CASE CloseFails(k)
  <2>1. /\ Calm /\ UNCHANGED <<mount, mounted, listener>> /\ unclosed' /\ End(k)
    BY <1>7 DEF CloseFails, Calm, uiVars, nativeVars
  <2> QED BY <2>1, TaskGoesOn DEF End, Opening
<1>8. CASE SendError(k)
  <2>1. /\ Calm /\ UNCHANGED <<mount, mounted, session, listener, unclosed>>
        /\ End(k) /\ task[k].pc # "close"
    BY <1>8 DEF SendError, SetStatus, Calm, uiVars, nativeVars
  <2> QED BY <2>1, TaskGoesOn DEF End, Opening
<1>9. CASE SendDocument(k)
  <2>1. /\ Calm /\ UNCHANGED <<mount, mounted, session, listener, unclosed>>
        /\ task[k].pc \in {"generate", "send"}
    BY <1>9 DEF SendDocument, Calm, uiVars, nativeVars
  <2>2. CASE GoOn(k, "send")
    <3>1. PICK j \in SomeTasks : task' = [task EXCEPT ![k] = j] /\ j.pc = "send"
      BY <1>0, <2>1, <2>2, GoesOn
    <3> QED BY <2>1, <3>1, TaskGoesOn DEF Opening
  <2>3. CASE End(k)
    BY <2>1, <2>3, TaskGoesOn DEF End, Opening
  <2> QED BY <1>9, <2>2, <2>3 DEF SendDocument
<1> QED BY <1>1, <1>2, <1>3, <1>4, <1>5, <1>6, <1>7, <1>8, <1>9 DEF ProximityTask

\* The screen that is left closes what it opened.
LEMMA UnmountKeeps ==
  ASSUME ProximityInvariant, NEW k \in Tasks, Unmount(k) PROVE ProximityInvariant'
<1> PICK j : j = [pc |-> "close", mount |-> mount]
  OBVIOUS
<1>1. /\ task' = [task EXCEPT ![k] = j] /\ ~mounted' /\ listener' = Nothing /\ UNCHANGED mount
      /\ unclosed' = (unclosed \/ \E i \in Tasks : task[i].pc \in Starting \ {"qrcode"})
  BY DEF Unmount, Begin
<1>2. j \in SomeTasks /\ j.pc = "close"
  BY SomeTask DEF ProximityInvariant, Suspended
<1>3. /\ task' \in [Tasks -> SomeTasks] /\ task'[k].pc = "close"
      /\ \A i \in Tasks : i # k => task'[i] = task[i]
  BY <1>1, <1>2 DEF ProximityInvariant
<1>4. ASSUME NEW i \in Tasks, task'[i].pc \in Opening PROVE unclosed'
  <2>1. task[i].pc \in Starting \ {"qrcode"}
    BY <1>3, <1>4 DEF Opening, Starting
  <2> QED BY <1>1, <2>1
<1> QED BY <1>1, <1>3, <1>4 DEF ProximityInvariant, ShownIsCurrent

LEMMA ProximityStep ==
  ASSUME ProximityInvariant, ProximityNext PROVE ProximityInvariant'
<1> USE SomeTask
<1>1. ASSUME NEW k \in Tasks, OpenProximity(k) PROVE ProximityInvariant'
  <2> PICK j : j = [pc |-> "certificate", mount |-> mount + 1]
    OBVIOUS
  <2>1. /\ task' = [task EXCEPT ![k] = j] /\ task[k].pc = "idle"
        /\ ~mounted /\ mounted' /\ mount' = mount + 1
        /\ UNCHANGED <<session, listener, unclosed>> /\ request' = Nothing
    BY <1>1 DEF OpenProximity, Begin, nativeVars
  <2>2. j \in SomeTasks /\ j.mount = mount' /\ mount' \in Nat
    BY <2>1 DEF ProximityInvariant, Suspended, Starting
  <2>3. /\ task' \in [Tasks -> SomeTasks] /\ task'[k] = j
        /\ \A i \in Tasks : i # k => task'[i] = task[i]
    BY <2>1, <2>2 DEF ProximityInvariant
  <2> QED BY <2>1, <2>2, <2>3 DEF ProximityInvariant, ShownIsCurrent
<1>2. ASSUME NEW k \in Tasks, LeaveProximity(k) \/ (ProximityReset(k) /\ mounted)
      PROVE  ProximityInvariant'
  BY <1>2, UnmountKeeps DEF LeaveProximity, ProximityReset
<1>3. ASSUME NEW k \in Tasks, TapStart(k) \/ TapClose(k) \/ TapAnswer(k)
      PROVE  ProximityInvariant'
  <2>1. PICK pc \in {"certificate", "close", "terminate", "generate", "error"} : Begin(k, mount, pc)
    BY <1>3 DEF TapStart, TapClose, TapAnswer
  <2>2. /\ UNCHANGED <<mount, mounted, session, requests, uiVars, unclosed>> /\ mounted
        /\ listener' \in {listener, Nothing}
    BY <1>3 DEF TapStart, TapClose, TapAnswer, nativeVars
  <2>3. mount \in Nat /\ pc \in Suspended
    BY DEF ProximityInvariant, Suspended, Starting
  <2> QED BY <2>1, <2>2, <2>3, TaskBegins
<1>4. ASSUME NEW k \in Tasks, OnDisconnected(k) \/ OnMalformedRequest(k)
      PROVE  ProximityInvariant'
  <2>1. PICK pc \in {"close", "error"} : Begin(k, listener, pc)
    BY <1>4 DEF OnDisconnected, OnMalformedRequest
  <2>2. /\ UNCHANGED <<mount, mounted, session, requests, uiVars, unclosed>>
        /\ listener' \in {listener, Nothing} /\ listener # Nothing
    BY <1>4 DEF OnDisconnected, OnMalformedRequest, nativeVars
  <2>3. listener \in Nat /\ pc \in Suspended /\ pc \notin Opening
    BY <2>2 DEF ProximityInvariant, Suspended, Starting, Opening
  <2> QED BY <2>1, <2>2, <2>3, TaskBegins
<1>5. ASSUME NEW authentic \in BOOLEAN, OnRequest(authentic) PROVE ProximityInvariant'
  <2>1. UNCHANGED <<task, mount, mounted, session, listener, unclosed>>
    BY <1>5 DEF OnRequest
  <2>2. ShownIsCurrent'
    <3>1. CASE Seen(listener)
      <4>1. request' = [id |-> requests + 1, authentic |-> authentic] /\ trusted' = authentic
            /\ requests' = requests + 1
        BY <1>5, <3>1 DEF OnRequest, ShowTrust
      <4> QED BY <4>1 DEF ShownIsCurrent
    <3>2. CASE ~Seen(listener)
      BY <1>5, <2>1, <3>2 DEF OnRequest, ProximityInvariant, ShownIsCurrent, Seen
    <3> QED BY <3>1, <3>2
  <2> QED BY <2>1, <2>2 DEF ProximityInvariant
<1>6. CASE ProximityRestart
  <2>1. /\ task' = [k \in Tasks |-> NoTask] /\ ~mounted' /\ ~session' /\ listener' = Nothing
        /\ UNCHANGED mount
    BY <1>6 DEF ProximityRestart
  <2>2. task' \in [Tasks -> SomeTasks] /\ \A k \in Tasks : task'[k].pc = "idle"
    BY <2>1
  <2> QED BY <2>1, <2>2 DEF ProximityInvariant, ShownIsCurrent, Opening
<1>7. CASE UNCHANGED proximityVars
  BY <1>7 DEF proximityVars, uiVars, nativeVars, ProximityInvariant, ShownIsCurrent
<1> QED BY <1>1, <1>2, <1>3, <1>4, <1>5, <1>6, <1>7, TaskMoves
    DEF ProximityNext, ProximityUser, ProximityReset
-----------------------------------------------------------------------------
(* Types *)

\* The types that the invariants above leave open.
StatusTyping ==
  /\ verdict \in StatusTypes \ {"VALID"}
  /\ \A c \in Checks : check[c].pc \in Waiting \cup {"idle"}
  /\ statusAsync \in [Types -> {"initial", "loading", "done", "error"}]

LEMMA PublishedLists ==
  ASSUME StoreTypeOK, NEW list, MadeBy(list, now) PROVE list \in Lists
<1>1. PICK i \in 0 .. now : list = ListNow(i)
  BY DEF MadeBy
<1>2. i \in Time /\ now \in Nat /\ i \in Nat /\ i <= MaxTime
  BY StoreAssumption DEF StoreTypeOK, Time
<1>3. (IF Expiring THEN i + Lifetime ELSE Nothing) \in (0 .. MaxTime + Lifetime) \cup {Nothing}
  BY <1>2, StatusAssumption, StoreAssumption
<1> DEFINE until == IF Expiring THEN i + Lifetime ELSE Nothing
<1>4. list = [iat |-> i, exp |-> until] /\ until \in (0 .. MaxTime + Lifetime) \cup {Nothing}
  BY <1>1, <1>3 DEF ListNow
<1> HIDE DEF until
<1> QED BY <1>2, <1>4 DEF Lists

LEMMA StatusHasTypes ==
  ASSUME StatusInvariant, StatusTyping PROVE StatusTypeOK
<1>1. published \in Lists /\ (cached # Nothing => cached \in Lists)
  BY PublishedLists DEF StatusInvariant, ProviderInvariant
<1>2. ASSUME NEW t \in Types, status[t] # Nothing
      PROVE  status[t].cred \in Serials /\ status[t].at \in Time
  <2>1. ResultOK(status[t]) /\ now \in 0 .. MaxTime
    BY <1>2 DEF StatusInvariant, ResultInvariant, StoreTypeOK, Time
  <2> QED BY <2>1, StoreAssumption DEF ResultOK, Time
<1> QED BY <1>1, <1>2 DEF StatusTypeOK, StatusInvariant, ProviderInvariant, StatusTyping

\* What a check does: it ends and says so, or goes on for the same type.
LEMMA CheckProceeds ==
  ASSUME StatusInvariant, NEW c \in Checks, CheckStep(c)
  PROVE  \E k : /\ check' = [check EXCEPT ![c] = k]
               /\ \/ /\ k = NoCheck
                     /\ \E s \in {"done", "error"} :
                          statusAsync' = [statusAsync EXCEPT ![check[c].type] = s]
                  \/ /\ k.pc \in Waiting /\ k.type = check[c].type
                     /\ UNCHANGED statusAsync
<1> DEFINE GoesOnAs(k) == /\ check' = [check EXCEPT ![c] = k]
                          /\ k.pc \in Waiting /\ k.type = check[c].type
                          /\ UNCHANGED statusAsync
<1>1. CASE EvaluateTrust(c)
  <2> DEFINE next == IF version = "1.0.0" THEN "assertion" ELSE "list"
  <2>1. check[c] \in [pc : Beginning, type : Types, cred : Serials]
    BY <1>1 DEF StatusInvariant, CheckInvariant, CheckOK, Beginning, EvaluateTrust
  <2>2. next \in {"assertion", "list"}
    OBVIOUS
  <2>3. check' = [check EXCEPT ![c] = [check[c] EXCEPT !.pc = next]] /\ UNCHANGED statusAsync
    BY <1>1 DEF EvaluateTrust
  <2> HIDE DEF next
  <2>4. [check[c] EXCEPT !.pc = next].pc = next /\ [check[c] EXCEPT !.pc = next].type = check[c].type
    BY <2>1
  <2>5. GoesOnAs([check[c] EXCEPT !.pc = next])
    BY <2>2, <2>3, <2>4 DEF Waiting
  <2> QED BY <2>5
<1>2. ASSUME NEW list, NEW off, NEW next \in {"refetch", "verifyList"}, Fetch(c, list, off, next)
      PROVE  \E k : GoesOnAs(k)
  <2>1. PICK k : k = [pc |-> next, type |-> check[c].type, cred |-> check[c].cred,
                      list |-> list, stale |-> list # published /\ Expired(list, now)]
    OBVIOUS
  <2>2. /\ check' = [check EXCEPT ![c] = k] /\ UNCHANGED statusAsync
        /\ k.pc = next /\ k.type = check[c].type
    BY <1>2, <2>1 DEF Fetch
  <2> QED BY <2>2 DEF Waiting
<1>3. CASE FetchList(c) \/ RefetchList(c)
  <2>1. CASE RefetchList(c)
    BY <1>2, <2>1 DEF RefetchList
  <2>2. CASE FetchList(c)
    <3>1. PICK list : Fetch(c, list, FALSE, IF Expired(list, now) THEN "refetch" ELSE "verifyList")
      BY <2>2 DEF FetchList
    <3> QED BY <1>2, <3>1
  <2> QED BY <1>3, <2>1, <2>2
<1>4. CASE RequestAssertion(c)
  <2>1. PICK s : check' = [check EXCEPT ![c] =
          [pc |-> "verifyAssertion", type |-> check[c].type, cred |-> check[c].cred,
           about |-> s, iat |-> now]]
    BY <1>4 DEF RequestAssertion
  <2>2. PICK k : k = [pc |-> "verifyAssertion", type |-> check[c].type,
                      cred |-> check[c].cred, about |-> s, iat |-> now]
    OBVIOUS
  <2>3. check' = [check EXCEPT ![c] = k] /\ k.pc = "verifyAssertion" /\ k.type = check[c].type
    BY <2>1, <2>2
  <2>4. UNCHANGED statusAsync
    BY <1>4 DEF RequestAssertion
  <2> QED BY <2>3, <2>4 DEF Waiting
<1>5. CASE VerifyList(c) \/ RefuseList(c) \/ VerifyAssertion(c) \/ CheckFails(c)
  BY <1>5 DEF VerifyList, RefuseList, VerifyAssertion, CheckFails, Fulfilled, Rejected
<1> QED BY <1>1, <1>3, <1>4, <1>5 DEF CheckStep

LEMMA CheckTyped ==
  ASSUME StatusInvariant, StatusTyping, NEW c \in Checks, CheckStep(c) PROVE StatusTyping'
<1>1. UNCHANGED verdict
  BY DEF CheckStep, EvaluateTrust, FetchList, RefetchList, Fetch, VerifyList, RefuseList,
         RequestAssertion, VerifyAssertion, CheckFails, providerVars
<1>2. PICK k : /\ check' = [check EXCEPT ![c] = k]
               /\ \/ /\ k = NoCheck
                     /\ \E s \in {"done", "error"} :
                          statusAsync' = [statusAsync EXCEPT ![check[c].type] = s]
                  \/ k.pc \in Waiting /\ UNCHANGED statusAsync
  BY CheckProceeds
<1>3. k.pc \in Waiting \cup {"idle"}
  BY <1>2 DEF NoCheck
<1>4. statusAsync' \in [Types -> {"initial", "loading", "done", "error"}]
  BY <1>2 DEF StatusTyping
<1> QED BY <1>1, <1>2, <1>3, <1>4 DEF StatusTyping, StatusInvariant, CheckInvariant

LEMMA StatusTyped ==
  ASSUME StatusInvariant, StatusTyping, StatusNext PROVE StatusTyping'
<1>1. CASE ProviderStep
  BY <1>1 DEF ProviderStep, Publish, ChangeStatus, StatusTyping
<1>2. ASSUME NEW c \in Checks, NEW t \in Types, StartCheck(c, t) PROVE StatusTyping'
  <2>1. PICK k : k = [pc |-> "trust", type |-> t, cred |-> held[t]]
    OBVIOUS
  <2>2. check' = [check EXCEPT ![c] = k] /\ k.pc \in Waiting
    BY <1>2, <2>1 DEF StartCheck, Waiting
  <2>3. statusAsync' = [statusAsync EXCEPT ![t] = "loading"] /\ UNCHANGED verdict
    BY <1>2 DEF StartCheck, Pending, providerVars
  <2> QED BY <2>2, <2>3 DEF StatusTyping, StatusInvariant, CheckInvariant
<1>3. CASE UNCHANGED statusVars
  BY <1>3 DEF statusVars, providerVars, StatusTyping
<1>4. CASE StatusReset \/ StatusRestart
  BY <1>4 DEF StatusReset, StatusRestart, providerVars, StatusTyping, NoCheck
<1> QED BY <1>1, <1>2, <1>3, <1>4, CheckTyped DEF StatusNext

\* A check that ends is not the one that another type waits for, and takes its
\* own type out of the loading state.
LEMMA CheckStaysAwaited ==
  ASSUME StatusInvariant, StatusTyping, CheckAwaited, StatusNext PROVE CheckAwaited'
<1>0. DOMAIN check = Checks /\ DOMAIN statusAsync = Types
  BY DEF StatusInvariant, CheckInvariant, StatusTyping
<1>1. CASE ProviderStep
  BY <1>1 DEF ProviderStep, Publish, ChangeStatus, CheckAwaited
<1>2. ASSUME NEW c \in Checks, CheckStep(c) PROVE CheckAwaited'
  <2>1. PICK k : /\ check' = [check EXCEPT ![c] = k]
                 /\ \/ /\ k = NoCheck
                       /\ \E s \in {"done", "error"} :
                            statusAsync' = [statusAsync EXCEPT ![check[c].type] = s]
                    \/ /\ k.pc \in Waiting /\ k.type = check[c].type
                       /\ UNCHANGED statusAsync
    BY <1>2, CheckProceeds
  <2>2. ASSUME NEW t \in Types, statusAsync'[t] = "loading"
        PROVE  statusAsync[t] = "loading" /\ (k = NoCheck => check[c].type # t)
    BY <1>0, <2>1, <2>2 DEF NoCheck, Waiting
  <2> QED BY <1>0, <2>1, <2>2 DEF CheckAwaited, NoCheck
<1>3. ASSUME NEW c \in Checks, NEW t \in Types, StartCheck(c, t) PROVE CheckAwaited'
  <2>1. PICK k : k = [pc |-> "trust", type |-> t, cred |-> held[t]]
    OBVIOUS
  <2>2. /\ check' = [check EXCEPT ![c] = k] /\ k.pc \in Waiting /\ k.type = t
        /\ statusAsync' = [statusAsync EXCEPT ![t] = "loading"]
        /\ check[c].pc \notin Waiting
    BY <1>3, <2>1 DEF StartCheck, Pending, Waiting, NoCheck
  <2> QED BY <1>0, <2>2 DEF CheckAwaited
<1>4. CASE UNCHANGED statusVars
  BY <1>4 DEF statusVars, CheckAwaited
<1>5. CASE StatusReset \/ StatusRestart
  BY <1>5 DEF StatusReset, StatusRestart, CheckAwaited
<1> QED BY <1>1, <1>2, <1>3, <1>4, <1>5 DEF StatusNext

\* What a thunk does: it ends and says so, or goes on with its attestation.
LEMMA ThunkStep ==
  ASSUME TrustmarkInvariant, NEW k \in Thunks, TrustmarkStep(k)
  PROVE  /\ thunk[k].pc \in {"key", "compare", "sign"} /\ UNCHANGED <<wiaKey, wia, open>>
         /\ \/ UNCHANGED trustmark
            \/ \E mark : /\ mark.wia = thunk[k].wia /\ mark.signer = wiaKey
                         /\ trustmark' = [trustmark EXCEPT ![thunk[k].type] = mark]
         /\ \E j : /\ thunk' = [thunk EXCEPT ![k] = j]
                   /\ \/ /\ j = NoThunk
                         /\ \E s \in {"done", "error"} :
                              trustmarkAsync' = [trustmarkAsync EXCEPT ![thunk[k].type] = s]
                      \/ /\ j.pc \in {"compare", "sign"} /\ UNCHANGED trustmarkAsync
                         /\ j.type = thunk[k].type /\ j.wia = thunk[k].wia
<1>1. CASE Reject(k)
  BY <1>1 DEF Reject, SetAsync, TrustmarkStep, ReadHolderKey, CompareKeys, SignTrustmark,
              TrustmarkFails
<1>2. CASE ReadHolderKey(k) /\ ~Reject(k)
  <2>1. PICK j : j = [pc |-> "compare", type |-> thunk[k].type, wia |-> thunk[k].wia,
                      key |-> wiaKey]
    OBVIOUS
  <2>2. /\ j.pc = "compare" /\ j.type = thunk[k].type /\ j.wia = thunk[k].wia
        /\ thunk' = [thunk EXCEPT ![k] = j]
    BY <1>2, <2>1 DEF ReadHolderKey
  <2> QED BY <1>2, <2>2 DEF ReadHolderKey
<1>3. CASE CompareKeys(k) /\ ~Reject(k)
  <2>1. PICK j : j = [pc |-> "sign", type |-> thunk[k].type, wia |-> thunk[k].wia,
                      replaced |-> wiaKey # thunk[k].key]
    OBVIOUS
  <2>2. /\ j.pc = "sign" /\ j.type = thunk[k].type /\ j.wia = thunk[k].wia
        /\ thunk' = [thunk EXCEPT ![k] = j]
    BY <1>3, <2>1 DEF CompareKeys
  <2> QED BY <1>3, <2>2 DEF CompareKeys
<1>4. CASE SignTrustmark(k)
  <2>1. PICK mark : mark = [wia |-> thunk[k].wia, signer |-> wiaKey,
                            replaced |-> thunk[k].replaced]
    OBVIOUS
  <2>2. /\ mark.wia = thunk[k].wia /\ mark.signer = wiaKey
        /\ trustmark' = [trustmark EXCEPT ![thunk[k].type] = mark]
    BY <1>4, <2>1 DEF SignTrustmark
  <2> QED BY <1>4, <2>2 DEF SignTrustmark, SetAsync
<1> QED BY <1>1, <1>2, <1>3, <1>4 DEF TrustmarkStep, TrustmarkFails

\* What the thunks that are dispatched do to the progress and the thunks.
LEMMA ThunkDispatch ==
  ASSUME NEW k \in Thunks, NEW t \in Types, Dispatch(k, t)
  PROVE  /\ thunk[k] = NoThunk
         /\ \/ UNCHANGED thunk /\ trustmarkAsync' = [trustmarkAsync EXCEPT ![t] = "error"]
            \/ \E j : /\ wia # Nothing /\ j.pc = "key" /\ j.type = t /\ j.wia = wia
                      /\ thunk' = [thunk EXCEPT ![k] = j]
                      /\ trustmarkAsync' = [trustmarkAsync EXCEPT ![t] = "loading"]
<1>1. PICK j : j = [pc |-> "key", type |-> t, wia |-> wia]
  OBVIOUS
<1>2. j.pc = "key" /\ j.type = t /\ j.wia = wia
  BY <1>1
<1> QED BY <1>1, <1>2 DEF Dispatch, SetAsync

TrustmarkProgress == {"initial", "loading", "done", "error"}

LEMMA TrustmarkTyped ==
  ASSUME StoreTypeOK, TrustmarkInvariant, TrustmarkTypeOK, TrustmarkNext
  PROVE  TrustmarkTypeOK'
<1> DEFINE ThunkTyped(j) == j = NoThunk \/ (j.pc \in {"key", "compare", "sign"} /\ j.wia \in Wias)
           MarkTyped(m)  == m # Nothing => m.wia \in Wias /\ m.signer \in WiaKeys
<1>0. /\ DOMAIN thunk = Thunks /\ DOMAIN trustmark = Types
      /\ \A k \in Thunks : ThunkTyped(thunk[k])
      /\ \A t \in Types : MarkTyped(trustmark[t])
      /\ trustmarkAsync \in [Types -> TrustmarkProgress]
      /\ wiaKey \in WiaKeys /\ wia \in Wias \cup {Nothing} /\ open \in Types \cup {Nothing}
  BY DEF TrustmarkTypeOK, TrustmarkInvariant, TrustmarkProgress
<1>1. SUFFICES /\ \A k \in Thunks : ThunkTyped(thunk'[k])
               /\ \A t \in Types : MarkTyped(trustmark'[t])
               /\ trustmarkAsync' \in [Types -> TrustmarkProgress]
               /\ wiaKey' \in WiaKeys /\ wia' \in Wias \cup {Nothing}
               /\ open' \in Types \cup {Nothing}
  BY DEF TrustmarkTypeOK, TrustmarkProgress
<1>2. ASSUME NEW k \in Thunks, TrustmarkStep(k)
      PROVE  /\ \A i \in Thunks : ThunkTyped(thunk'[i])
             /\ \A t \in Types : MarkTyped(trustmark'[t])
             /\ trustmarkAsync' \in [Types -> TrustmarkProgress]
             /\ UNCHANGED <<wiaKey, wia, open>>
  <2>1. thunk[k].pc \in {"key", "compare", "sign"} /\ UNCHANGED <<wiaKey, wia, open>>
    BY <1>2, ThunkStep
  <2>2. thunk[k].wia \in Wias
    BY <1>0, <2>1 DEF NoThunk
  <2>3. \/ UNCHANGED trustmark
        \/ \E mark : /\ mark.wia = thunk[k].wia /\ mark.signer = wiaKey
                     /\ trustmark' = [trustmark EXCEPT ![thunk[k].type] = mark]
    BY <1>2, ThunkStep
  <2>4. \A t \in Types : MarkTyped(trustmark'[t])
    BY <1>0, <2>2, <2>3
  <2>5. PICK j : /\ thunk' = [thunk EXCEPT ![k] = j]
                 /\ \/ /\ j = NoThunk
                       /\ \E s \in {"done", "error"} :
                            trustmarkAsync' = [trustmarkAsync EXCEPT ![thunk[k].type] = s]
                    \/ /\ j.pc \in {"compare", "sign"} /\ UNCHANGED trustmarkAsync
                       /\ j.type = thunk[k].type /\ j.wia = thunk[k].wia
    BY <1>2, ThunkStep
  <2>6. ThunkTyped(j)
    BY <2>2, <2>5
  <2>7. trustmarkAsync' \in [Types -> TrustmarkProgress]
    BY <1>0, <2>5 DEF TrustmarkProgress
  <2>8. \A i \in Thunks : ThunkTyped(thunk'[i])
    BY <1>0, <2>5, <2>6
  <2> QED BY <2>1, <2>4, <2>7, <2>8
<1>3. ASSUME NEW k \in Thunks, NEW t \in Types, Dispatch(k, t)
      PROVE  /\ \A i \in Thunks : ThunkTyped(thunk'[i])
             /\ trustmarkAsync' \in [Types -> TrustmarkProgress]
  <2>1. CASE UNCHANGED thunk /\ trustmarkAsync' = [trustmarkAsync EXCEPT ![t] = "error"]
    BY <1>0, <2>1 DEF TrustmarkProgress
  <2>2. ASSUME NEW j, wia # Nothing, j.pc = "key", j.wia = wia,
               thunk' = [thunk EXCEPT ![k] = j],
               trustmarkAsync' = [trustmarkAsync EXCEPT ![t] = "loading"]
        PROVE  /\ \A i \in Thunks : ThunkTyped(thunk'[i])
               /\ trustmarkAsync' \in [Types -> TrustmarkProgress]
    <3>1. ThunkTyped(j)
      BY <1>0, <2>2
    <3>2. trustmarkAsync' \in [Types -> TrustmarkProgress]
      BY <1>0, <2>2 DEF TrustmarkProgress
    <3> QED BY <1>0, <2>2, <3>1, <3>2
  <2> QED BY <1>3, <2>1, <2>2, ThunkDispatch
<1>4. ASSUME NEW k \in Thunks, NEW t \in Types, OpenScreen(k, t) \/ CredentialStored(k, t)
      PROVE  /\ \A i \in Thunks : ThunkTyped(thunk'[i])
             /\ \A u \in Types : MarkTyped(trustmark'[u])
             /\ trustmarkAsync' \in [Types -> TrustmarkProgress]
             /\ UNCHANGED <<wiaKey, wia>> /\ open' \in {open, t}
  BY <1>0, <1>3, <1>4 DEF OpenScreen, CredentialStored
<1>5. CASE RegenerateWiaKey
  <2>1. /\ wiaKey' \in WiaKeys /\ UNCHANGED <<wia, open, trustmark, trustmarkAsync>>
        /\ \A k \in Thunks : thunk'[k] = IF thunk[k].pc = "sign"
                                        THEN [thunk[k] EXCEPT !.replaced = TRUE]
                                        ELSE thunk[k]
    BY <1>0, <1>5, TrustmarkAssumption DEF RegenerateWiaKey, WiaKeys
  <2>2. ASSUME NEW k \in Thunks, thunk[k].pc = "sign" PROVE ThunkTyped(thunk'[k])
    <3>1. thunk[k] = [pc |-> "sign", type |-> thunk[k].type, wia |-> thunk[k].wia,
                      replaced |-> thunk[k].replaced]
      BY <2>2 DEF TrustmarkInvariant, Signing
    <3>2. thunk'[k].pc = "sign" /\ thunk'[k].wia = thunk[k].wia
      BY <2>1, <2>2, <3>1
    <3> QED BY <1>0, <2>2, <3>2 DEF NoThunk
  <2> QED BY <1>0, <2>1, <2>2
<1>6. CASE StoreWia
  <2>1. wia' = [key |-> wiaKey, exp |-> now + WiaLifetime]
    BY <1>6 DEF StoreWia
  <2>2. now + WiaLifetime \in 0 .. MaxTime + WiaLifetime
    BY StoreAssumption, TrustmarkAssumption DEF StoreTypeOK, Time
  <2>3. wia' \in Wias
    BY <1>0, <2>1, <2>2 DEF Wias
  <2> QED BY <1>0, <1>6, <2>3 DEF StoreWia
<1>7. CASE CloseScreen \/ TrustmarkReset \/ UNCHANGED trustmarkVars
  BY <1>0, <1>7 DEF CloseScreen, TrustmarkReset, trustmarkVars, TrustmarkProgress
<1> QED BY <1>0, <1>2, <1>4, <1>5, <1>6, <1>7 DEF TrustmarkNext

\* A thunk that ends is not the one that another type waits for.
LEMMA TrustmarkStaysAwaited ==
  ASSUME TrustmarkInvariant, TrustmarkTypeOK, TrustmarkAwaited, TrustmarkNext
  PROVE  TrustmarkAwaited'
<1>0. DOMAIN thunk = Thunks /\ DOMAIN trustmarkAsync = Types
  BY DEF TrustmarkInvariant, TrustmarkTypeOK
<1>1. ASSUME NEW k \in Thunks, TrustmarkStep(k) PROVE TrustmarkAwaited'
  <2>1. PICK j : /\ thunk' = [thunk EXCEPT ![k] = j]
                 /\ \/ /\ j = NoThunk
                       /\ \E s \in {"done", "error"} :
                            trustmarkAsync' = [trustmarkAsync EXCEPT ![thunk[k].type] = s]
                    \/ /\ j.pc \in {"compare", "sign"} /\ UNCHANGED trustmarkAsync
                       /\ j.type = thunk[k].type
    BY <1>1, ThunkStep
  <2>2. ASSUME NEW t \in Types, trustmarkAsync'[t] = "loading"
        PROVE  trustmarkAsync[t] = "loading" /\ (j = NoThunk => thunk[k].type # t)
    BY <1>0, <2>1, <2>2 DEF NoThunk
  <2> QED BY <1>0, <2>1, <2>2 DEF TrustmarkAwaited, NoThunk
<1>2. ASSUME NEW k \in Thunks, NEW t \in Types, Dispatch(k, t) PROVE TrustmarkAwaited'
  <2>1. thunk[k].pc = "idle"
    BY <1>2, ThunkDispatch DEF NoThunk
  <2>2. CASE UNCHANGED thunk /\ trustmarkAsync' = [trustmarkAsync EXCEPT ![t] = "error"]
    BY <1>0, <2>2 DEF TrustmarkAwaited
  <2>3. ASSUME NEW j, j.pc = "key", j.type = t, thunk' = [thunk EXCEPT ![k] = j],
               trustmarkAsync' = [trustmarkAsync EXCEPT ![t] = "loading"]
        PROVE  TrustmarkAwaited'
    BY <1>0, <2>1, <2>3 DEF TrustmarkAwaited
  <2> QED BY <1>2, <2>2, <2>3, ThunkDispatch
<1>3. ASSUME NEW k \in Thunks, NEW t \in Types, OpenScreen(k, t) \/ CredentialStored(k, t)
      PROVE  TrustmarkAwaited'
  <2>1. CASE UNCHANGED <<thunk, trustmarkAsync>>
    BY <2>1 DEF TrustmarkAwaited
  <2> QED BY <1>2, <1>3, <2>1 DEF OpenScreen, CredentialStored
<1>4. CASE RegenerateWiaKey
  <2>1. ASSUME NEW k \in Thunks PROVE thunk'[k].pc = thunk[k].pc /\ thunk'[k].type = thunk[k].type
    <3>1. thunk'[k] = IF thunk[k].pc = "sign" THEN [thunk[k] EXCEPT !.replaced = TRUE] ELSE thunk[k]
      BY <1>4 DEF RegenerateWiaKey
    <3>2. CASE thunk[k].pc = "sign"
      <4>1. thunk[k] = [pc |-> "sign", type |-> thunk[k].type, wia |-> thunk[k].wia,
                        replaced |-> thunk[k].replaced]
        BY <3>2 DEF TrustmarkInvariant, Signing
      <4>2. thunk'[k] = [thunk[k] EXCEPT !.replaced = TRUE]
        BY <3>1, <3>2
      <4> QED BY <4>1, <4>2
    <3>3. CASE thunk[k].pc # "sign"
      BY <3>1, <3>3
    <3> QED BY <3>2, <3>3
  <2> QED BY <1>4, <2>1 DEF RegenerateWiaKey, TrustmarkAwaited
<1>5. CASE CloseScreen \/ StoreWia \/ UNCHANGED trustmarkVars
  BY <1>5 DEF CloseScreen, StoreWia, trustmarkVars, TrustmarkAwaited
<1>6. CASE TrustmarkReset
  BY <1>6 DEF TrustmarkReset, TrustmarkAwaited
<1> QED BY <1>1, <1>3, <1>4, <1>5, <1>6 DEF TrustmarkNext

\* What a task does: it ends, or goes on for the mount that began it.
LEMMA TaskStep ==
  ASSUME ProximityInvariant, NEW k \in Tasks, ProximityTask(k)
  PROVE  /\ task[k].pc # "idle"
         /\ \E j \in SomeTasks : /\ task' = [task EXCEPT ![k] = j]
                                 /\ j # NoTask => j.mount = task[k].mount
<1> USE SomeTask
<1>1. \A pc \in {"permission", "start", "qrcode", "close", "send"} : pc \in Suspended
  BY DEF Suspended, Starting
<1>2. task[k].pc # "idle"
  BY DEF ProximityTask, ObtainCertificate, AskPermissions, NativeStart, ObtainQrCode, StartFails,
         SendTermination, NativeClose, CloseFails, SendError, SendDocument
<1>3. \/ End(k)
      \/ \E pc \in {"permission", "start", "qrcode", "close", "send"} : GoOn(k, pc)
  BY DEF ProximityTask, ObtainCertificate, AskPermissions, NativeStart, ObtainQrCode, StartFails,
         SendTermination, NativeClose, CloseFails, SendError, SendDocument
<1>4. CASE End(k)
  BY <1>2, <1>4 DEF End, SomeTasks
<1>5. ASSUME NEW pc \in {"permission", "start", "qrcode", "close", "send"}, GoOn(k, pc)
      PROVE  \E j \in SomeTasks : task' = [task EXCEPT ![k] = j] /\ j.mount = task[k].mount
  BY <1>1, <1>2, <1>5, GoesOn
<1> QED BY <1>2, <1>3, <1>4, <1>5

\* The screen that is mounted has a number within the bound.
ProximityTyping == ProximityTypeOK /\ (mounted => mount # 0)

LEMMA ProximityTyped ==
  ASSUME ProximityInvariant, ProximityTyping, ProximityNext PROVE ProximityTyping'
<1> USE SomeTask, ProximityAssumption
<1> DEFINE Mounts == 1 .. MaxMounts
           TaskTyped(j) == j = NoTask \/ (j.pc \in Suspended /\ j.mount \in Mounts)
<1>0. /\ task \in [Tasks -> SomeTasks] /\ \A k \in Tasks : TaskTyped(task[k])
      /\ mounted => mount \in Mounts
  BY DEF ProximityInvariant, ProximityTyping, ProximityTypeOK
<1>1. ASSUME NEW k \in Tasks, NEW j, TaskTyped(j), task' = [task EXCEPT ![k] = j]
      PROVE  \A i \in Tasks : TaskTyped(task'[i])
  BY <1>0, <1>1
<1>2. ASSUME NEW k \in Tasks, NEW m \in Mounts, NEW pc \in Suspended, Begin(k, m, pc)
      PROVE  \A i \in Tasks : TaskTyped(task'[i])
  <2>1. PICK j : j = [pc |-> pc, mount |-> m]
    OBVIOUS
  <2>2. TaskTyped(j) /\ task' = [task EXCEPT ![k] = j]
    BY <1>2, <2>1 DEF Begin
  <2> QED BY <1>1, <2>2
<1>3. {"certificate", "close", "terminate", "generate", "error"} \subseteq Suspended
  BY DEF Suspended, Starting
<1>4. ASSUME NEW k \in Tasks, ProximityTask(k) PROVE ProximityTyping'
  <2>1. PICK j \in SomeTasks : /\ task' = [task EXCEPT ![k] = j]
                               /\ j # NoTask => j.mount = task[k].mount
    BY <1>4, TaskStep
  <2>2. task[k].pc \in Suspended /\ task[k].mount \in Mounts
    BY <1>0, <1>4, TaskStep
  <2>3. TaskTyped(j)
    BY <2>1, <2>2 DEF SomeTasks
  <2>4. \A i \in Tasks : TaskTyped(task'[i])
    BY <1>1, <2>1, <2>3
  <2>5. /\ UNCHANGED <<mount, mounted, requests>> /\ listener' \in {listener, Nothing, task[k].mount}
        /\ session' \in BOOLEAN /\ unclosed' \in BOOLEAN
    BY <1>4, Zenon DEF ProximityTask, ObtainCertificate, AskPermissions, NativeStart, ObtainQrCode,
                StartFails, SendTermination, NativeClose, CloseFails, SendError, SendDocument,
                nativeVars, ProximityTyping, ProximityTypeOK
  <2>6. /\ ui' \in {ui, "STARTING", "STARTED", "STOPPED"} /\ request' \in {request, Nothing}
        /\ trusted' \in {trusted, FALSE} /\ qr' \in BOOLEAN
    BY <1>4 DEF ProximityTask, ObtainCertificate, AskPermissions, NativeStart, ObtainQrCode,
                StartFails, SendTermination, NativeClose, CloseFails, SendError, SendDocument,
                SetStatus, uiVars, ProximityTyping, ProximityTypeOK
  <2>7. stuck' \in BOOLEAN
    BY <1>4 DEF ProximityTask, ObtainCertificate, AskPermissions, NativeStart, ObtainQrCode,
                StartFails, SendTermination, NativeClose, CloseFails, SendError, SendDocument,
                ProximityTyping, ProximityTypeOK
  <2> QED BY <2>2, <2>4, <2>5, <2>6, <2>7 DEF ProximityTyping, ProximityTypeOK
<1>5. ASSUME NEW k \in Tasks, OpenProximity(k) PROVE ProximityTyping'
  <2>1. mount' \in Mounts /\ mounted' = TRUE
    BY <1>5 DEF OpenProximity, ProximityTyping, ProximityTypeOK
  <2>2. \A i \in Tasks : TaskTyped(task'[i])
    BY <1>2, <1>3, <1>5, <2>1 DEF OpenProximity
  <2>3. /\ ui' = "STARTING" /\ qr' = FALSE /\ request' = Nothing /\ trusted' = Nothing
        /\ UNCHANGED <<session, listener, requests, unclosed>> /\ stuck' = FALSE
    BY <1>5 DEF OpenProximity, nativeVars
  <2>4. mount' \in 0 .. MaxMounts /\ mount' # 0
    BY <2>1
  <2>5. UNCHANGED <<session, requests, unclosed>> /\ listener' \in Mounts \cup {Nothing}
    BY <2>3 DEF ProximityTyping, ProximityTypeOK
  <2>6. session' \in BOOLEAN /\ requests' \in 0 .. MaxRequests /\ unclosed' \in BOOLEAN
    BY <2>5, Zenon DEF ProximityTyping, ProximityTypeOK
  <2> QED BY <2>1, <2>2, <2>3, <2>4, <2>5, <2>6 DEF ProximityTyping, ProximityTypeOK
<1>6. ASSUME NEW k \in Tasks, Unmount(k), mounted PROVE ProximityTyping'
  <2>1. \A i \in Tasks : TaskTyped(task'[i])
    BY <1>0, <1>2, <1>3, <1>6 DEF Unmount
  <2> QED BY <1>6, <2>1 DEF Unmount, uiVars, ProximityTyping, ProximityTypeOK
<1>7. ASSUME NEW k \in Tasks, TapStart(k) \/ TapClose(k) \/ TapAnswer(k) PROVE ProximityTyping'
  <2>1. \E pc \in {"certificate", "close", "terminate", "generate", "error"} : Begin(k, mount, pc)
    BY <1>7 DEF TapStart, TapClose, TapAnswer
  <2>2. \A i \in Tasks : TaskTyped(task'[i])
    BY <1>0, <1>2, <1>3, <1>7, <2>1 DEF TapStart, TapClose, TapAnswer
  <2> QED BY <1>7, <2>2 DEF TapStart, TapClose, TapAnswer, uiVars, nativeVars, ProximityTyping,
                            ProximityTypeOK
<1>8. ASSUME NEW k \in Tasks, OnDisconnected(k) \/ OnMalformedRequest(k) PROVE ProximityTyping'
  <2>1. listener \in Mounts /\ \E pc \in {"close", "error"} : Begin(k, listener, pc)
    BY <1>8 DEF OnDisconnected, OnMalformedRequest, ProximityTyping, ProximityTypeOK
  <2>2. \A i \in Tasks : TaskTyped(task'[i])
    BY <1>2, <1>3, <2>1
  <2> QED BY <1>8, <2>2 DEF OnDisconnected, OnMalformedRequest, uiVars, nativeVars,
                            ProximityTyping, ProximityTypeOK
<1>9. ASSUME NEW authentic \in BOOLEAN, OnRequest(authentic) PROVE ProximityTyping'
  <2>1. requests' = requests + 1 /\ requests' \in 1 .. MaxRequests
    BY <1>9 DEF OnRequest, ProximityTyping, ProximityTypeOK
  <2>2. [id |-> requests + 1, authentic |-> authentic] \in Requests
    BY <2>1 DEF Requests
  <2> QED BY <1>9, <2>1, <2>2 DEF OnRequest, ShowTrust, uiVars, ProximityTyping, ProximityTypeOK
<1>10. CASE ProximityRestart
  BY <1>10 DEF ProximityRestart, uiVars, ProximityTyping, ProximityTypeOK
<1>11. CASE UNCHANGED proximityVars
  BY <1>11 DEF proximityVars, uiVars, nativeVars, ProximityTyping, ProximityTypeOK
<1> QED BY <1>4, <1>5, <1>6, <1>7, <1>8, <1>9, <1>10, <1>11
    DEF ProximityNext, ProximityUser, LeaveProximity, ProximityReset

\* A task of the start, for the screen that is mounted.
Starts(j) == j.pc \in Starting /\ j.mount = mount

LEMMA StartGoesOn ==
  ASSUME ProximityInvariant, StartingAwaited, NEW k \in Tasks, NEW j,
         task' = [task EXCEPT ![k] = j], UNCHANGED <<mount, mounted>>, stuck => stuck',
         ui' = "STARTING" => ui = "STARTING" \/ Starts(j),
         mounted /\ Starts(task[k]) /\ ui' = "STARTING" => stuck' \/ Starts(j)
  PROVE  StartingAwaited'
BY DEF ProximityInvariant, StartingAwaited, Starts

LEMMA StartStaysAwaited ==
  ASSUME ProximityInvariant, StartingAwaited, ProximityNext PROVE StartingAwaited'
<1> USE SomeTask
<1>1. ASSUME NEW k \in Tasks, ProximityTask(k) PROVE StartingAwaited'
  <2>1. PICK j \in SomeTasks : /\ task' = [task EXCEPT ![k] = j]
                               /\ j # NoTask => j.mount = task[k].mount
    BY <1>1, TaskStep
  <2>2. UNCHANGED <<mount, mounted>> /\ (stuck => stuck')
    <3>1. UNCHANGED <<mount, mounted>>
      BY <1>1, Zenon DEF ProximityTask, ObtainCertificate, AskPermissions, NativeStart,
                ObtainQrCode, StartFails, SendTermination, NativeClose, CloseFails, SendError,
                SendDocument
    <3>2. stuck' = stuck \/ (ObtainCertificate(k) /\ stuck' = (stuck \/ Seen(task[k].mount)))
      <4>1. CASE ObtainCertificate(k)
        BY <4>1, Zenon DEF ObtainCertificate
      <4>2. CASE \/ AskPermissions(k) \/ NativeStart(k) \/ ObtainQrCode(k) \/ StartFails(k)
                 \/ SendTermination(k) \/ NativeClose(k) \/ CloseFails(k)
                 \/ SendError(k) \/ SendDocument(k)
        BY <4>2, SMT DEF AskPermissions, NativeStart, ObtainQrCode, StartFails,
                SendTermination, NativeClose, CloseFails, SendError, SendDocument
      <4> QED BY <1>1, <4>1, <4>2 DEF ProximityTask
    <3>3. stuck => stuck'
      BY <3>2, Zenon
    <3> QED BY <3>1, <3>3
  <2>3. CASE ObtainCertificate(k) \/ AskPermissions(k) \/ NativeStart(k)
    <3>1. ui' = "STARTING" => ui = "STARTING" \/ (GoOn(k, "permission") /\ task[k].mount = mount)
      BY <2>3 DEF ObtainCertificate, AskPermissions, NativeStart, SetStatus, uiVars, Seen
    <3>2. CASE End(k) /\ ui' = ui /\ stuck' = (stuck \/ Seen(task[k].mount))
      <4>1. mounted /\ Starts(task[k]) => stuck'
        BY <3>2 DEF Starts, Seen
      <4> QED BY <2>2, <3>2, <4>1, StartGoesOn DEF End
    <3>3. CASE End(k) /\ SetStatus(task[k].mount, "STOPPED")
      <4>1. (ui' = "STARTING" => ui = "STARTING") /\ ~(mounted /\ Starts(task[k]) /\ ui' = "STARTING")
        BY <3>3 DEF Starts, Seen, SetStatus
      <4> QED BY <2>2, <3>3, <4>1, StartGoesOn DEF End
    <3>4. ASSUME NEW pc \in {"permission", "start", "qrcode"}, GoOn(k, pc) PROVE StartingAwaited'
      <4>1. PICK i \in SomeTasks : /\ task' = [task EXCEPT ![k] = i]
                                   /\ i.pc = pc /\ i.mount = task[k].mount
        BY <1>1, <3>4, TaskStep, GoesOn DEF Suspended, Starting
      <4>2. i.pc \in Starting
        BY <4>1 DEF Starting
      <4>3. ui' = "STARTING" => ui = "STARTING" \/ Starts(i)
        BY <3>1, <4>1, <4>2 DEF Starts
      <4>4. mounted /\ Starts(task[k]) => Starts(i)
        BY <4>1, <4>2 DEF Starts
      <4> QED BY <2>2, <4>1, <4>3, <4>4, StartGoesOn
    <3> QED BY <2>3, <3>2, <3>3, <3>4 DEF ObtainCertificate, AskPermissions, NativeStart, uiVars
  <2>4. CASE ObtainQrCode(k) \/ StartFails(k)
    <3>1. ui' = "STARTING" => ui = "STARTING" /\ ~Seen(task[k].mount)
      BY <2>4 DEF ObtainQrCode, StartFails, SetStatus
    <3> QED BY <2>1, <2>2, <3>1, StartGoesOn DEF Seen, Starts
  <2>5. CASE SendTermination(k) \/ NativeClose(k) \/ CloseFails(k) \/ SendError(k) \/ SendDocument(k)
    <3>1. task[k].pc \notin Starting
      BY <2>5 DEF SendTermination, NativeClose, CloseFails, SendError, SendDocument, Starting
    <3>2. ui' = "STARTING" => ui = "STARTING"
      BY <2>5 DEF SendTermination, NativeClose, CloseFails, SendError, SendDocument, SetStatus,
                  uiVars
    <3> QED BY <2>1, <2>2, <3>1, <3>2, StartGoesOn DEF Starts
  <2> QED BY <1>1, <2>3, <2>4, <2>5 DEF ProximityTask
<1>2. ASSUME NEW k \in Tasks, OpenProximity(k) PROVE StartingAwaited'
  <2>1. PICK j : j = [pc |-> "certificate", mount |-> mount + 1]
    OBVIOUS
  <2>2. task' = [task EXCEPT ![k] = j] /\ mount' = j.mount /\ j.pc \in Starting
    BY <1>2, <2>1 DEF OpenProximity, Begin, Starting
  <2> QED BY <2>2 DEF ProximityInvariant, StartingAwaited
<1>3. ASSUME NEW k \in Tasks, NEW m, NEW pc, Begin(k, m, pc),
             UNCHANGED <<mount, mounted, uiVars, stuck>>
      PROVE  StartingAwaited'
  <2>1. task[k].pc \notin Starting
    BY <1>3 DEF Begin, Starting
  <2> QED BY <1>3, <2>1, StartGoesOn DEF Begin, Starts, uiVars
<1>4. ASSUME NEW k \in Tasks, \/ TapStart(k) \/ TapClose(k) \/ TapAnswer(k)
                              \/ OnDisconnected(k) \/ OnMalformedRequest(k)
      PROVE  StartingAwaited'
  BY <1>3, <1>4 DEF TapStart, TapClose, TapAnswer, OnDisconnected, OnMalformedRequest
<1>5. ASSUME NEW k \in Tasks, Unmount(k) PROVE StartingAwaited'
  BY <1>5 DEF Unmount, StartingAwaited
<1>6. ASSUME NEW authentic \in BOOLEAN, OnRequest(authentic) PROVE StartingAwaited'
  <2>1. UNCHANGED <<task, mount, mounted, stuck>> /\ (ui' = "STARTING" => ui = "STARTING")
    BY <1>6 DEF OnRequest, uiVars
  <2> QED BY <2>1 DEF StartingAwaited
<1>7. CASE ProximityRestart
  BY <1>7 DEF ProximityRestart, StartingAwaited
<1>8. CASE UNCHANGED proximityVars
  BY <1>8 DEF proximityVars, uiVars, StartingAwaited
<1> QED BY <1>1, <1>2, <1>4, <1>5, <1>6, <1>7, <1>8
    DEF ProximityNext, ProximityUser, LeaveProximity, ProximityReset
-----------------------------------------------------------------------------
(* The theorems *)

LEMMA ProximityStores == ASSUME ProximityNext PROVE StoreStep
BY DEF ProximityNext, ProximityTask, ProximityUser, ObtainCertificate, AskPermissions, NativeStart,
       ObtainQrCode, StartFails, SendTermination, NativeClose, CloseFails, SendError, SendDocument,
       OpenProximity, LeaveProximity, TapStart, TapClose, TapAnswer, ProximityReset,
       OnDisconnected, OnMalformedRequest, OnRequest, ProximityRestart, StoreStep

LEMMA StatusInductive == Spec => []StatusInvariant
<1>1. Init => StatusInvariant
  <2> SUFFICES ASSUME Init PROVE StatusInvariant
    OBVIOUS
  <2>1. StoreTypeOK /\ now = 0
    BY StoreAssumption DEF Init, StoreInit, StoreTypeOK, EmptyStore, Time
  <2>2. ProviderInvariant
    BY <2>1, StoreAssumption DEF Init, StatusInit, ProviderInvariant, Never, MadeBy
  <2>3. CheckInvariant /\ ResultInvariant
    BY DEF Init, StatusInit, CheckInvariant, CheckOK, Beginning, NoCheck, ResultInvariant
  <2> QED BY <2>1, <2>2, <2>3 DEF StatusInvariant
<1>2. StatusInvariant /\ [Next]_servicesVars => StatusInvariant'
  <2> SUFFICES ASSUME StatusInvariant, [Next]_servicesVars PROVE StatusInvariant'
    OBVIOUS
  <2>1. CASE UsesStatus
    BY <2>1, StatusStep DEF UsesStatus
  <2>2. CASE UsesTrustmark
    BY <2>2, TrustmarkStores, StoreMoves DEF UsesTrustmark
  <2>3. CASE UsesProximity
    BY <2>3, ProximityStores, StoreMoves DEF UsesProximity
  <2>4. CASE UNCHANGED servicesVars
    BY <2>4, StoreMoves DEF servicesVars, StoreStep
  <2> QED BY <2>1, <2>2, <2>3, <2>4 DEF Next
<1> QED BY <1>1, <1>2, PTL DEF Spec

\* However the cache, the refetch and the awaits delay a check, the status of
\* the store is one the provider gave within a lifetime of being stored.
THEOREM KeepsStatusTimely == Spec => []StatusTimely
<1>1. StatusInvariant => StatusTimely
  BY DEF StatusInvariant, ResultInvariant, ResultOK, TimelyAt, StatusTimely
<1> QED BY <1>1, StatusInductive, PTL

\* No answer of the issuer about another credential becomes a status.
THEOREM KeepsStatusToCredential == Spec => []StatusOfCredential
<1>1. StatusInvariant => StatusOfCredential
  BY DEF StatusInvariant, ResultInvariant, ResultOK, StatusOfCredential
<1> QED BY <1>1, StatusInductive, PTL

\* A list that had expired in the cache never reaches the verification.
THEOREM CacheHarmless == Spec => []CacheFailsNoCheck
<1>1. StatusInvariant => CacheFailsNoCheck
  BY DEF StatusInvariant, CheckInvariant, CheckOK, CacheFailsNoCheck
<1> QED BY <1>1, StatusInductive, PTL

LEMMA TrustmarkInductive == Spec => []TrustmarkInvariant
<1>1. Init => TrustmarkInvariant
  BY DEF Init, TrustmarkInit, TrustmarkInvariant, Signing, NoThunk, TrustmarkVerifiable
<1>2. TrustmarkInvariant /\ [Next]_servicesVars => TrustmarkInvariant'
  <2> SUFFICES ASSUME TrustmarkInvariant, [Next]_servicesVars PROVE TrustmarkInvariant'
    OBVIOUS
  <2>1. CASE UsesTrustmark
    BY <2>1, TrustmarkNextStep DEF UsesTrustmark
  <2>2. CASE UNCHANGED trustmarkVars
    BY <2>2 DEF trustmarkVars, TrustmarkInvariant, Signing, TrustmarkVerifiable
  <2> QED BY <2>1, <2>2 DEF Next, UsesStatus, UsesProximity, servicesVars
<1> QED BY <1>1, <1>2, PTL DEF Spec

\* The key of a stored trustmark is the attested one, or was regenerated
\* between the comparison and the signature.
THEOREM KeepsTrustmarkVerifiable == Spec => []TrustmarkVerifiable
<1>1. TrustmarkInvariant => TrustmarkVerifiable
  BY DEF TrustmarkInvariant
<1> QED BY <1>1, TrustmarkInductive, PTL

LEMMA ProximityInductive == Spec => []ProximityInvariant
<1>1. Init => ProximityInvariant
  <2> SUFFICES ASSUME Init PROVE ProximityInvariant
    OBVIOUS
  <2>1. /\ task = [k \in Tasks |-> NoTask] /\ mount = 0 /\ listener = Nothing
        /\ ~mounted /\ ~session
    BY DEF Init, ProximityInit
  <2>2. task \in [Tasks -> SomeTasks] /\ \A k \in Tasks : task[k].pc = "idle"
    BY <2>1, SomeTask
  <2> QED BY <2>1, <2>2 DEF ProximityInvariant, ShownIsCurrent, Opening
<1>2. ProximityInvariant /\ [Next]_servicesVars => ProximityInvariant'
  <2> SUFFICES ASSUME ProximityInvariant, [Next]_servicesVars PROVE ProximityInvariant'
    OBVIOUS
  <2>1. CASE UsesProximity
    BY <2>1, ProximityStep DEF UsesProximity
  <2>2. CASE UNCHANGED proximityVars
    BY <2>2 DEF proximityVars, uiVars, nativeVars, ProximityInvariant, ShownIsCurrent
  <2> QED BY <2>1, <2>2 DEF Next, UsesStatus, UsesTrustmark, servicesVars
<1> QED BY <1>1, <1>2, PTL DEF Spec

\* A session that is still open when the screen is gone and no task is left
\* could not be closed, or was opened by a start that was still on its way.
THEOREM ClosesSession == Spec => []UnmountCloses
<1>1. ProximityInvariant => UnmountCloses
  BY SomeTask DEF ProximityInvariant, UnmountCloses
<1> QED BY <1>1, ProximityInductive, PTL

\* The request that is shown, and the trust in it, are of the last request.
THEOREM ShowsCurrentRequest == Spec => []ShownIsCurrent
<1>1. ProximityInvariant => ShownIsCurrent
  BY DEF ProximityInvariant
<1> QED BY <1>1, ProximityInductive, PTL

LEMMA StatusTypingInductive == Spec => [](StatusTyping /\ CheckAwaited)
<1>1. Init => StatusTyping /\ CheckAwaited
  BY DEF Init, StatusInit, StatusTyping, CheckAwaited, NoCheck
<1>2. StatusInvariant /\ StatusTyping /\ CheckAwaited /\ [Next]_servicesVars
        => (StatusTyping /\ CheckAwaited)'
  <2> SUFFICES ASSUME StatusInvariant, StatusTyping, CheckAwaited, [Next]_servicesVars
               PROVE  StatusTyping' /\ CheckAwaited'
    OBVIOUS
  <2>1. CASE UsesStatus
    BY <2>1, StatusTyped, CheckStaysAwaited DEF UsesStatus
  <2>2. CASE UNCHANGED statusVars
    BY <2>2 DEF statusVars, providerVars, StatusTyping, CheckAwaited
  <2> QED BY <2>1, <2>2 DEF Next, UsesTrustmark, UsesProximity, servicesVars
<1> QED BY <1>1, <1>2, StatusInductive, PTL DEF Spec

LEMMA TrustmarkTypingInductive == Spec => [](TrustmarkTypeOK /\ TrustmarkAwaited)
<1>1. Init => TrustmarkTypeOK /\ TrustmarkAwaited
  <2> SUFFICES ASSUME Init PROVE TrustmarkTypeOK /\ TrustmarkAwaited
    OBVIOUS
  <2>1. 1 \in WiaKeys /\ WiaLifetime \in 0 .. MaxTime + WiaLifetime
    BY StoreAssumption, TrustmarkAssumption DEF WiaKeys
  <2>2. wiaKey \in WiaKeys /\ wia \in Wias /\ open = Nothing
    BY <2>1 DEF Init, TrustmarkInit, Wias
  <2>3. /\ \A k \in Thunks : thunk[k] = NoThunk
        /\ \A t \in Types : trustmark[t] = Nothing
        /\ trustmarkAsync = [t \in Types |-> "initial"]
    BY DEF Init, TrustmarkInit
  <2>4. TrustmarkTypeOK
    BY <2>2, <2>3 DEF TrustmarkTypeOK
  <2>5. TrustmarkAwaited
    BY <2>3 DEF TrustmarkAwaited
  <2> QED BY <2>4, <2>5
<1>2. StatusInvariant /\ TrustmarkInvariant
        /\ TrustmarkTypeOK /\ TrustmarkAwaited /\ [Next]_servicesVars
        => (TrustmarkTypeOK /\ TrustmarkAwaited)'
  <2> SUFFICES ASSUME StatusInvariant, TrustmarkInvariant, TrustmarkTypeOK, TrustmarkAwaited,
                      [Next]_servicesVars
               PROVE  TrustmarkTypeOK' /\ TrustmarkAwaited'
    OBVIOUS
  <2>0. StoreTypeOK
    BY DEF StatusInvariant
  <2>1. CASE UsesTrustmark
    BY <2>0, <2>1, TrustmarkTyped, TrustmarkStaysAwaited DEF UsesTrustmark
  <2>2. CASE UNCHANGED trustmarkVars
    BY <2>2 DEF trustmarkVars, TrustmarkTypeOK, TrustmarkAwaited
  <2> QED BY <2>1, <2>2 DEF Next, UsesStatus, UsesProximity, servicesVars
<1> QED BY <1>1, <1>2, StatusInductive, TrustmarkInductive, PTL DEF Spec

LEMMA ProximityTypingInductive == Spec => [](ProximityTyping /\ StartingAwaited)
<1>1. Init => ProximityTyping /\ StartingAwaited
  <2> SUFFICES ASSUME Init PROVE ProximityTyping /\ StartingAwaited
    OBVIOUS
  <2>1. /\ mount = 0 /\ mounted = FALSE /\ ui = "STARTING" /\ qr = FALSE /\ request = Nothing
        /\ trusted = Nothing /\ session = FALSE /\ listener = Nothing /\ requests = 0
        /\ unclosed = FALSE /\ stuck = FALSE
        /\ \A k \in Tasks : task[k] = NoTask
    BY DEF Init, ProximityInit, FreshUi
  <2>2. 0 \in 0 .. MaxMounts /\ 0 \in 0 .. MaxRequests
    BY ProximityAssumption
  <2> QED BY <2>1, <2>2 DEF ProximityTyping, ProximityTypeOK, StartingAwaited
<1>2. ProximityInvariant /\ ProximityTyping /\ StartingAwaited /\ [Next]_servicesVars
        => (ProximityTyping /\ StartingAwaited)'
  <2> SUFFICES ASSUME ProximityInvariant, ProximityTyping, StartingAwaited, [Next]_servicesVars
               PROVE  ProximityTyping' /\ StartingAwaited'
    OBVIOUS
  <2>1. CASE UsesProximity
    BY <2>1, ProximityTyped, StartStaysAwaited DEF UsesProximity
  <2>2. CASE UNCHANGED proximityVars
    BY <2>2 DEF proximityVars, uiVars, nativeVars, ProximityTyping, ProximityTypeOK,
                StartingAwaited
  <2> QED BY <2>1, <2>2 DEF Next, UsesStatus, UsesTrustmark, servicesVars
<1> QED BY <1>1, <1>2, ProximityInductive, PTL DEF Spec

\* The variables of the store and of the three services have their types.
THEOREM ServicesTypes == Spec => []ServicesTypeOK
<1>1. StatusInvariant /\ StatusTyping /\ TrustmarkTypeOK /\ ProximityTyping => ServicesTypeOK
  BY StatusHasTypes DEF ServicesTypeOK, ProximityTyping
<1> QED BY <1>1, StatusInductive, StatusTypingInductive, TrustmarkTypingInductive,
           ProximityTypingInductive, PTL

\* A button in loading state has a check of its type in flight: no reset, no
\* restart and no other check takes the one away without the other.
THEOREM AwaitsChecks == Spec => []CheckAwaited
<1> QED BY StatusTypingInductive, PTL

\* A trustmark in loading state has a thunk of its type in flight.
THEOREM AwaitsTrustmarks == Spec => []TrustmarkAwaited
<1> QED BY TrustmarkTypingInductive, PTL

\* A screen that says "Starting" has a start of its own mount on its way, or
\* the certificate of the anchor could not be obtained.
THEOREM AwaitsStart == Spec => []StartingAwaited
<1> QED BY ProximityTypingInductive, PTL
=============================================================================
