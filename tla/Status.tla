------------------------------- MODULE Status -------------------------------
(***************************************************************************)
(* The status checks of the app.  Version 1.0.0 of the library asks the    *)
(* issuer for a status assertion on one credential, version 1.3.3 reads    *)
(* the credential's entry in a status list, which the HTTP cache of the    *)
(* platform may keep.  A check is one dispatch, suspended at its awaits.   *)
(***************************************************************************)
EXTENDS CredentialStore

CONSTANTS
  Checks,       \* the checks that can be in flight at once
  Lifetime,     \* how long a published list or an assertion is valid
  Expiring      \* do the lists of the provider carry an exp?

ASSUME StatusAssumption ==
  /\ Lifetime \in Nat
  /\ Expiring \in BOOLEAN

Never == MaxTime + 1   \* a time that does not come

\* What the provider says of a credential: the entries of a list, and the
\* types of an assertion.  "INVALID" stands for the suspended ones too, "OTHER"
\* is an entry that the map does not know.
StatusTypes == {"VALID", "INVALID", "OTHER"}

Lists == [iat : Time, exp : 0 .. MaxTime + Lifetime \cup {Nothing}]

VARIABLES
  version,      \* the version of the specifications in the settings
  revoked,      \* provider: when each credential got its new status
  verdict,      \* provider: the status it then gets
  published,    \* provider: the status list it serves
  cached,       \* the list in the HTTP cache
  check,        \* each check in flight
  status,       \* store: the last result for each type
  statusAsync   \* store: the progress of the check of each type

providerVars == <<revoked, verdict, published>>
statusVars   == <<version, providerVars, cached, check, status, statusAsync>>

NoCheck == [pc |-> "idle"]

Waiting == {"trust", "list", "refetch", "verifyList",
            "assertion", "verifyAssertion"}

\* The status of credential s at time t, as the provider sees it.
StatusAt(s, t) == IF t < revoked[s] THEN "VALID" ELSE verdict

StatusTypeOK ==
  /\ StoreTypeOK
  /\ version \in {"1.0.0", "1.3.3"}
  /\ revoked \in [Serials -> 0 .. Never]
  /\ verdict \in StatusTypes \ {"VALID"}
  /\ published \in Lists
  /\ cached \in Lists \cup {Nothing}
  /\ \A c \in Checks : check[c].pc \in Waiting \cup {"idle"}
  /\ \A t \in Types : status[t] # Nothing =>
       status[t].cred \in Serials /\ status[t].at \in Time
  /\ statusAsync \in [Types -> {"initial", "loading", "done", "error"}]

ListNow(t) == [iat |-> t, exp |-> IF Expiring THEN t + Lifetime ELSE Nothing]

StatusInit ==
  /\ version \in {"1.0.0", "1.3.3"}
  /\ revoked = [s \in Serials |-> Never]
  /\ verdict \in StatusTypes \ {"VALID"}
  /\ published = ListNow(0)
  /\ cached = Nothing
  /\ check = [c \in Checks |-> NoCheck]
  /\ status = [t \in Types |-> Nothing]
  /\ statusAsync = [t \in Types |-> "initial"]
-----------------------------------------------------------------------------
(* The provider *)

\* The status of a credential changes, once; lists and assertions that are
\* made from the next instant on show it.
ChangeStatus(s) ==
  /\ s <= serials
  /\ revoked[s] = Never
  /\ now < MaxTime
  /\ revoked' = [revoked EXCEPT ![s] = now + 1]
  /\ UNCHANGED <<storeVars, version, verdict, published, cached, check, status,
                 statusAsync>>

\* The provider replaces the list it serves by one made now.
Publish ==
  /\ published # ListNow(now)
  /\ published' = ListNow(now)
  /\ UNCHANGED <<storeVars, version, revoked, verdict, cached, check, status,
                 statusAsync>>

ProviderStep == Publish \/ \E s \in Serials : ChangeStatus(s)
-----------------------------------------------------------------------------
(* The reducers *)

\* The check of c ends with a result, which is stored under its type.
Fulfilled(c, result) ==
  /\ status' = [status EXCEPT ![check[c].type] = result]
  /\ statusAsync' = [statusAsync EXCEPT ![check[c].type] = "done"]
  /\ check' = [check EXCEPT ![c] = NoCheck]

\* Faulty variant: the error is not reported.
RejectedQuietly(c) ==
  /\ check' = [check EXCEPT ![c] = NoCheck]
  /\ UNCHANGED <<status, statusAsync>>

\* The check of c fails: the status that was stored before stays.
Rejected(c) ==
  /\ statusAsync' = [statusAsync EXCEPT ![check[c].type] = "error"]
  /\ check' = [check EXCEPT ![c] = NoCheck]
  /\ UNCHANGED status

Pending(t) == statusAsync' = [statusAsync EXCEPT ![t] = "loading"]

\* The user taps the button of a type; the screen shows a button only for a
\* credential that is held, and those of the version in the settings.
StartCheck(c, t) ==
  /\ check[c] = NoCheck
  /\ held[t] # Nothing
  /\ statusAsync[t] # "loading"
  /\ check' = [check EXCEPT ![c] = [pc |-> "trust", type |-> t, cred |-> held[t]]]
  /\ Pending(t)
  /\ UNCHANGED <<storeVars, version, providerVars, cached, status>>

\* The keys of the issuer are looked up; the version decides what follows.
EvaluateTrust(c) ==
  /\ check[c].pc = "trust"
  /\ check' = [check EXCEPT ![c].pc =
                 IF version = "1.0.0" THEN "assertion" ELSE "list"]
  /\ UNCHANGED <<storeVars, version, providerVars, cached, status, statusAsync>>
-----------------------------------------------------------------------------
(* Status lists *)

Expired(list, t) == list.exp # Nothing /\ list.exp < t

\* Faulty variant: the expiry of a token is not verified.
VerifiesAnyway(token, t) == TRUE

\* The native verification of a JWT: one that has expired is refused.
Verifies(token, t) == ~Expired(token, t)

\* A fetch is answered by the provider, or by the cache if it has a list; an
\* answer of the provider may be cached.  A fetch with no-cache is answered
\* by the provider.
Answers(cacheDisabled) ==
  {published} \cup (IF cacheDisabled \/ cached = Nothing THEN {} ELSE {cached})

Fetch(c, list, cacheDisabled, next) ==
  /\ list \in Answers(cacheDisabled)
  /\ cached' \in IF list = published THEN {cached, list} ELSE {cached}
  /\ check' = [check EXCEPT ![c] =
       [pc |-> next, type |-> check[c].type, cred |-> check[c].cred,
        list |-> list, stale |-> list # published /\ Expired(list, now)]]
  /\ UNCHANGED <<storeVars, version, providerVars, status, statusAsync>>

\* Faulty variant: what the cache gives is never fetched again.
FetchListOnce(c) ==
  /\ check[c].pc = "list"
  /\ \E list \in Answers(FALSE) : Fetch(c, list, FALSE, "verifyList")

\* getStatusListByUri: the list, from the cache if it has one.
FetchList(c) ==
  /\ check[c].pc = "list"
  /\ \E list \in Answers(FALSE) :
       Fetch(c, list, FALSE, IF Expired(list, now) THEN "refetch" ELSE "verifyList")

\* The list had expired: it is fetched once more, past the cache.
RefetchList(c) ==
  /\ check[c].pc = "refetch"
  /\ \E list \in Answers(TRUE) : Fetch(c, list, TRUE, "verifyList")

\* getStatus: entries that the map does not know are refused.
KnownStatus(entry) == entry \in {"VALID", "INVALID"}

\* The list is verified and the entry of the credential is read and stored.
VerifyList(c) ==
  /\ check[c].pc = "verifyList"
  /\ LET list  == check[c].list
         entry == StatusAt(check[c].cred, list.iat) IN
     /\ Verifies(list, now)
     /\ KnownStatus(entry)
     /\ Fulfilled(c, [cred |-> check[c].cred, about |-> check[c].cred,
                      status |-> entry, at |-> now])
  /\ UNCHANGED <<storeVars, version, providerVars, cached>>

\* It is refused.
RefuseList(c) ==
  /\ check[c].pc = "verifyList"
  /\ \/ ~Verifies(check[c].list, now)
     \/ ~KnownStatus(StatusAt(check[c].cred, check[c].list.iat))
  /\ Rejected(c)
  /\ UNCHANGED <<storeVars, version, providerVars, cached>>
-----------------------------------------------------------------------------
(* Status assertions *)

\* The issuer answers with an assertion made now; a faulty one may answer
\* about another credential.
RequestAssertion(c) ==
  /\ check[c].pc = "assertion"
  /\ \E s \in 1 .. serials :
       check' = [check EXCEPT ![c] =
         [pc |-> "verifyAssertion", type |-> check[c].type,
          cred |-> check[c].cred, about |-> s, iat |-> now]]
  /\ UNCHANGED <<storeVars, version, providerVars, cached, status, statusAsync>>

\* Faulty variant: whichever credential the assertion is about.
BoundToAny(c) == TRUE

\* The key in the assertion is that of the credential, and no two credentials
\* of the wallet share a key.
BoundToHolder(c) == check[c].about = check[c].cred

\* Only the assertion of a valid status is a result; any other is an error.
AssertionAccepted(c) ==
  /\ Verifies([exp |-> check[c].iat + Lifetime], now)
  /\ BoundToHolder(c)
  /\ StatusAt(check[c].about, check[c].iat) = "VALID"

VerifyAssertion(c) ==
  /\ check[c].pc = "verifyAssertion"
  /\ IF AssertionAccepted(c)
     THEN Fulfilled(c, [cred |-> check[c].cred, about |-> check[c].about,
                        status |-> "VALID", at |-> now])
     ELSE Rejected(c)
  /\ UNCHANGED <<storeVars, version, providerVars, cached>>
-----------------------------------------------------------------------------
\* A fetch fails, is answered with an error, or what it gives is invalid.
CheckFails(c) ==
  /\ check[c].pc \in Waiting
  /\ Rejected(c)
  /\ UNCHANGED <<storeVars, version, providerVars, cached>>

CheckStep(c) ==
  \/ EvaluateTrust(c)
  \/ FetchList(c)
  \/ RefetchList(c)
  \/ VerifyList(c)
  \/ RefuseList(c)
  \/ RequestAssertion(c)
  \/ VerifyAssertion(c)
  \/ CheckFails(c)

\* An instance or session reset, or the start of a PID login: the checks in
\* flight are not cancelled.
StatusReset ==
  /\ ForgetCredentials
  /\ status' = [t \in Types |-> Nothing]
  /\ statusAsync' = [t \in Types |-> "initial"]
  /\ UNCHANGED <<version, providerVars, cached, check>>

\* Only the credentials are persisted; checks end with the process.
StatusRestart ==
  /\ status' = [t \in Types |-> Nothing]
  /\ statusAsync' = [t \in Types |-> "initial"]
  /\ check' = [c \in Checks |-> NoCheck]
  /\ UNCHANGED <<storeVars, version, providerVars, cached>>

-----------------------------------------------------------------------------
(* Properties *)

\* A stored status is what the provider said of the credential at some time
\* not longer than a Lifetime before the status was stored: the cache, the
\* refetch and slow answers make a status late, but never later than that.
StatusTimely ==
  \A t \in Types : status[t] # Nothing =>
    LET r == status[t] IN
    \E m \in 0 .. r.at :
      /\ StatusAt(r.cred, m) = r.status
      /\ Expiring \/ version = "1.0.0" => r.at - m <= Lifetime

\* The status stored for a credential was not read from an assertion on
\* another one, whatever the issuer answers: verifyAndParseStatusAssertion
\* compares the keys, not the hash of the credential.
StatusOfCredential ==
  \A t \in Types : status[t] # Nothing => status[t].about = status[t].cred

\* No list is verified that had expired when it was fetched, unless it is the
\* provider's own: an old list in the HTTP cache makes no check fail, because
\* it is fetched again past the cache.
CacheFailsNoCheck == \A c \in Checks : check[c].pc = "verifyList" => ~check[c].stale

\* A button that loads has a check in flight that will end it, though the
\* checks outlive the resets of the store and end later checks of their type.
CheckAwaited ==
  \A t \in Types : statusAsync[t] = "loading" =>
    \E c \in Checks : check[c].pc \in Waiting /\ check[c].type = t

\* The button of a type does not stay in loading state for ever, though
\* checks outlive resets and several may be in flight for one type.
CheckEnds ==
  \A t \in Types : statusAsync[t] = "loading" ~> statusAsync[t] # "loading"
-----------------------------------------------------------------------------
StatusNext ==
  \/ ProviderStep
  \/ \E c \in Checks : CheckStep(c) \/ \E t \in Types : StartCheck(c, t)
  \/ (Tick \/ \E t \in Types : StoreCredential(t)) /\ UNCHANGED statusVars
  \/ StatusReset
  \/ StatusRestart
=============================================================================
