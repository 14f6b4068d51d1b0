---------------------------- MODULE Presentation ----------------------------
(***************************************************************************)
(* Remote presentations (remoteCrossDevicePresentationThunk), over the     *)
(* slice that shows their outcome and the credentials the store holds      *)
(* when the request of the relying party has been verified.                *)
(***************************************************************************)
EXTENDS Dcql, FiniteSets

CONSTANTS
  Presenters,     \* dispatches of the thunk
  Requests,       \* the request objects relying parties send
  Places,         \* the places of the store: the PID and the EAA configurations
  PidPlace,       \* the one which the thunk requires
  Storable,       \* what each place may hold
  NoCredential, NoRequest, NoSlot

ASSUME PresentationAssumption ==
  /\ Requests \subseteq Request
  /\ NoRequest \notin Requests
  /\ NoCredential \notin Credentials
  /\ IsFiniteSet(Places) /\ PidPlace \in Places
  /\ \A q \in Places : Storable[q] \subseteq Credentials

Slots == {"acceptanceState", "refusalState"}

VARIABLES
  pc,        \* the await each presentation is suspended at
  slot,      \* args.allowed
  request,   \* requestObject
  wallet,    \* credentialsSdJwt
  answer,    \* evaluatedDcqlQuery
  store,     \* the pid and credential slices
  status,    \* asyncStatus of each slot of the presentation slice
  received   \* history: the responses that reached a relying party

thunkVars == <<pc, slot, request, wallet, answer>>
presentationVars == <<thunkVars, store, status, received>>

Awaiting == {"request", "evaluate", "send", "sent", "refuse"}

\* A list of credentials, with gaps where a place is empty.
Wallets == UNION {[D -> Credentials] : D \in SUBSET (1..Cardinality(Places))}

\* The PID, then the keys of the credential slice, in their declared order
\* until a restart drops the empty ones, in the order of insertion after it.
Orders ==
  {o \in [1..Cardinality(Places) -> Places] :
     o[1] = PidPlace /\ \A i, j \in DOMAIN o : o[i] = o[j] => i = j}

Evaluated == [query : CredentialQuery, credential : Credentials,
              disclosed : SUBSET ClaimPath]

Response == [request : Requests, wallet : Wallets, answer : SUBSET Evaluated]

PresentationTypeOK ==
  /\ pc \in [Presenters -> Awaiting \cup {"idle", "ended", "gone"}]
  /\ slot \in [Presenters -> Slots \cup {NoSlot}]
  /\ request \in [Presenters -> Requests \cup {NoRequest}]
  /\ wallet \in [Presenters -> Wallets]
  /\ answer \in [Presenters -> SUBSET Evaluated]
  /\ store \in [Places -> Credentials \cup {NoCredential}]
  /\ \A q \in Places : store[q] \in Storable[q] \cup {NoCredential}
  /\ status \in [Slots -> {"initial", "loading", "done", "error"}]
  /\ received \subseteq Response

Init ==
  /\ pc = [p \in Presenters |-> "idle"]
  /\ slot = [p \in Presenters |-> NoSlot]
  /\ request = [p \in Presenters |-> NoRequest]
  /\ wallet = [p \in Presenters |-> <<>>]
  /\ answer = [p \in Presenters |-> {}]
  /\ store = [q \in Places |-> NoCredential]
  /\ status = [s \in Slots |-> "initial"]
  /\ received = {}
-----------------------------------------------------------------------------
(* The thunk *)

\* The scan of a QR code; the pending reducer.
Scan(p) ==
  /\ pc[p] = "idle"
  /\ \E s \in Slots :
       /\ slot' = [slot EXCEPT ![p] = s]
       /\ status' = [status EXCEPT ![s] = "loading"]
  /\ pc' = [pc EXCEPT ![p] = "request"]
  /\ UNCHANGED <<request, wallet, answer, store, received>>

\* The fulfilled and the rejected reducer; the locals of the thunk are gone.
EndsWith(p, outcome) ==
  /\ pc' = [pc EXCEPT ![p] = "ended"]
  /\ request' = [request EXCEPT ![p] = NoRequest]
  /\ wallet' = [wallet EXCEPT ![p] = <<>>]
  /\ answer' = [answer EXCEPT ![p] = {}]
  /\ status' = [status EXCEPT ![slot[p]] = outcome]
  /\ UNCHANGED <<slot, store>>

\* Faulty variant: empty places are not left out.
HeldOrNot(o) == [i \in DOMAIN o |-> store[o[i]]]

Held(o) == [i \in {i \in DOMAIN o : store[o[i]] # NoCredential} |-> store[o[i]]]

\* Trust, request object and its verification touch nothing that is shared;
\* then, without an await, the store is read.  The type of a request object
\* that was verified has a dcql_query in both versions, so that this conjunct
\* of the branch is true and args.allowed alone decides.
ObtainRequest(p) ==
  /\ pc[p] = "request"
  /\ store[PidPlace] # NoCredential
  /\ \E r \in Requests : request' = [request EXCEPT ![p] = r]
  /\ \E o \in Orders : wallet' = [wallet EXCEPT ![p] = Held(o)]
  /\ pc' = [pc EXCEPT ![p] = IF slot[p] = "refusalState" THEN "refuse" ELSE "evaluate"]
  /\ UNCHANGED <<slot, answer, store, status, received>>

\* Every credential is read as an SD-JWT, in whatever format it is.
Evaluate(p) ==
  /\ pc[p] = "evaluate"
  /\ \A i \in DOMAIN wallet[p] : wallet[p][i] \in SdJwt
  /\ CanBeSatisfied(request[p], wallet[p])
  /\ answer' = [answer EXCEPT ![p] = Answer(request[p], wallet[p])]
  /\ pc' = [pc EXCEPT ![p] = "send"]
  /\ UNCHANGED <<slot, request, wallet, store, status, received>>

\* The response reaches the relying party; the wallet may never learn of it.
Send(p) ==
  /\ pc[p] = "send"
  /\ pc' = [pc EXCEPT ![p] = "sent"]
  /\ received' = received \cup
       {[request |-> request[p], wallet |-> wallet[p], answer |-> answer[p]]}
  /\ UNCHANGED <<slot, request, wallet, answer, store, status>>

Finish(p) ==
  /\ pc[p] = "sent"
  /\ EndsWith(p, "done")
  /\ UNCHANGED received

SendRefusal(p) ==
  /\ pc[p] = "refuse"
  /\ EndsWith(p, "done")
  /\ UNCHANGED received

\* A request fails, a document does not verify, no credential matches...
StepFails(p) ==
  /\ pc[p] \in Awaiting
  /\ EndsWith(p, "error")
  /\ UNCHANGED received

ThunkStep(p) ==
  \/ ObtainRequest(p) \/ Evaluate(p) \/ Send(p) \/ Finish(p)
  \/ SendRefusal(p) \/ StepFails(p)
-----------------------------------------------------------------------------
(* What happens around it *)

\* The fulfilled reducers of issuance.
StoreCredential(q) ==
  /\ \E c \in Storable[q] \ {store[q]} : store' = [store EXCEPT ![q] = c]
  /\ UNCHANGED <<thunkVars, status, received>>

\* The presentation slice follows sessionReset but not instanceReset.
Reset(status0) ==
  /\ store' = [q \in Places |-> NoCredential]
  /\ status' = status0
  /\ UNCHANGED <<thunkVars, received>>

SessionReset == Reset([s \in Slots |-> "initial"])
InstanceReset == Reset(status)

\* The thunks are lost.  The slice is persisted without a whitelist.
AppRestart ==
  /\ pc' = [p \in Presenters |-> IF pc[p] = "idle" THEN "idle" ELSE "gone"]
  /\ request' = [p \in Presenters |-> NoRequest]
  /\ wallet' = [p \in Presenters |-> <<>>]
  /\ answer' = [p \in Presenters |-> {}]
  /\ UNCHANGED <<slot, store, status, received>>

Next ==
  \/ \E p \in Presenters : Scan(p) \/ ThunkStep(p)
  \/ \E q \in Places : StoreCredential(q)
  \/ SessionReset
  \/ InstanceReset
  \/ AppRestart

Spec == Init /\ [][Next]_presentationVars
-----------------------------------------------------------------------------
(* Properties *)

\* What is disclosed to a relying party lies on the claims of one alternative
\* of one of its queries: no claim of another claim set, nothing that an
\* earlier claim of the same reduction left in the frame.
AlongOption(a, n) ==
  \A d \in a.disclosed : \E i \in 1..Len(OptionPaths(a.query, n)) :
    \E k \in 1..Len(OptionPaths(a.query, n)[i]) :
      Fits(Prefix(OptionPaths(a.query, n)[i], k), d)

NothingElseDisclosed ==
  \A m \in received : \A a \in m.answer :
    /\ \E i \in 1..Len(m.request.queries) : a.query = m.request.queries[i]
    /\ \E n \in 1..Len(Options(a.query)) : AlongOption(a, n)

\* No two credentials of a type.
Unambiguous(w) == \A i, j \in DOMAIN w : Vct[w[i]] = Vct[w[j]] => i = j

\* Paths of at most two segments, none the beginning of another.
Shallow(paths) ==
  /\ \A i \in 1..Len(paths) : Len(paths[i]) <= 2
  /\ \A i, j \in 1..Len(paths) :
       Len(paths[i]) = 1 /\ paths[i][1] = paths[j][1] => Len(paths[j]) = 1

\* The credential satisfies the alternative, and all that the alternative
\* asks for can be read from what is disclosed.
Answers(a, n) ==
  /\ n \in ValidOptions(a.query, a.credential)
  /\ \A i \in 1..Len(OptionPaths(a.query, n)) : \A c \in Claims[a.credential] :
       Fits(OptionPaths(a.query, n)[i], c)
         => Prefixes(c) \cap Disclosable[a.credential] \subseteq a.disclosed

AnswersQuery(a) ==
  /\ Vct[a.credential] \in a.query.vcts
  /\ \E n \in 1..Len(Options(a.query)) : Answers(a, n)

\* What a relying party receives for a query satisfies the query, although
\* the credential is looked up by its type and the frames of several claims
\* are merged into one: if types are unique and paths shallow.
QueriesAnswered ==
  \A m \in received : \A a \in m.answer :
    Unambiguous(m.wallet) /\ Shallow(a.query.paths) => AnswersQuery(a)

\* A response answers all that its request requires: some option of every
\* required credential set, or every query.
RequiredAnswered ==
  \A m \in received :
    LET r == m.request
        Given(i) == \E a \in m.answer : a.query = r.queries[i]
    IN  IF r.sets = {} THEN \A i \in 1..Len(r.queries) : Given(i)
        ELSE \A s \in r.sets : s.required => \E o \in s.options : \A i \in o : Given(i)

\* dcql.ts:132 calls the frame one "to use for disclosing the requested
\* claims": they are all disclosed, however deep.
RequestedDisclosed ==
  \A m \in received : \A a \in m.answer :
    Unambiguous(m.wallet) => AnswersQuery(a)
=============================================================================
