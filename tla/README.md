# A TLA+ verification of io-react-native-wallet

The repository holds the library of the IT-Wallet of the IO app (`src/`) and an
example app that drives it (`example/src/`). The library is a set of stateless
calls, one per step of a protocol; what makes a wallet of them is the app: its
thunks chain the calls, its Redux slices keep their results, and the key store
of the device keeps the keys. The interesting behaviours appear where they
meet. Several thunks run at once, each suspended at some `await`, over one
store and one key store, against servers that may answer late, wrongly or not
at all.

This directory models that system in TLA+, checks it with TLC on small
instances, and proves with TLAPS what matters most for all instances.

    tlc -config Issuance.cfg Wallet.tla      # any run: see "Runs"
    tlapm WalletProofs.tla                   # the proofs
    tlapm InterferenceProofs.tla
    tlapm TrustChainProofs.tla
    tlapm PresentationProofs.tla
    tlapm LoginProofs.tla
    tlapm ServicesProofs.tla
    tlapm LibraryProofs.tla
    tlapm LibraryTypeProofs.tla

Paths below are relative to the repository.

## 1. The system

| component | state | operations | interacts with |
|---|---|---|---|
| key store and crypto contexts (`example/src/utils/crypto.ts`, `src/utils/crypto.ts`) | key pairs by key tag; two tags are fixed and shared (`WIA_KEYTAG`, `DPOP_KEYTAG`), a credential's tags are UUIDs | `generate`, `deleteKeyIfExists`, `regenerateCryptoKey`, `createCryptoContextFor` | every flow |
| wallet instance (`example/src/thunks/instance.ts`, `example/src/utils/integrity.ts`, `src/wallet-instance`) | `instance.keyTag` (persisted), the provider's record, the key in the secure hardware | create, recreate, revoke, reset, status query | provider, integrity service, all slices (reset) |
| wallet instance attestation, WIA (`example/src/thunks/attestation.ts`, `src/wallet-instance-attestation`) | the attestation (persisted) | `getWalletInstanceAttestationThunk`, expiry; the request of 1.0.0 | instance, key store, provider |
| wallet unit attestation, WUA (`src/wallet-unit-attestation`) | the keys it generates | key generation and attestation | instance, key store, issuance |
| credential issuance (`example/src/thunks/credential.ts`, `thunks/pid.ts`, `utils/credential.ts`, `src/credential/issuance`) | PKCE verifier, token, nonce of a flow | pushed authorization request, authorization, token, credential request, verification | WIA, WUA, DPoP key, store |
| PID login and MRTD proof of possession (`example/src/screens/login`, `thunks/pid.ts`, `thunks/mrtd.ts`, `src/credential/issuance/mrtd-pop`) | the parameters of the login, the challenge and its validation, the web views and the NFC reader | prepare, redirect, challenge, CAN and card, callback, code exchange, the ways to cancel | PID issuer, issuance |
| application store (`example/src/store`) | slices, their asyncStatus, what is persisted | thunk reducers, resets, rehydration | screens, thunks |
| trust chains (`src/trust`) | the chain under construction | build, verify, renew | federation servers |
| credential status (`src/credential/status`) | cached status lists, a result per credential | status assertion, status list, refetch | status providers, store |
| remote presentation (`src/credential/presentation`, `example/src/thunks/presentation.ts`) | the QR code, a request object, the selected credentials | parse, trust, verify request, DCQL, response | relying party, key store, store |
| trustmark (`src/credential/trustmark`, `TrustmarkScreen.tsx`) | a trustmark per credential | read the key, compare it, sign | WIA, key store, store |
| proximity (`example/src/screens/ProximityScreen.tsx`) | the screen, the native session and its listeners | start, QR code, request, answer, close | native library, verifier |
| credential offers (`src/credential/offer`, `thunks/offer.ts`) | the offer scanned last | resolve, extract the grant, validate | issuance |
| credentials catalogue (`src/credentials-catalogue`) | catalogue and translations | fetch the registries, join them, fetch texts | trust anchor |
| documents, errors, facade | - | verify and parse a credential; build and map errors; select a version | all |

### What is hard

- **Interleaving.** Thunks are not mutually exclusive. `DPOP_KEYTAG` and
  `WIA_KEYTAG` are deleted and regenerated by any flow at any time, in two
  native calls, while other flows hold contexts that look the tag up again at
  every use.
- **Stale state.** A thunk reads the store at its start and writes it at its
  end; between them an instance may be revoked, the store reset, the PID
  replaced, the flow parameters overwritten by another login. A reset makes the
  buttons usable under thunks that go on, so that a creation or a revocation may
  be begun while another one is in flight.
- **Partial failure.** A key is replaced before the request that needs it
  fails; keys are generated in parallel and one generation fails; the token
  and nonce are spent when the answer turns out deferred, short or lost. The
  awaited attestation thunk never throws: its outcome is not looked at.
- **Crash.** A restart drops the thunks, the PID flow parameters and every
  asyncStatus, and keeps keys, instance, attestation and credentials.
- **Ordering.** The issuer orders the credentials of a batch; the app keeps
  the first with the first key tag.
- **Merging.** What a presentation discloses is put together claim by claim in
  one object, whose outcome depends on the order and the depth of the claims.
- **Rollover.** A trust chain is fetched document by document from servers
  that replace their keys meanwhile, and renewed in parallel when it does not
  validate. Nobody compares the names in the documents.
- **Late answers.** A redirect of a login that was left, a challenge whose
  screen is gone, a status of a credential that was replaced, a start of a
  session whose screen was unmounted, an offer of an earlier scan: each comes
  back to whatever the store or the screen holds by then.
- **Two versions.** Every call exists in 1.0.0 and 1.3.3, with other checks, in
  another order, with other errors; the SDK and the library have error classes
  of the same name.
- **Caches.** The platform may answer a status list from its HTTP cache.

`PROJECT.json` lists each hazard at its line, with the property that would
catch it or the reason why none does yet.

### What correctness means, by component

- *Key store, issuance*: the holder key of a stored credential stays usable,
  is verified to be the wallet's, and is shared by no other credential.
- *Instance and attestation*: the store names only registered instances; a
  flow presents an attestation whose key the wallet holds.
- *Flows*: a flow that nobody disturbs is not hindered by what others left
  behind; a request ends in a credential or an error, never in a spinner.
- *Trust chains*: the signatures of an accepted chain lead from the relying
  party to the trust anchor; orderly key rollovers do not make valid chains fail; the wallet
  decides.
- *Presentation*: a response gives what its request requires, from credentials
  that match, and discloses nothing else.
- *Login*: a PID is obtained with the code and the verifier of one attempt; a
  loading button, and a challenge that came while its screen was there, belong to
  the login that is under way.
- *Status*: a status is late by a bounded time, is about its credential, and an
  old list in a cache fails no check.
- *Whatever loads* (a button, a status, a trustmark, the starting screen): there
  is a thunk or a task in flight that will end it, though each outlives the
  resets and the screens it was begun for.
- *Trustmark, proximity*: what is signed verifies, what is shown is current,
  what is left is closed.
- *The calls of the library*: what a call returns passed the comparisons of its
  version, what is sent goes where the verified request says, and a failure is
  reported as what that version makes of it.

## 2. The modules

    Keychain <- WalletInstance <- Issuance <- Wallet <- Interference
                                                | implements WalletPromise
    Federation <- TrustChain
    Dcql <- Presentation
    Login
    CredentialStore <- Status, Trustmark, Proximity <- Services
    Errors <- Documents <- CodeFlow         \
    Errors <- RelyingParty, WalletProvider,  } <- Library
              Catalogue, Offer              /
    MCInterference, MCTrustChain, MCPresentation,
    MCLogin, MCServices, MCLibrary                            instances for TLC
    WalletProofs <- InterferenceProofs, TrustChainProofs,
    PresentationProofs, LoginProofs, ServicesProofs,
    LibraryProofs <- LibraryTypeProofs                        theorems

The upper part models the app: its thunks, slices and screens, one over the
other. `Library` models the calls of the library one by one, with the checks
and errors that the app's modules see as "yields a value or fails".

### Keychain, WalletInstance, Issuance, Wallet

One action is what a thunk runs between two awaits whose order against other
thunks can matter; `pc[f]` and `task[r]` say where a flow and an attestation
thunk are suspended.

| model | code |
|---|---|
| `keychain`, `generation` | the native key store; a key is its tag and a serial number |
| `DeleteKeyIfExists`, `Generate` | `deleteKeyIfExists`, `generate` (refuses a tag in use) |
| `PublicKey(t)` | a crypto context: a lookup at the moment of use |
| `instance`, `wia` | the persisted slices of `instance` and `attestation` |
| `StartCreate` ... `FailRevoke`, `SwitchEnvironment` | `thunks/instance.ts`, its reducers, the screens that reset |
| `StartAttestation` ... `RejectAttestation` | `getWalletInstanceAttestationThunk`, one action per await |
| `StartFlow`, `AfterAttestation`, `ReadStore` | the head of `getCredentialThunk` and of `preparePidFlowParamsThunk` |
| `AuthorizeEaa`, `PreparePid`, `ContinuePid`, `AbandonPid` | from the pushed request to the code; the PID flow is two thunks with the login between them |
| `DeleteDpopKey`, `GenerateDpopKey`, `AuthorizeAccess` | `regenerateCryptoKey(DPOP_KEYTAG)`, the token request |
| `GenerateCredentialKeys`, `FailCredentialKeys` | the unit attestation thunk |
| `ObtainCredential`, `IssuedButLost`, `VerifyAndStore` | credential request, verification, fulfilled reducer |
| `StepFails`, `Reject` | the rejected reducers, for any await that throws |
| `AppRestart`, `ResetStore` | `persistConfig` of each slice; `instanceReset`, `sessionReset` |

A creation or a revocation outlives the resets of the store, which only make its
button usable again (`lifeLoading`). So `creating` and `revoking` hold any number
of them: a second creation under the first, a revocation of an instance that was
dropped, a reset by an old revocation under a new instance.

What is merged and why it may be:

- The key lookups of one request (public key, signature, proof of possession)
  are one action: a key that changes between them yields a request the server
  refuses, which `StepFails` covers. The attestation request keeps its two
  lookups apart, because the key written in the request ends up in the store.
- The three calls of an EAA authorization touch no shared state and are one
  action. `ObtainCredential` stands for nonce, credential request and answer.
- A lost answer is not a message in flight but a failure after the server's
  effect: `IssuedButLost`, `FailCreate`, `FailRevoke`.

The servers are nondeterministic within what the code relies on: the token may
grant another EAA (`IssuerSubstitutes`), a batch comes in any order, the first
credential may be bound to another key of the wallet or to a foreign one. A
certificate, a signature or a JSON document is valid or the step fails.

`WalletPromise` is the abstract specification: places that hold a credential
and its tag, a vault of keys, a set of issued keys. A credential enters the
store only with a key that is under its tag, issued, and used nowhere else; a
key of the vault is never replaced; what is held is replaced or forgotten as a
whole. It knows no flow, token, attestation or instance. `Wallet` implements it
under the mapping `Promise` (vault = the key store restricted to credential
tags).

`Interference` adds one history variable, the flows during whose run somebody
else took a step, to state what isolation the shared state leaves.

### Federation, TrustChain

`Federation` is the environment, written from what the code fetches: each
entity publishes keys in its configuration, signs with one of them, and is
listed with some of them by its superior. Keys are published, switched to and
retired one step at a time. How they do it is a regime, chosen initially: in an
orderly one nobody signs with a key its superior does not list and the anchor
keeps its key; in the others the anchor, or any authority, may do as it likes
and exclude a subordinate. A regime also says who misnames: the documents that
such an entity signs may have any `iss` and any `sub`, because no line of the
code compares them. One run covers several regimes.

`TrustChain` is `buildTrustChain` (`FetchAnchor` ... `VerifyAnchor`) and
`verifyTrustChain` (`Validate`, `Renew`, `Revalidate`). Gathering asks the
servers that the hints lead to; renewal asks those that the documents name,
which may be others. So what holds of an accepted chain is about who signed its
documents (`AcceptedChainIsPath`): each by the superior of the signer before, up
to the anchor, starting at the relying party, unless the chain was renewed and
the relying party misnames itself, where it does start at another entity. Each fetch reads the
federation as it is then. The parent's configuration, which the code fetches a
second time for the statement endpoint only, is merged with the statement; the
renewal of each element is a step of its own, in any order, because the code
runs them in parallel. The certificates of a key (x5c, revocation lists) are
reduced to a set of entities whose keys are certified, and validation may fail
in any case because revocation lists are fetched too. `relisted` is a history
variable: what superiors did to their statements since the fetches began.

### Dcql, Presentation

`Dcql` is the pure part: how a query is answered from a list of credentials.
The claims of a credential are a tree, given by its paths; a frame is the set
of paths at which the JavaScript object has a key, and a path without longer
ones stands for `true`. So `Object.assign` is a union of two sets of paths from
which the children of one side are taken (`Merge`), and what is sent is an
intersection: the `present` function of the SD-JWT library sends the
disclosures at the keys of the frame.

| model | code |
|---|---|
| `Chosen` | `getValidDcqlClaims`: the first claim set that is satisfied |
| `ClaimFrame`, `Merge`, `Frame` | `pathToPresentationFrame` and the reduction of `getPresentationFrameFromDcqlMatch` |
| `Matched`, `Presented` | `valid_credentials[0]`, and the lookup of a credential by its type |
| `CanBeSatisfied`, `Answer` | the check and the `map` of `evaluateDcqlQuery` |
| `Scan`, `Finish`, `StepFails` | the reducers of the presentation slice |
| `ObtainRequest` | trust, request object and its verification, then the read of the store |
| `Evaluate`, `Send`, `SendRefusal` | `evaluateDcqlQuery`, `prepareRemotePresentations` and the response |
| `AppRestart`, `Reset` | `persistConfig` of the slice, `sessionReset`, `instanceReset` |

The `dcql` library does the matching (`Fits`, `Options`, `Matches`); these
operators say what the code relies on. A list of credentials is a function on
positions, with gaps where a place of the store is empty: only the order
counts. It is the declared order of the slice until a restart, which drops the
empty keys, and the order of insertion after it; `Orders` allows any, the PID
first. A path has at most one null segment, which the function of the code
expands for a list right below the first segment and nowhere else.

Sending splits into `Send` and `Finish`: the relying party may have the
response although the wallet ends with an error. `received` keeps what relying
parties got.

### Login

The two thunks of a PID login and the two of the proof of the document, the
`pid` and `mrtd` slices, and the three screens whose redirects and unmounts
drive them, for SPID, CieID and CIE with PIN.

| model | code |
|---|---|
| `attempts` | the authorization requests as the issuer keeps them: what was asked for, how far each is, the verifier it is bound to |
| `params`, `loading`, `pid` | `pidFlowParams`, `pidAsyncStatus`, `pid` |
| `challenge`, `validation` | the two halves of the MRTD slice |
| `login`, `cie`, `internal` | the web view of a login, the CIE reader, the internal authentication screen with its own web view |
| `pidScreen` | the PID screen with its switch, whose effect shows a stored challenge only while it is mounted (`ShowChallenge`, `OpenPidScreen`, `LeavePidScreen`) |
| `Prepare`, `PrepareFulfilled`, `PrepareRejected` | `preparePidFlowParamsThunk`; the button and the switch of the PID screen |
| `LoginRedirect`, `CieRedirect`, `CallbackRedirect` | the `onShouldStartLoadWithRequest` handlers, which may run twice |
| `InitFulfilled`, `ValidateFulfilled`, `MrtdFails` | `initMrtdPoPChallengeThunk`, `validateMrtdPoPChallengeThunk` |
| `CodeExchanged`, `ContinueFulfilled`, `ContinueRejected` | `continuePidFlowThunk` from the code to the PID |
| `LoginClosed`, `InternalClosed`, `CanCancelled`, ... | unmounts, with the resets each of them dispatches |

The state of a request is not a part of the model because the app compares it
with nothing: a redirect meets the parameters the store holds by then. What
keeps two attempts apart is the issuer, which binds a code to the challenge of
its verifier (`CodeChallenge`, RFC 7636); it is stated in `CodeExchanged`.
`overtaken` is a history variable: a login was begun, or its parameters were
dropped, while another was under way. `unseen` is another: the challenge that is
stored came while the PID screen was closed. `LoadingExplained` leaves out logins
that were overtaken, where the code does leave a button loading.
`ChallengeOfFlow` leaves out both, and needs to: without the second exception TLC
finds a login that is left while its challenge is fetched, a reset from the
settings, which drops the parameters and not the challenge, and a second login
that is shown the challenge of the first.

### CredentialStore, Status, Trustmark, Proximity, Services

`CredentialStore` is what the three services share: a clock, the credentials as
serial numbers, and the resets. `Services` puts the three side by side. They
have no other state in common and none writes what another one reads, so a
behaviour of `Services` is one of a single service, chosen at the beginning.

`Status` has both thunks with each of their awaits, and the provider: a status
changes at some instant, and a list or an assertion shows the statuses of the
time it was made. So the bits of a list need no state: `StatusAt` is a function
of a time. `FetchListOnce` and `RefetchList` are the fetch and the one fetch
past the cache; the HTTP cache may keep a list for any time. `stale` is a
history field of a check: the list at hand had expired when it was fetched
although the provider had a newer one.

`Trustmark` looks the WIA key up three times, as the code does: for the holder
key, for the comparison of thumbprints, for the signature. `replaced` is a
history field: the key was regenerated between the first and the last.

`Proximity` is the screen with its mounts, its functions as tasks that may
outlive it, and the native session. Callbacks are registered by a mount and set
the state of that mount. `unclosed` is a history variable: a session may have
escaped the closing of the screen, because a start was under way or the native
side failed; `stuck`: the first await of a start was rejected, which nothing
catches.

### Errors, Documents, CodeFlow, RelyingParty, WalletProvider, Catalogue, Offer, Library

`Errors` and `Documents` are pure: the error a failed answer becomes in each
handler of each version, and the verification and parsing of a document, whose
claims are a tree given by its paths.

The others are state machines with one action per call. A machine holds what a
caller passes on from call to call, the callers' choices and the parties'
answers are nondeterministic, and a call that throws ends the session with an
error record. `Library` composes them. They share the operators of `Errors` and
no variable, so that their interleavings add nothing: a behaviour is a session
of one of them, chosen at the beginning.

| module | code |
|---|---|
| `CodeFlow` | `src/credential/issuance` from `startUserAuthorization` to `verifyAndParseCredential`, both versions, query, form post and challenge, single credentials and batches; what a credential request is made of (its proofs, its DPoP) is the SDK's |
| `RelyingParty` | `src/credential/presentation`: QR code, configuration, request object and its verification, response or refusal |
| `WalletProvider` | `src/wallet-instance`, the attestation of 1.0.0 and the integrity service; the provider may do a thing and its answer be lost, and may revoke on its own |
| `Catalogue` | `src/credentials-catalogue`: the registries, fetched in parallel while their publisher changes them, their join, the texts, and the slice |
| `Offer` | `src/credential/offer`, the thunk that begins an issuance from it, and the two screens |

What these machines leave as open as the code does:

- A token lists configurations with their identifiers. A single credential is
  looked for in it, with its identifier if the caller gives one; a batch is not
  (`RequestForbidden`), so `CredentialAuthorised` says nothing of the token then.
- A configuration of a relying party is whatever document the caller's URL leads
  to, with any subject and any keys. The comparison that follows depends on the
  prefix of the client id: with `openid_federation`, or none, the client ids of
  configuration and request object are compared; with `x509_hash`, the signer of
  the request object; with any other, nothing. 1.3.3 compares no state.
- A response goes to the `response_uri` of the request object, and its answer may
  be lost: in 1.3.3 that is an error of the relying party with status 400.
- The server that an offer selects is only checked against advertised ones, and
  one whose metadata cannot be had is replaced by the issuer's own
  (`MapToIssuerConfig`).
- A claim whose path has a numeric index is never shown, because the code
  matches the items of an array with null only; `ClaimsShown` speaks of patterns
  without such an index (`Pattern`).

`LibraryTypeOK` says besides where each machine may be and which errors it may
end with (`Foreseen`): the classes that the callers of that machine have to
foresee, each with the codes, statuses and reasons of its class. The errors of
the SDK are among them only where no handler maps them, which is what an
exhaustive `switch` of a caller relies on. Each class of the four lists is one
that a session does end with.

What the SDK (`@pagopa/io-wallet-*`) and the native libraries do is written
down from how the code uses them, and marked external in `PROJECT.json`.

## 3. Runs

| run | question | distinct states |
|---|---|---|
| `Issuance` | a batch issuance, a replacement of the PID and an attestation requested by a screen, with expiry, resets, restarts, and an issuer that may grant another type: is every stored credential usable, and unlinked to the others; does the store keep its promise (refinement)? | 1,414,287 |
| `Lifecycle` | create, revoke, recreate, reset under two flows, by thunks that overlap: is the stored instance a registered one; with fairness, does every button leave its loading state? | 117,816 |
| `PidPair` | two logins: is a flow nobody disturbs hindered by leftovers; does it present a usable attestation; does its key stay? | 65,711 up to symmetry |
| `Chain` | four regimes of key changes and wrong names: do the signatures of an accepted chain lead to the anchor; does the wallet decide; does a chain gathered or renewed during orderly rollovers verify? | 654,425 |
| `Presentations` | queries with several claims, claim sets and credential sets against a changing store: does a response give what is required, from credentials that match, and nothing else? | 559,080 |
| `Login` | two logins by any method, with challenges, double redirects, cancellations, a PID screen that is left, resets and restarts: do codes, verifiers, challenges and loading buttons stay with their login? | 3,764,410 |
| `Services` | checks, trustmarks and proximity sessions over a changing store: are results timely and about their credential, sessions closed with their screen, and do checks and starts end? | 660,649 |
| `Library` | the machines of the library in both versions against parties that answer anything or nothing: did what a call returns pass its comparisons, does a response go where the request says, is each failure reported as what it is? | 358,978 |

Each property is broken by a plausible bug of the code that `PROJECT.json`
names ("mutants"): a faulty variant of one definition, written next to it.

### Bounds, and why they are enough

- *Two flows.* The shared state is one tag, one attestation, one set of flow
  parameters: an interference has one victim and one culprit. The proofs cover
  any number of flows.
- *One or two keys in a batch* (`BatchSize`): two are enough for an answer in
  the wrong order and for one of two generations to fail.
- *Two keys under `WIA_KEYTAG`* (`MaxWiaKeys`), *two instances* and *two
  revocations of one in flight* (`MaxInstances`, `MaxRevocations`): the one a flow
  uses and the one that replaces it, the late one and the next. Past the bound a
  request can still fail, so no thunk is stuck by it.
- *One dispatch per flow*, and one attestation requested by a screen at a time
  (`Ui`). A second tap is the other flow.
- *Events* switches on what a run is about; each event is on in some run.
- *Four entities, two keys each*: relying party, intermediate and anchor are the
  three positions the code treats differently, and another subordinate of the
  intermediate is there to be named wrongly.
- *Up to three claims* in a query, of up to three segments, in every order: two
  to share a key and a third to find it merged. Claim sets and lists with a null
  are in queries of two claims, credential sets in requests of two queries. The
  proofs cover any number of queries, claims and credentials.
- *Three places, two types*: a PID, a credential that may be replaced by one
  with fewer claims, and one more of the same type, or an mdoc.
- *One presentation at a time.* Presentations share the status of a slot and
  the store, which each reads once.
- *Two attempts, two challenges, two thunks* (`Login`): the login that is left
  and the one that takes its place, each with a thunk in flight. The three
  methods are there because each of them redirects to another screen.
- *One type, two serials* (`Services`): a credential and the one that replaces
  it; types share nothing. *Two instants after the first, lifetime one*: a list
  can be fresh, expire, and be older than its lifetime. Two checks, thunks or
  tasks, two mounts and two requests of verifiers: the late one and the next.
  Lists there carry an `exp`; what holds of lists without one is in the proofs.
- *Library*: an SD-JWT PID, an SD-JWT and an mdoc, and an id that is only a
  fragment of another; documents with claims at the root, in an object and in
  the items of an array, under configurations that declare the parent or not;
  two credential identifiers; every class of status a handler distinguishes, and
  no answer to a post; two relying parties whose keys have the same kids, so that
  only the party tells them apart, three kinds of prefix, and request objects
  with and without metadata that name the party or the other one; two instances;
  two revisions of the registries; two scans, and issuers that advertise no
  server or two.
- The initial states include a fresh install, a registered instance, and a
  wallet that already holds a PID. `WuaSupported` tells the two versions of the
  library apart in the wallet: `Lifecycle` runs as 1.0.0, the default of the app,
  which has neither the unit attestation nor batches, `Issuance` and `PidPair` as
  1.3.3.
- A decided chain may stop for good and a session of the library ends, so
  `Chain`, `Misnamed` and `Library` do not check deadlock. The others do.
- Thunks of `Login` and PID flows of `PidPair` differ in nothing but their name,
  so they are symmetric; no property of those runs is about liveness.

### Fairness

`Wallet!Fairness` is weak fairness of each thunk's own steps: an await settles,
because the network layer answers or times out and native calls return. The
user, expiry, resets and restarts are not fair. `TrustChain!FairSpec` is weak
fairness of the wallet's steps; the federation may do anything or nothing.
`Services!Fairness` is weak fairness of each check and of each proximity task,
for the same reason; clock, provider, user and verifier may stand still. One of
these tasks waits for the user: that the dialog for the permissions of Bluetooth is
answered (`AskPermissions`) is an assumption and no consequence of the code.

### Where code and documentation disagree

Four runs expect a violation. Each checks what a comment or a README says.

| run | text | what the code does |
|---|---|---|
| `ContextKey` | `README.md:79`: the public key of a context "MUST be the same key at every invocation" | the context looks the tag up each time, and an attestation request regenerates the tag under a running flow |
| `Recreated` | `example/src/screens/WalletInstanceScreen.tsx:85`: "will reset the whole app state" | a request in flight stores the previous instance's attestation after the reset |
| `Misnamed` | `src/trust/README.md:100`: the first document has "`iss === sub` (self-issued)", those in the middle (`:101`) have "`iss ≠ sub`" | validation (`src/trust/common/verify-chain.ts:176-295`) walks the signatures and compares no names, so a relying party that its authority vouches for is accepted under any |
| `Requested` | `src/credential/presentation/common/utils/dcql.ts:132`: the frame is "for disclosing the requested claims" | of `[address, street]` and `[address]`, in this order, the street is lost; of two claims that share two segments, the later one is |

Where the text and the code of one version, or of the app, part in other places,
the properties state what the code does:

- `src/credential/issuance/README.md:65` maps `201 Created` to
  `ERR_CREDENTIAL_ISSUING_NOT_SYNCHRONOUS` and `:68` every other status to
  `ERR_ISSUER_GENERIC_ERROR`, for both versions. Both map the others to
  `CredentialRequestFailed`, and 1.3.3 (`v1.3.3/05-obtain-credential.ts:295-308`)
  has no case for 201, while a deferred credential, a 202 there, is an
  `IoWalletError` without a code (`:217-219`). `FailureExplained` has a case for
  each version.
- `src/credential/offer/README.md:98`: the server of an offer "Must match one
  entry in the Issuer's `authorization_servers` metadata". Of an issuer that
  advertises none, any server passes; and one whose metadata is missing is
  replaced without an error (`src/credential/issuance/v1.3.3/mappers.ts:56-58`).
  `OfferHonoured` names both cases.
- `example/src/screens/SettingsScreen.tsx:80`: setting an environment "will reset
  the app state beside the session". The MRTD slice
  (`example/src/store/reducers/mrtd.ts`) has no case for any reset of the app, so
  a challenge survives it: the second exception of `ChallengeOfFlow`.

## 4. Proofs

All constants are arbitrary, within the named ASSUMEs of the modules.

Five invariants are stated for the proofs and are in no run: `LoadingAwaited`,
`CheckAwaited`, `TrustmarkAwaited` and `StartingAwaited`, the safety halves of what
the runs check as liveness (whatever loads has something in flight that will end
it), and `GatheredOnce`. They hold on the instances of the runs too.

### WalletProofs

`Invariance` is the inductive invariant; `TypeCorrectness`, `Usability` and
`KeyDistinctness` follow from it, and `Refinement` (the initial states and each
step of `Wallet` map to those of `WalletPromise`) uses it.

`StoredCredentialUsable` is not inductive: that a credential about to be stored
is usable depends on the verification, on where the key came from, and on no
other flow using its tag. The strengthening joins three parts to the types of
the three modules. `KeysOK`: a key carries the tag it was generated under.
`TasksOK`: what an attestation thunk holds at each of its awaits. `FlowsOK`:
what a flow has generated, and been granted, at each of its awaits; with
`StoreInvariant` beside it: a stored credential has its key under its tag,
issued, from a flow that is done or from the past, and no two have a tag in
common. The argument is then short. No action deletes a
credential tag (only the two shared tags are ever deleted), tags of different
flows differ, and a flow stores its first tag once, with the key it has just
compared with the key store.

`AwaitsFlows` (`LoadingAwaited`) needs of the flows that the token of one is for
what it asked for, unless the issuer substitutes (`GrantsOK`), and that the PID
flows, which attribute their outcome to whatever parameters the store holds,
never attribute it to an EAA configuration (`ParamsMethodKind`). A step then
moves one flow, and clears the button it was the reason for (`LoadingFrame`).

`Registration` (`InstanceRegistered`): the provider never forgets an instance,
and the store and every attestation thunk whose request was answered name
instances it knows. The invariant `Registered` says so beside `WalletInvariant`.
Of the creations and revocations in flight, of which there may be any number, it
asks nothing: a creation that succeeds stores an instance in the step that
registers it, and every other step stores none or keeps the one there was.

### InterferenceProofs

The three properties of the run `PidPair`, for any number of flows of either
kind. `NotBystander`: a step during which a flow waits is its own, unless the
flow is disturbed by it, or time passes, or the app restarts. `Alone` therefore
only has to survive the steps of the flow itself: its DPoP key and its
parameters are those of the keychain and the store from the step that makes
them to the last one that needs them, and an attestation it awaits is made with
the key of the keychain. `Unobstructed` and `UsableWhenRead` follow.
`KeepsAttestationKey` needs besides that the attestation thunk of a flow only
runs while the flow awaits it (`TaskOfFlow`).

### TrustChainProofs

`PathInvariance` speaks of who signed a document, not of the names in it, which
no code compares and any misnaming entity chooses. While a chain is gathered each
document is signed by the superior of the signer before, because the servers are
those that the hints lead to (`Path`). Renewal asks the servers that the names
lead to, so less is kept (`Replaces`): the kind of a document, and its signer if
the one before was honest. What makes an accepted chain a path all the same is
its validation: a signature verifies with the keys in the next document, and
keys are listed by their owner or its superior only (`ValidLeads`). It gives
`AcceptedChain`, without any assumption on how keys are rolled or documents are
named, with one exception: a renewed chain may start elsewhere if the relying
party misnames itself.

It gives `GathersOnce` too: were one entity gathered at two places, the signers
between them would have their superiors among themselves (`SignersDiffer`),
which is a cycle of authority hints. `Acyclic` is a premise of the property, not an
assumption of the module: the code relies on it and checks it nowhere.

`KeyInvariance`, in an orderly regime, says which keys are in the documents:
every signer is listed by its superior, every document gathered verifies with the next, and a
renewed document carries what is listed now, if nobody misnames. It gives `BuiltChain` (unless a
statement dropped a key since the fetches began) and `RenewedChain` (unless a
statement changed since the renewal began: the elements are fetched in any
order, so a key may be switched between the fetch of the statement that should
list it and that of the document it signs). The two exceptions are needed: TLC
finds a failing chain without them.

### PresentationProofs

The four properties of the run `Presentations`, for any wallet, any query and
any number of claims. The invariant of the states is simple: what is about to
be sent, and what was received, is the answer to a request from a list of
credentials that were held together, and that answer satisfies the request.
The work is in the facts about answers. A frame is a fold over the claims,
written as a recursive function; `FramesStep` shows that it exists and unfolds.
What holds of every step of the fold is shown at the least step where it would
fail (`LeastElement`, from the well-foundedness of the naturals).

- `FrameAlongPaths`: whatever is in a frame was put there by one claim, and a
  claim gives keys along its own path only. Hence `DisclosesNothingElse`,
  without any assumption on the paths or the wallet.
- `FrameKeeps`: what a claim puts into the frame stays, if paths have at most
  two segments and none is the beginning of another. A later claim under the
  same key then has an object there, non-empty because the claim is satisfied,
  and the merge keeps both. Hence `AnswersItsQueries`, if besides no two
  credentials have a type in common (`PresentedHeld`). The run `Requested` shows
  that the first assumption is needed.
- `AnswersWhatIsRequired`: each query with a match has its presentation.

### LoginProofs

The five invariants of the run `Login`, for any number of attempts, challenges
and thunks in flight. `KeepsPidToAttempt` and `HandlesProofAsRequested` follow
from `LoginInvariant`, which has a part for the issuer
(each attempt is bound to its own verifier), one for the slices and one for the
screens (what they name are attempts that were made, with the proof the attempt
asked for) and one for the thunks. All but the first speak of the issuer's
record of an attempt, which other logins extend meanwhile. So each step of the
issuer is shown once to go `Forward`: what was asked for stays, and an attempt
whose document was proved stays so. The slices and screens a step leaves alone
keep their part of the invariant by that fact.

Two more invariants are stated on top of it. `LoadingInvariant`: a method loads
only under a thunk that prepares it or under parameters of it
(`ExplainsLoading`). `FlowInvariant`: a challenge that is stored is shown, so
that the parameters of the next login cannot meet it (`ShowsChallengeOfFlow`),
unless it came while the PID screen was closed (`unseen`). Both except the logins
that were overtaken, which `overtaken` records.

`LoginTypes` (`LoginTypeOK`) adds to both invariants the bounds on what the issuer
makes (`IssuerBounded`), the methods that load, and that a challenge which is
stored, shown or held by a thunk is one of those that can have been given.

### ServicesProofs

For every lifetime, length of time, and number of credentials, checks and thunks.
`StatusInvariant`: a list that is served, cached or held by a check was made by
the provider at some time that is past (`MadeBy`), and what a check is about to
store was so at some time late enough (`TimelyAt`). The argument is that a
status changes from the next instant on, so that what lists said of the past
stays true (`PastStays`). It gives `KeepsStatusTimely`, `KeepsStatusToCredential`
and `CacheHarmless`. `TrustmarkInvariant` says what a thunk about to sign knows
of the key, unless it was replaced, and gives `KeepsTrustmarkVerifiable`.

`AwaitsChecks`, `AwaitsTrustmarks` and `AwaitsStart` are inductive
together with the types. What has to be shown is that the thunk that ends some loading
is the one that began it, or that another one for the same type is still on its
way: a check that ends writes the status of its own type and no other, and a
restart that takes the thunks takes the states of loading with them. A start of
an earlier mount that goes on does not count: `AwaitsStart` speaks of the mount
that is shown.

`ServicesTypes` joins the types of the store and of the three services. Those of
`Status` and `Proximity` need their invariants: a check may only move between
the awaits of its kind, and a task may store only what its mount can have.

`ProximityInvariant` holds for any number of mounts, tasks and requests, unless
a session could escape its closing: a start that has not reached the native
call and the callbacks that are registered are of the screen that is mounted,
and a session that is open without a screen has a task that is about to close
it. It gives `ClosesSession` and `ShowsCurrentRequest`.

### LibraryProofs

Eight properties of `Library`, for all versions, answers, documents, keys, offers
and publications. Two assumptions: a lost answer is none of the statuses, nor a
missing configuration that of a party (`RelyingPartyAssumption`), and a
configuration has one claim for a path, where the path of a node is a sequence
that is not empty (`DocumentAssumption`). Whose keys a party has is not assumed.
Each machine has its own invariant, and the steps of the others leave it alone
because a session is one machine's.

- `RespondsToClient`: a request object that passed a verification is tied to the
  QR code (`VerifiedIsTied`) by the comparisons of its version and prefix, and
  nothing between it and the response replaces it or the configuration, from
  which address, state and key are taken.
- `ObtainsAuthorised`: by the checks of `AcceptedSdJwt` and `AcceptedMDoc`, and
  because each version looks a single credential up in the token before it
  requests it.
- `ExplainsFailures`: until a call fails every answer had the expected status
  (`ExplainedInvariant`), so that the last answer is the one behind the error;
  `AnswerExplained`, `CredentialCase` and `VerificationError` say what each
  endpoint, handler and check makes of it.
- `ShowsClaims`: no induction over the levels of a document is needed. A node is
  processed when each step of its path is, and each step of the path of a claim
  is a key through which that claim goes (`PathProcessed`).
- `HonoursOffers`, `TrustsCatalogue`: what is checked at one await holds of what
  is kept at a later one, whatever other scans and revisions do between.
- `ClassifiesRejections`, `TellsInstance`: by cases over the handlers of
  `Errors`, a lost answer (`LostResponse`) being one of the cases of the first.
  The second needs that an attestation that was refused stays refused for its
  reason: a revoked instance does not come back, and an unknown one is
  registered by no call in between.

### LibraryTypeProofs

`LibraryTypes` (`LibraryTypeOK`), for all versions, answers and publications; a
registry has been published at the beginning (`CatalogueAssumption`). Three
layers. What each builder and handler makes of an error: a `Failure` has its class for a code, `BuildFrom` takes one of
the codes its table lists or the default one, and a handler passes on what it
does not map (`BuildFromOK`, `HandledOK`, `HandlersOK`, `PresentationHandlersOK`).
What a call ends with: the error of an unexpected status, as the handler of the
call and the version leave it, or a check of its own (`AnswerForeseen`,
`CredentialForeseen`, `VerificationThrows`, `PostAnswerForeseen`). Then one lemma for a step of each
machine (`FlowTypedStep`, `PartyTypedStep`, `ProviderTypedStep`,
`CatalogueTypedStep`, `OfferTypedStep`). The types of the provider and
the offers rest on the invariants of `LibraryProofs`.

### Only model-checked

Liveness is out of the prover's reach: `LoadingEnds`, `TrustDecided`,
`CheckEnds`, `StartingEnds`. Every invariant of a passing run has a proof. The
runs that expect a violation refute what they state.

## 5. Not modelled

- `withEphemeralKey`, which only its test calls, and the helpers that read
  certificates and keys: pure conversions.
- A deferred credential, which the library refuses; the refusal is in the model.
- mdoc frames in a remote presentation (the app gives the library no mdoc), and
  the contents of a proximity response.
- The typed getters of entity configurations, and the mappers of
  `src/utils/mappers.ts`: they rename and copy fields.
- The slices for debug, environment and trust validation, and the display state
  of the unit attestation: settings, or a result no flow reads back.
- Native libraries (JWT, CBOR, certificates, Bluetooth), whose answers are
  nondeterministic where the code looks at them.
- The screens that only show, navigation, logging, i18n: what a user may tap is
  in the model, how it looks is not.
- Cyclic authority hints: nothing in the code bounds the recursion, and a
  cyclic federation has unboundedly long chains. Without cycles no entity is
  gathered twice (`GatheredOnce`), whatever the depth.
- Two sessions of `Library` at once: its machines share nothing. What flows that
  run at once do to each other by way of the store and the keys is in `Wallet`
  and `Login`, where the calls are abstracted.

## 6. State of the work

Machines that share no state are composed into one run each time, as in
`Services` and `Library`. Of the components listed in `PROJECT.json`, those marked
"partly" lack what section 5 names. What would come next, in this order:

1. `QueriesAnswered` for paths of any depth that share no key.
2. `CodeFlow` as a refinement of the steps of `Issuance`: the app's flow from
   the pushed request to the stored credential, with the calls of one version
   in the place of its nondeterministic answers.
