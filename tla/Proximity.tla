------------------------------ MODULE Proximity ------------------------------
(***************************************************************************)
(* The proximity screen: it starts a native Bluetooth session when it is   *)
(* mounted, shows its QR code and then the request of the verifier, and    *)
(* closes the session when it is unmounted.  Each of its functions is a    *)
(* task, suspended at its awaits, that may outlive the screen: what it     *)
(* then sets is the state of a component that is gone.                     *)
(***************************************************************************)
EXTENDS CredentialStore

CONSTANTS
  Mdl,          \* the type that the screen presents
  Tasks,        \* the tasks that can be in flight at once
  MaxMounts,    \* bound on how often the screen is mounted
  MaxRequests   \* bound on the requests of verifiers

ASSUME ProximityAssumption ==
  /\ Mdl \in Types
  /\ MaxMounts \in Nat
  /\ MaxRequests \in Nat

VARIABLES
  mount,      \* how often the screen has been mounted
  mounted,    \* is it mounted?
  ui,         \* state of the screen: its status,
  qr,         \*   is there a QR code?
  request,    \*   the request of the verifier,
  trusted,    \*   and whether it is said to be trusted
  session,    \* native: is a session open?
  listener,   \* native: the mount whose callbacks are registered
  requests,   \* how many requests have been delivered
  task,       \* the tasks in flight
  unclosed,   \* history: could a session escape the closing of the screen?
  stuck       \* history: did the first start of this mount reject?

uiVars     == <<ui, qr, request, trusted>>
nativeVars == <<session, listener, requests>>
proximityVars == <<mount, mounted, uiVars, nativeVars, task, unclosed, stuck>>

NoTask == [pc |-> "idle"]

Starting   == {"certificate", "permission", "start", "qrcode"}
Suspended  == Starting \cup {"terminate", "close", "error", "generate", "send"}
Requests   == [id : 1 .. MaxRequests, authentic : BOOLEAN]

ProximityTypeOK ==
  /\ mount \in 0 .. MaxMounts
  /\ mounted \in BOOLEAN
  /\ ui \in {"STARTING", "STARTED", "PRESENTING", "STOPPED"}
  /\ qr \in BOOLEAN
  /\ request \in Requests \cup {Nothing}
  /\ trusted \in BOOLEAN \cup {Nothing}
  /\ session \in BOOLEAN
  /\ listener \in 1 .. MaxMounts \cup {Nothing}
  /\ requests \in 0 .. MaxRequests
  /\ \A k \in Tasks : task[k] = NoTask
                    \/ (task[k].pc \in Suspended /\ task[k].mount \in 1 .. MaxMounts)
  /\ unclosed \in BOOLEAN
  /\ stuck \in BOOLEAN

\* The state a component has when it is mounted.
FreshUi ==
  ui = "STARTING" /\ qr = FALSE /\ request = Nothing /\ trusted = Nothing

ProximityInit ==
  /\ mount = 0 /\ mounted = FALSE
  /\ FreshUi
  /\ session = FALSE /\ listener = Nothing /\ requests = 0
  /\ task = [k \in Tasks |-> NoTask]
  /\ unclosed = FALSE /\ stuck = FALSE
-----------------------------------------------------------------------------
\* Task k is begun by the mount m, or goes on, or ends.
Begin(k, m, pc) ==
  /\ task[k] = NoTask
  /\ task' = [task EXCEPT ![k] = [pc |-> pc, mount |-> m]]

GoOn(k, pc) == task' = [task EXCEPT ![k].pc = pc]
End(k)      == task' = [task EXCEPT ![k] = NoTask]

\* What the component of mount m sets is seen while it is mounted.
Seen(m) == mounted /\ mount = m

SetStatus(m, s) ==
  /\ ui' = IF Seen(m) THEN s ELSE ui
  /\ UNCHANGED <<qr, request, trusted>>
-----------------------------------------------------------------------------
(* Mounting and unmounting *)

\* The screen shows nothing, and mounts no component, without a credential.
OpenProximity(k) ==
  /\ ~mounted
  /\ held[Mdl] # Nothing
  /\ mount < MaxMounts
  /\ mount' = mount + 1
  /\ mounted' = TRUE
  /\ ui' = "STARTING" /\ qr' = FALSE /\ request' = Nothing /\ trusted' = Nothing
  /\ Begin(k, mount + 1, "certificate")
  /\ stuck' = FALSE
  /\ UNCHANGED <<storeVars, nativeVars, unclosed>>

\* Faulty variant: nothing is closed when the screen says that it stopped.
UnmountQuietly(k) ==
  /\ mounted' = FALSE
  /\ IF ui = "STOPPED"
     THEN UNCHANGED <<listener, task>>
     ELSE listener' = Nothing /\ Begin(k, mount, "close")
  /\ unclosed' = (unclosed \/ \E j \in Tasks : task[j].pc \in Starting \ {"qrcode"})
  /\ UNCHANGED <<mount, uiVars, session, requests, stuck>>

\* The component is unmounted and closes the flow; a start that has not
\* reached the native call yet is not cancelled.
Unmount(k) ==
  /\ mounted' = FALSE
  /\ listener' = Nothing
  /\ Begin(k, mount, "close")
  /\ unclosed' = (unclosed \/ \E j \in Tasks : task[j].pc \in Starting \ {"qrcode"})
  /\ UNCHANGED <<mount, uiVars, session, requests, stuck>>

LeaveProximity(k) == mounted /\ Unmount(k) /\ UNCHANGED storeVars

\* The credential goes from the store, and the component with it.
ProximityReset(k) ==
  /\ ForgetCredentials
  /\ IF mounted THEN Unmount(k) ELSE UNCHANGED proximityVars

\* The process ends, the native session with it.
ProximityRestart ==
  /\ mounted' = FALSE
  /\ session' = FALSE /\ listener' = Nothing
  /\ task' = [k \in Tasks |-> NoTask]
  /\ unclosed' = FALSE
  /\ UNCHANGED <<storeVars, mount, uiVars, requests, stuck>>
-----------------------------------------------------------------------------
(* startFlow *)

TapStart(k) ==
  /\ mounted /\ ui = "STOPPED"
  /\ Begin(k, mount, "certificate")
  /\ UNCHANGED <<storeVars, mount, mounted, uiVars, nativeVars, unclosed, stuck>>

\* getTrustAnchorX509Certificate: the anchor's configuration is fetched and
\* the key that signed it must be in it and carry a certificate.  It stands
\* before the try block: if it throws, the status is not set.
ObtainCertificate(k) ==
  /\ task[k].pc = "certificate"
  /\ \/ /\ GoOn(k, "permission")
        /\ SetStatus(task[k].mount, "STARTING")
        /\ UNCHANGED stuck
     \/ /\ End(k)
        /\ stuck' = (stuck \/ Seen(task[k].mount))
        /\ UNCHANGED uiVars
  /\ UNCHANGED <<storeVars, mount, mounted, nativeVars, unclosed>>

\* requestBlePermissions: all permissions are granted, or one is not.  The user
\* answers the dialog: that a session leaves this step rests on it.
AskPermissions(k) ==
  /\ task[k].pc = "permission"
  /\ \/ GoOn(k, "start") /\ UNCHANGED uiVars
     \/ End(k) /\ SetStatus(task[k].mount, "STOPPED")
  /\ UNCHANGED <<storeVars, mount, mounted, nativeVars, unclosed, stuck>>

\* The native session opens and the callbacks are registered.
NativeStart(k) ==
  /\ task[k].pc = "start"
  /\ session' = TRUE
  /\ listener' = task[k].mount
  /\ GoOn(k, "qrcode")
  /\ UNCHANGED <<storeVars, mount, mounted, uiVars, requests, unclosed, stuck>>

ObtainQrCode(k) ==
  /\ task[k].pc = "qrcode"
  /\ End(k)
  /\ ui' = IF Seen(task[k].mount) THEN "STARTED" ELSE ui
  /\ qr' = (qr \/ Seen(task[k].mount))
  /\ UNCHANGED <<storeVars, mount, mounted, request, trusted, nativeVars,
                 unclosed, stuck>>

\* Faulty variant: the status is left to the caller, who does not set it.
StartFailsQuietly(k) ==
  /\ task[k].pc \in {"start", "qrcode"}
  /\ End(k)
  /\ UNCHANGED <<storeVars, mount, mounted, uiVars, nativeVars, unclosed, stuck>>

\* One of the two native calls fails; a session that is open stays open.
StartFails(k) ==
  /\ task[k].pc \in {"start", "qrcode"}
  /\ End(k)
  /\ SetStatus(task[k].mount, "STOPPED")
  /\ UNCHANGED <<storeVars, mount, mounted, nativeVars, unclosed, stuck>>
-----------------------------------------------------------------------------
(* closeFlow *)

\* The button closes the flow; while a request is shown, the verifier is told.
TapClose(k) ==
  /\ mounted
  /\ \/ ui = "STARTED" /\ listener' = Nothing /\ Begin(k, mount, "close")
     \/ ui = "PRESENTING" /\ Begin(k, mount, "terminate") /\ UNCHANGED listener
  /\ UNCHANGED <<storeVars, mount, mounted, uiVars, session, requests,
                 unclosed, stuck>>

\* The verifier disconnects, or the native side reports an error.
OnDisconnected(k) ==
  /\ session /\ listener # Nothing
  /\ Begin(k, listener, "close")
  /\ listener' = Nothing
  /\ UNCHANGED <<storeVars, mount, mounted, uiVars, session, requests,
                 unclosed, stuck>>

\* The error is sent and the callbacks are removed; if it cannot be sent, the
\* rest of the function is skipped.
SendTermination(k) ==
  /\ task[k].pc = "terminate"
  /\ \/ GoOn(k, "close") /\ listener' = Nothing
     \/ End(k) /\ UNCHANGED listener
  /\ UNCHANGED <<storeVars, mount, mounted, uiVars, session, requests,
                 unclosed, stuck>>

NativeClose(k) ==
  /\ task[k].pc = "close"
  /\ End(k)
  /\ session' = FALSE
  /\ IF Seen(task[k].mount)
     THEN ui' = "STOPPED" /\ qr' = FALSE /\ request' = Nothing /\ trusted' = FALSE
     ELSE UNCHANGED uiVars
  /\ UNCHANGED <<storeVars, mount, mounted, listener, requests,
                 unclosed, stuck>>

CloseFails(k) ==
  /\ task[k].pc = "close"
  /\ End(k)
  /\ unclosed' = TRUE
  /\ UNCHANGED <<storeVars, mount, mounted, uiVars, nativeVars, stuck>>
-----------------------------------------------------------------------------
(* Requests and answers *)

\* Faulty variant: what is said of the first request is said of the others.
ShowFirstTrust(authentic) ==
  trusted' = IF trusted = Nothing THEN authentic ELSE trusted

\* Is every document of the request authenticated?
ShowTrust(authentic) == trusted' = authentic

\* onDocumentRequestReceived: the request is shown to the user.
OnRequest(authentic) ==
  /\ session /\ listener # Nothing
  /\ requests < MaxRequests
  /\ requests' = requests + 1
  /\ IF Seen(listener)
     THEN /\ request' = [id |-> requests + 1, authentic |-> authentic]
          /\ ui' = "PRESENTING"
          /\ ShowTrust(authentic)
          /\ UNCHANGED qr
     ELSE UNCHANGED uiVars
  /\ UNCHANGED <<storeVars, mount, mounted, session, listener, task,
                 unclosed, stuck>>

\* The request is not understood: an error is sent.
OnMalformedRequest(k) ==
  /\ session /\ listener # Nothing
  /\ Begin(k, listener, "error")
  /\ UNCHANGED <<storeVars, mount, mounted, uiVars, nativeVars, unclosed, stuck>>

\* sendDocument or sendError, while a request is shown.
TapAnswer(k) ==
  /\ mounted /\ ui = "PRESENTING" /\ request # Nothing
  /\ \E pc \in {"generate", "error"} : Begin(k, mount, pc)
  /\ UNCHANGED <<storeVars, mount, mounted, uiVars, nativeVars, unclosed, stuck>>

\* sendError stops the flow for the user; session and callbacks stay.
SendError(k) ==
  /\ task[k].pc = "error"
  /\ End(k)
  /\ \/ SetStatus(task[k].mount, "STOPPED")
     \/ UNCHANGED uiVars
  /\ UNCHANGED <<storeVars, mount, mounted, nativeVars, unclosed, stuck>>

\* sendDocument: the response is generated, which may fail, and handed to
\* whatever session there is; nothing is closed afterwards.
SendDocument(k) ==
  /\ \/ task[k].pc = "generate" /\ GoOn(k, "send")
     \/ task[k].pc \in {"generate", "send"} /\ End(k)
  /\ UNCHANGED <<storeVars, mount, mounted, uiVars, nativeVars, unclosed, stuck>>
-----------------------------------------------------------------------------
ProximityTask(k) ==
  \/ ObtainCertificate(k) \/ AskPermissions(k) \/ NativeStart(k)
  \/ ObtainQrCode(k) \/ StartFails(k)
  \/ SendTermination(k) \/ NativeClose(k) \/ CloseFails(k)
  \/ SendError(k) \/ SendDocument(k)

ProximityUser(k) ==
  \/ OpenProximity(k) \/ LeaveProximity(k)
  \/ TapStart(k) \/ TapClose(k) \/ TapAnswer(k)

ProximityNext ==
  \/ \E k \in Tasks :
       \/ ProximityTask(k) \/ ProximityUser(k) \/ ProximityReset(k)
       \/ OnDisconnected(k) \/ OnMalformedRequest(k)
  \/ \E authentic \in BOOLEAN : OnRequest(authentic)
  \/ ProximityRestart
  \/ StoreCredential(Mdl) /\ UNCHANGED proximityVars
-----------------------------------------------------------------------------
(* Properties *)

\* What the user is asked to answer is the last request that was delivered to
\* the screen, and the trust that is shown is that request's, though requests
\* arrive while the flow is closed, restarted or answered.  A start left over
\* from an earlier mount may take the callbacks away from the screen.
ShownIsCurrent ==
  (mounted /\ ui = "PRESENTING" /\ request # Nothing /\ ~unclosed)
    => request.id = requests /\ trusted = request.authentic

\* Once the screen is left and its tasks have ended, the native session is
\* closed, whatever the screen showed, unless the native side could not close
\* it or a start that was still on its way opened it afterwards.
UnmountCloses ==
  ~mounted /\ (\A k \in Tasks : task[k] = NoTask) /\ session => unclosed

\* While the screen says "Starting" a start of its own is on its way, not only
\* one that an earlier mount left behind, unless the certificate of the anchor
\* could not be obtained.
StartingAwaited ==
  mounted /\ ui = "STARTING" /\ ~stuck =>
    \E k \in Tasks : task[k].pc \in Starting /\ task[k].mount = mount

\* The screen does not say "Starting" for ever, except if the certificate of
\* the anchor cannot be obtained: nothing catches that.
StartingEnds == mounted /\ ui = "STARTING" ~> ~mounted \/ ui # "STARTING" \/ stuck
=============================================================================
