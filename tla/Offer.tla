-------------------------------- MODULE Offer --------------------------------
(***************************************************************************)
(* Issuance from a credential offer: the QR code scanned, the offer        *)
(* resolved, its grant extracted, the issuer it names evaluated, and the   *)
(* offer validated against the metadata of that issuer, before the         *)
(* issuance proper (not modelled here) begins.  The slice of the offers is *)
(* reset when their screen is closed, which no thunk in flight is told of. *)
(***************************************************************************)
EXTENDS Errors

CONSTANTS Scans,        \* the thunks that scans start
          OfferVersions,
          Offers,       \* records of issuer, ids (a set), grant, server, state
          Metadata      \* by issuer: its own server, and those it advertises

VARIABLES offerScreen, \* "closed", "open" or, while the camera is on, "scanning"
          offerSlice,  \* store: offer and status
          offerThunk,  \* of each scan: where it is, version, offer, error
          issuerConf   \* of each scan: the configuration of the issuer

offerVars == <<offerScreen, offerSlice, offerThunk, issuerConf>>

NoOffer == [issuer |-> "none"]
NoIssuer == [issuer |-> "none"]
EmptySlice == [offer |-> NoOffer, status |-> "initial"]
NotScanned == [at |-> "idle", version |-> "none", offer |-> NoOffer, error |-> NoError]

OfferInit ==
  /\ offerScreen = "closed" /\ offerSlice = EmptySlice
  /\ offerThunk = [t \in Scans |-> NotScanned]
  /\ issuerConf = [t \in Scans |-> NoIssuer]

(* The screens *)

OpenOffers ==
  /\ offerScreen = "closed"
  /\ offerScreen' = "open"
  /\ UNCHANGED <<offerSlice, offerThunk, issuerConf>>

\* Unmounting the screen resets the slice.
CloseOffers ==
  /\ offerScreen = "open"
  /\ offerScreen' = "closed"
  /\ offerSlice' = EmptySlice
  /\ UNCHANGED <<offerThunk, issuerConf>>

\* So does the end of the session, in another screen.
SessionResets ==
  /\ offerScreen = "closed" /\ offerSlice # EmptySlice
  /\ offerSlice' = EmptySlice
  /\ UNCHANGED <<offerScreen, offerThunk, issuerConf>>

\* The button is not pressed while it shows a request.
OpenScanner ==
  /\ offerScreen = "open" /\ offerSlice.status # "loading"
  /\ offerScreen' = "scanning"
  /\ UNCHANGED <<offerSlice, offerThunk, issuerConf>>

\* A code starts the thunk and leaves the scanner.
HandleCodeScanned(t, version) ==
  /\ offerScreen = "scanning" /\ offerThunk[t].at = "idle"
  /\ offerScreen' = "open"
  /\ offerThunk' = [offerThunk EXCEPT ![t].at = "resolve", ![t].version = version]
  /\ offerSlice' = [offerSlice EXCEPT !.status = "loading"]
  /\ UNCHANGED issuerConf

(* How a call of the thunk ends: a rejection leaves the offer before it *)

OfferRejected(t, error) ==
  /\ offerThunk' = [offerThunk EXCEPT ![t].at = "failed", ![t].error = error]
  /\ offerSlice' = [offerSlice EXCEPT !.status = "error"]

OfferGoesOn(t, next) ==
  /\ offerThunk' = [offerThunk EXCEPT ![t].at = next]
  /\ UNCHANGED offerSlice

Continue(t, error, next) ==
  IF error = NoError THEN OfferGoesOn(t, next) ELSE OfferRejected(t, error)

Unimplemented(t, error) ==
  IF offerThunk[t].version = "1.0.0" THEN Failure("UnimplementedFeatureError") ELSE error

InvalidOffer(error) ==
  WithMappedErrors(error, "CredentialOfferError", Failure("InvalidCredentialOfferError"))

(* The steps *)

\* The SDK reads the URI, and gets the offer when it is by reference; the
\* application takes the first id of the offer.
ResolveCredentialOffer(t, offer, error) ==
  /\ offerThunk[t].at = "resolve"
  /\ LET resolved == Unimplemented(t, WithMappedErrors(error, "CredentialOfferError",
                                                      Failure("InvalidQRCodeError")))
     IN  IF resolved # NoError
         THEN OfferRejected(t, resolved)
         ELSE IF offer.ids = {}
              THEN OfferRejected(t, Failure("Error"))
              ELSE /\ offerThunk' = [offerThunk EXCEPT ![t].at = "grant", ![t].offer = offer]
                   /\ UNCHANGED offerSlice
  /\ UNCHANGED <<offerScreen, issuerConf>>

\* getCredentialThunk needs an attestation and a PID before it looks at the
\* offer; the SDK refuses any grant but the authorization code.
ExtractGrantDetails(t, ready) ==
  /\ offerThunk[t].at = "grant"
  /\ Continue(t, IF ~ready THEN Failure("Error")
                 ELSE IF offerThunk[t].offer.grant = "authorization_code" THEN NoError
                 ELSE InvalidOffer(Failure("CredentialOfferError")), "trust")
  /\ UNCHANGED <<offerScreen, issuerConf>>

\* The endpoints and keys are those of the server that the offer selects when
\* its claims describe one, and else those of the issuer, silently.
MapToIssuerConfig(issuer, server, described) ==
  [issuer |-> issuer, servers |-> Metadata[issuer].advertised,
   server |-> IF server # "none" /\ described THEN server ELSE Metadata[issuer].own]

EvaluateIssuerTrust(t, obtained, described) ==
  /\ offerThunk[t].at = "trust"
  /\ IF obtained
     THEN /\ issuerConf' = [issuerConf EXCEPT ![t] =
               MapToIssuerConfig(offerThunk[t].offer.issuer, offerThunk[t].offer.server,
                                 described)]
          /\ OfferGoesOn(t, "validate")
     ELSE OfferRejected(t, Failure("SdkUnexpectedStatusCode")) /\ UNCHANGED issuerConf
  /\ UNCHANGED offerScreen

\* Faulty variant: the servers of the issuer are not passed on.
ValidateAgainstNothing(offer, servers) == NoError

\* The SDK: of several servers the offer has to select one, and what it
\* selects is advertised.
ValidateCredentialOffer(offer, servers) ==
  InvalidOffer(IF \/ servers # {} /\ offer.server \notin servers \cup {"none"}
                  \/ (\E a, b \in servers : a # b) /\ offer.server = "none"
               THEN Failure("CredentialOfferError") ELSE NoError)

ValidateOffer(t) ==
  /\ offerThunk[t].at = "validate"
  /\ Continue(t, ValidateCredentialOffer(offerThunk[t].offer, issuerConf[t].servers), "issue")
  /\ UNCHANGED <<offerScreen, issuerConf>>

\* The thunk stores its offer even if the screen was closed meanwhile.
IssuanceEnds(t, issued) ==
  /\ offerThunk[t].at = "issue"
  /\ IF issued
     THEN /\ offerThunk' = [offerThunk EXCEPT ![t].at = "done"]
          /\ offerSlice' = [offer |-> offerThunk[t].offer, status |-> "done"]
     ELSE OfferRejected(t, UnexpectedStatus("IssuerResponseError",
                                            [status |-> "500", body |-> "malformed"]))
  /\ UNCHANGED <<offerScreen, issuerConf>>

OfferNext ==
  \/ OpenOffers \/ CloseOffers \/ SessionResets \/ OpenScanner
  \/ \E t \in Scans :
       \/ \E version \in OfferVersions : HandleCodeScanned(t, version)
       \/ \E offer \in Offers,
             error \in {NoError, Failure("CredentialOfferError"), Failure("TypeError")} :
            ResolveCredentialOffer(t, offer, error)
       \/ ValidateOffer(t)
       \/ \E flag \in BOOLEAN :
            ExtractGrantDetails(t, flag) \/ IssuanceEnds(t, flag)
       \/ \E obtained, described \in BOOLEAN : EvaluateIssuerTrust(t, obtained, described)
-----------------------------------------------------------------------------
(* Properties *)

\* An issuance from an offer is one of the issuer the offer names, of the one
\* grant and in a version with offers.  Of an issuer that advertises servers
\* it is at one of these, or at the own server of the issuer; when there are
\* several, only for an offer that selects one.  Of an issuer that advertises
\* none the server of the offer is not checked, whatever it is; and a server
\* that is selected but not described is replaced by the own one, so that the
\* server in use is never any other than these two.  The offer in the store
\* with a success is one that was issued.
OfferHonoured ==
  /\ \A t \in Scans : offerThunk[t].at \in {"issue", "done"} =>
       LET offer == offerThunk[t].offer
           conf  == issuerConf[t]
           own   == Metadata[offer.issuer].own
       IN  /\ offer.grant = "authorization_code" /\ offerThunk[t].version # "1.0.0"
           /\ conf.issuer = offer.issuer
           /\ conf.server \in {own, offer.server}
           /\ offer.server = "none" => conf.server = own
           /\ conf.servers # {} => conf.server \in conf.servers \cup {own}
           /\ (\E a, b \in conf.servers : a # b) => offer.server \in conf.servers
  /\ offerSlice.status = "done" =>
       \E t \in Scans : offerThunk[t].at = "done" /\ offerThunk[t].offer = offerSlice.offer
=============================================================================
