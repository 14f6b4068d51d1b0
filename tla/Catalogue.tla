------------------------------ MODULE Catalogue ------------------------------
(***************************************************************************)
(* The catalogue of credentials of the trust anchor and its translations:  *)
(* the registries the library fetches, the catalogue it maps them to, and  *)
(* the slice of the application where two thunks, that run independently,  *)
(* store the one and the other.  Each registry is published in revisions,  *)
(* and each fetch gets the current one; names and texts are members of     *)
(* small sets, and the attributes that are only copied are left out.       *)
(***************************************************************************)
EXTENDS Errors, Naturals

CONSTANTS AnchorKeys,   \* the kids of the keys of the trust anchor
          CatVersions,  \* versions of the specification in use
          Publications, \* revision by revision: the four registries
          Bundles       \* by base URI and locale: the texts by id

\* The trust anchor has published its registries.
ASSUME CatalogueAssumption == 1 \in DOMAIN Publications

VARIABLES revision,   \* of the registries, at the publisher
          fetching,   \* the catalogue thunk: version, what it waits for
          registries, \* what it has fetched: signer and revision, by registry
          catalogue,  \* store: the catalogue, or NoCatalogue
          sources,    \* the registries it comes from: signer and revision
          translating, \* the translations thunk: the localizations it read
          translations, \* store: the texts by locale, and their localizations
          catStatus   \* store: asyncStatus and translationsAsyncStatus

catVars == <<revision, fetching, registries, catalogue, sources,
             translating, translations, catStatus>>

NoCatalogue == [credentials |-> {}, localizations |-> <<>>]
NoFetch == [version |-> "none", waits |-> {}]
NoTranslations == [texts |-> <<>>, of |-> <<>>]
NotTranslating == [running |-> FALSE, of |-> <<>>]
AsyncStatuses == {"initial", "loading", "done", "error"}

CatalogueInit ==
  /\ revision = 1 /\ fetching = NoFetch /\ registries = <<>>
  /\ catalogue = NoCatalogue /\ sources = <<>>
  /\ translating = NotTranslating /\ translations = NoTranslations
  /\ catStatus = [catalogue |-> "initial", translations |-> "initial"]

(* What is published *)

\* The records of the registries, down to what the mapping looks at.
Schema(type, format) == [credential_type |-> type, format |-> format]
DigitalCredential(type, entities) == [credential_type |-> type, authentic_sources |-> entities]
Localization(uri, locales) == [base_uri |-> uri, available_locales |-> locales]

RegistryNames == {"credential_catalog", "authentic_sources", "schema_registry", "taxonomy"}

\* An answer: its status and type, and who signed it when it is a JWT.
RegistryAnswers ==
  [status : {"200", "500"}, type : {"json", "jwt", "other"},
   signer : AnchorKeys \cup {"other"}, body : {"valid", "malformed"}]

\* Faulty variant: a JWT is read without looking for its key.
FetchRegistryUnsigned(asJson, answer) ==
  LET status == HasStatusOrThrow("200", "UnexpectedStatusCodeError", answer)
  IN  IF status = NoError /\ answer.type # "other" /\ answer.body = "valid"
      THEN NoError ELSE Failure("IoWalletError")

\* The content type alone decides how an answer is read: JSON is parsed as it
\* is, even where a JWT was asked for.
FetchRegistry(asJson, answer) ==
  LET status == HasStatusOrThrow("200", "UnexpectedStatusCodeError", answer)
      read   == \/ answer.type = "json"
                \/ answer.type = "jwt" /\ ~asJson /\ answer.signer \in AnchorKeys
  IN  IF status # NoError THEN status
      ELSE IF ~read THEN Failure("IoWalletError")
      ELSE IF answer.body = "malformed" THEN Failure("ZodError")
      ELSE NoError

(* The catalogue *)

\* Every source has to be in the registry of the authentic sources.
ResolveAuthSources(credential, entities) ==
  IF credential.authentic_sources \subseteq entities
  THEN NoError ELSE Failure("IoWalletError")

\* The configuration id is put together from format and type.
ResolveFormats(credential, schemas) ==
  {<<s.format, s.credential_type>> :
     s \in {t \in schemas : t.credential_type = credential.credential_type}}

Published(fetched, name) == Publications[fetched[name].revision][name]

MapToCredentialsCatalogue(fetched) ==
  LET credentials == Published(fetched, "credential_catalog").credentials
      schemas     == Published(fetched, "schema_registry").schemas
      resolved(c) == /\ ResolveAuthSources(c, Published(fetched, "authentic_sources").entities)
                          = NoError
                     /\ ResolveFormats(c, schemas) # {}
  IN  IF \E c \in credentials : ~resolved(c)
      THEN [error |-> Failure("IoWalletError"), catalogue |-> NoCatalogue]
      ELSE [error |-> NoError, catalogue |->
             [credentials   |-> {[type    |-> c.credential_type,
                                  sources |-> c.authentic_sources,
                                  formats |-> ResolveFormats(c, schemas)] : c \in credentials},
              localizations |-> <<Published(fetched, "credential_catalog").localization,
                                  Published(fetched, "authentic_sources").localization,
                                  Published(fetched, "taxonomy").localization>>]]

\* 1.0.0 has one document: its credentials carry their sources and formats.
MapToCredentialsCatalogueV1_0(published) ==
  [credentials |-> {[type |-> c.credential_type, sources |-> c.authentic_sources,
                     formats |-> ResolveFormats(c, published["schema_registry"].schemas)] :
                      c \in published["credential_catalog"].credentials},
   localizations |-> <<>>]

Rejects ==
  /\ catalogue' = NoCatalogue /\ sources' = <<>>
  /\ catStatus' = [catStatus EXCEPT !.catalogue = "error"]
  /\ fetching' = NoFetch /\ registries' = <<>>

Fulfils(result, fetched) ==
  /\ catalogue' = result /\ sources' = fetched
  /\ catStatus' = [catStatus EXCEPT !.catalogue = "done"]
  /\ fetching' = NoFetch /\ registries' = <<>>

GetCredentialsCatalogue(version) ==
  /\ fetching = NoFetch
  /\ fetching' = [version |-> version, waits |-> {"anchor"}]
  /\ catStatus' = [catStatus EXCEPT !.catalogue = "loading"]
  /\ UNCHANGED <<revision, registries, catalogue, sources, translating, translations>>

\* The configuration of the trust anchor, then the registry discovery, or in
\* 1.0.0 the catalogue itself.
AnchorAnswers(obtained) ==
  /\ fetching.waits = {"anchor"}
  /\ IF obtained
     THEN /\ fetching' = [fetching EXCEPT
               !.waits = IF fetching.version = "1.0.0" THEN {"document"} ELSE {"discovery"}]
          /\ UNCHANGED <<registries, catalogue, sources, catStatus>>
     ELSE Rejects
  /\ UNCHANGED <<revision, translating, translations>>

DiscoveryAnswers(answer) ==
  /\ fetching.waits = {"discovery"}
  /\ IF FetchRegistry(FALSE, answer) = NoError
     THEN /\ fetching' = [fetching EXCEPT !.waits = RegistryNames]
          /\ UNCHANGED <<registries, catalogue, sources, catStatus>>
     ELSE Rejects
  /\ UNCHANGED <<revision, translating, translations>>

\* 1.0.0 verifies its document whatever its type says.
DocumentAnswers(answer) ==
  /\ fetching.waits = {"document"}
  /\ IF answer.status = "200" /\ answer.signer \in AnchorKeys /\ answer.body = "valid"
     THEN Fulfils(MapToCredentialsCatalogueV1_0(Publications[revision]),
                  [credential_catalog |-> [signer |-> answer.signer, revision |-> revision]])
     ELSE Rejects
  /\ UNCHANGED <<revision, translating, translations>>

\* The registries answer in any order; the first failure rejects them all,
\* and the last answer completes the catalogue.
RegistryAnswered(name, answer) ==
  /\ name \in fetching.waits
  /\ LET signer  == IF answer.type = "json" THEN "json" ELSE answer.signer
         fetched == [n \in DOMAIN registries \cup {name} |->
                       IF n = name THEN [signer |-> signer, revision |-> revision]
                                   ELSE registries[n]]
         mapped  == MapToCredentialsCatalogue(fetched)
     IN  IF FetchRegistry(name # "credential_catalog", answer) # NoError THEN Rejects
         ELSE IF fetching.waits # {name}
         THEN /\ registries' = fetched
              /\ fetching' = [fetching EXCEPT !.waits = @ \ {name}]
              /\ UNCHANGED <<catalogue, sources, catStatus>>
         ELSE IF mapped.error # NoError THEN Rejects
         ELSE Fulfils(mapped.catalogue, fetched)
  /\ UNCHANGED <<revision, translating, translations>>

\* The publisher changes its registries, all at once.
Publish ==
  /\ revision + 1 \in DOMAIN Publications
  /\ revision' = revision + 1
  /\ UNCHANGED <<fetching, registries, catalogue, sources, translating, translations, catStatus>>

(* The translations *)

\* Texts later in the list go over those before.
Merged(bundles) ==
  [id \in UNION {DOMAIN bundles[i] : i \in DOMAIN bundles} |->
     LET last == CHOOSE i \in DOMAIN bundles :
                   /\ id \in DOMAIN bundles[i]
                   /\ \A j \in DOMAIN bundles : id \in DOMAIN bundles[j] => j <= i
     IN  bundles[last][id]]

\* The bundle of a localization that does not have the locale is empty.
FetchLocaleBundle(localization, locale) ==
  IF locale \in localization.available_locales
  THEN Bundles[localization.base_uri][locale] ELSE <<>>

RejectTranslations ==
  /\ translations' = NoTranslations
  /\ catStatus' = [catStatus EXCEPT !.translations = "error"]

\* The thunk reads the catalogue of the store; without one, or in 1.0.0, it
\* throws.
GetTranslations(version) ==
  /\ ~translating.running
  /\ IF catalogue = NoCatalogue \/ version = "1.0.0"
     THEN RejectTranslations /\ UNCHANGED translating
     ELSE /\ translating' = [running |-> TRUE, of |-> catalogue.localizations]
          /\ catStatus' = [catStatus EXCEPT !.translations = "loading"]
          /\ UNCHANGED translations
  /\ UNCHANGED <<revision, fetching, registries, catalogue, sources>>

\* The bundles of a locale; one that fails rejects them all.  The application
\* asks for one locale; it is in the result if it has a text.
TranslationsAnswered(locale, obtained) ==
  /\ translating.running
  /\ LET texts == Merged([i \in DOMAIN translating.of |->
                            FetchLocaleBundle(translating.of[i], locale)])
     IN  IF obtained
         THEN /\ translations' = [of    |-> translating.of,
                                  texts |-> [l \in {k \in {locale} : texts # <<>>} |-> texts]]
              /\ catStatus' = [catStatus EXCEPT !.translations = "done"]
         ELSE RejectTranslations
  /\ translating' = NotTranslating
  /\ UNCHANGED <<revision, fetching, registries, catalogue, sources>>

CatalogueNext ==
  \/ Publish
  \/ \E version \in CatVersions : GetCredentialsCatalogue(version) \/ GetTranslations(version)
  \/ \E obtained \in BOOLEAN : AnchorAnswers(obtained) \/ TranslationsAnswered("it", obtained)
  \/ \E answer \in RegistryAnswers :
       \/ DiscoveryAnswers(answer)
       \/ DocumentAnswers(answer)
       \/ \E name \in RegistryNames : RegistryAnswered(name, answer)
-----------------------------------------------------------------------------
(* Properties *)

\* The catalogue in the store is one that the trust anchor signed, unless it
\* was served as plain JSON, and each of its credentials is of that catalogue;
\* in 1.3.3 each has a format, and its authentic sources were all published,
\* whatever the revisions in which the registries were read.
CatalogueTrusted ==
  catalogue # NoCatalogue =>
    /\ sources["credential_catalog"].signer \in AnchorKeys \cup {"json"}
    /\ \A c \in catalogue.credentials :
         /\ \E p \in Published(sources, "credential_catalog").credentials :
              c.type = p.credential_type /\ c.sources = p.authentic_sources
         /\ "schema_registry" \in DOMAIN sources =>
              /\ c.formats # {}
              /\ c.sources \subseteq Published(sources, "authentic_sources").entities
=============================================================================
