--------------------------- MODULE MCPresentation ---------------------------
EXTENDS Presentation, TLC

CONSTANTS
  pidType, licenceType,
  pid, licence, newLicence, copy, mdoc,   \* copy is of the licence's type
  pidPlace, licencePlace, otherPlace,
  name, address, street, position, lat, lng, cars

Positions == {0, 1}

TypeOf == pid :> pidType @@ mdoc :> "mdoc"
            @@ [c \in {licence, newLicence, copy} |-> licenceType]

PidClaims ==
  {<<name>>, <<address>>, <<address, street>>, <<address, position>>,
   <<address, position, lat>>, <<address, position, lng>>}

LicenceClaims ==
  {<<name>>, <<cars>>, <<cars, 0>>, <<cars, 1>>, <<cars, 0, name>>, <<cars, 1, name>>}

ClaimsOf ==
  pid :> PidClaims @@ licence :> LicenceClaims @@ mdoc :> {<<name>>}
    @@ newLicence :> {<<name>>, <<cars>>, <<cars, 0>>} @@ copy :> {<<name>>}

\* The position comes in the clear within the address.
DisclosableOf ==
  [c \in DOMAIN ClaimsOf |-> ClaimsOf[c] \ {<<address, position>>}]

StorableIn ==
  pidPlace :> {pid} @@ licencePlace :> {licence, newLicence}
    @@ otherPlace :> {copy, mdoc}

Query(type, paths, sets) == [vcts |-> {type}, paths |-> paths, sets |-> sets]

\* Up to n different ones, in every order.
UpTo(S, n) ==
  {s \in UNION {[1..k -> S] : k \in 1..n} :
     \A i, j \in DOMAIN s : s[i] = s[j] => i = j}

PidPaths ==
  {<<name>>, <<address>>, <<address, street>>, <<address, position, lat>>,
   <<address, position, lng>>}
LicencePaths ==
  {<<name>>, <<cars>>, <<cars, 1>>, <<cars, AllElements>>, <<cars, AllElements, name>>}

ClaimSets == {<<>>, << <<2>>, <<1>> >>, << <<2, 1>>, <<2>> >>}

\* One query: all claims, or alternatives among the first two.
SingleQueries ==
  {Query(pidType, paths, <<>>) : paths \in UpTo(PidPaths, 3)}
  \cup {Query(licenceType, paths, sets) :
          paths \in UpTo(LicencePaths, 2) \ UpTo(LicencePaths, 1), sets \in ClaimSets}

\* Two queries, each with or without a place in a credential set.
Sets ==
  {[options |-> {{1, 2}}, required |-> TRUE], [options |-> {{1}, {2}}, required |-> TRUE],
   [options |-> {{2}}, required |-> FALSE]}

SomeRequests ==
  {[queries |-> <<q>>, sets |-> {}] : q \in SingleQueries}
  \cup {[queries |-> <<Query(pidType, <<path>>, <<>>), q>>, sets |-> sets] :
          path \in {<<name>>, <<cars>>},
          q \in {Query(licenceType, <<path>>, <<>>) :
                   path \in {<<name>>, <<cars, 1>>, <<cars, AllElements>>}},
          sets \in SUBSET Sets}
=============================================================================
