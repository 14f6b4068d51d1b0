-------------------------------- MODULE Dcql --------------------------------
(***************************************************************************)
(* How a DCQL query is answered: which credential of the wallet is taken   *)
(* for each credential query, and the frame of what is disclosed from it.  *)
(*                                                                         *)
(* The claims of a credential are a tree, given by its paths.  A frame is  *)
(* the set of the paths at which the JavaScript object has a key: a path   *)
(* without longer ones stands for the value true.  Matching is done by the *)
(* dcql library and modelled from how its results are used.                *)
(***************************************************************************)
EXTENDS Naturals, Sequences

CONSTANTS
  Names, Indexes,   \* segments of a path: keys of objects, positions of lists
  AllElements,      \* the null segment of a query, for a list
  Credentials,
  Vct,              \* the type of a credential (doctype of an mdoc)
  Claims,           \* the paths of its claims, those never disclosed left out
  Disclosable,      \* those that have a disclosure of their own
  SdJwt             \* the credentials in SD-JWT format, the others are mdocs

ClaimPath == Seq(Names \cup Indexes)

\* At most one null in a path, and a list within a list only by name: the
\* first segment is the key of a claim.
QueryPath ==
  {q \in Seq(Names \cup Indexes \cup {AllElements}) :
     /\ q # <<>>
     /\ q[1] \in Names
     /\ \A i, j \in 1..Len(q) : q[i] = AllElements /\ q[j] = AllElements => i = j
     /\ \A i \in 3..Len(q) : q[i] = AllElements => \A j \in 1..(i - 1) : q[j] \in Names}

\* claims and claim_sets of a credential query, the latter <<>> if absent.
CredentialQuery ==
  {q \in [vcts : SUBSET {Vct[c] : c \in Credentials},
          paths : Seq(QueryPath), sets : Seq(Seq(Nat))] :
     \A n \in 1..Len(q.sets) : \A i \in 1..Len(q.sets[n]) :
       q.sets[n][i] \in 1..Len(q.paths)}

\* credentials and credential_sets; a set has options, each some queries.
Request ==
  [queries : Seq(CredentialQuery),
   sets : SUBSET [options : SUBSET SUBSET Nat, required : BOOLEAN]]

ASSUME DcqlAssumption ==
  /\ Names \cap Indexes = {}
  /\ AllElements \notin Names \cup Indexes
  /\ Indexes \subseteq Nat
  /\ \A c \in Credentials : Claims[c] \subseteq ClaimPath
  /\ \A c \in Credentials : Disclosable[c] \subseteq Claims[c]
  /\ SdJwt \subseteq Credentials

Least(S) == CHOOSE i \in S : \A j \in S : i <= j
Greatest(S) == CHOOSE i \in S : \A j \in S : i >= j

Prefix(p, k) == SubSeq(p, 1, k)
Prefixes(p) == {Prefix(p, k) : k \in 1..Len(p)}
-----------------------------------------------------------------------------
(* Matching *)

\* The path q of a query selects the claim at p.
Fits(q, p) ==
  /\ Len(q) = Len(p)
  /\ \A i \in 1..Len(q) : q[i] = p[i] \/ (q[i] = AllElements /\ p[i] \in Indexes)

Satisfied(path, c) == \E p \in Claims[c] : Fits(path, p)

\* The alternatives of a credential query: its claim sets, or all its claims.
Options(q) ==
  IF q.sets = <<>> THEN << [i \in 1..Len(q.paths) |-> i] >> ELSE q.sets

OptionPaths(q, n) == [i \in 1..Len(Options(q)[n]) |-> q.paths[Options(q)[n][i]]]

ValidOptions(q, c) ==
  {n \in 1..Len(Options(q)) :
     \A i \in 1..Len(OptionPaths(q, n)) : Satisfied(OptionPaths(q, n)[i], c)}

Matches(q, c) == Vct[c] \in q.vcts /\ ValidOptions(q, c) # {}

\* Faulty variant: every claim the credential has, whatever the claim sets.
ChosenFromAll(q, c) == SelectSeq(q.paths, LAMBDA path : Satisfied(path, c))

\* getValidDcqlClaims: the claims of the first claim set that is satisfied.
Chosen(q, c) == OptionPaths(q, Least(ValidOptions(q, c)))
-----------------------------------------------------------------------------
(* The presentation frame *)

Elements(name, claims) == {i \in Indexes : <<name, i>> \in claims}

\* pathToPresentationFrame.  A null is replaced by the positions of the list
\* only right below the first segment: further down the function looks for
\* the list in the first claim, where it is not, and ends the frame there.
ClaimFrame(path, claims) ==
  IF Len(path) > 1 /\ path[2] = AllElements
  THEN UNION {Prefixes([path EXCEPT ![2] = i]) : i \in Elements(path[1], claims)}
  ELSE {Prefix(path, k) : k \in {k \in 1..Len(path) : \A i \in 1..k : path[i] # AllElements}}

\* Faulty variant: the frame of a claim replaces what others have put there.
MergeOver(acc, new) == {p \in acc : <<p[1]>> \notin new} \cup new

\* Object.assign(value, acc[key]): where both have an object, the children of
\* the accumulator win, each with all that is below it.
Merge(acc, new) ==
  {p \in acc : <<p[1]>> \notin new}
    \cup {p \in new : Len(p) = 1}
    \cup {p \in new : Len(p) > 1 /\ Prefix(p, 2) \notin acc}
    \cup {p \in acc : Len(p) > 1 /\ \E r \in new : Len(r) > 1 /\ r[1] = p[1]}

\* The accumulator after each claim of the reduction.
Frames(paths, claims) ==
  LET f[i \in 0..Len(paths)] ==
        IF i = 0 THEN {} ELSE Merge(f[i - 1], ClaimFrame(paths[i], claims))
  IN  f

\* getPresentationFrameFromDcqlMatch
Frame(paths, claims) == Frames(paths, claims)[Len(paths)]
-----------------------------------------------------------------------------
(* evaluateDcqlQuery, for the credentials w at their positions in the list *)

Candidates(q, w) == {i \in DOMAIN w : Matches(q, w[i])}

\* match.valid_credentials[0]
Matched(q, w) == w[Least(Candidates(q, w))]

\* credentialsById[vct]: of two credentials of a type, the last one given.
Presented(q, w) ==
  w[Greatest({i \in DOMAIN w : Vct[w[i]] = Vct[Matched(q, w)]})]

Answered(r, w) == {i \in 1..Len(r.queries) : Candidates(r.queries[i], w) # {}}

\* Faulty variant: any credential will do.
SomethingMatches(r, w) == Answered(r, w) # {}

CanBeSatisfied(r, w) ==
  IF r.sets = {}
  THEN Answered(r, w) = 1..Len(r.queries)
  ELSE \A s \in r.sets : s.required => \E o \in s.options : o \subseteq Answered(r, w)

\* One presentation per query that has a match, in a credential set or not.
\* The present function sends the disclosures the frame has a key for.
Presentation(q, w) ==
  [query |-> q,
   credential |-> Presented(q, w),
   disclosed |-> Frame(Chosen(q, Matched(q, w)), Claims[Matched(q, w)])
                   \cap Disclosable[Presented(q, w)]]

Answer(r, w) == {Presentation(r.queries[i], w) : i \in Answered(r, w)}
=============================================================================
