------------------------- MODULE PresentationProofs -------------------------
(***************************************************************************)
(* What a presentation discloses, for every wallet, request and order of   *)
(* events.  The frame is a recursion over the claims of a query; facts     *)
(* about it are proved by looking at the least point where they fail.      *)
(***************************************************************************)
EXTENDS Presentation, WellFoundedInduction, FiniteSetTheorems, TLAPS

-----------------------------------------------------------------------------
(* Least and greatest elements *)

\* Every non-empty set of naturals, such as the positions of the candidates
\* for a query, has a least element: Least is what the code takes first.
LEMMA LeastElement ==
  ASSUME NEW T, T \subseteq Nat, T # {}
  PROVE  Least(T) \in T /\ \A m \in T : Least(T) <= m
<1> DEFINE R == {ss \in Nat \X Nat : ss[1] < ss[2]}
<1>1. IsWellFoundedOn(R, Nat)
  BY NatLessThanWellFounded DEF OpToRel
<1>2. PICK x \in T : \A y \in T : ~(<<y, x>> \in R)
  <2> HIDE DEF R
  <2> QED BY <1>1, WFMin, Zenon
<1>3. \A y \in T : x <= y
  <2> TAKE y \in T
  <2>1. x \in Nat /\ y \in Nat
    OBVIOUS
  <2>2. <<y, x>> \in Nat \X Nat /\ <<y, x>>[1] = y /\ <<y, x>>[2] = x
    BY <2>1
  <2>3. ~(y < x)
    BY <1>2, <2>2
  <2> QED BY <2>1, <2>3
<1> QED BY <1>3 DEF Least

\* A non-empty set of positions has a greatest element.
LEMMA GreatestElement ==
  ASSUME NEW n \in Nat, NEW T, T \subseteq 1..n, T # {}
  PROVE  Greatest(T) \in T
<1> DEFINE D == {k \in Nat : n - k \in T}
<1>1. D \subseteq Nat /\ D # {}
  <2>1. PICK t \in T : TRUE
    OBVIOUS
  <2>2. n - t \in Nat /\ n - (n - t) = t
    BY <2>1
  <2> QED BY <2>1, <2>2
<1>2. Least(D) \in D /\ \A k \in D : Least(D) <= k
  BY <1>1, LeastElement
<1> DEFINE g == n - Least(D)
<1>3. g \in T
  BY <1>2
<1>4. \A j \in T : g >= j
  <2> TAKE j \in T
  <2>1. n - j \in Nat /\ n - (n - j) = j
    OBVIOUS
  <2>2. Least(D) <= n - j
    BY <2>1, <1>2
  <2> QED BY <2>1, <2>2, <1>2
<1> QED BY <1>3, <1>4 DEF Greatest
-----------------------------------------------------------------------------
(* The recursion of the frame *)

Run(f, paths, claims, n) ==
  f = [i \in 0..n |-> IF i = 0 THEN {}
                      ELSE Merge(f[i - 1], ClaimFrame(paths[i], claims))]

\* The reduction over the claims is defined, however many there are.
LEMMA RunExists ==
  ASSUME NEW paths, NEW claims
  PROVE  \A n \in Nat : \E f : Run(f, paths, claims, n)
<1> DEFINE Bad == {n \in Nat : ~ \E f : Run(f, paths, claims, n)}
<1>1. SUFFICES ASSUME Bad # {} PROVE FALSE
  OBVIOUS
<1>2. PICK n \in Bad : \A m \in Bad : n <= m
  BY <1>1, LeastElement
<1>3. CASE n = 0
  <2>1. Run([i \in 0..0 |-> {}], paths, claims, 0)
    BY DEF Run
  <2> QED BY <2>1, <1>3
<1>4. CASE n # 0
  <2>1. n \in Nat /\ n - 1 \in Nat /\ n - 1 \notin Bad
    BY <1>4, <1>2
  <2>2. PICK f : Run(f, paths, claims, n - 1)
    BY <2>1
  <2> DEFINE F(i) == ClaimFrame(paths[i], claims)
             g == [i \in 0..n |-> IF i = n THEN Merge(f[n - 1], F(n)) ELSE f[i]]
  <2>3. \A i \in 0..n : g[i] = IF i = 0 THEN {} ELSE Merge(g[i - 1], F(i))
    <3> HIDE DEF F
    <3> TAKE i \in 0..n
    <3>0. /\ i \in Nat
          /\ i # n => i \in 0..(n - 1)
          /\ i # 0 => i - 1 \in 0..(n - 1) /\ i - 1 # n /\ i - 1 \in 0..n
      BY <2>1
    <3>1. \A j \in 0..(n - 1) : f[j] = IF j = 0 THEN {} ELSE Merge(f[j - 1], F(j))
      BY <2>2 DEF Run, F
    <3>2. CASE i = n
      BY <3>0, <3>2, <2>1, <1>4
    <3>3. CASE i # n
      BY <3>0, <3>1, <3>3, <2>1
    <3> QED BY <3>2, <3>3
  <2>4. Run(g, paths, claims, n)
    <3> HIDE DEF g
    <3>1. g = [i \in 0..n |-> g[i]]
      BY DEF g
    <3> QED BY <2>3, <3>1 DEF Run
  <2> QED BY <2>4
<1> QED BY <1>3, <1>4

\* Each step merges the frame of the next claim into the accumulator.
LEMMA FramesStep ==
  ASSUME NEW S, NEW paths \in Seq(S), NEW claims
  PROVE  /\ Frames(paths, claims)[0] = {}
         /\ \A i \in 1..Len(paths) :
              Frames(paths, claims)[i] =
                Merge(Frames(paths, claims)[i - 1], ClaimFrame(paths[i], claims))
<1>1. Len(paths) \in Nat
  OBVIOUS
<1>2. \E f : Run(f, paths, claims, Len(paths))
  BY <1>1, RunExists
<1>3. Run(Frames(paths, claims), paths, claims, Len(paths))
  BY <1>2 DEF Frames, Run
<1> DEFINE G == Frames(paths, claims)
           F(i) == ClaimFrame(paths[i], claims)
<1>4. \A i \in 0..Len(paths) : G[i] = IF i = 0 THEN {} ELSE Merge(G[i - 1], F(i))
  <2>1. G = [i \in 0..Len(paths) |-> IF i = 0 THEN {} ELSE Merge(G[i - 1], F(i))]
    BY <1>3 DEF Run
  <2> HIDE DEF G, F
  <2> QED BY <2>1
<1> HIDE DEF G, F
<1>5. G[0] = {} /\ \A i \in 1..Len(paths) : G[i] = Merge(G[i - 1], F(i))
  BY <1>1, <1>4
<1> QED BY <1>5 DEF G, F
-----------------------------------------------------------------------------
(* Nothing else *)

\* The frame of one claim has keys along the path of the claim only, with the
\* positions of a list in the place of a null.
LEMMA ClaimFrameAlongPath ==
  ASSUME NEW path \in QueryPath, NEW claims, NEW d \in ClaimFrame(path, claims)
  PROVE  \E k \in 1..Len(path) : Fits(Prefix(path, k), d)
<1>0. path \in Seq(Names \cup Indexes \cup {AllElements}) /\ Len(path) \in Nat
  BY DEF QueryPath
<1>1. CASE Len(path) > 1 /\ path[2] = AllElements
  <2>1. PICK i \in Indexes : d \in Prefixes([path EXCEPT ![2] = i])
    BY <1>1 DEF ClaimFrame, Elements
  <2> DEFINE e == [path EXCEPT ![2] = i]
  <2>2. e \in Seq(Names \cup Indexes \cup {AllElements}) /\ Len(e) = Len(path)
    BY <1>0, <1>1
  <2>3. \A j \in 1..Len(path) : e[j] = IF j = 2 THEN i ELSE path[j]
    BY <1>0
  <2> HIDE DEF e
  <2>4. PICK k \in 1..Len(path) : d = Prefix(e, k)
    BY <2>1, <2>2 DEF Prefixes, e
  <2>5. /\ Len(Prefix(e, k)) = k /\ Len(Prefix(path, k)) = k
        /\ \A j \in 1..k : Prefix(e, k)[j] = e[j] /\ Prefix(path, k)[j] = path[j]
    BY <1>0, <2>2 DEF Prefix
  <2>6. Fits(Prefix(path, k), d)
    BY <2>3, <2>4, <2>5, <1>0, <1>1 DEF Fits
  <2> QED BY <2>6
<1>2. CASE ~(Len(path) > 1 /\ path[2] = AllElements)
  <2>1. PICK k \in 1..Len(path) : d = Prefix(path, k)
    BY <1>2 DEF ClaimFrame
  <2>2. Fits(Prefix(path, k), d)
    BY <2>1 DEF Fits
  <2> QED BY <2>2
<1> QED BY <1>1, <1>2

\* Merging invents no key.
LEMMA MergeWithin ==
  ASSUME NEW acc, NEW new
  PROVE  Merge(acc, new) \subseteq acc \cup new
BY DEF Merge

\* The frame of a query has keys along the paths of its claims only.
LEMMA FrameAlongPaths ==
  ASSUME NEW paths \in Seq(QueryPath), NEW claims, NEW d \in Frame(paths, claims)
  PROVE  \E j \in 1..Len(paths) : \E k \in 1..Len(paths[j]) : Fits(Prefix(paths[j], k), d)
<1> DEFINE G == Frames(paths, claims)
           F(i) == ClaimFrame(paths[i], claims)
           S == {i \in 0..Len(paths) : d \in G[i]}
<1>0. Len(paths) \in Nat
  OBVIOUS
<1>1. G[0] = {} /\ \A i \in 1..Len(paths) : G[i] = Merge(G[i - 1], F(i))
  BY FramesStep
<1>2. Len(paths) \in S
  BY <1>0 DEF Frame
<1> HIDE DEF G, F
<1>3. Least(S) \in S /\ \A m \in S : Least(S) <= m
  <2>1. S \subseteq Nat /\ S # {}
    BY <1>0, <1>2
  <2> HIDE DEF S
  <2> QED BY <2>1, LeastElement
<1> DEFINE i == Least(S)
<1> HIDE DEF i
<1>4. i \in 1..Len(paths) /\ i - 1 \notin S /\ i - 1 \in 0..Len(paths)
  <2>1. i \in S /\ \A m \in S : i <= m
    BY <1>3 DEF i
  <2> QED BY <2>1, <1>0, <1>1
<1>5. d \in Merge(G[i - 1], F(i)) /\ d \notin G[i - 1]
  BY <1>1, <1>3, <1>4 DEF i
<1>6. d \in F(i)
  BY <1>5, MergeWithin
<1>7. paths[i] \in QueryPath
  BY <1>4
<1>8. \E k \in 1..Len(paths[i]) : Fits(Prefix(paths[i], k), d)
  BY <1>6, <1>7, ClaimFrameAlongPath DEF F
<1> QED BY <1>4, <1>8
-----------------------------------------------------------------------------
(* All that is asked for *)

\* A sequence is determined by its length and its elements.
LEMMA SameSequence ==
  ASSUME NEW S, NEW s \in Seq(S), NEW T, NEW t \in Seq(T), Len(s) = Len(t),
         \A i \in 1..Len(s) : s[i] = t[i]
  PROVE  s = t
<1>1. s = [i \in 1..Len(s) |-> s[i]] /\ t = [i \in 1..Len(t) |-> t[i]]
  OBVIOUS
<1> QED BY <1>1

\* Replacing an element of a sequence leaves its length.
LEMMA ElementReplaced ==
  ASSUME NEW S, NEW s \in Seq(S), NEW i \in 1..Len(s), NEW x \in S
  PROVE  [s EXCEPT ![i] = x] \in Seq(S) /\ Len([s EXCEPT ![i] = x]) = Len(s)
<1>1. Len(s) \in Nat /\ \A j \in 1..Len(s) : s[j] \in S
  OBVIOUS
<1> DEFINE e == [j \in 1..Len(s) |-> IF j = i THEN x ELSE s[j]]
<1>2. [s EXCEPT ![i] = x] = e
  OBVIOUS
<1>3. e \in Seq(S) /\ Len(e) = Len(s)
  BY <1>1
<1> QED BY <1>2, <1>3

\* What lengths of one and of two are.
LEMMA OneOrTwo ==
  /\ \A n \in Nat : n # 0 /\ n <= 2 => n = 1 \/ n = 2
  /\ \A n : n = 2 => n > 1 /\ n # 1
  /\ \A n : n = 1 => ~(n > 1)
OBVIOUS

\* The length of a path of at most two segments, and its first one.
LEMMA ShallowPath ==
  ASSUME NEW path \in QueryPath, Len(path) <= 2
  PROVE  /\ path \in Seq(Names \cup Indexes \cup {AllElements})
         /\ Len(path) = 1 \/ Len(path) = 2
         /\ path[1] \in Names
<1>1. /\ path \in Seq(Names \cup Indexes \cup {AllElements})
      /\ path # <<>> /\ path[1] \in Names
  BY DEF QueryPath
<1>2. Len(path) \in Nat /\ Len(path) # 0
  BY <1>1
<1> QED BY <1>1, <1>2, OneOrTwo, Zenon

\* The keys that a path of at most two segments gives begin as it does, and
\* are no longer.
LEMMA ShallowKeys ==
  ASSUME NEW path \in QueryPath, Len(path) <= 2, NEW claims,
         NEW p \in ClaimFrame(path, claims)
  PROVE  /\ p \in Seq(Names \cup Indexes \cup {AllElements})
         /\ Len(p) = 1 \/ (Len(p) = 2 /\ Len(path) = 2)
         /\ p[1] = path[1]
<1>0. /\ path \in Seq(Names \cup Indexes \cup {AllElements})
      /\ Len(path) = 1 \/ Len(path) = 2
  BY ShallowPath
<1>1. CASE Len(path) > 1 /\ path[2] = AllElements
  <2>1. PICK i \in Indexes : p \in Prefixes([path EXCEPT ![2] = i])
    BY <1>1 DEF ClaimFrame, Elements
  <2> DEFINE e == [path EXCEPT ![2] = i]
  <2>2. e \in Seq(Names \cup Indexes \cup {AllElements}) /\ Len(e) = Len(path)
    BY <1>0, <1>1
  <2>3. e[1] = path[1]
    BY <1>0
  <2> HIDE DEF e
  <2>4. PICK k \in 1..Len(path) : p = Prefix(e, k)
    BY <2>1, <2>2 DEF Prefixes, e
  <2> QED BY <2>2, <2>3, <2>4, <1>0 DEF Prefix
<1>2. CASE ~(Len(path) > 1 /\ path[2] = AllElements)
  <2>1. PICK k \in 1..Len(path) : p = Prefix(path, k)
    BY <1>2 DEF ClaimFrame
  <2> QED BY <2>1, <1>0 DEF Prefix
<1> QED BY <1>1, <1>2

\* All that is on the way to a claim that a path of at most two segments
\* selects is in the frame of the path.
LEMMA SelectedInClaimFrame ==
  ASSUME NEW path \in QueryPath, Len(path) <= 2,
         NEW claims, claims \subseteq ClaimPath,
         NEW c \in claims, Fits(path, c)
  PROVE  Prefixes(c) \subseteq ClaimFrame(path, claims)
<1>0. /\ path \in Seq(Names \cup Indexes \cup {AllElements})
      /\ Len(path) = 1 \/ Len(path) = 2
      /\ path[1] \in Names
      /\ c \in Seq(Names \cup Indexes) /\ Len(c) = Len(path)
  BY ShallowPath DEF Fits, ClaimPath
<1>1. c[1] = path[1]
  BY <1>0, DcqlAssumption DEF Fits
<1>2. CASE Len(path) > 1 /\ path[2] = AllElements
  <2>1. c[2] \in Indexes
    BY <1>0, <1>2, DcqlAssumption DEF Fits
  <2> DEFINE e == [path EXCEPT ![2] = c[2]]
  <2>2. e \in Seq(Names \cup Indexes \cup {AllElements}) /\ Len(e) = Len(c)
    <3>1. c[2] \in Names \cup Indexes \cup {AllElements}
      BY <2>1
    <3>2. 2 \in 1..Len(path)
      BY <1>0, <1>2
    <3> DEFINE S == Names \cup Indexes \cup {AllElements}
    <3>3. path \in Seq(S) /\ c[2] \in S
      BY <1>0, <3>1
    <3> HIDE DEF S
    <3>4. e \in Seq(S) /\ Len(e) = Len(path)
      BY <3>2, <3>3, ElementReplaced
    <3> QED BY <1>0, <3>4 DEF S
  <2>3. \A i \in 1..Len(e) : e[i] = c[i]
    BY <1>0, <1>1, <1>2
  <2> HIDE DEF e
  <2>4. e = c
    BY <2>2, <2>3, <1>0, SameSequence
  <2>5. c = <<path[1], c[2]>>
    <3>1. Len(c) = 2
      BY <1>0, <1>2, OneOrTwo, Zenon
    <3> DEFINE d == <<path[1], c[2]>>
    <3>2. d \in Seq(Names \cup Indexes) /\ Len(d) = 2 /\ d[1] = c[1] /\ d[2] = c[2]
      BY <1>0, <1>1, <2>1
    <3> HIDE DEF d
    <3>3. \A i \in 1..Len(c) : c[i] = d[i]
      BY <3>1, <3>2
    <3>4. c = d
      BY <1>0, <3>1, <3>2, <3>3, SameSequence
    <3> QED BY <3>4 DEF d
  <2>6. c[2] \in Elements(path[1], claims)
    BY <2>1, <2>5 DEF Elements
  <2> QED BY <1>2, <2>4, <2>6 DEF ClaimFrame, e
<1>3. CASE ~(Len(path) > 1 /\ path[2] = AllElements)
  <2>1. \A i \in 1..Len(path) : path[i] = c[i] /\ path[i] # AllElements
    BY <1>0, <1>1, <1>3, DcqlAssumption DEF Fits
  <2>2. path = c
    BY <2>1, <1>0, SameSequence
  <2>3. \A k \in 1..Len(path) : \A i \in 1..k : path[i] # AllElements
    BY <2>1, <1>0
  <2> QED BY <2>2, <2>3, <1>3 DEF ClaimFrame, Prefixes
<1> QED BY <1>2, <1>3

\* What one claim puts into the frame is not lost to another claim: not when
\* they share a key, because then both put objects there.
LEMMA FrameKeeps ==
  ASSUME NEW paths \in Seq(QueryPath), Shallow(paths),
         NEW claims, claims \subseteq ClaimPath,
         \A i \in 1..Len(paths) : \E c \in claims : Fits(paths[i], c),
         NEW j \in 1..Len(paths), NEW p \in ClaimFrame(paths[j], claims)
  PROVE  p \in Frame(paths, claims)
<1> DEFINE G == Frames(paths, claims)
           F(i) == ClaimFrame(paths[i], claims)
           Lost == {i \in j..Len(paths) : p \notin G[i]}
<1>0. Len(paths) \in Nat /\ j \in Nat /\ \A i \in 1..Len(paths) : paths[i] \in QueryPath
  OBVIOUS
<1>1. \A i \in 1..Len(paths) : G[i] = Merge(G[i - 1], F(i))
  BY FramesStep
<1>2. \A i \in 1..Len(paths) : \A r \in F(i) :
         /\ r \in Seq(Names \cup Indexes \cup {AllElements})
         /\ Len(r) = 1 \/ (Len(r) = 2 /\ Len(paths[i]) = 2)
         /\ Len(paths[i]) = 1 \/ Len(paths[i]) = 2
         /\ r[1] = paths[i][1]
  <2> TAKE i \in 1..Len(paths)
  <2>1. paths[i] \in QueryPath /\ Len(paths[i]) <= 2
    BY <1>0 DEF Shallow
  <2> QED BY <2>1, ShallowPath, ShallowKeys
<1>3. \A i \in 1..Len(paths) : Len(paths[i]) > 1 =>
         \E r \in F(i) : Len(r) > 1 /\ r[1] = paths[i][1]
  <2> TAKE i \in 1..Len(paths)
  <2> HAVE Len(paths[i]) > 1
  <2>1. PICK c \in claims : Fits(paths[i], c)
    OBVIOUS
  <2>2. paths[i] \in QueryPath /\ Len(paths[i]) <= 2 /\ c \in Seq(Names \cup Indexes)
    BY <1>0 DEF Shallow, ClaimPath
  <2>3. Prefixes(c) \subseteq F(i)
    BY <2>1, <2>2, SelectedInClaimFrame
  <2>4. Len(c) \in Nat /\ Len(c) = Len(paths[i]) /\ Len(c) > 1
    BY <2>1, <2>2 DEF Fits
  <2>5. Prefix(c, Len(c)) \in F(i) /\ Len(Prefix(c, Len(c))) = Len(c)
    <3> HIDE DEF F
    <3>1. Len(c) \in 1..Len(c)
      BY <2>4
    <3>2. Len(Prefix(c, Len(c))) = Len(c)
      BY <2>2, <2>4 DEF Prefix
    <3> QED BY <2>3, <3>1, <3>2 DEF Prefixes
  <2> HIDE DEF F
  <2>6. Prefix(c, Len(c))[1] = paths[i][1]
    BY <1>2, <2>5
  <2> QED BY <2>4, <2>5, <2>6
<1> SUFFICES ASSUME Lost # {} PROVE FALSE
  <2>1. Len(paths) \in j..Len(paths)
    BY <1>0
  <2> QED BY <2>1 DEF Frame
<1> HIDE DEF G, F
<1>4. PICK i \in Lost : \A m \in Lost : i <= m
  <2>1. Lost \subseteq Nat
    BY <1>0
  <2> HIDE DEF Lost
  <2> QED BY <2>1, LeastElement
<1>5. i \in 1..Len(paths) /\ p \notin Merge(G[i - 1], F(i))
  BY <1>0, <1>1, <1>4
<1>6. /\ p \in F(j)
      /\ p \in Seq(Names \cup Indexes \cup {AllElements})
      /\ Len(p) = 1 \/ (Len(p) = 2 /\ Len(paths[j]) = 2)
      /\ p[1] = paths[j][1]
  <2>1. p \in F(j)
    BY DEF F
  <2> QED BY <2>1, <1>2
<1>7. CASE i = j
  <2>1. Len(p) = 1 \/ (Len(p) = 2 /\ Prefix(p, 2) = p)
    <3>1. Len(p) = 2 => Prefix(p, 2) = p
      BY <1>6 DEF Prefix
    <3> QED BY <1>6, <3>1
  <2>2. CASE Len(p) = 1
    BY <2>2, <1>5, <1>6, <1>7 DEF Merge
  <2>3. CASE Len(p) = 2 /\ Prefix(p, 2) = p
    <3>1. p \in F(i) /\ Len(p) > 1
      BY <2>3, <1>6, <1>7
    <3> QED BY <3>1, <2>3, <1>5 DEF Merge
  <2> QED BY <2>1, <2>2, <2>3
<1>8. CASE i # j
  <2>1. i - 1 \in j..Len(paths) /\ p \in G[i - 1]
    <3>1. i - 1 \in j..Len(paths) /\ ~(i <= i - 1)
      BY <1>0, <1>4, <1>8
    <3> QED BY <3>1, <1>4
  <2>2. PICK r \in F(i) : r = <<p[1]>>
    BY <2>1, <1>5 DEF Merge
  <2>3. p[1] = paths[i][1] /\ p[1] = paths[j][1]
    BY <2>2, <1>2, <1>5, <1>6
  <2>4. CASE Len(p) = 1
    <3>1. p = <<p[1]>>
      BY <2>4, <1>6
    <3> QED BY <3>1, <2>2, <2>4, <1>5 DEF Merge
  <2>5. CASE Len(p) # 1
    <3>1. Len(p) > 1 /\ Len(paths[j]) # 1
      BY <2>5, <1>6, OneOrTwo, Zenon
    <3>2. Len(paths[i]) # 1
      BY <3>1, <2>3, <1>5 DEF Shallow
    <3>3. Len(paths[i]) > 1
      BY <3>2, <1>2, <1>5, <2>2, OneOrTwo, Zenon
    <3> QED BY <3>1, <3>3, <1>3, <1>5, <2>1, <2>3 DEF Merge
  <2> QED BY <2>4, <2>5
<1> QED BY <1>7, <1>8
-----------------------------------------------------------------------------
(* The answer to a request *)

\* An alternative of a credential query names claims of the query.
LEMMA OptionIndexes ==
  ASSUME NEW q \in CredentialQuery, NEW n \in 1..Len(Options(q))
  PROVE  /\ Len(Options(q)[n]) \in Nat
         /\ \A i \in 1..Len(Options(q)[n]) : Options(q)[n][i] \in 1..Len(q.paths)
<1>0. q.paths \in Seq(QueryPath) /\ q.sets \in Seq(Seq(Nat))
  BY DEF CredentialQuery
<1>1. CASE q.sets = <<>>
  <2> DEFINE all == [i \in 1..Len(q.paths) |-> i]
  <2>1. Len(q.paths) \in Nat
    BY <1>0
  <2>2. Len(all) = Len(q.paths) /\ \A i \in 1..Len(q.paths) : all[i] = i
    BY <2>1
  <2>3. Options(q)[n] = all
    <3>1. Options(q) = <<all>>
      BY <1>1 DEF Options
    <3> HIDE DEF all
    <3> QED BY <3>1
  <2> HIDE DEF all
  <2> QED BY <2>1, <2>2, <2>3
<1>2. CASE q.sets # <<>>
  <2>1. Options(q) = q.sets
    BY <1>2 DEF Options
  <2>2. q.sets[n] \in Seq(Nat)
    BY <1>0, <2>1
  <2>3. \A i \in 1..Len(q.sets[n]) : q.sets[n][i] \in 1..Len(q.paths)
    BY <2>1 DEF CredentialQuery
  <2> QED BY <2>1, <2>2, <2>3
<1> QED BY <1>1, <1>2

\* Its paths are paths of the query, shallow if these are.
LEMMA OptionPathsOfQuery ==
  ASSUME NEW q \in CredentialQuery, NEW n \in 1..Len(Options(q))
  PROVE  /\ OptionPaths(q, n) \in Seq(QueryPath)
         /\ Shallow(q.paths) => Shallow(OptionPaths(q, n))
<1> DEFINE o == Options(q)[n]
<1>0. q.paths \in Seq(QueryPath)
  BY DEF CredentialQuery
<1>1. Len(o) \in Nat /\ \A i \in 1..Len(o) : o[i] \in 1..Len(q.paths)
  BY OptionIndexes
<1>2. OptionPaths(q, n) = [i \in 1..Len(o) |-> q.paths[o[i]]]
  BY DEF OptionPaths
<1> HIDE DEF o
<1>3. \A i \in 1..Len(o) : q.paths[o[i]] \in QueryPath
  BY <1>0, <1>1
<1>4. /\ OptionPaths(q, n) \in Seq(QueryPath)
      /\ Len(OptionPaths(q, n)) = Len(o)
      /\ \A i \in 1..Len(o) : OptionPaths(q, n)[i] = q.paths[o[i]]
  BY <1>1, <1>2, <1>3
<1>5. ASSUME Shallow(q.paths)
      PROVE  Shallow(OptionPaths(q, n))
  <2> DEFINE s == OptionPaths(q, n)
             t == q.paths
  <2>1. \A i \in 1..Len(s) : s[i] = t[o[i]] /\ o[i] \in 1..Len(t)
    BY <1>1, <1>4
  <2>2. Shallow(t)
    BY <1>5
  <2> HIDE DEF s, t
  <2>3. \A i \in 1..Len(s) : Len(s[i]) <= 2
    BY <2>1, <2>2 DEF Shallow
  <2>4. ASSUME NEW i \in 1..Len(s), NEW j \in 1..Len(s),
               Len(s[i]) = 1, s[i][1] = s[j][1]
        PROVE  Len(s[j]) = 1
    BY <2>1, <2>2, <2>4 DEF Shallow
  <2>5. Shallow(s)
    BY <2>3, <2>4 DEF Shallow
  <2> QED BY <2>5 DEF s
<1> QED BY <1>4, <1>5

\* The alternative that is taken is one the credential satisfies.
LEMMA OptionTaken ==
  ASSUME NEW q, NEW c, Matches(q, c)
  PROVE  Least(ValidOptions(q, c)) \in ValidOptions(q, c)
<1>1. ValidOptions(q, c) # {} /\ ValidOptions(q, c) \subseteq Nat
  BY DEF Matches, ValidOptions
<1> HIDE DEF ValidOptions
<1> QED BY <1>1, LeastElement

\* A query with a match is answered from a credential the wallet holds, of
\* the type of the one that matches; from that one, if types are unique.
LEMMA PresentedHeld ==
  ASSUME NEW q, NEW w \in Wallets, Candidates(q, w) # {}
  PROVE  /\ Matched(q, w) \in Credentials /\ Matches(q, Matched(q, w))
         /\ Presented(q, w) \in Credentials
         /\ Vct[Presented(q, w)] = Vct[Matched(q, w)]
         /\ Unambiguous(w) => Presented(q, w) = Matched(q, w)
<1>1. /\ DOMAIN w \subseteq 1..Cardinality(Places)
      /\ \A i \in DOMAIN w : w[i] \in Credentials
  BY DEF Wallets
<1>2. Cardinality(Places) \in Nat
  BY PresentationAssumption, FS_CardinalityType
<1> DEFINE C == Candidates(q, w)
           m == Least(C)
           T == {i \in DOMAIN w : Vct[w[i]] = Vct[Matched(q, w)]}
           g == Greatest(T)
<1>3. C \subseteq Nat /\ C \subseteq DOMAIN w /\ \A i \in C : Matches(q, w[i])
  BY <1>1, <1>2 DEF Candidates
<1>4. m \in C
  <2>1. C # {}
    OBVIOUS
  <2> HIDE DEF C
  <2> QED BY <1>3, <2>1, LeastElement
<1>5. Matched(q, w) = w[m] /\ Presented(q, w) = w[g]
  BY DEF Matched, Presented
<1> HIDE DEF C, m, g
<1>6. m \in T
  BY <1>3, <1>4, <1>5
<1>7. g \in T
  <2>1. T \subseteq 1..Cardinality(Places)
    BY <1>1
  <2> HIDE DEF T
  <2> QED BY <1>2, <1>6, <2>1, GreatestElement DEF g
<1>8. Unambiguous(w) => g = m
  BY <1>3, <1>4, <1>5, <1>7 DEF Unambiguous
<1> QED BY <1>1, <1>3, <1>4, <1>5, <1>7, <1>8

\* The presentation for a query discloses nothing else.
LEMMA PresentationDiscloses ==
  ASSUME NEW q \in CredentialQuery, NEW w \in Wallets, Candidates(q, w) # {}
  PROVE  \E n \in 1..Len(Options(q)) : AlongOption(Presentation(q, w), n)
<1> DEFINE c == Matched(q, w)
           n == Least(ValidOptions(q, c))
           a == Presentation(q, w)
<1>1. n \in 1..Len(Options(q))
  BY PresentedHeld, OptionTaken DEF ValidOptions
<1>2. OptionPaths(q, n) \in Seq(QueryPath)
  BY <1>1, OptionPathsOfQuery
<1>3. a.query = q /\ a.disclosed \subseteq Frame(OptionPaths(q, n), Claims[c])
  BY DEF Presentation, Chosen
<1> HIDE DEF c, n, a
<1>4. AlongOption(a, n)
  BY <1>2, <1>3, FrameAlongPaths DEF AlongOption
<1> QED BY <1>1, <1>4 DEF a

\* Types unique and paths shallow, the presentation for a query answers it.
LEMMA PresentationAnswers ==
  ASSUME NEW q \in CredentialQuery, NEW w \in Wallets, Candidates(q, w) # {},
         Unambiguous(w), Shallow(q.paths)
  PROVE  AnswersQuery(Presentation(q, w))
<1> DEFINE c == Matched(q, w)
           n == Least(ValidOptions(q, c))
           a == Presentation(q, w)
           paths == OptionPaths(q, n)
<1>1. c \in Credentials /\ Matches(q, c) /\ Presented(q, w) = c
  BY PresentedHeld
<1>2. n \in ValidOptions(q, c)
  BY <1>1, OptionTaken
<1>3. n \in 1..Len(Options(q)) /\ \A i \in 1..Len(paths) : Satisfied(paths[i], c)
  BY <1>2 DEF ValidOptions
<1>4. paths \in Seq(QueryPath) /\ Shallow(paths)
  BY <1>3, OptionPathsOfQuery
<1>5. Claims[c] \subseteq ClaimPath
  BY <1>1, DcqlAssumption
<1>6. /\ a.query = q /\ a.credential = c
      /\ a.disclosed = Frame(paths, Claims[c]) \cap Disclosable[c]
  BY <1>1 DEF Presentation, Chosen
<1> HIDE DEF c, n, a, paths
<1>7. \A i \in 1..Len(paths) : \E p \in Claims[c] : Fits(paths[i], p)
  BY <1>3 DEF Satisfied
<1>8. ASSUME NEW i \in 1..Len(paths), NEW p \in Claims[c], Fits(paths[i], p)
      PROVE  Prefixes(p) \cap Disclosable[c] \subseteq a.disclosed
  <2>1. paths[i] \in QueryPath /\ Len(paths[i]) <= 2
    BY <1>4 DEF Shallow
  <2>2. Prefixes(p) \subseteq ClaimFrame(paths[i], Claims[c])
    BY <1>5, <1>8, <2>1, SelectedInClaimFrame
  <2>3. ClaimFrame(paths[i], Claims[c]) \subseteq Frame(paths, Claims[c])
    BY <1>4, <1>5, <1>7, FrameKeeps
  <2> QED BY <1>6, <2>2, <2>3
<1>9. Answers(a, n)
  BY <1>2, <1>6, <1>8 DEF Answers, paths
<1> QED BY <1>1, <1>3, <1>6, <1>9 DEF AnswersQuery, Matches, a
-----------------------------------------------------------------------------
(* The invariant *)

\* What is about to be sent is the answer to the request that was verified,
\* from the credentials that were read, and the request can be satisfied.
LocalsOK ==
  \A p \in Presenters :
    /\ pc[p] \in {"evaluate", "send", "sent"} => request[p] \in Requests
    /\ pc[p] \in {"send", "sent"} =>
         /\ answer[p] = Answer(request[p], wallet[p])
         /\ CanBeSatisfied(request[p], wallet[p])

\* So is what has been received.
ReceivedOK ==
  \A m \in received :
    /\ m.request \in Requests /\ m.wallet \in Wallets
    /\ m.answer = Answer(m.request, m.wallet)
    /\ CanBeSatisfied(m.request, m.wallet)

PresentationInvariant == PresentationTypeOK /\ LocalsOK /\ ReceivedOK

\* The queries of a request that have a match are queries of the request.
LEMMA AnsweredQueries ==
  ASSUME NEW r \in Requests, NEW w \in Wallets
  PROVE  /\ r.queries \in Seq(CredentialQuery)
         /\ \A i \in Answered(r, w) :
              /\ i \in 1..Len(r.queries)
              /\ r.queries[i] \in CredentialQuery
              /\ Candidates(r.queries[i], w) # {}
<1>1. r.queries \in Seq(CredentialQuery)
  BY PresentationAssumption DEF Request
<1> QED BY <1>1 DEF Answered

\* An answer consists of credentials and of paths of claims.
LEMMA AnswerType ==
  ASSUME NEW r \in Requests, NEW w \in Wallets
  PROVE  Answer(r, w) \subseteq Evaluated
<1> SUFFICES ASSUME NEW i \in Answered(r, w)
             PROVE  Presentation(r.queries[i], w) \in Evaluated
  BY DEF Answer
<1> DEFINE q == r.queries[i]
           c == Presented(q, w)
<1>1. q \in CredentialQuery /\ c \in Credentials
  BY AnsweredQueries, PresentedHeld
<1>2. Disclosable[c] \subseteq ClaimPath
  BY <1>1, DcqlAssumption
<1> HIDE DEF q, c
<1> QED BY <1>1, <1>2 DEF Presentation, Evaluated, q, c

\* What the store gives for the places that are not empty is a wallet.
LEMMA HeldType ==
  ASSUME PresentationTypeOK, NEW o \in Orders
  PROVE  Held(o) \in Wallets
<1> DEFINE D == {i \in DOMAIN o : store[o[i]] # NoCredential}
<1>1. DOMAIN o = 1..Cardinality(Places) /\ \A i \in DOMAIN o : o[i] \in Places
  BY DEF Orders
<1>2. \A i \in D : store[o[i]] \in Credentials
  BY <1>1 DEF PresentationTypeOK
<1>3. Held(o) = [i \in D |-> store[o[i]]] /\ D \in SUBSET (1..Cardinality(Places))
  BY <1>1 DEF Held
<1> HIDE DEF D
<1>4. [i \in D |-> store[o[i]]] \in [D -> Credentials]
  BY <1>2
<1> QED BY <1>3, <1>4 DEF Wallets

\* The empty list is one.
LEMMA EmptyWallet == <<>> \in Wallets
<1>1. <<>> \in [{} -> Credentials]
  OBVIOUS
<1>2. {} \in SUBSET (1..Cardinality(Places))
  OBVIOUS
<1> QED BY <1>1, <1>2 DEF Wallets

\* Initially nothing is known and nothing was sent.
LEMMA InitInvariant == Init => PresentationInvariant
<1> SUFFICES ASSUME Init PROVE PresentationInvariant
  OBVIOUS
<1>1. PresentationTypeOK
  BY EmptyWallet DEF Init, PresentationTypeOK, Slots, Awaiting
<1>2. LocalsOK /\ ReceivedOK
  BY DEF Init, LocalsOK, ReceivedOK
<1> QED BY <1>1, <1>2 DEF PresentationInvariant

\* The end of a presentation, whatever its outcome, forgets its locals.
LEMMA EndKeeps ==
  ASSUME PresentationInvariant, NEW p \in Presenters,
         NEW outcome \in {"done", "error"}, EndsWith(p, outcome),
         received' = received
  PROVE  PresentationInvariant'
<1>1. PresentationTypeOK'
  BY EmptyWallet DEF PresentationInvariant, PresentationTypeOK, EndsWith, Awaiting
<1>2. LocalsOK'
  BY DEF PresentationInvariant, PresentationTypeOK, LocalsOK, EndsWith
<1>3. ReceivedOK'
  BY DEF PresentationInvariant, ReceivedOK
<1> QED BY <1>1, <1>2, <1>3 DEF PresentationInvariant

\* Every step of a presentation preserves the invariant.
LEMMA ThunkKeeps ==
  ASSUME PresentationInvariant, NEW p \in Presenters, Scan(p) \/ ThunkStep(p)
  PROVE  PresentationInvariant'
<1> USE DEF PresentationInvariant
<1>1. CASE Scan(p)
  <2>1. PresentationTypeOK'
    BY <1>1 DEF Scan, PresentationTypeOK, Awaiting
  <2>2. LocalsOK' /\ ReceivedOK'
    BY <1>1 DEF Scan, PresentationTypeOK, LocalsOK, ReceivedOK
  <2> QED BY <2>1, <2>2
<1>2. CASE ObtainRequest(p)
  <2>1. PresentationTypeOK'
    BY <1>2, HeldType DEF ObtainRequest, PresentationTypeOK, Awaiting
  <2>2. LocalsOK' /\ ReceivedOK'
    BY <1>2 DEF ObtainRequest, PresentationTypeOK, LocalsOK, ReceivedOK
  <2> QED BY <2>1, <2>2
<1>3. CASE Evaluate(p)
  <2>1. request[p] \in Requests /\ wallet[p] \in Wallets
    BY <1>3 DEF Evaluate, PresentationTypeOK, LocalsOK
  <2>2. Answer(request[p], wallet[p]) \subseteq Evaluated
    BY <2>1, AnswerType
  <2>3. PresentationTypeOK'
    BY <1>3, <2>2 DEF Evaluate, PresentationTypeOK, Awaiting
  <2>4. LocalsOK' /\ ReceivedOK'
    BY <1>3 DEF Evaluate, PresentationTypeOK, LocalsOK, ReceivedOK
  <2> QED BY <2>3, <2>4
<1>4. CASE Send(p)
  <2> DEFINE m == [request |-> request[p], wallet |-> wallet[p], answer |-> answer[p]]
  <2>1. /\ request[p] \in Requests /\ wallet[p] \in Wallets
        /\ answer[p] \in SUBSET Evaluated
        /\ answer[p] = Answer(request[p], wallet[p])
        /\ CanBeSatisfied(request[p], wallet[p])
    BY <1>4 DEF Send, PresentationTypeOK, LocalsOK
  <2>2. /\ m \in Response
        /\ m.request = request[p] /\ m.wallet = wallet[p] /\ m.answer = answer[p]
    BY <2>1 DEF Response
  <2>3. received' = received \cup {m}
    BY <1>4 DEF Send
  <2> HIDE DEF m
  <2>4. PresentationTypeOK'
    BY <1>4, <2>2, <2>3 DEF Send, PresentationTypeOK, Awaiting
  <2>5. LocalsOK'
    BY <1>4, <2>1 DEF Send, PresentationTypeOK, LocalsOK
  <2>6. ReceivedOK'
    BY <2>1, <2>2, <2>3 DEF ReceivedOK
  <2> QED BY <2>4, <2>5, <2>6
<1>5. CASE Finish(p)
  BY <1>5, EndKeeps DEF Finish
<1>6. CASE SendRefusal(p)
  BY <1>6, EndKeeps DEF SendRefusal
<1>7. CASE StepFails(p)
  BY <1>7, EndKeeps DEF StepFails
<1> QED BY <1>1, <1>2, <1>3, <1>4, <1>5, <1>6, <1>7 DEF ThunkStep

\* So does everything else: it reaches the store and the slots only, or
\* leaves the presentation without a thunk.
LEMMA OthersKeep ==
  ASSUME PresentationInvariant,
         \/ \E q \in Places : StoreCredential(q)
         \/ SessionReset \/ InstanceReset \/ AppRestart
         \/ UNCHANGED presentationVars
  PROVE  PresentationInvariant'
<1> USE DEF PresentationInvariant
<1>1. CASE \E q \in Places : StoreCredential(q)
  <2>1. PICK q \in Places : StoreCredential(q)
    BY <1>1
  <2>2. Storable[q] \subseteq Credentials
    BY PresentationAssumption
  <2>3. PresentationTypeOK'
    BY <2>1, <2>2 DEF StoreCredential, PresentationTypeOK, thunkVars
  <2>4. LocalsOK' /\ ReceivedOK'
    BY <2>1 DEF StoreCredential, LocalsOK, ReceivedOK, thunkVars
  <2> QED BY <2>3, <2>4
<1>2. CASE SessionReset
  <2>1. PresentationTypeOK'
    BY <1>2 DEF SessionReset, Reset, PresentationTypeOK, thunkVars
  <2>2. LocalsOK' /\ ReceivedOK'
    BY <1>2 DEF SessionReset, Reset, LocalsOK, ReceivedOK, thunkVars
  <2> QED BY <2>1, <2>2
<1>3. CASE InstanceReset
  <2>1. PresentationTypeOK'
    BY <1>3 DEF InstanceReset, Reset, PresentationTypeOK, thunkVars
  <2>2. LocalsOK' /\ ReceivedOK'
    BY <1>3 DEF InstanceReset, Reset, LocalsOK, ReceivedOK, thunkVars
  <2> QED BY <2>1, <2>2
<1>4. CASE AppRestart
  <2>1. PresentationTypeOK'
    BY <1>4, EmptyWallet DEF AppRestart, PresentationTypeOK
  <2>2. LocalsOK' /\ ReceivedOK'
    BY <1>4 DEF AppRestart, LocalsOK, ReceivedOK
  <2> QED BY <2>1, <2>2
<1>5. CASE UNCHANGED presentationVars
  BY <1>5 DEF presentationVars, thunkVars, PresentationTypeOK, LocalsOK, ReceivedOK
<1> QED BY <1>1, <1>2, <1>3, <1>4, <1>5

\* What is kept and what is sent is always the answer to a request.
LEMMA AlwaysInvariant == Spec => []PresentationInvariant
<1>1. PresentationInvariant /\ [Next]_presentationVars => PresentationInvariant'
  <2> SUFFICES ASSUME PresentationInvariant, [Next]_presentationVars
               PROVE  PresentationInvariant'
    OBVIOUS
  <2>1. CASE \E p \in Presenters : Scan(p) \/ ThunkStep(p)
    BY <2>1, ThunkKeeps
  <2>2. CASE ~ \E p \in Presenters : Scan(p) \/ ThunkStep(p)
    BY <2>2, OthersKeep DEF Next
  <2> QED BY <2>1, <2>2
<1> QED BY <1>1, InitInvariant, PTL DEF Spec
-----------------------------------------------------------------------------
(* Theorems *)

\* Each local of the thunk, the store and every response have their types,
\* whatever steps the app and the relying parties take.
THEOREM PresentationTypes == Spec => []PresentationTypeOK
<1>1. PresentationInvariant => PresentationTypeOK
  BY DEF PresentationInvariant
<1> QED BY <1>1, AlwaysInvariant, PTL

\* No response discloses anything outside the claims of one alternative of
\* one of the queries it answers, however the frames of its claims merge.
THEOREM DisclosesNothingElse == Spec => []NothingElseDisclosed
<1>1. PresentationInvariant => NothingElseDisclosed
  <2> SUFFICES ASSUME PresentationInvariant, NEW m \in received, NEW a \in m.answer
               PROVE  /\ \E i \in 1..Len(m.request.queries) : a.query = m.request.queries[i]
                      /\ \E n \in 1..Len(Options(a.query)) : AlongOption(a, n)
    BY DEF NothingElseDisclosed
  <2> DEFINE r == m.request
             w == m.wallet
  <2>1. r \in Requests /\ w \in Wallets /\ m.answer = Answer(r, w)
    BY DEF PresentationInvariant, ReceivedOK
  <2> HIDE DEF r, w
  <2>2. PICK i \in Answered(r, w) : a = Presentation(r.queries[i], w)
    BY <2>1 DEF Answer
  <2>3. /\ i \in 1..Len(r.queries) /\ r.queries[i] \in CredentialQuery
        /\ Candidates(r.queries[i], w) # {}
    BY <2>1, AnsweredQueries
  <2>4. a.query = r.queries[i]
    BY <2>2 DEF Presentation
  <2>5. \E n \in 1..Len(Options(r.queries[i])) : AlongOption(a, n)
    BY <2>1, <2>2, <2>3, PresentationDiscloses
  <2> QED BY <2>3, <2>4, <2>5 DEF r
<1> QED BY <1>1, AlwaysInvariant, PTL

\* The presentation for a query is one that the relying party can accept:
\* of a type it asked for, with all the claims of an alternative, although
\* the credential is looked up by its type and frames are merged.
THEOREM AnswersItsQueries == Spec => []QueriesAnswered
<1>1. PresentationInvariant => QueriesAnswered
  <2> SUFFICES ASSUME PresentationInvariant, NEW m \in received, NEW a \in m.answer,
                      Unambiguous(m.wallet), Shallow(a.query.paths)
               PROVE  AnswersQuery(a)
    BY DEF QueriesAnswered
  <2> DEFINE r == m.request
             w == m.wallet
  <2>1. /\ r \in Requests /\ w \in Wallets /\ m.answer = Answer(r, w)
        /\ Unambiguous(w)
    BY DEF PresentationInvariant, ReceivedOK
  <2> HIDE DEF r, w
  <2>2. PICK i \in Answered(r, w) : a = Presentation(r.queries[i], w)
    BY <2>1 DEF Answer
  <2>3. r.queries[i] \in CredentialQuery /\ Candidates(r.queries[i], w) # {}
    BY <2>1, AnsweredQueries
  <2>4. a.query = r.queries[i]
    BY <2>2 DEF Presentation
  <2> QED BY <2>1, <2>2, <2>3, <2>4, PresentationAnswers
<1> QED BY <1>1, AlwaysInvariant, PTL

\* A response is sent only if it answers every query of its request, or an
\* option of each credential set that the request requires.
THEOREM AnswersWhatIsRequired == Spec => []RequiredAnswered
<1>1. PresentationInvariant => RequiredAnswered
  <2> SUFFICES ASSUME PresentationInvariant, NEW m \in received
               PROVE  IF m.request.sets = {}
                      THEN \A i \in 1..Len(m.request.queries) :
                             \E a \in m.answer : a.query = m.request.queries[i]
                      ELSE \A s \in m.request.sets : s.required =>
                             \E o \in s.options : \A i \in o :
                               \E a \in m.answer : a.query = m.request.queries[i]
    BY DEF RequiredAnswered
  <2> DEFINE r == m.request
             w == m.wallet
  <2>1. m.answer = Answer(r, w) /\ CanBeSatisfied(r, w)
    BY DEF PresentationInvariant, ReceivedOK
  <2>2. \A i \in Answered(r, w) : \E a \in m.answer : a.query = r.queries[i]
    <3> TAKE i \in Answered(r, w)
    <3>1. Presentation(r.queries[i], w) \in m.answer
      BY <2>1 DEF Answer
    <3>2. Presentation(r.queries[i], w).query = r.queries[i]
      BY DEF Presentation
    <3> QED BY <3>1, <3>2
  <2> HIDE DEF w
  <2> QED BY <2>1, <2>2 DEF CanBeSatisfied
<1> QED BY <1>1, AlwaysInvariant, PTL
=============================================================================
