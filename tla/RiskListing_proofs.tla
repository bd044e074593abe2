------------------------- MODULE RiskListing_proofs -------------------------
(***************************************************************************)
(* Proofs about RiskListing: the tables keep their invariant while         *)
(* listings go on, a page shows no risk its caller may not see, and what   *)
(* a client that follows the pages to the end has seen.                    *)
(***************************************************************************)
EXTENDS RiskListing, RiskApi_proofs, FiniteSetTheorems

-----------------------------------------------------------------------------
(* Finite sets of integers: a least and a greatest element, ranks.         *)

LEMMA Least ==
  ASSUME NEW S \in SUBSET Int, IsFiniteSet(S), S # {}
  PROVE  \E x \in S : \A y \in S : x <= y
  <1> DEFINE Upto(x) == {y \in S : y <= x}
             F == {T \in SUBSET S : \E x \in S : T = Upto(x)}
  <1>1. F \subseteq FiniteSubsetsOf(S) /\ F # {}
    <2>1. \A T \in F : T \in SUBSET S /\ IsFiniteSet(T)
      BY FS_Subset
    <2>2. PICK x \in S : TRUE
      OBVIOUS
    <2>3. Upto(x) \in F
      OBVIOUS
    <2> HIDE DEF F
    <2> QED
      BY <2>1, <2>3 DEF FiniteSubsetsOf
  <1>2. PICK T \in F :
          \A U \in F : ~(<<U, T>> \in StrictSubsetOrdering(S))
    <2> HIDE DEF F
    <2> QED
      BY <1>1, FS_StrictSubsetOrderingWellFounded, WFMin
  <1>3. PICK x \in S : T = Upto(x)
    OBVIOUS
  <1>4. ASSUME NEW y \in S, ~(x <= y) PROVE FALSE
    <2>1. Upto(y) \in F /\ Upto(y) \subseteq T /\ x \in T /\ x \notin Upto(y)
      <3>1. y <= x /\ \A z \in S : z \in Int
        BY <1>4
      <3>2. Upto(y) \in F
        OBVIOUS
      <3> HIDE DEF F
      <3>3. Upto(y) \subseteq Upto(x)
        <4>1. ASSUME NEW z \in S, z <= y PROVE z <= x
          BY <3>1, <4>1
        <4> QED
          BY <4>1
      <3>4. x \in Upto(x) /\ x \notin Upto(y)
        BY <1>4, <3>1
      <3> HIDE DEF Upto
      <3> QED
        BY <1>3, <3>2, <3>3, <3>4
    <2>2. Upto(y) # T /\ T \in SUBSET S /\ Upto(y) \in SUBSET S
      BY <2>1
    <2> DEFINE V == Upto(y)
    <2>3. V \in F /\ V # T /\ V \subseteq T /\ V \in SUBSET S
      BY <2>1, <2>2
    <2> HIDE DEF V, F
    <2>4. <<V, T>> \in StrictSubsetOrdering(S)
      BY <2>2, <2>3 DEF StrictSubsetOrdering
    <2> QED
      BY <1>2, <2>3, <2>4
  <1> QED
    BY <1>4

LEMMA Greatest ==
  ASSUME NEW S \in SUBSET Int, IsFiniteSet(S), S # {}
  PROVE  \E x \in S : \A y \in S : y <= x
  <1> DEFINE Downto(x) == {y \in S : x <= y}
             F == {T \in SUBSET S : \E x \in S : T = Downto(x)}
  <1>1. F \subseteq FiniteSubsetsOf(S) /\ F # {}
    <2>1. \A T \in F : T \in SUBSET S /\ IsFiniteSet(T)
      BY FS_Subset
    <2>2. PICK x \in S : TRUE
      OBVIOUS
    <2>3. Downto(x) \in F
      OBVIOUS
    <2> HIDE DEF F
    <2> QED
      BY <2>1, <2>3 DEF FiniteSubsetsOf
  <1>2. PICK T \in F :
          \A U \in F : ~(<<U, T>> \in StrictSubsetOrdering(S))
    <2> HIDE DEF F
    <2> QED
      BY <1>1, FS_StrictSubsetOrderingWellFounded, WFMin
  <1>3. PICK x \in S : T = Downto(x)
    OBVIOUS
  <1>4. ASSUME NEW y \in S, ~(y <= x) PROVE FALSE
    <2>1. Downto(y) \in F /\ Downto(y) \subseteq T /\ x \in T
          /\ x \notin Downto(y)
      <3>1. x <= y /\ \A z \in S : z \in Int
        BY <1>4
      <3>2. Downto(y) \in F
        OBVIOUS
      <3> HIDE DEF F
      <3>3. Downto(y) \subseteq Downto(x)
        <4>1. ASSUME NEW z \in S, y <= z PROVE x <= z
          BY <3>1, <4>1
        <4> QED
          BY <4>1
      <3>4. x \in Downto(x) /\ x \notin Downto(y)
        BY <1>4, <3>1
      <3> HIDE DEF Downto
      <3> QED
        BY <1>3, <3>2, <3>3, <3>4
    <2>2. Downto(y) # T /\ T \in SUBSET S /\ Downto(y) \in SUBSET S
      BY <2>1
    <2> DEFINE V == Downto(y)
    <2>3. V \in F /\ V # T /\ V \subseteq T /\ V \in SUBSET S
      BY <2>1, <2>2
    <2> HIDE DEF V, F
    <2>4. <<V, T>> \in StrictSubsetOrdering(S)
      BY <2>2, <2>3 DEF StrictSubsetOrdering
    <2> QED
      BY <1>2, <2>3, <2>4
  <1> QED
    BY <1>4

(* A row ranks between 1 and their number, and no lower among more rows.   *)
LEMMA RankType ==
  ASSUME NEW rows \in SUBSET Int, IsFiniteSet(rows), NEW i
  PROVE  /\ Rank(i, rows) \in Nat /\ Rank(i, rows) <= Cardinality(rows)
         /\ Cardinality(rows) \in Nat
         /\ i \in rows => Rank(i, rows) >= 1
  <1> DEFINE upto == {j \in rows : j <= i}
  <1>1. IsFiniteSet(upto) /\ Cardinality(upto) <= Cardinality(rows)
    BY FS_Subset
  <1>2. Cardinality(upto) \in Nat /\ Cardinality(rows) \in Nat
    BY <1>1, FS_CardinalityType
  <1>3. i \in rows => Cardinality(upto) # 0
    <2>1. i \in rows => i \in upto
      OBVIOUS
    <2> QED
      BY <1>1, <2>1, FS_EmptySet
  <1> QED
    BY <1>1, <1>2, <1>3 DEF Rank

LEMMA RankGrows ==
  ASSUME NEW more \in SUBSET Int, IsFiniteSet(more),
         NEW rows \in SUBSET more, NEW i
  PROVE  /\ IsFiniteSet(rows) /\ Cardinality(rows) <= Cardinality(more)
         /\ Rank(i, rows) <= Rank(i, more)
  <1>1. IsFiniteSet({j \in more : j <= i})
    BY FS_Subset
  <1>2. {j \in rows : j <= i} \in SUBSET {j \in more : j <= i}
    OBVIOUS
  <1>3. Cardinality({j \in rows : j <= i}) <= Cardinality({j \in more : j <= i})
    BY <1>1, <1>2, FS_Subset
  <1> QED
    BY <1>3, FS_Subset DEF Rank

(* Ranks leave no gap: there is a row for each place up to their number.   *)
LEMMA NextRank ==
  ASSUME NEW rows \in SUBSET Int, IsFiniteSet(rows),
         NEW k \in Nat, k < Cardinality(rows)
  PROVE  \E i \in rows : k < Rank(i, rows) /\ Rank(i, rows) <= k + 1
  <1> DEFINE low == {i \in rows : Rank(i, rows) <= k}
  <1>1. /\ IsFiniteSet(low) /\ low \in SUBSET Int
        /\ IsFiniteSet(rows \ low) /\ rows \ low \in SUBSET Int
    BY FS_Subset
  <1>2. \A i : Rank(i, rows) \in Nat
    BY RankType
  <1>3. Cardinality(low) \in Nat /\ Cardinality(low) <= k
    <2>1. CASE low = {}
      BY <2>1, FS_EmptySet
    <2>2. CASE low # {}
      <3> HIDE DEF low
      <3>1. PICK m \in low : \A y \in low : y <= m
        BY <1>1, <2>2, Greatest
      <3> USE DEF low
      <3>2. low \in SUBSET {j \in rows : j <= m}
        BY <3>1
      <3>3. IsFiniteSet({j \in rows : j <= m})
        BY FS_Subset
      <3>4. Cardinality(low) <= Rank(m, rows)
        BY <3>2, <3>3, FS_Subset DEF Rank
      <3> QED
        BY <1>1, <1>2, <3>1, <3>4, FS_CardinalityType
    <2> QED
      BY <2>1, <2>2
  <1>4. rows \ low # {}
    <2>1. rows # {}
      BY FS_EmptySet
    <2>2. PICK m \in rows : \A y \in rows : y <= m
      BY <2>1, Greatest
    <2>3. {j \in rows : j <= m} = rows
      BY <2>2
    <2>4. Rank(m, rows) = Cardinality(rows)
      BY <2>3 DEF Rank
    <2> QED
      BY <1>2, <2>2, <2>4, RankType
  <1>5. PICK i \in rows \ low : \A y \in rows \ low : i <= y
    <2> HIDE DEF low
    <2> QED
      BY <1>1, <1>4, Least
  <1>6. {j \in rows : j <= i} \in SUBSET (low \cup {i})
    <2> HIDE DEF low
    <2>1. ASSUME NEW j \in rows, j <= i, j \notin low PROVE j = i
      <3>1. j \in Int /\ i \in Int /\ i <= j
        BY <1>5, <2>1
      <3> QED
        BY <2>1, <3>1
    <2> QED
      BY <2>1
  <1>7. IsFiniteSet(low \cup {i}) /\ Cardinality(low \cup {i}) <= k + 1
    <2> HIDE DEF low
    <2>1. /\ IsFiniteSet(low \cup {i})
          /\ Cardinality(low \cup {i}) =
                IF i \in low THEN Cardinality(low) ELSE Cardinality(low) + 1
      BY <1>1, FS_AddElement
    <2> QED
      BY <1>3, <2>1
  <1>8. Rank(i, rows) <= k + 1
    <2>1. Cardinality(low \cup {i}) \in Nat
      BY <1>7, FS_CardinalityType
    <2>2. Rank(i, rows) <= Cardinality(low \cup {i})
      BY <1>6, <1>7, FS_Subset DEF Rank
    <2> QED
      BY <1>2, <1>7, <2>1, <2>2
  <1> QED
    BY <1>2, <1>5, <1>8

-----------------------------------------------------------------------------
(* The tables, while listings go on.                                       *)

(* A step is one of RiskApi with the listings watching, or leaves the      *)
(* risks as they are.                                                      *)
LEMMA ListSteps ==
  ASSUME ListNext
  PROVE  \/ Next /\ Meanwhile
         \/ \E c \in Clients : /\ \/ UNCHANGED vars
                                  \/ \E code : Refuse(c, code)
                               /\ UNCHANGED risks
                               /\ \/ UNCHANGED walk
                                  \/ \E t \in Holds[c], a \in Queries[c] :
                                        StartList(c, t, a)
                                  \/ ListPage(c)
  <1>1. CASE \E c \in Clients : ClientStep(c) /\ Meanwhile
    BY <1>1 DEF Next
  <1>2. CASE WorkerStep /\ Meanwhile
    BY <1>2 DEF Next
  <1>3. CASE \E c \in Clients : ListPage(c)
    BY <1>3 DEF ListPage, vars, tables
  <1>4. ASSUME NEW c \in Clients, NEW t \in Holds[c], NEW a \in Queries[c],
               StartList(c, t, a)
        PROVE  /\ (UNCHANGED vars) \/ \E code : Refuse(c, code)
               /\ UNCHANGED risks
    BY <1>4 DEF StartList, Refuse, vars, tables
  <1> QED
    BY <1>1, <1>2, <1>3, <1>4 DEF ListNext

LEMMA ListStepInv ==
  ASSUME IInv, [ListNext]_listVars
  PROVE  IInv'
  <1>1. CASE ListNext
    BY <1>1, ListSteps, StepInv, RefuseOnly
  <1> QED
    BY <1>1, StepInv DEF listVars

(* Requests and workers keep the tables in order while clients page        *)
(* through listings.                                                       *)
THEOREM ListingInvariance == ListSpec => []IInv
  <1>1. ListInit => IInv
    BY InitInv DEF ListInit
  <1>2. IInv /\ [ListNext]_listVars => IInv'
    BY ListStepInv
  <1> QED
    BY <1>1, <1>2, PTL DEF ListSpec

(* While clients list, risks are still of types that exist, and a caller   *)
(* is told only of risks that are cast.                                    *)
THEOREM ListingKeepsTables == ListSpec => [](References /\ CreatedIsCast)
  <1>1. IInv => References /\ CreatedIsCast
    BY DEF IInv
  <1> QED
    BY <1>1, ListingInvariance, PTL

(* And no listing, refused or not, writes: types and risks are written     *)
(* only in the course of an administrator's request, next to listings too. *)
THEOREM ListingWritesNothing == ListSpec => WritesByAdmin
  <1>1. IInv /\ [ListNext]_listVars =>
          [/\ \A t \in TypeIds : types[t] # NoVal /\ types'[t] # types[t]
                  => ServedFor(t)
           /\ \A i \in RiskIds : risks[i] = NoVal /\ risks'[i] # NoVal
                  => ServedFor(i)]_vars
    <2> SUFFICES ASSUME IInv, [ListNext]_listVars
                 PROVE  [/\ \A t \in TypeIds :
                                types[t] # NoVal /\ types'[t] # types[t]
                                    => ServedFor(t)
                         /\ \A i \in RiskIds :
                                risks[i] = NoVal /\ risks'[i] # NoVal
                                    => ServedFor(i)]_vars
      OBVIOUS
    <2>1. CASE [Next]_vars
      BY <2>1, WriteStep
    <2>2. ASSUME NEW c \in Clients, NEW code, Refuse(c, code)
          PROVE  types' = types /\ risks' = risks
      BY <2>2 DEF Refuse, tables
    <2>3. ASSUME types' = types, risks' = risks
          PROVE  /\ \A t \in TypeIds :
                        types[t] # NoVal /\ types'[t] # types[t]
                            => ServedFor(t)
                 /\ \A i \in RiskIds :
                        risks[i] = NoVal /\ risks'[i] # NoVal
                            => ServedFor(i)
      BY <2>3
    <2>4. [Next]_vars \/ \E c \in Clients : \E code : Refuse(c, code)
      BY ListSteps DEF listVars
    <2> QED
      BY <2>1, <2>2, <2>3, <2>4
  <1> QED
    BY <1>1, ListingInvariance, PTL DEF ListSpec, WritesByAdmin

(* One risk is recorded at a time: there are finitely many.                *)
Recorded == {i \in RiskIds : risks[i] # NoVal}

LEMMA RecordedStep ==
  ASSUME IInv, [Next]_vars
  PROVE  \E x : Recorded' \subseteq Recorded \cup {x}
  <1>1. risks \in [RiskIds -> RowSet \cup {NoVal}]
    BY DEF IInv, TypeOK
  <1>2. ASSUME NEW x, NEW v, risks' = [risks EXCEPT ![x] = v]
        PROVE  Recorded' \subseteq Recorded \cup {x}
    BY <1>1, <1>2 DEF Recorded
  <1>3. CASE UNCHANGED risks
    BY <1>3 DEF Recorded
  <1>4. ASSUME NEW c \in Clients, Progress(c) PROVE
          UNCHANGED risks \/ \E x, v : risks' = [risks EXCEPT ![x] = v]
    BY <1>4
    DEF Progress, PatchCommit, DropType, InsertRisk, CastRisk, RemoveRisk,
        Fail, tables
  <1>5. ASSUME NEW c, NEW t, Request(c, t) PROVE UNCHANGED risks
    <2>1. ASSUME NEW i, ShowType(c, t, i) \/ DeleteType(c, t, i)
          PROVE  UNCHANGED risks
      BY <2>1 DEF ShowType, DeleteType, Refuse, tables
    <2>2. ASSUME NEW i, NEW n, CreateType(c, t, i, n) \/ PatchType(c, t, i, n)
          PROVE  UNCHANGED risks
      BY <2>2 DEF CreateType, PatchType, Refuse, tables
    <2>3. ASSUME NEW i, ShowRisk(c, t, i) \/ DeleteRisk(c, t, i)
          PROVE  UNCHANGED risks
      BY <2>3 DEF ShowRisk, DeleteRisk, Refuse, tables
    <2>4. ASSUME NEW i, NEW b, CreateRisk(c, t, i, b) PROVE UNCHANGED risks
      BY <2>4 DEF CreateRisk, Refuse, tables
    <2> QED
      BY <1>5, <2>1, <2>2, <2>3, <2>4 DEF Request
  <1>6. CASE WorkerStep
    BY <1>2, <1>6 DEF WorkerStep, WorkerAttributes, WorkerRemoves
  <1> QED
    BY <1>2, <1>3, <1>4, <1>5, <1>6 DEF Next, ClientStep, vars, tables

-----------------------------------------------------------------------------
(* The listings.                                                           *)

WalkSet ==
    [by : Tokens \cup {NoVal},
     args : (UNION {Queries[c] : c \in Clients}) \cup {NoVal},
     page : Nat, seen : SUBSET RiskIds, first : SUBSET RiskIds,
     left : BOOLEAN, came : BOOLEAN]

(* The places in the listing that its pages so far have taken.             *)
Span(c) == (walk[c].page - 1) * PerPage(walk[c].args)

(* Unless a row came, what was seen and is still there is on the pages so  *)
(* far; unless one left, there is something on the next page, and what was *)
(* there at first and not seen is yet to come.                             *)
WalkOf(c) ==
    LET w == walk[c]  rows == Matching(c) IN
    /\ w.by \in Holds[c] /\ MayListRisks(w.by)
    /\ w.args \in Queries[c] /\ ~BadLimit(w.args)
    /\ ~w.came => \A i \in w.seen \cap rows : Rank(i, rows) <= Span(c)
    /\ ~w.left /\ w.page # 1 => Span(c) < Cardinality(rows)
    /\ ~w.left => /\ w.first \subseteq rows
                  /\ \A i \in w.first \ w.seen : Span(c) < Rank(i, rows)

WalkOK ==
    /\ walk \in [Clients -> WalkSet]
    /\ IsFiniteSet(Recorded)
    /\ \A c \in Clients : Walking(c) => WalkOf(c)

LEMMA PagesAdd ==
  ASSUME NEW page \in Nat \ {0}, NEW per \in Nat
  PROVE  /\ (page - 1) * per \in Nat
         /\ page * per = (page - 1) * per + per
         /\ (page + 1 - 1) * per = page * per
  OBVIOUS

LEMMA PerPageType ==
  ASSUME NEW c \in Clients, NEW a \in Queries[c], ~BadLimit(a)
  PROVE  PerPage(a) \in Nat \ {0}
  BY ListingAssumption DEF PerPage, BadLimit

LEMMA MatchingFinite ==
  ASSUME IsFiniteSet(Recorded), NEW t, NEW a
  PROVE  /\ IsFiniteSet(Listed(risks, t, a))
         /\ Listed(risks, t, a) \in SUBSET Int
         /\ Listed(risks, t, a) \in SUBSET RiskIds
  <1>1. Listed(risks, t, a) \in SUBSET Recorded
    BY DEF Listed, Recorded
  <1>2. Listed(risks, t, a) \in SUBSET RiskIds
    BY DEF Listed
  <1> QED
    BY <1>1, <1>2, FS_Subset, ListingAssumption

(* What the pages are worth, from the invariant.                           *)
LEMMA WalkPage ==
  ASSUME WalkOK, NEW c \in Clients, Walking(c)
  PROVE  /\ Span(c) \in Nat /\ PerPage(walk[c].args) \in Nat \ {0}
         /\ walk[c].page \in Nat \ {0}
         /\ walk[c].page * PerPage(walk[c].args)
                = Span(c) + PerPage(walk[c].args)
         /\ IsFiniteSet(Matching(c)) /\ Matching(c) \in SUBSET Int
         /\ Cardinality(Matching(c)) \in Nat
         /\ Page(c) = {i \in Matching(c) :
                          /\ Span(c) < Rank(i, Matching(c))
                          /\ Rank(i, Matching(c))
                                <= Span(c) + PerPage(walk[c].args)}
  <1>1. walk[c].page \in Nat \ {0}
    BY DEF WalkOK, WalkSet, Walking
  <1>2. PerPage(walk[c].args) \in Nat \ {0}
    BY PerPageType DEF WalkOK, WalkOf
  <1>3. /\ Span(c) \in Nat
        /\ walk[c].page * PerPage(walk[c].args)
                = Span(c) + PerPage(walk[c].args)
    BY <1>1, <1>2, PagesAdd DEF Span
  <1>4. IsFiniteSet(Matching(c)) /\ Matching(c) \in SUBSET Int
    BY MatchingFinite DEF WalkOK, Matching
  <1>5. Cardinality(Matching(c)) \in Nat
    BY <1>4, FS_CardinalityType
  <1>6. Page(c) = {i \in Matching(c) :
                      /\ Span(c) < Rank(i, Matching(c))
                      /\ Rank(i, Matching(c))
                            <= Span(c) + PerPage(walk[c].args)}
    BY <1>3 DEF Page, PageOf, Span
  <1> QED
    BY <1>1, <1>2, <1>3, <1>4, <1>5, <1>6

LEMMA WalkIsFaithful ==
  ASSUME WalkOK, NEW c \in Clients, Walking(c)
  PROVE  /\ ~walk[c].came => Page(c) \cap walk[c].seen = {}
         /\ NotFound(c) => walk[c].left
         /\ \/ walk[c].left \/ HasNext(c)
            \/ walk[c].first \subseteq walk[c].seen \cup Page(c)
  <1> DEFINE rows == Matching(c)  k == Span(c)  per == PerPage(walk[c].args)
             n == Cardinality(rows)
  <1>1. /\ k \in Nat /\ per \in Nat \ {0} /\ n \in Nat
        /\ IsFiniteSet(rows) /\ rows \in SUBSET Int
        /\ walk[c].page * per = k + per
        /\ Page(c) = {i \in rows : k < Rank(i, rows) /\ Rank(i, rows) <= k + per}
    BY WalkPage
  <1>2. \A i : Rank(i, rows) \in Nat /\ Rank(i, rows) <= n
    BY <1>1, RankType
  <1>3. WalkOf(c)
    BY DEF WalkOK
  <1>4. /\ ~walk[c].came => \A i \in walk[c].seen \cap rows : Rank(i, rows) <= k
        /\ ~walk[c].left /\ walk[c].page # 1 => k < n
        /\ ~walk[c].left => /\ walk[c].first \subseteq rows
                            /\ \A i \in walk[c].first \ walk[c].seen :
                                  k < Rank(i, rows)
    BY <1>3 DEF WalkOf
  <1>5. HasNext(c) <=> k + per < n
    BY <1>1 DEF HasNext
  <1> HIDE DEF rows, k, per, n
  <1>6. ~walk[c].came => Page(c) \cap walk[c].seen = {}
    BY <1>1, <1>2, <1>4
  <1>7. ASSUME NotFound(c), ~walk[c].left PROVE FALSE
    <2>1. Page(c) = {} /\ k < n
      BY <1>4, <1>7 DEF NotFound
    <2>2. PICK i \in rows : k < Rank(i, rows) /\ Rank(i, rows) <= k + 1
      BY <1>1, <2>1, NextRank DEF n
    <2>3. i \in Page(c)
      BY <1>1, <1>2, <2>2
    <2> QED
      BY <2>1, <2>3
  <1>8. ASSUME ~walk[c].left, ~HasNext(c),
               NEW i \in walk[c].first, i \notin walk[c].seen
        PROVE  i \in Page(c)
    <2>1. i \in rows /\ k < Rank(i, rows) /\ n <= k + per
      BY <1>1, <1>4, <1>5, <1>8
    <2>2. Rank(i, rows) <= k + per
      BY <1>1, <1>2, <2>1
    <2> QED
      BY <1>1, <2>1, <2>2
  <1> QED
    BY <1>6, <1>7, <1>8

LEMMA PageIsOwn ==
  ASSUME WalkOK, NEW c \in Clients, Walking(c), NEW i \in Page(c)
  PROVE  \/ walk[c].by.scope = "project"
                /\ risks[i].project = walk[c].by.project
         \/ AnyProjectReader(walk[c].by)
  <1> DEFINE t == walk[c].by  a == walk[c].args
  <1>1. t \in Tokens /\ MayListRisks(t)
    BY ClientsAssumption DEF WalkOK, WalkOf
  <1>2. risks[i].project \in RiskScope(t, a)
    BY DEF Page, PageOf, Matching, Listed
  <1>3. (t.scope = "project") <=> (t.project # NoVal)
    BY <1>1, TokensAssumption
  <1> HIDE DEF t, a
  <1>4. MayListAllRisks(t) => AnyProjectReader(t)
    BY DEF MayListAllRisks, RiskRule
  <1>5. t.scope = "system" => MayListAllRisks(t)
    BY <1>1 DEF MayListRisks, MayList
  <1>6. t.scope # "system" => t.project # NoVal
    BY <1>1 DEF MayListRisks, MayList
  <1>7. ASSUME t.scope # "system", ~MayListAllRisks(t)
        PROVE  risks[i].project = t.project
    BY <1>2, <1>7 DEF RiskScope, ListScope
  <1>8. \/ AnyProjectReader(t)
        \/ t.scope = "project" /\ risks[i].project = t.project
    BY <1>3, <1>4, <1>5, <1>6, <1>7
  <1> QED
    BY <1>8 DEF t

-----------------------------------------------------------------------------
(* The steps.                                                              *)

LEMMA WatchStep ==
  ASSUME IInv, WalkOK, [Next]_vars, Meanwhile
  PROVE  WalkOK'
  <1>1. IsFiniteSet(Recorded')
    <2>1. PICK x : Recorded' \subseteq Recorded \cup {x}
      BY RecordedStep
    <2>2. IsFiniteSet(Recorded \cup {x})
      BY FS_AddElement DEF WalkOK
    <2> QED
      BY <2>1, <2>2, FS_Subset
  <1>2. ASSUME NEW c \in Clients, Walking(c)
        PROVE  /\ walk'[c] \in WalkSet
               /\ walk'[c].by = walk[c].by /\ walk'[c].args = walk[c].args
               /\ walk'[c].page = walk[c].page /\ walk'[c].seen = walk[c].seen
               /\ walk'[c].first = walk[c].first
               /\ ~walk'[c].left =>
                    ~walk[c].left /\ Matching(c) \subseteq Matching(c)'
               /\ ~walk'[c].came =>
                    ~walk[c].came /\ Matching(c)' \subseteq Matching(c)
    <2> DEFINE w == walk[c]  later == Listed(risks', w.by, w.args)
               left == w.left \/ ~(Matching(c) \subseteq later)
               came == w.came \/ ~(later \subseteq Matching(c))
    <2>1. walk'[c] = [w EXCEPT !.left = left, !.came = came]
      BY <1>2 DEF Meanwhile, Watched
    <2>2. w \in WalkSet
      BY DEF WalkOK
    <2>3. left \in BOOLEAN /\ came \in BOOLEAN
      BY <2>2 DEF WalkSet
    <2> HIDE DEF left, came
    <2>4. /\ walk'[c] \in WalkSet
          /\ walk'[c].by = walk[c].by /\ walk'[c].args = walk[c].args
          /\ walk'[c].page = walk[c].page /\ walk'[c].seen = walk[c].seen
          /\ walk'[c].first = walk[c].first
          /\ walk'[c].left = left /\ walk'[c].came = came
      BY <2>1, <2>2, <2>3 DEF WalkSet
    <2>5. Matching(c)' = later
      BY <2>4 DEF Matching
    <2> QED
      BY <2>4, <2>5 DEF left, came
  <1>3. ASSUME NEW c \in Clients, ~Walking(c) PROVE walk'[c] = walk[c]
    BY <1>3 DEF Meanwhile
  <1>4. walk' \in [Clients -> WalkSet]
    <2>1. \A c \in Clients : walk'[c] \in WalkSet
      BY <1>2, <1>3 DEF WalkOK
    <2>2. walk' = [c \in Clients |-> IF Walking(c) THEN Watched(c) ELSE walk[c]]
      BY DEF Meanwhile
    <2> QED
      BY <2>1, <2>2
  <1>5. ASSUME NEW c \in Clients, Walking(c)' PROVE WalkOf(c)'
    <2>1. Walking(c)
      BY <1>3, <1>5 DEF Walking
    <2>2. WalkOf(c)
      BY <2>1 DEF WalkOK
    <2> DEFINE rows == Matching(c)  now == Matching(c)'
    <2>3. /\ IsFiniteSet(rows) /\ rows \in SUBSET Int
          /\ Cardinality(rows) \in Nat /\ Span(c) \in Nat
      BY <2>1, WalkPage
    <2>4. IsFiniteSet(now) /\ now \in SUBSET Int
      <3>1. now = Listed(risks', walk'[c].by, walk'[c].args)
        BY DEF Matching
      <3>2. now \in SUBSET Recorded' /\ now \in SUBSET RiskIds
        BY <3>1 DEF Listed, Recorded
      <3> HIDE DEF now
      <3> QED
        BY <1>1, <3>2, FS_Subset, ListingAssumption
    <2>5. /\ Span(c)' = Span(c)
          /\ walk'[c].by = walk[c].by /\ walk'[c].args = walk[c].args
          /\ walk'[c].page = walk[c].page /\ walk'[c].seen = walk[c].seen
          /\ walk'[c].first = walk[c].first
      BY <1>2, <2>1 DEF Span
    <2>6. /\ ~walk'[c].left => ~walk[c].left /\ rows \subseteq now
          /\ ~walk'[c].came => ~walk[c].came /\ now \subseteq rows
      BY <1>2, <2>1
    <2>7. /\ ~walk[c].came =>
                \A i \in walk[c].seen \cap rows : Rank(i, rows) <= Span(c)
          /\ ~walk[c].left /\ walk[c].page # 1 => Span(c) < Cardinality(rows)
          /\ ~walk[c].left => /\ walk[c].first \subseteq rows
                              /\ \A i \in walk[c].first \ walk[c].seen :
                                    Span(c) < Rank(i, rows)
      BY <2>2 DEF WalkOf
    <2> HIDE DEF rows, now
    <2>8. \A i : Rank(i, rows) \in Nat /\ Rank(i, now) \in Nat
      BY <2>3, <2>4, RankType
    <2>9. ASSUME ~walk'[c].came, NEW i \in walk[c].seen \cap now
          PROVE  Rank(i, now) <= Span(c)
      <3>1. i \in walk[c].seen \cap rows /\ now \in SUBSET rows
        BY <2>6, <2>9
      <3>2. Rank(i, now) <= Rank(i, rows)
        BY <2>3, <3>1, RankGrows
      <3>3. Rank(i, rows) <= Span(c)
        BY <2>6, <2>7, <2>9, <3>1
      <3> QED
        BY <2>3, <2>8, <3>2, <3>3
    <2>10. ASSUME ~walk'[c].left PROVE rows \in SUBSET now
      BY <2>6, <2>10
    <2>11. ASSUME ~walk'[c].left, walk[c].page # 1
           PROVE  Span(c) < Cardinality(now)
      <3>1. Cardinality(rows) <= Cardinality(now) /\ Cardinality(now) \in Nat
        BY <2>4, <2>10, <2>11, RankGrows, FS_CardinalityType
      <3> QED
        BY <2>3, <2>6, <2>7, <2>11, <3>1
    <2>12. ASSUME ~walk'[c].left
           PROVE  /\ walk[c].first \subseteq now
                  /\ \A i \in walk[c].first \ walk[c].seen :
                        Span(c) < Rank(i, now)
      <3>1. \A i : Rank(i, rows) <= Rank(i, now)
        BY <2>4, <2>10, <2>12, RankGrows
      <3>2. /\ walk[c].first \subseteq rows /\ rows \subseteq now
            /\ \A i \in walk[c].first \ walk[c].seen : Span(c) < Rank(i, rows)
        BY <2>6, <2>7, <2>12
      <3>3. ASSUME NEW i \in walk[c].first \ walk[c].seen
            PROVE  Span(c) < Rank(i, now)
        BY <2>3, <2>8, <3>1, <3>2
      <3> QED
        BY <3>2, <3>3
    <2>13. /\ walk[c].by \in Holds[c] /\ MayListRisks(walk[c].by)
           /\ walk[c].args \in Queries[c] /\ ~BadLimit(walk[c].args)
      BY <2>2 DEF WalkOf
    <2> QED
      BY <2>5, <2>9, <2>11, <2>12, <2>13 DEF WalkOf, now
  <1> QED
    BY <1>1, <1>4, <1>5 DEF WalkOK

(* A listing ends, begins or goes on; the others are as they were.         *)
LEMMA OneWalk ==
  ASSUME WalkOK, UNCHANGED risks, NEW c \in Clients, NEW w \in WalkSet,
         walk' = [walk EXCEPT ![c] = w], w.page # 0 => WalkOf(c)'
  PROVE  WalkOK'
  <1>1. walk' \in [Clients -> WalkSet]
    BY DEF WalkOK
  <1>2. walk'[c] = w /\ \A d \in Clients : d # c => walk'[d] = walk[d]
    BY DEF WalkOK
  <1>3. Recorded' = Recorded
    BY DEF Recorded
  <1>4. ASSUME NEW d \in Clients, d # c, Walking(d)' PROVE WalkOf(d)'
    <2>1. walk'[d] = walk[d] /\ WalkOf(d)
      BY <1>2, <1>4 DEF WalkOK, Walking
    <2>2. Matching(d)' = Matching(d) /\ Span(d)' = Span(d)
      BY <2>1 DEF Matching, Listed, Span
    <2> QED
      BY <2>1, <2>2 DEF WalkOf
  <1>5. Walking(c)' => WalkOf(c)'
    BY <1>2 DEF Walking
  <1> QED
    BY <1>1, <1>3, <1>4, <1>5 DEF WalkOK

LEMMA NoWalkType == NoWalk \in WalkSet /\ NoWalk.page = 0
  BY DEF NoWalk, WalkSet

LEMMA StartStep ==
  ASSUME WalkOK, UNCHANGED risks, NEW c \in Clients, NEW t \in Holds[c],
         NEW a \in Queries[c], StartList(c, t, a)
  PROVE  WalkOK'
  <1>1. CASE UNCHANGED walk
    BY <1>1
    DEF WalkOK, Recorded, Walking, WalkOf, Matching, Listed, Span
  <1>2. CASE walk' # walk
    <2> DEFINE rows == Listed(risks, t, a)
               w == [NoWalk EXCEPT !.by = t, !.args = a, !.page = 1,
                                   !.first = rows]
    <2>1. /\ MayListRisks(t) /\ ~BadLimit(a)
          /\ walk' = [walk EXCEPT ![c] = w]
      BY <1>2 DEF StartList
    <2>2. rows \in SUBSET RiskIds /\ IsFiniteSet(rows) /\ rows \in SUBSET Int
      BY MatchingFinite DEF WalkOK
    <2>3. t \in Tokens
      BY ClientsAssumption
    <2> HIDE DEF rows
    <2>4. a \in UNION {Queries[d] : d \in Clients}
      OBVIOUS
    <2>5. w \in WalkSet
      BY <2>2, <2>3, <2>4 DEF NoWalk, WalkSet
    <2>6. /\ w.by = t /\ w.args = a /\ w.page = 1 /\ w.seen = {}
          /\ w.first = rows
      BY DEF NoWalk
    <2> HIDE DEF w
    <2>7. walk'[c] = w
      BY <2>1 DEF WalkOK
    <2>8. Matching(c)' = rows
      BY <2>6, <2>7 DEF Matching, rows, Listed
    <2>9. Span(c)' = 0
      <3>1. PerPage(a) \in Nat
        BY <2>1, PerPageType
      <3> QED
        BY <2>6, <2>7, <3>1 DEF Span
    <2>10. \A i \in rows : 0 < Rank(i, rows)
      BY <2>2, RankType
    <2>11. WalkOf(c)'
      BY <2>1, <2>6, <2>7, <2>8, <2>9, <2>10 DEF WalkOf
    <2> QED
      BY <2>1, <2>5, <2>11, OneWalk
  <1> QED
    BY <1>1, <1>2

(* The next page of a listing is again a listing.                          *)
LEMMA NextPageType ==
  ASSUME NEW w \in WalkSet, NEW n \in Nat, NEW s \in SUBSET RiskIds
  PROVE  [w EXCEPT !.page = n, !.seen = s] \in WalkSet
  BY DEF WalkSet

LEMMA PageStep ==
  ASSUME WalkOK, UNCHANGED risks, NEW c \in Clients, ListPage(c)
  PROVE  WalkOK'
  <1>1. Walking(c)
    BY DEF ListPage
  <1>2. CASE ~(~NotFound(c) /\ HasNext(c))
    <2>1. walk' = [walk EXCEPT ![c] = NoWalk]
      BY <1>2 DEF ListPage, WalkOK
    <2> QED
      BY <2>1, NoWalkType, OneWalk
  <1>3. CASE ~NotFound(c) /\ HasNext(c)
    <2> DEFINE w == [walk[c] EXCEPT !.page = @ + 1, !.seen = @ \cup Page(c)]
               rows == Matching(c)  k == Span(c)
               per == PerPage(walk[c].args)
    <2>1. walk' = [walk EXCEPT ![c] = w]
      BY <1>3 DEF ListPage, WalkOK
    <2>2. walk[c] \in WalkSet /\ WalkOf(c)
      BY <1>1 DEF WalkOK
    <2>3. /\ k \in Nat /\ per \in Nat \ {0} /\ IsFiniteSet(rows)
          /\ rows \in SUBSET Int /\ walk[c].page \in Nat \ {0}
          /\ walk[c].page * per = k + per
          /\ Page(c) = {i \in rows :
                          k < Rank(i, rows) /\ Rank(i, rows) <= k + per}
      BY <1>1, WalkPage
    <2>4. Page(c) \in SUBSET RiskIds
      BY DEF Page, PageOf, Matching, Listed
    <2>5. /\ w \in WalkSet /\ w.by = walk[c].by /\ w.args = walk[c].args
          /\ w.page = walk[c].page + 1 /\ w.seen = walk[c].seen \cup Page(c)
          /\ w.first = walk[c].first
          /\ w.left = walk[c].left /\ w.came = walk[c].came
      <3>1. /\ walk[c].page + 1 \in Nat
            /\ walk[c].seen \cup Page(c) \in SUBSET RiskIds
        BY <2>2, <2>3, <2>4 DEF WalkSet
      <3>2. w \in WalkSet
        BY <2>2, <3>1, NextPageType
      <3>3. /\ w.by = walk[c].by /\ w.args = walk[c].args
            /\ w.page = walk[c].page + 1
            /\ w.seen = walk[c].seen \cup Page(c)
            /\ w.first = walk[c].first
        BY <2>2 DEF WalkSet
      <3>4. w.left = walk[c].left /\ w.came = walk[c].came
        BY <2>2 DEF WalkSet
      <3> QED
        BY <3>2, <3>3, <3>4
    <2> HIDE DEF w
    <2>6. walk'[c] = w
      BY <2>1 DEF WalkOK
    <2>7. Matching(c)' = rows
      BY <2>5, <2>6 DEF Matching, Listed
    <2>8. Span(c)' = k + per
      <3>1. (walk[c].page + 1 - 1) * per = walk[c].page * per
        BY <2>3, PagesAdd
      <3> QED
        BY <2>3, <2>5, <2>6, <3>1 DEF Span
    <2>9. \A i : Rank(i, rows) \in Nat
      BY <2>3, RankType
    <2>10. /\ walk[c].by \in Holds[c] /\ MayListRisks(walk[c].by)
           /\ walk[c].args \in Queries[c] /\ ~BadLimit(walk[c].args)
           /\ ~walk[c].came =>
                \A i \in walk[c].seen \cap rows : Rank(i, rows) <= k
           /\ ~walk[c].left =>
                /\ walk[c].first \subseteq rows
                /\ \A i \in walk[c].first \ walk[c].seen : k < Rank(i, rows)
      BY <2>2 DEF WalkOf
    <2>11. k + per < Cardinality(rows)
      BY <1>3, <2>3 DEF HasNext
    <2> HIDE DEF rows, k, per
    <2>12. ASSUME ~w.came, NEW i \in w.seen \cap rows
           PROVE  Rank(i, rows) <= k + per
      <3>1. Rank(i, rows) <= k \/ i \in Page(c)
        BY <2>5, <2>10, <2>12
      <3> QED
        BY <2>3, <2>9, <3>1
    <2>13. ASSUME ~w.left
           PROVE  /\ w.first \subseteq rows
                  /\ \A i \in w.first \ w.seen : k + per < Rank(i, rows)
      BY <2>3, <2>5, <2>9, <2>10, <2>13
    <2>14. WalkOf(c)'
      BY <2>5, <2>6, <2>7, <2>8, <2>10, <2>11, <2>12, <2>13 DEF WalkOf
    <2> QED
      BY <2>1, <2>5, <2>14, OneWalk
  <1> QED
    BY <1>2, <1>3

LEMMA WalkInv ==
  ASSUME IInv, WalkOK, [ListNext]_listVars
  PROVE  WalkOK'
  <1>1. ASSUME UNCHANGED <<risks, walk>> PROVE WalkOK'
    BY <1>1 DEF WalkOK, Recorded, Walking, WalkOf, Matching, Listed, Span
  <1>2. CASE UNCHANGED listVars
    BY <1>1, <1>2 DEF listVars, vars, tables
  <1>3. CASE ListNext
    BY <1>1, <1>3, ListSteps, WatchStep, StartStep, PageStep
  <1> QED
    BY <1>2, <1>3

LEMMA WalkInvariance == ListSpec => []WalkOK
  <1>1. ListInit => WalkOK
    <2> SUFFICES ASSUME ListInit PROVE WalkOK
      OBVIOUS
    <2>1. Recorded = {}
      BY DEF ListInit, Init, Recorded
    <2>2. walk \in [Clients -> WalkSet] /\ \A c \in Clients : ~Walking(c)
      BY NoWalkType DEF ListInit, Walking
    <2> QED
      BY <2>1, <2>2, FS_EmptySet DEF WalkOK
  <1>2. IInv /\ WalkOK /\ [ListNext]_listVars => WalkOK'
    BY WalkInv
  <1> QED
    BY <1>1, <1>2, ListingInvariance, PTL DEF ListSpec

(* Unless a row comes or leaves meanwhile, the pages of a listing repeat   *)
(* none, do not end before the last and miss none, whatever the number of  *)
(* risks, the limit and the ids that other requests and workers take.      *)
THEOREM ListingFaithful == ListSpec => WalkFaithful
  <1> DEFINE Faithful ==
        \A c \in Clients : Listing(c) =>
            LET seen == walk[c].seen  page == Page(c) IN
            /\ ~walk[c].came => page \cap seen = {}
            /\ NotFound(c) => walk[c].left
            /\ walk[c].left \/ HasNext(c) \/ walk[c].first \subseteq seen \cup page
  <1>1. WalkOK => Faithful
    BY WalkIsFaithful DEF Listing
  <1> QED
    BY <1>1, WalkInvariance, PTL DEF WalkFaithful

(* A page shows a caller the risks of its own project, or it may list all. *)
THEOREM ListingOwn == ListSpec => ListsOwnRows
  <1> DEFINE Own ==
        \A c \in Clients : Listing(c) =>
            \A i \in Page(c) :
                \/ walk[c].by.scope = "project"
                        /\ risks[i].project = walk[c].by.project
                \/ AnyProjectReader(walk[c].by)
  <1>1. WalkOK => Own
    BY PageIsOwn DEF Listing
  <1> QED
    BY <1>1, WalkInvariance, PTL DEF ListsOwnRows

=============================================================================
