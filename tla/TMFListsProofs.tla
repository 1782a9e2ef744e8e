--------------------------- MODULE TMFListsProofs ---------------------------
(***************************************************************************)
(* What a LIST answers and what a walk through the pages misses and        *)
(* repeats, proved for collections, limits, offsets and pages of any size  *)
(* and for any number of changes.                                          *)
(***************************************************************************)
EXTENDS TMFLists, TMFNaturals, FiniteSetTheorems, SequenceTheorems

-----------------------------------------------------------------------------
(* The inductive invariant.                                                *)

\* The objects a loop that has gone through q rows has read or will skip, when it
\* has e objects to skip; and those it will return.
Within(rs, q, e) ==
  {rs[n].id : n \in {m \in DOMAIN rs : m <= q \/ Rank(rs, m) <= Rank(rs, q) + e}}
Beyond(rs, q, e) ==
  {rs[n].id : n \in {m \in DOMAIN rs : m > q /\ rs[m].shown /\ Rank(rs, m) > Rank(rs, q) + e}}

\* Of these, what will be missed of the stable ones and what will be repeated; and
\* how many that makes, with the repetitions there are already.
Missing(rs, stable, q, e, got) == (Within(rs, q, e) \cap stable) \ ToSet(got)
Coming(rs, q, e, got) == Beyond(rs, q, e) \cap ToSet(got)
Missed(rs, stable, q, e, got) == Cardinality(Missing(rs, stable, q, e, got))
Repeated(got) == Len(got) - Cardinality(ToSet(got))
Again(rs, q, e, got) == Repeated(got) + Cardinality(Coming(rs, q, e, got))

\* The loop has counted taken objects in its q rows, of which some may have gone and
\* to which others may have come since.
FitsIn(rs, stable, lost, bound, q, e, got, taken) ==
  /\ Missed(rs, stable, q, e, got) <= lost
  /\ Missed(rs, stable, q, e, got) + taken - Rank(rs, q) <= lost
  /\ Again(rs, q, e, got) <= bound
  /\ Again(rs, q, e, got) + Rank(rs, q) - taken <= bound

\* What can be charged for an object that is missed, and for one that is repeated.
Losses == history.lost + history.unsaved
Bound == IF source = "remote" THEN history.changes + history.unsaved ELSE history.inserted

\* The LIST that is being served lacks u objects.
Fits(q, e, got, taken, u) ==
  FitsIn(rows, history.stable, Losses + u, Bound + u, q, e, got, taken)

\* Between two pages: the next LIST starts from the first row.
Paged(got, u) == Fits(0, Len(got), got, 0, u)
\* After the last one.
Complete(got, u) == Cardinality(history.stable \ ToSet(got)) <= Losses + u

WalkInv(l, q) ==
  LET got == walk.got \o l.result
      u == Len(l.unsaved)
  IN
  /\ ~walk.over /\ l.limit = walk.limit /\ l.offset = walk.offset
  /\ l.stage = "serving" => Fits(q, l.offset - l.skipped, got, l.skipped + Len(l.result), u)
  /\ l.stage = "answered" => Paged(got, u) /\ (Len(l.result) < l.limit => Complete(got, u))

\* What the LIST could not save lies in the rows it has gone through.
QuietInv(l, q) ==
  LET first == First(l.offset)
      seen == Without(l.unsaved)
  IN
  /\ l.stage = "serving" =>
       /\ l.skipped = IF Rank(seen, q) < first THEN Rank(seen, q) ELSE first
       /\ l.result = Slice(seen, first, Rank(seen, q))
       /\ \A n \in DOMAIN rows : rows[n].id \in ToSet(l.unsaved) => n <= q
  /\ l.stage = "answered" => l.result = Window(seen, l.limit, l.offset)

\* A LIST that has gone through q rows.
ListInv(l, q) ==
  /\ l.skipped \in 0..First(l.offset)
  /\ source = "local" => l.unsaved = << >>
  /\ l.stage = "serving" =>
       /\ l.limit # 0
       /\ l.result = << >> \/ ~Enough(l.limit, l.result)
       /\ l.result # << >> => l.skipped = First(l.offset)
  /\ l.quiet => QuietInv(l, q)
  /\ l.walking => WalkInv(l, q)

Position(l) == IF l.page < Len(rows) THEN l.page ELSE Len(rows)

IInv ==
  /\ TypeOK
  /\ history.stable \subseteq ShownIn(rows)
  /\ walk.offset = Len(walk.got) /\ Paged(walk.got, 0)
  /\ walk.over => Complete(walk.got, 0)
  /\ list # NoList =>
       /\ source = "local" => list.page = 0
       /\ ListInv(list, Position(list))

-----------------------------------------------------------------------------
(* Ranks.                                                                  *)

\* What the lemmas assume of a collection.
Distinct(rs) == \A m, n \in DOMAIN rs : rs[m].id = rs[n].id => m = n
Collections == {rs \in Seq(Rows) : Distinct(rs)}

LEMMA RowFields ==
  ASSUME NEW rs \in Collections
  PROVE  /\ Len(rs) \in Nat /\ DOMAIN rs = 1..Len(rs) /\ rs \in Seq(Rows) /\ Distinct(rs)
         /\ \A m \in DOMAIN rs : rs[m] \in Rows /\ rs[m].id \in Ids /\ rs[m].shown \in BOOLEAN
<1>1. rs \in Seq(Rows) /\ Distinct(rs)
  BY DEF Collections
<1>2. Len(rs) \in Nat /\ DOMAIN rs = 1..Len(rs)
  BY <1>1, LenProperties
<1>3. ASSUME NEW m \in DOMAIN rs
      PROVE  rs[m] \in Rows /\ rs[m].id \in Ids /\ rs[m].shown \in BOOLEAN
  <2>1. rs[m] \in Rows
    BY <1>1, <1>2, ElementOfSeq
  <2> QED
    BY <2>1 DEF Rows
<1> QED
  BY <1>1, <1>2, <1>3

LEMMA RankZero == ASSUME NEW rs PROVE Rank(rs, 0) = 0
<1>1. {m \in 1..0 : rs[m].shown} = {}
  OBVIOUS
<1> QED
  BY <1>1, FS_EmptySet DEF Rank

LEMMA RankType ==
  ASSUME NEW rs, NEW n \in Nat
  PROVE  Rank(rs, n) \in Nat /\ IsFiniteSet({m \in 1..n : rs[m].shown})
<1> DEFINE S == {m \in 1..n : rs[m].shown}
<1>1. IsFiniteSet(1..n)
  BY FS_Interval
<1>2. S \in SUBSET (1..n)
  OBVIOUS
<1> HIDE DEF S
<1>3. IsFiniteSet(S)
  BY <1>1, <1>2, FS_Subset
<1>4. Cardinality(S) \in Nat
  BY <1>3, FS_CardinalityType
<1> QED
  BY <1>3, <1>4 DEF Rank, S

LEMMA RankStep ==
  ASSUME NEW rs, NEW n \in Nat
  PROVE  /\ rs[n + 1].shown => Rank(rs, n + 1) = Rank(rs, n) + 1
         /\ ~rs[n + 1].shown => Rank(rs, n + 1) = Rank(rs, n)
<1> DEFINE S == {m \in 1..n : rs[m].shown}
           T == {m \in 1..(n + 1) : rs[m].shown}
<1>1. IsFiniteSet(S) /\ Rank(rs, n) = Cardinality(S) /\ Rank(rs, n + 1) = Cardinality(T)
  BY RankType DEF Rank
<1>2. /\ rs[n + 1].shown => T = S \cup {n + 1}
      /\ ~rs[n + 1].shown => T = S
      /\ n + 1 \notin S
  OBVIOUS
<1> HIDE DEF S, T
<1>3. Cardinality(S \cup {n + 1}) = Cardinality(S) + 1
  BY <1>1, <1>2, FS_AddElement
<1> QED
  BY <1>1, <1>2, <1>3

\* Ranks grow, and strictly up to an object that is shown.
LEMMA RankGrows ==
  ASSUME NEW rs, NEW m \in Nat, NEW n \in Nat, m <= n
  PROVE  /\ Rank(rs, m) <= Rank(rs, n)
         /\ m < n /\ rs[n].shown => Rank(rs, m) < Rank(rs, n)
<1>1. ASSUME NEW k \in Nat, m <= k PROVE Rank(rs, m) <= Rank(rs, k)
  <2> DEFINE S == {i \in 1..m : rs[i].shown}
             T == {i \in 1..k : rs[i].shown}
  <2>1. IsFiniteSet(T) /\ Rank(rs, m) = Cardinality(S) /\ Rank(rs, k) = Cardinality(T)
    BY RankType DEF Rank
  <2>2. S \in SUBSET T
    BY <1>1
  <2> HIDE DEF S, T
  <2> QED
    BY <2>1, <2>2, FS_Subset
<1>2. ASSUME m < n, rs[n].shown PROVE Rank(rs, m) < Rank(rs, n)
  <2>1. PICK k \in Nat : k = n - 1
    BY <1>2
  <2>2. m <= k /\ k + 1 = n
    BY <1>2, <2>1
  <2>3. Rank(rs, n) = Rank(rs, k) + 1
    BY <1>2, <2>2, RankStep
  <2>4. Rank(rs, m) <= Rank(rs, k) /\ Rank(rs, m) \in Nat /\ Rank(rs, k) \in Nat
    BY <1>1, <2>2, RankType
  <2> QED
    BY <2>3, <2>4
<1> QED
  BY <1>1, <1>2

\* The rank tells the shown objects apart.
LEMMA RankUnique ==
  ASSUME NEW rs \in Collections, NEW m \in DOMAIN rs, NEW n \in DOMAIN rs,
         rs[m].shown, rs[n].shown, Rank(rs, m) = Rank(rs, n)
  PROVE  m = n
<1>1. m \in Nat /\ n \in Nat
  BY RowFields
<1>2. ~(m < n) /\ ~(n < m)
  <2>1. Rank(rs, m) \in Nat /\ Rank(rs, n) \in Nat
    BY <1>1, RankType
  <2>2. ASSUME m < n PROVE FALSE
    BY <1>1, <2>1, <2>2, RankGrows
  <2>3. ASSUME n < m PROVE FALSE
    BY <1>1, <2>1, <2>3, RankGrows
  <2> QED
    BY <2>2, <2>3
<1> QED
  BY <1>1, <1>2

\* Ranks depend on the rows before them only.
LEMMA RankSame ==
  ASSUME NEW rs, NEW ss, NEW n \in Nat, \A m \in 1..n : rs[m].shown <=> ss[m].shown
  PROVE  Rank(rs, n) = Rank(ss, n)
<1>1. {m \in 1..n : rs[m].shown} = {m \in 1..n : ss[m].shown}
  OBVIOUS
<1> QED
  BY <1>1 DEF Rank

-----------------------------------------------------------------------------
(* Sets of ids and their sizes.                                            *)

LEMMA NoMore ==
  ASSUME NEW S, IsFiniteSet(S), NEW T, T \subseteq S
  PROVE  Cardinality(T) \in Nat /\ Cardinality(S) \in Nat /\ Cardinality(T) <= Cardinality(S)
<1>1. T \in SUBSET S
  OBVIOUS
<1> QED
  BY <1>1, FS_Subset, FS_CardinalityType

LEMMA OneMore ==
  ASSUME NEW S, IsFiniteSet(S), NEW T, NEW x, T \subseteq S \cup {x}
  PROVE  Cardinality(T) \in Nat /\ Cardinality(S) \in Nat /\ Cardinality(T) <= Cardinality(S) + 1
<1>1. /\ IsFiniteSet(S \cup {x}) /\ Cardinality(S) \in Nat
      /\ Cardinality(S \cup {x}) \in {Cardinality(S), Cardinality(S) + 1}
  BY FS_AddElement, FS_CardinalityType
<1>2. Cardinality(T) \in Nat /\ Cardinality(T) <= Cardinality(S \cup {x})
  BY <1>1, NoMore
<1> QED
  BY <1>1, <1>2

LEMMA IdsFinite == ASSUME NEW S, S \subseteq Ids PROVE IsFiniteSet(S) /\ Cardinality(S) \in Nat
<1>1. IsFiniteSet(Ids)
  BY ListsAssumption, FS_Interval DEF Ids
<1>2. S \in SUBSET Ids
  OBVIOUS
<1> QED
  BY <1>1, <1>2, FS_Subset, FS_CardinalityType

LEMMA ToSetType ==
  ASSUME NEW got \in Seq(Ids)
  PROVE  /\ ToSet(got) \subseteq Ids /\ Len(got) \in Nat
         /\ Cardinality(ToSet(got)) \in Nat /\ Repeated(got) \in Int
<1>1. ToSet(got) \subseteq Ids /\ Len(got) \in Nat
  BY LenProperties, ElementOfSeq DEF ToSet
<1> QED
  BY <1>1, IdsFinite DEF Repeated

\* Where the stable objects are.
LEMMA StableRow ==
  ASSUME NEW rs \in Collections, NEW x \in ShownIn(rs)
  PROVE  \E m \in DOMAIN rs : x = rs[m].id /\ rs[m].shown
  BY DEF ShownIn

LEMMA IsWithin ==
  ASSUME NEW rs \in Collections, NEW q, NEW e, NEW m \in DOMAIN rs
  PROVE  rs[m].id \in Within(rs, q, e) <=> m <= q \/ Rank(rs, m) <= Rank(rs, q) + e
  BY RowFields DEF Within, Distinct

LEMMA IsBeyond ==
  ASSUME NEW rs \in Collections, NEW q, NEW e, NEW m \in DOMAIN rs
  PROVE  rs[m].id \in Beyond(rs, q, e) <=>
           m > q /\ rs[m].shown /\ Rank(rs, m) > Rank(rs, q) + e
  BY RowFields DEF Beyond, Distinct

LEMMA BeyondRow ==
  ASSUME NEW rs \in Collections, NEW q, NEW e, NEW x \in Beyond(rs, q, e)
  PROVE  \E m \in DOMAIN rs : /\ x = rs[m].id /\ m > q /\ rs[m].shown
                              /\ Rank(rs, m) > Rank(rs, q) + e
  BY DEF Beyond

LEMMA ShownType == ASSUME NEW rs \in Collections PROVE ShownIn(rs) \subseteq Ids
  BY RowFields DEF ShownIn

LEMMA Sizes ==
  ASSUME NEW rs \in Collections, NEW st, st \subseteq Ids, NEW q, NEW e, NEW got \in Seq(Ids)
  PROVE  /\ IsFiniteSet(Missing(rs, st, q, e, got)) /\ Missed(rs, st, q, e, got) \in Nat
         /\ IsFiniteSet(Coming(rs, q, e, got)) /\ Cardinality(Coming(rs, q, e, got)) \in Nat
         /\ Again(rs, q, e, got) \in Int
<1>1. Missing(rs, st, q, e, got) \subseteq Ids /\ Coming(rs, q, e, got) \subseteq Ids
  BY ToSetType DEF Missing, Coming
<1> QED
  BY <1>1, IdsFinite, ToSetType DEF Missed, Again

\* Of each rank there is one shown object at most.
LEMMA OneOfARank ==
  ASSUME NEW rs \in Collections, NEW r
  PROVE  \E x : \A m \in DOMAIN rs : rs[m].shown /\ Rank(rs, m) = r => rs[m].id = x
<1>1. CASE \E n \in DOMAIN rs : rs[n].shown /\ Rank(rs, n) = r
  <2>1. PICK n \in DOMAIN rs : rs[n].shown /\ Rank(rs, n) = r
    BY <1>1
  <2>2. \A m \in DOMAIN rs : rs[m].shown /\ Rank(rs, m) = r => rs[m].id = rs[n].id
    BY <2>1, RankUnique
  <2> QED
    BY <2>2
<1>2. CASE ~\E n \in DOMAIN rs : rs[n].shown /\ Rank(rs, n) = r
  BY <1>2
<1> QED
  BY <1>1, <1>2

\* Rows that stand for a member of Missing and Coming.
LEMMA MissingRow ==
  ASSUME NEW rs \in Collections, NEW st, st \subseteq ShownIn(rs), NEW q, NEW e, NEW got,
         NEW x \in Missing(rs, st, q, e, got)
  PROVE  \E m \in DOMAIN rs : /\ x = rs[m].id /\ rs[m].shown /\ x \in st /\ x \notin ToSet(got)
                              /\ m <= q \/ Rank(rs, m) <= Rank(rs, q) + e
<1>1. x \in ShownIn(rs) /\ x \in Within(rs, q, e) /\ x \in st /\ x \notin ToSet(got)
  BY DEF Missing
<1>2. PICK m \in DOMAIN rs : x = rs[m].id /\ rs[m].shown
  BY <1>1, StableRow
<1> QED
  BY <1>1, <1>2, IsWithin

LEMMA InMissing ==
  ASSUME NEW rs \in Collections, NEW st, NEW q, NEW e, NEW got, NEW m \in DOMAIN rs,
         rs[m].id \in st, rs[m].id \notin ToSet(got), m <= q \/ Rank(rs, m) <= Rank(rs, q) + e
  PROVE  rs[m].id \in Missing(rs, st, q, e, got)
BY IsWithin DEF Missing

LEMMA ComingRow ==
  ASSUME NEW rs \in Collections, NEW q, NEW e, NEW got, NEW x \in Coming(rs, q, e, got)
  PROVE  \E m \in DOMAIN rs : /\ x = rs[m].id /\ m > q /\ rs[m].shown /\ x \in ToSet(got)
                              /\ Rank(rs, m) > Rank(rs, q) + e
BY BeyondRow DEF Coming

LEMMA InComing ==
  ASSUME NEW rs \in Collections, NEW q, NEW e, NEW got, NEW m \in DOMAIN rs,
         m > q, rs[m].shown, rs[m].id \in ToSet(got), Rank(rs, m) > Rank(rs, q) + e
  PROVE  rs[m].id \in Coming(rs, q, e, got)
BY IsBeyond DEF Coming

\* How a walk still fits after a change.
LEMMA FitsLater ==
  ASSUME NEW rs \in Collections, NEW st, st \subseteq Ids, NEW q \in Nat, NEW e,
         NEW ss \in Collections, NEW tt, tt \subseteq Ids, NEW p \in Nat, NEW f,
         NEW got \in Seq(Ids), NEW taken \in Nat, NEW lost \in Nat, NEW bound \in Nat,
         FitsIn(rs, st, lost, bound, q, e, got, taken), NEW a \in Nat, NEW b \in Nat,
         Missed(ss, tt, p, f, got) <= Missed(rs, st, q, e, got) + a,
         Missed(ss, tt, p, f, got) + Rank(rs, q) <= Missed(rs, st, q, e, got) + Rank(ss, p) + a,
         Cardinality(Coming(ss, p, f, got)) <= Cardinality(Coming(rs, q, e, got)) + b,
         Cardinality(Coming(ss, p, f, got)) + Rank(ss, p)
           <= Cardinality(Coming(rs, q, e, got)) + Rank(rs, q) + b
  PROVE  FitsIn(ss, tt, lost + a, bound + b, p, f, got, taken)
<1> DEFINE m1 == Missed(rs, st, q, e, got)
           m2 == Missed(ss, tt, p, f, got)
           c1 == Cardinality(Coming(rs, q, e, got))
           c2 == Cardinality(Coming(ss, p, f, got))
           r1 == Rank(rs, q)
           r2 == Rank(ss, p)
           n == Repeated(got)
<1>1. m1 \in Nat /\ m2 \in Nat /\ c1 \in Nat /\ c2 \in Nat
  BY Sizes
<1>2. r1 \in Nat /\ r2 \in Nat /\ n \in Int
  BY RankType, ToSetType
<1>3. m1 <= lost /\ m1 + taken - r1 <= lost /\ n + c1 <= bound /\ n + c1 + r1 - taken <= bound
  BY DEF FitsIn, Again
<1>4. m2 <= m1 + a /\ m2 + r1 <= m1 + r2 + a /\ c2 <= c1 + b /\ c2 + r2 <= c1 + r1 + b
  OBVIOUS
<1> HIDE DEF m1, m2, c1, c2, r1, r2, n
<1>5. m2 <= lost + a /\ m2 + taken - r2 <= lost + a
  BY <1>1, <1>2, <1>3, <1>4
<1>6. n + c2 <= bound + b /\ n + c2 + r2 - taken <= bound + b
  BY <1>1, <1>2, <1>3, <1>4
<1> QED
  BY <1>5, <1>6 DEF FitsIn, Again, m2, c2, r2, n

LEMMA RankInt == ASSUME NEW rs \in Collections, NEW m \in DOMAIN rs PROVE Rank(rs, m) \in Nat /\ m \in Nat
<1>1. m \in Nat
  BY RowFields
<1> QED
  BY <1>1, RankType

-----------------------------------------------------------------------------
(* An object is hidden or becomes visible.                                 *)

\* ss is rs with its n-th object hidden, or made visible.
Flipped(rs, ss, n) ==
  /\ ss \in Collections /\ DOMAIN ss = DOMAIN rs /\ Len(ss) = Len(rs)
  /\ \A m \in DOMAIN rs : ss[m].id = rs[m].id /\ (m # n => (ss[m].shown <=> rs[m].shown))
  /\ ss[n].shown <=> ~rs[n].shown

LEMMA UpdateRows ==
  ASSUME NEW rs \in Collections, NEW n \in DOMAIN rs, NEW ss, ss = [rs EXCEPT ![n].shown = ~@]
  PROVE  Flipped(rs, ss, n)
<1>1. rs[n] \in Rows /\ n \in 1..Len(rs) /\ rs \in Seq(Rows)
  BY RowFields
<1> PICK row : row = [rs[n] EXCEPT !.shown = ~@]
  OBVIOUS
<1>2. row \in Rows /\ row.id = rs[n].id /\ row.shown = ~rs[n].shown
  BY <1>1 DEF Rows
<1>3. ss = [rs EXCEPT ![n] = row]
  OBVIOUS
<1>4. ss \in Seq(Rows) /\ Len(ss) = Len(rs)
  BY <1>1, <1>2, <1>3, ExceptSeq
<1>5. DOMAIN ss = DOMAIN rs /\ ss[n] = row /\ \A m \in DOMAIN rs : m # n => ss[m] = rs[m]
  BY <1>3
<1>6. Distinct(ss)
  BY <1>2, <1>5, RowFields DEF Distinct
<1> QED
  BY <1>2, <1>4, <1>5, <1>6 DEF Collections, Flipped

LEMMA UpdateRanks ==
  ASSUME NEW rs \in Collections, NEW n \in DOMAIN rs, NEW ss, Flipped(rs, ss, n),
         NEW m \in 0..Len(rs)
  PROVE  /\ m < n => Rank(ss, m) = Rank(rs, m)
         /\ m >= n /\ rs[n].shown => Rank(ss, m) = Rank(rs, m) - 1
         /\ m >= n /\ ~rs[n].shown => Rank(ss, m) = Rank(rs, m) + 1
<1>1. n \in 1..Len(rs) /\ Len(rs) \in Nat /\ DOMAIN rs = 1..Len(rs) /\ m \in Nat
  BY RowFields
<1>2. /\ \A i \in 1..m : i # n => (ss[i].shown <=> rs[i].shown)
      /\ ss[n].shown <=> ~rs[n].shown
  BY <1>1 DEF Flipped
<1>3. ASSUME m < n PROVE Rank(ss, m) = Rank(rs, m)
  <2>1. \A i \in 1..m : ss[i].shown <=> rs[i].shown
    BY <1>1, <1>2, <1>3
  <2> QED
    BY <1>1, <2>1, RankSame
<1> DEFINE S == {i \in 1..m : rs[i].shown}
           T == {i \in 1..m : ss[i].shown}
<1>4. /\ IsFiniteSet(S) /\ Rank(rs, m) = Cardinality(S) /\ Rank(ss, m) = Cardinality(T)
      /\ Cardinality(S) \in Nat
  BY <1>1, RankType DEF Rank
<1>5. ASSUME m >= n, rs[n].shown PROVE T = S \ {n} /\ n \in S
  <2>1. n \in 1..m /\ ~ss[n].shown
    BY <1>1, <1>2, <1>5
  <2> QED
    BY <1>2, <1>5, <2>1
<1>6. ASSUME m >= n, ~rs[n].shown PROVE T = S \cup {n} /\ n \notin S
  <2>1. n \in 1..m /\ ss[n].shown
    BY <1>1, <1>2, <1>6
  <2> QED
    BY <1>2, <1>6, <2>1
<1> HIDE DEF S, T
<1>7. /\ n \in S => Cardinality(S \ {n}) = Cardinality(S) - 1
      /\ n \notin S => Cardinality(S \cup {n}) = Cardinality(S) + 1
  BY <1>4, FS_AddElement, FS_RemoveElement
<1> QED
  BY <1>3, <1>4, <1>5, <1>6, <1>7

\* Of the stable objects the loop misses one more at most, and this only when an
\* object ahead of it is hidden; and it repeats one more at most, when one becomes
\* visible ahead of it.
LEMMA HideSets ==
  ASSUME NEW rs \in Collections, NEW n \in DOMAIN rs, NEW ss, Flipped(rs, ss, n), rs[n].shown,
         NEW st, st \subseteq ShownIn(rs), NEW q \in 0..Len(rs), NEW e \in Nat, NEW got
  PROVE  /\ \E z : LET more == IF n > q THEN {z} ELSE {} IN
              Missing(ss, st \cap ShownIn(ss), q, e, got) \subseteq Missing(rs, st, q, e, got) \cup more
         /\ Coming(ss, q, e, got) \subseteq Coming(rs, q, e, got)
<1> DEFINE X == Missing(rs, st, q, e, got)
           Y == Coming(rs, q, e, got)
<1>1. PICK z : \A m \in DOMAIN rs : rs[m].shown /\ Rank(rs, m) = Rank(rs, q) + e + 1 => rs[m].id = z
  BY OneOfARank
<1>2. /\ DOMAIN rs = 1..Len(rs) /\ Len(rs) \in Nat /\ n \in 1..Len(rs) /\ q \in Nat
      /\ Rank(rs, q) \in Nat /\ ss \in Collections /\ DOMAIN ss = DOMAIN rs
  <2>1. DOMAIN rs = 1..Len(rs) /\ Len(rs) \in Nat /\ n \in 1..Len(rs) /\ q \in Nat
    BY RowFields
  <2>2. ss \in Collections /\ DOMAIN ss = DOMAIN rs
    BY DEF Flipped
  <2> QED
    BY <2>1, <2>2, RankType
<1>3. Rank(ss, q) = IF n > q THEN Rank(rs, q) ELSE Rank(rs, q) - 1
  BY <1>2, UpdateRanks
<1>4. ASSUME NEW m \in DOMAIN rs
      PROVE  /\ ss[m].id = rs[m].id /\ (ss[m].shown => m # n /\ rs[m].shown)
             /\ m \in 1..Len(rs) /\ Rank(rs, m) \in Nat
             /\ Rank(ss, m) = IF m < n THEN Rank(rs, m) ELSE Rank(rs, m) - 1
  <2>1. m \in 0..Len(rs) /\ m \in 1..Len(rs)
    BY <1>2
  <2>2. Rank(ss, m) = IF m < n THEN Rank(rs, m) ELSE Rank(rs, m) - 1
    BY <1>2, <2>1, UpdateRanks
  <2>3. ss[m].id = rs[m].id /\ (ss[m].shown => m # n /\ rs[m].shown)
    BY DEF Flipped
  <2> QED
    BY <2>1, <2>2, <2>3, RankInt
<1>5. ASSUME NEW x \in Missing(ss, st \cap ShownIn(ss), q, e, got)
      PROVE  x \in X \cup (IF n > q THEN {z} ELSE {})
  <2>1. PICK m \in DOMAIN ss : /\ x = ss[m].id /\ ss[m].shown /\ x \in st /\ x \notin ToSet(got)
                               /\ m <= q \/ Rank(ss, m) <= Rank(ss, q) + e
    BY <1>2, MissingRow
  <2>2. /\ m \in DOMAIN rs /\ x = rs[m].id /\ rs[m].shown /\ m # n
        /\ m \in 1..Len(rs) /\ Rank(rs, m) \in Nat
        /\ Rank(ss, m) = IF m < n THEN Rank(rs, m) ELSE Rank(rs, m) - 1
    BY <1>2, <1>4, <2>1
  <2>3. \/ m <= q \/ Rank(rs, m) <= Rank(rs, q) + e
        \/ n > q /\ Rank(rs, m) = Rank(rs, q) + e + 1
    BY <1>2, <1>3, <2>1, <2>2
  <2>4. CASE m <= q \/ Rank(rs, m) <= Rank(rs, q) + e
    BY <2>1, <2>2, <2>4, InMissing
  <2>5. CASE n > q /\ Rank(rs, m) = Rank(rs, q) + e + 1
    BY <1>1, <2>2, <2>5
  <2> QED
    BY <2>3, <2>4, <2>5
<1>6. ASSUME NEW x \in Coming(ss, q, e, got) PROVE x \in Y
  <2>1. PICK m \in DOMAIN ss : /\ x = ss[m].id /\ m > q /\ ss[m].shown /\ x \in ToSet(got)
                               /\ Rank(ss, m) > Rank(ss, q) + e
    BY <1>2, ComingRow
  <2>2. /\ m \in DOMAIN rs /\ x = rs[m].id /\ rs[m].shown /\ m # n
        /\ m \in 1..Len(rs) /\ Rank(rs, m) \in Nat
        /\ Rank(ss, m) = IF m < n THEN Rank(rs, m) ELSE Rank(rs, m) - 1
    BY <1>2, <1>4, <2>1
  <2>3. Rank(rs, m) > Rank(rs, q) + e
    BY <1>2, <1>3, <2>1, <2>2
  <2> QED
    BY <2>1, <2>2, <2>3, InComing
<1> HIDE DEF X, Y
<1>7. Coming(ss, q, e, got) \subseteq Y
  BY <1>6
<1>8. Missing(ss, st \cap ShownIn(ss), q, e, got) \subseteq X \cup (IF n > q THEN {z} ELSE {})
  BY <1>5
<1> QED
  BY <1>7, <1>8 DEF X, Y

LEMMA ShowSets ==
  ASSUME NEW rs \in Collections, NEW n \in DOMAIN rs, NEW ss, Flipped(rs, ss, n), ~rs[n].shown,
         NEW st, st \subseteq ShownIn(rs), NEW q \in 0..Len(rs), NEW e \in Nat, NEW got
  PROVE  /\ Missing(ss, st \cap ShownIn(ss), q, e, got) \subseteq Missing(rs, st, q, e, got)
         /\ \E z : LET more == IF n > q THEN {z} ELSE {} IN
              Coming(ss, q, e, got) \subseteq Coming(rs, q, e, got) \cup more
<1> DEFINE X == Missing(rs, st, q, e, got)
           Y == Coming(rs, q, e, got)
<1>1. PICK y : \A m \in DOMAIN rs : rs[m].shown /\ Rank(rs, m) = Rank(rs, q) + e => rs[m].id = y
  BY OneOfARank
<1>2. /\ DOMAIN rs = 1..Len(rs) /\ Len(rs) \in Nat /\ n \in 1..Len(rs) /\ q \in Nat
      /\ Rank(rs, q) \in Nat /\ ss \in Collections /\ DOMAIN ss = DOMAIN rs
      /\ Rank(rs, n) \in Nat
  <2>1. DOMAIN rs = 1..Len(rs) /\ Len(rs) \in Nat /\ n \in 1..Len(rs) /\ q \in Nat
    BY RowFields
  <2>2. ss \in Collections /\ DOMAIN ss = DOMAIN rs
    BY DEF Flipped
  <2>3. n \in Nat
    BY <2>1
  <2> QED
    BY <2>1, <2>2, <2>3, RankType
<1>3. Rank(ss, q) = IF n > q THEN Rank(rs, q) ELSE Rank(rs, q) + 1
  BY <1>2, UpdateRanks
<1>4. ASSUME NEW m \in DOMAIN rs
      PROVE  /\ ss[m].id = rs[m].id /\ (m # n /\ ss[m].shown => rs[m].shown)
             /\ m \in 1..Len(rs) /\ Rank(rs, m) \in Nat
             /\ Rank(ss, m) = IF m < n THEN Rank(rs, m) ELSE Rank(rs, m) + 1
  <2>1. m \in 0..Len(rs) /\ m \in 1..Len(rs)
    BY <1>2
  <2>2. Rank(ss, m) = IF m < n THEN Rank(rs, m) ELSE Rank(rs, m) + 1
    BY <1>2, <2>1, UpdateRanks
  <2>3. ss[m].id = rs[m].id /\ (m # n /\ ss[m].shown => rs[m].shown)
    BY DEF Flipped
  <2> QED
    BY <2>1, <2>2, <2>3, RankInt
<1>5. ASSUME NEW x \in Missing(ss, st \cap ShownIn(ss), q, e, got) PROVE x \in X
  <2>1. PICK m \in DOMAIN ss : /\ x = ss[m].id /\ ss[m].shown /\ x \in st /\ x \notin ToSet(got)
                               /\ m <= q \/ Rank(ss, m) <= Rank(ss, q) + e
    BY <1>2, MissingRow
  <2>2. /\ m \in DOMAIN rs /\ x = rs[m].id
        /\ m \in 1..Len(rs) /\ Rank(rs, m) \in Nat
        /\ Rank(ss, m) = IF m < n THEN Rank(rs, m) ELSE Rank(rs, m) + 1
    BY <1>2, <1>4, <2>1
  <2>3. m # n
    <3>1. PICK k \in DOMAIN rs : x = rs[k].id /\ rs[k].shown
      BY <2>1, StableRow
    <3> QED
      BY <2>2, <3>1, RowFields DEF Distinct
  <2>4. m <= q \/ Rank(rs, m) <= Rank(rs, q) + e
    BY <1>2, <1>3, <2>1, <2>2, <2>3
  <2> QED
    BY <2>1, <2>2, <2>4, InMissing
<1> DEFINE z == IF Rank(ss, n) > Rank(rs, q) + e THEN rs[n].id ELSE y
<1>6. ASSUME NEW x \in Coming(ss, q, e, got)
      PROVE  x \in Y \cup (IF n > q THEN {z} ELSE {})
  <2>1. PICK m \in DOMAIN ss : /\ x = ss[m].id /\ m > q /\ ss[m].shown /\ x \in ToSet(got)
                               /\ Rank(ss, m) > Rank(ss, q) + e
    BY <1>2, ComingRow
  <2>2. /\ m \in DOMAIN rs /\ x = rs[m].id /\ (m # n => rs[m].shown)
        /\ m \in 1..Len(rs) /\ Rank(rs, m) \in Nat
        /\ Rank(ss, m) = IF m < n THEN Rank(rs, m) ELSE Rank(rs, m) + 1
        /\ Rank(ss, n) = Rank(rs, n) + 1
    BY <1>2, <1>4, <2>1
  <2>3. CASE m = n
    BY <1>2, <1>3, <2>1, <2>2, <2>3
  <2>4. CASE m # n /\ Rank(rs, m) > Rank(rs, q) + e
    BY <2>1, <2>2, <2>4, InComing
  <2>5. CASE m # n /\ ~(Rank(rs, m) > Rank(rs, q) + e)
    <3>1. n > q /\ m > n /\ Rank(rs, m) = Rank(rs, q) + e
      BY <1>2, <1>3, <2>1, <2>2, <2>5
    <3>2. Rank(rs, n) < Rank(rs, m)
      BY <1>2, <2>2, <2>5, <3>1, RankGrows
    <3>3. ~(Rank(ss, n) > Rank(rs, q) + e)
      BY <1>2, <2>2, <3>1, <3>2
    <3> QED
      BY <1>1, <2>2, <2>5, <3>1, <3>3
  <2> QED
    BY <2>3, <2>4, <2>5
<1> HIDE DEF X, Y, z
<1>7. Missing(ss, st \cap ShownIn(ss), q, e, got) \subseteq X
  BY <1>5
<1>8. Coming(ss, q, e, got) \subseteq Y \cup (IF n > q THEN {z} ELSE {})
  BY <1>6
<1> QED
  BY <1>7, <1>8 DEF X, Y

LEMMA UpdateFits ==
  ASSUME NEW rs \in Collections, NEW n \in DOMAIN rs, NEW ss, Flipped(rs, ss, n),
         NEW st, st \subseteq ShownIn(rs), NEW q \in 0..Len(rs), NEW e \in Nat,
         NEW got \in Seq(Ids), NEW taken \in Nat, NEW lost \in Nat, NEW bound \in Nat,
         FitsIn(rs, st, lost, bound, q, e, got, taken)
  PROVE  FitsIn(ss, st \cap ShownIn(ss), lost + (IF rs[n].shown THEN 1 ELSE 0),
                bound + (IF rs[n].shown THEN 0 ELSE 1), q, e, got, taken)
<1> DEFINE tt == st \cap ShownIn(ss)
<1>1. /\ ss \in Collections /\ q \in Nat /\ st \subseteq Ids /\ tt \subseteq Ids
      /\ n \in Nat /\ rs[n].shown \in BOOLEAN
  BY ShownType, RowFields DEF Flipped
<1>2. /\ Rank(rs, q) \in Nat /\ Rank(ss, q) \in Nat
      /\ n > q => Rank(ss, q) = Rank(rs, q)
      /\ ~(n > q) /\ rs[n].shown => Rank(ss, q) = Rank(rs, q) - 1
      /\ ~(n > q) /\ ~rs[n].shown => Rank(ss, q) = Rank(rs, q) + 1
  <2>1. Rank(rs, q) \in Nat /\ Rank(ss, q) \in Nat
    BY <1>1, RankType
  <2>2. /\ n > q => Rank(ss, q) = Rank(rs, q)
        /\ ~(n > q) /\ rs[n].shown => Rank(ss, q) = Rank(rs, q) - 1
        /\ ~(n > q) /\ ~rs[n].shown => Rank(ss, q) = Rank(rs, q) + 1
    BY <1>1, UpdateRanks
  <2> QED
    BY <2>1, <2>2
<1>3. /\ Missed(ss, tt, q, e, got) \in Nat /\ Missed(rs, st, q, e, got) \in Nat
      /\ Cardinality(Coming(rs, q, e, got)) \in Nat /\ Cardinality(Coming(ss, q, e, got)) \in Nat
      /\ IsFiniteSet(Missing(rs, st, q, e, got)) /\ IsFiniteSet(Coming(rs, q, e, got))
  BY <1>1, Sizes
<1> HIDE DEF tt
<1>4. CASE rs[n].shown
  <2>1. PICK z : LET more == IF n > q THEN {z} ELSE {} IN
          Missing(ss, tt, q, e, got) \subseteq Missing(rs, st, q, e, got) \cup more
    BY <1>4, HideSets DEF tt
  <2>2. /\ n > q => Missed(ss, tt, q, e, got) <= Missed(rs, st, q, e, got) + 1
        /\ ~(n > q) => Missed(ss, tt, q, e, got) <= Missed(rs, st, q, e, got)
    <3>1. CASE n > q
      BY <1>3, <2>1, <3>1, OneMore DEF Missed
    <3>2. CASE ~(n > q)
      BY <1>3, <2>1, <3>2, NoMore DEF Missed
    <3> QED
      BY <1>1, <1>3, <3>1, <3>2
  <2>3. Cardinality(Coming(ss, q, e, got)) <= Cardinality(Coming(rs, q, e, got))
    BY <1>3, <1>4, HideSets, NoMore
  <2>4. /\ Missed(ss, tt, q, e, got) <= Missed(rs, st, q, e, got) + 1
        /\ Missed(ss, tt, q, e, got) + Rank(rs, q) <= Missed(rs, st, q, e, got) + Rank(ss, q) + 1
        /\ Cardinality(Coming(ss, q, e, got)) <= Cardinality(Coming(rs, q, e, got)) + 0
        /\ Cardinality(Coming(ss, q, e, got)) + Rank(ss, q)
             <= Cardinality(Coming(rs, q, e, got)) + Rank(rs, q) + 0
    <3>1. CASE n > q
      <4>1. Rank(ss, q) = Rank(rs, q) /\ Missed(ss, tt, q, e, got) <= Missed(rs, st, q, e, got) + 1
        BY <1>2, <2>2, <3>1
      <4>2. /\ Missed(ss, tt, q, e, got) <= Missed(rs, st, q, e, got) + 1
            /\ Missed(ss, tt, q, e, got) + Rank(rs, q) <= Missed(rs, st, q, e, got) + Rank(ss, q) + 1
        BY <1>2, <1>3, <4>1
      <4>3. Cardinality(Coming(ss, q, e, got)) <= Cardinality(Coming(rs, q, e, got)) + 0
        BY <1>3, <2>3
      <4>4. Cardinality(Coming(ss, q, e, got)) + Rank(ss, q)
              <= Cardinality(Coming(rs, q, e, got)) + Rank(rs, q) + 0
        BY <1>2, <1>3, <2>3, <4>1
      <4> QED
        BY <4>2, <4>3, <4>4
    <3>2. CASE ~(n > q)
      <4>1. Rank(ss, q) = Rank(rs, q) - 1 /\ Missed(ss, tt, q, e, got) <= Missed(rs, st, q, e, got)
        BY <1>2, <1>4, <2>2, <3>2
      <4>2. /\ Missed(ss, tt, q, e, got) <= Missed(rs, st, q, e, got) + 1
            /\ Missed(ss, tt, q, e, got) + Rank(rs, q) <= Missed(rs, st, q, e, got) + Rank(ss, q) + 1
        BY <1>2, <1>3, <4>1
      <4>3. Cardinality(Coming(ss, q, e, got)) <= Cardinality(Coming(rs, q, e, got)) + 0
        BY <1>3, <2>3
      <4>4. Cardinality(Coming(ss, q, e, got)) + Rank(ss, q)
              <= Cardinality(Coming(rs, q, e, got)) + Rank(rs, q) + 0
        BY <1>2, <1>3, <2>3, <4>1
      <4> QED
        BY <4>2, <4>3, <4>4
    <3> QED
      BY <3>1, <3>2
  <2>5. FitsIn(ss, tt, lost + 1, bound + 0, q, e, got, taken)
    BY <1>1, <2>4, FitsLater
  <2> QED
    BY <1>4, <2>5 DEF tt
<1>5. CASE ~rs[n].shown
  <2>1. PICK z : LET more == IF n > q THEN {z} ELSE {} IN
          Coming(ss, q, e, got) \subseteq Coming(rs, q, e, got) \cup more
    BY <1>5, ShowSets
  <2>2. /\ n > q => Cardinality(Coming(ss, q, e, got)) <= Cardinality(Coming(rs, q, e, got)) + 1
        /\ ~(n > q) => Cardinality(Coming(ss, q, e, got)) <= Cardinality(Coming(rs, q, e, got))
    <3>1. CASE n > q
      BY <1>3, <2>1, <3>1, OneMore
    <3>2. CASE ~(n > q)
      BY <1>3, <2>1, <3>2, NoMore
    <3> QED
      BY <1>1, <1>3, <3>1, <3>2
  <2>3. Missed(ss, tt, q, e, got) <= Missed(rs, st, q, e, got)
    BY <1>3, <1>5, ShowSets, NoMore DEF Missed, tt
  <2>4. /\ Missed(ss, tt, q, e, got) <= Missed(rs, st, q, e, got) + 0
        /\ Missed(ss, tt, q, e, got) + Rank(rs, q) <= Missed(rs, st, q, e, got) + Rank(ss, q) + 0
        /\ Cardinality(Coming(ss, q, e, got)) <= Cardinality(Coming(rs, q, e, got)) + 1
        /\ Cardinality(Coming(ss, q, e, got)) + Rank(ss, q)
             <= Cardinality(Coming(rs, q, e, got)) + Rank(rs, q) + 1
    <3>1. PICK x \in Nat : x = Missed(rs, st, q, e, got)
      BY <1>3
    <3>2. PICK y \in Nat : y = Cardinality(Coming(rs, q, e, got))
      BY <1>3
    <3>3. PICK k \in Nat : k = Rank(rs, q)
      BY <1>2
    <3>4. PICK w \in Nat : w = Missed(ss, tt, q, e, got)
      BY <1>3
    <3>5. PICK v \in Nat : v = Cardinality(Coming(ss, q, e, got))
      BY <1>3
    <3>6. PICK h \in Nat : h = Rank(ss, q)
      BY <1>2
    <3>7. w <= x
      BY <2>3, <3>1, <3>4
    <3>8. (h = k /\ v <= y + 1) \/ (h = k + 1 /\ v <= y)
      BY <1>2, <1>5, <2>2, <3>2, <3>3, <3>5, <3>6
    <3>9. w <= x + 0 /\ w + k <= x + h + 0 /\ v <= y + 1 /\ v + h <= y + k + 1
      BY <3>7, <3>8
    <3> QED
      BY <3>1, <3>2, <3>3, <3>4, <3>5, <3>6, <3>9
  <2>5. FitsIn(ss, tt, lost + 0, bound + 1, q, e, got, taken)
    BY <1>1, <2>4, FitsLater
  <2> QED
    BY <1>5, <2>5 DEF tt
<1> QED
  BY <1>4, <1>5

-----------------------------------------------------------------------------
(* An object is added.                                                     *)

\* ss is rs with row after its last.
Extended(rs, ss, row) ==
  /\ ss \in Collections /\ Len(ss) = Len(rs) + 1 /\ ss[Len(rs) + 1] = row
  /\ \A m \in 1..Len(rs) : ss[m] = rs[m]

LEMMA AppendRows ==
  ASSUME NEW rs \in Collections, NEW row \in Rows, \A n \in DOMAIN rs : rs[n].id # row.id,
         NEW ss, ss = Append(rs, row)
  PROVE  Extended(rs, ss, row)
<1>1. rs \in Seq(Rows) /\ Len(rs) \in Nat /\ DOMAIN rs = 1..Len(rs) /\ Distinct(rs)
  BY RowFields
<1>2. /\ ss \in Seq(Rows) /\ Len(ss) = Len(rs) + 1 /\ ss[Len(rs) + 1] = row
      /\ \A m \in 1..Len(rs) : ss[m] = rs[m]
  BY <1>1, AppendProperties
<1>3. DOMAIN ss = 1..(Len(rs) + 1)
  BY <1>2, LenProperties
<1>4. Distinct(ss)
  BY <1>1, <1>2, <1>3 DEF Distinct
<1> QED
  BY <1>2, <1>4 DEF Extended, Collections

LEMMA AppendFits ==
  ASSUME NEW rs \in Collections, NEW ss, NEW row, Extended(rs, ss, row),
         NEW st, st \subseteq ShownIn(rs), NEW q \in 0..Len(rs), NEW e \in Nat,
         NEW got \in Seq(Ids), NEW taken \in Nat, NEW lost \in Nat, NEW bound \in Nat,
         FitsIn(rs, st, lost, bound, q, e, got, taken),
         NEW p \in Nat, p = q \/ (p = q + 1 /\ q = Len(rs)),
         NEW b \in Nat, b = 1 \/ (b = 0 /\ p = q /\ row.id \notin ToSet(got))
  PROVE  FitsIn(ss, st \cap ShownIn(ss), lost, bound + b, p, e, got, taken)
<1> DEFINE tt == st \cap ShownIn(ss)
           X == Missing(rs, st, q, e, got)
           Y == Coming(rs, q, e, got)
<1> PICK len \in Nat : len = Len(rs)
  BY RowFields
<1>1. /\ DOMAIN rs = 1..len /\ q \in 0..len /\ q \in Nat
      /\ ss \in Collections /\ DOMAIN ss = 1..(len + 1)
  <2>1. ss \in Collections /\ Len(ss) = Len(rs) + 1
    BY DEF Extended
  <2>2. DOMAIN ss = 1..Len(ss)
    BY <2>1, RowFields
  <2>3. DOMAIN rs = 1..len /\ q \in 0..len /\ q \in Nat
    BY RowFields
  <2>4. DOMAIN ss = 1..(len + 1)
    BY <2>1, <2>2
  <2> QED
    BY <2>1, <2>3, <2>4
<1>2. /\ \A m \in 1..len : m \in DOMAIN ss /\ ss[m] = rs[m]
      /\ ss[len + 1] = row
  <2>1. ss[len + 1] = row /\ \A m \in 1..len : ss[m] = rs[m]
    BY DEF Extended
  <2>2. \A m \in 1..len : m \in DOMAIN ss
    <3>1. \A m \in 1..len : m \in 1..(len + 1)
      OBVIOUS
    <3> QED
      BY <1>1, <3>1
  <2> QED
    BY <2>1, <2>2
<1>3. ASSUME NEW m \in 0..len PROVE Rank(ss, m) = Rank(rs, m) /\ Rank(rs, m) \in Nat
  <2>1. m \in Nat /\ \A i \in 1..m : ss[i].shown <=> rs[i].shown
    <3>1. \A i \in 1..m : i \in 1..len
      OBVIOUS
    <3>2. m \in Nat
      OBVIOUS
    <3> QED
      BY <1>2, <3>1, <3>2
  <2> QED
    BY <2>1, RankSame, RankType
<1>4. /\ p = q => Rank(ss, p) = Rank(rs, q)
      /\ Rank(ss, p) >= Rank(rs, q) /\ Rank(ss, p) <= Rank(rs, q) + 1
      /\ Rank(rs, q) \in Nat /\ Rank(ss, p) \in Nat
  <2>1. Rank(ss, q) = Rank(rs, q) /\ Rank(rs, q) \in Nat
    BY <1>3
  <2>2. Rank(ss, q + 1) \in {Rank(ss, q), Rank(ss, q) + 1}
    BY <1>1, RankStep
  <2> QED
    BY <2>1, <2>2
<1>5. ASSUME NEW x \in Missing(ss, tt, p, e, got) PROVE x \in X
  <2>1. PICK m \in DOMAIN ss : /\ x = ss[m].id /\ ss[m].shown /\ x \in st /\ x \notin ToSet(got)
                               /\ m <= p \/ Rank(ss, m) <= Rank(ss, p) + e
    BY <1>1, MissingRow
  <2>2. PICK k \in DOMAIN rs : x = rs[k].id
    BY <2>1, StableRow
  <2>3. k \in DOMAIN ss /\ ss[k].id = x
    BY <1>1, <1>2, <2>2
  <2>4. m = k
    BY <1>1, <2>1, <2>3, RowFields DEF Distinct
  <2>5. m \in 1..len /\ Rank(ss, m) = Rank(rs, m)
    BY <1>1, <1>3, <2>2, <2>4
  <2>6. m <= q \/ Rank(rs, m) <= Rank(rs, q) + e
    BY <1>1, <1>4, <2>1, <2>5
  <2> QED
    BY <2>1, <2>2, <2>4, <2>6, InMissing
<1>6. ASSUME NEW x \in Coming(ss, p, e, got) PROVE p = q /\ (x \in Y \/ (b = 1 /\ x = row.id))
  <2>1. PICK m \in DOMAIN ss : /\ x = ss[m].id /\ m > p /\ ss[m].shown /\ x \in ToSet(got)
                               /\ Rank(ss, m) > Rank(ss, p) + e
    BY <1>1, ComingRow
  <2>2. p = q
    BY <1>1, <2>1
  <2>3. CASE m = len + 1
    BY <1>2, <2>1, <2>2, <2>3
  <2>4. CASE m \in 1..len
    <3>1. m \in DOMAIN rs /\ ss[m] = rs[m] /\ Rank(ss, m) = Rank(rs, m)
      BY <1>1, <1>2, <1>3, <2>4
    <3>2. Rank(rs, m) > Rank(rs, q) + e /\ m > q
      BY <1>4, <2>1, <2>2, <3>1
    <3> QED
      BY <2>1, <2>2, <3>1, <3>2, InComing
  <2> QED
    BY <1>1, <2>3, <2>4
<1>7. st \subseteq Ids /\ tt \subseteq Ids
  BY ShownType
<1> HIDE DEF tt
<1>8. /\ Missed(ss, tt, p, e, got) \in Nat /\ Missed(rs, st, q, e, got) \in Nat
      /\ Cardinality(Y) \in Nat /\ Cardinality(Coming(ss, p, e, got)) \in Nat
      /\ IsFiniteSet(X) /\ IsFiniteSet(Y)
  BY <1>1, <1>7, Sizes
<1>9. Missed(ss, tt, p, e, got) <= Missed(rs, st, q, e, got)
  <2>1. Missing(ss, tt, p, e, got) \subseteq X
    BY <1>5
  <2> QED
    BY <1>8, <2>1, NoMore DEF Missed
<1>10. /\ Cardinality(Coming(ss, p, e, got)) <= Cardinality(Y) + b
       /\ p # q => Cardinality(Coming(ss, p, e, got)) = 0 /\ b = 1
  <2>1. CASE b = 0
    <3>1. Coming(ss, p, e, got) \subseteq Y /\ p = q
      BY <1>6, <2>1
    <3>2. Cardinality(Coming(ss, p, e, got)) <= Cardinality(Y)
      BY <1>8, <3>1, NoMore
    <3> QED
      BY <1>8, <2>1, <3>1, <3>2
  <2>2. CASE b = 1
    <3>1. Coming(ss, p, e, got) \subseteq Y \cup {row.id}
      BY <1>6
    <3>2. Cardinality(Coming(ss, p, e, got)) <= Cardinality(Y) + 1
      BY <1>8, <3>1, OneMore
    <3>3. p # q => Coming(ss, p, e, got) = {}
      BY <1>6
    <3> QED
      BY <2>2, <3>2, <3>3, FS_EmptySet
  <2> QED
    BY <2>1, <2>2
<1> HIDE DEF X
<1>11. /\ Missed(ss, tt, p, e, got) <= Missed(rs, st, q, e, got) + 0
       /\ Missed(ss, tt, p, e, got) + Rank(rs, q) <= Missed(rs, st, q, e, got) + Rank(ss, p) + 0
  <2>1. PICK x \in Nat : x = Missed(ss, tt, p, e, got)
    BY <1>8
  <2>2. PICK y \in Nat : y = Missed(rs, st, q, e, got)
    BY <1>8
  <2>3. PICK k \in Nat : k = Rank(rs, q)
    BY <1>4
  <2>4. PICK h \in Nat : h = Rank(ss, p)
    BY <1>4
  <2>5. x <= y /\ k <= h
    BY <1>4, <1>9, <2>1, <2>2, <2>3, <2>4
  <2>6. x <= y + 0 /\ x + k <= y + h + 0
    BY <2>5
  <2> QED
    BY <2>1, <2>2, <2>3, <2>4, <2>6
<1>12. Cardinality(Coming(ss, p, e, got)) + Rank(ss, p) <= Cardinality(Y) + Rank(rs, q) + b
  <2> HIDE DEF Y
  <2>1. PICK x \in Nat : x = Cardinality(Coming(ss, p, e, got))
    BY <1>8
  <2>2. PICK y \in Nat : y = Cardinality(Y)
    BY <1>8
  <2>3. PICK k \in Nat : k = Rank(rs, q)
    BY <1>4
  <2>4. PICK h \in Nat : h = Rank(ss, p)
    BY <1>4
  <2>5. (h = k /\ x <= y + b) \/ (h <= k + 1 /\ x = 0 /\ b = 1)
    BY <1>4, <1>10, <2>1, <2>2, <2>3, <2>4
  <2>6. x + h <= y + k + b
    BY <2>5
  <2> QED
    BY <2>1, <2>2, <2>3, <2>4, <2>6
<1>13. FitsIn(ss, tt, lost + 0, bound + b, p, e, got, taken)
  BY <1>1, <1>7, <1>10, <1>11, <1>12, FitsLater
<1> QED
  BY <1>13 DEF tt

-----------------------------------------------------------------------------
(* An object goes away.                                                    *)

\* ss is rs without its n-th row: where the rows of ss come from.
From(n, m) == IF m < n THEN m ELSE m + 1
Removed(rs, ss, n) ==
  /\ ss \in Collections /\ Len(ss) = Len(rs) - 1
  /\ \A m \in 1..Len(ss) : ss[m] = rs[From(n, m)]

LEMMA RemoveRows ==
  ASSUME NEW rs \in Collections, NEW n \in DOMAIN rs, NEW ss, ss = RemoveAt(rs, n)
  PROVE  Removed(rs, ss, n)
<1> PICK len \in Nat : len = Len(rs)
  BY RowFields
<1>1. rs \in Seq(Rows) /\ DOMAIN rs = 1..len /\ n \in 1..len /\ Distinct(rs)
  BY RowFields
<1> DEFINE s == SubSeq(rs, 1, n - 1)
           t == SubSeq(rs, n + 1, len)
<1>2. /\ s \in Seq(Rows) /\ Len(s) = n - 1 /\ \A i \in 1..(n - 1) : s[i] = rs[i]
  <2>1. 1 \in 1..(Len(rs) + 1) /\ n - 1 \in 0..Len(rs)
    BY <1>1
  <2>2. \A i \in 1..(n - 1) : i \in 1..Len(rs)
    BY <1>1
  <2> QED
    BY <1>1, <2>1, <2>2, SubSeqProperties
<1>3. /\ t \in Seq(Rows) /\ Len(t) = len - n /\ \A i \in 1..(len - n) : t[i] = rs[n + i]
  <2>1. \A i \in (n + 1)..len : i \in 1..Len(rs)
    BY <1>1
  <2> QED
    BY <1>1, <2>1, SubSeqProperties
<1> HIDE DEF s, t
<1>4. ss = s \o t
  BY DEF RemoveAt, s, t
<1>5. ss \in Seq(Rows) /\ Len(ss) = len - 1
  BY <1>1, <1>2, <1>3, <1>4, ConcatProperties
<1>6. ASSUME NEW m \in 1..(len - 1) PROVE ss[m] = rs[From(n, m)]
  <2>1. CASE m < n
    BY <1>1, <1>2, <1>3, <1>4, <2>1, ConcatProperties DEF From
  <2>2. CASE ~(m < n)
    <3>1. /\ m - (n - 1) \in 1..(len - n) /\ n + (m - (n - 1)) = m + 1 /\ From(n, m) = m + 1
          /\ ~(m <= n - 1)
      BY <1>1, <2>2 DEF From
    <3>2. (s \o t)[m] = t[m - (n - 1)]
      BY <1>1, <1>2, <1>3, <3>1, ConcatProperties
    <3> QED
      BY <1>3, <1>4, <3>1, <3>2
  <2> QED
    BY <2>1, <2>2
<1>7. Distinct(ss)
  <2> SUFFICES ASSUME NEW i \in DOMAIN ss, NEW j \in DOMAIN ss, ss[i].id = ss[j].id PROVE i = j
    BY DEF Distinct
  <2>1. i \in 1..(len - 1) /\ j \in 1..(len - 1)
    BY <1>5, LenProperties
  <2>2. From(n, i) \in DOMAIN rs /\ From(n, j) \in DOMAIN rs
    BY <1>1, <2>1 DEF From
  <2>3. rs[From(n, i)].id = rs[From(n, j)].id
    BY <1>6, <2>1
  <2>4. From(n, i) = From(n, j)
    BY <1>1, <2>2, <2>3 DEF Distinct
  <2> QED
    BY <1>1, <2>1, <2>4 DEF From
<1> QED
  BY <1>5, <1>6, <1>7 DEF Removed, Collections

LEMMA RemoveRanks ==
  ASSUME NEW rs \in Collections, NEW n \in DOMAIN rs, NEW ss, Removed(rs, ss, n),
         NEW m \in 0..(Len(rs) - 1)
  PROVE  /\ m < n => Rank(ss, m) = Rank(rs, m)
         /\ m >= n - 1 /\ rs[n].shown => Rank(ss, m) = Rank(rs, m + 1) - 1
         /\ m >= n - 1 /\ ~rs[n].shown => Rank(ss, m) = Rank(rs, m + 1)
<1> PICK len \in Nat : len = Len(rs)
  BY RowFields
<1>1. DOMAIN rs = 1..len /\ n \in 1..len /\ m \in 0..(len - 1)
  BY RowFields
<1>2. \A i \in 1..(len - 1) : ss[i] = rs[From(n, i)]
  BY DEF Removed
<1>3. ASSUME NEW k \in 0..(len - 1), k < n PROVE Rank(ss, k) = Rank(rs, k)
  <2>1. \A i \in 1..k : ss[i].shown <=> rs[i].shown
    <3> SUFFICES ASSUME NEW i \in 1..k PROVE ss[i].shown <=> rs[i].shown
      OBVIOUS
    <3>1. i \in 1..(len - 1) /\ From(n, i) = i
      BY <1>1, <1>3 DEF From
    <3> QED
      BY <1>2, <3>1
  <2>2. k \in Nat
    OBVIOUS
  <2> QED
    BY <2>1, <2>2, RankSame
<1> DEFINE After(k) == IF rs[n].shown THEN Rank(rs, k + 1) - 1 ELSE Rank(rs, k + 1)
           S == {k \in Nat : k \in (n - 1)..(len - 1) => Rank(ss, k) = After(k)}
<1>4. Rank(ss, n - 1) = After(n - 1)
  <2>1. n - 1 \in 0..(len - 1) /\ n - 1 < n /\ n - 1 \in Nat /\ (n - 1) + 1 = n
    BY <1>1
  <2>2. Rank(ss, n - 1) = Rank(rs, n - 1) /\ Rank(rs, n - 1) \in Nat
    BY <1>3, <2>1, RankType
  <2>3. /\ rs[n].shown => Rank(rs, n) = Rank(rs, n - 1) + 1
        /\ ~rs[n].shown => Rank(rs, n) = Rank(rs, n - 1)
    BY <2>1, RankStep
  <2> QED
    BY <2>1, <2>2, <2>3
<1>5. 0 \in S
  <2>1. CASE n - 1 = 0
    BY <1>4, <2>1
  <2>2. CASE n - 1 # 0
    <3>1. 0 \notin (n - 1)..(len - 1)
      BY <1>1, <2>2
    <3> QED
      BY <3>1
  <2> QED
    BY <2>1, <2>2
<1>6. ASSUME NEW k \in S \cap Nat PROVE k + 1 \in S
  <2> SUFFICES ASSUME k + 1 \in (n - 1)..(len - 1) PROVE Rank(ss, k + 1) = After(k + 1)
    OBVIOUS
  <2>1. CASE k + 1 = n - 1
    BY <1>4, <2>1
  <2>2. CASE k + 1 # n - 1
    <3>1. k \in (n - 1)..(len - 1) /\ k + 1 \in 1..(len - 1) /\ From(n, k + 1) = k + 2
          /\ k + 1 \in Nat /\ (k + 1) + 1 = k + 2
      BY <1>1, <2>2 DEF From
    <3>2. Rank(ss, k) = After(k)
      BY <3>1
    <3>3. ss[k + 1].shown <=> rs[k + 2].shown
      BY <1>2, <3>1
    <3>4. /\ ss[k + 1].shown => Rank(ss, k + 1) = Rank(ss, k) + 1
          /\ ~ss[k + 1].shown => Rank(ss, k + 1) = Rank(ss, k)
      BY RankStep
    <3>5. /\ rs[k + 2].shown => Rank(rs, k + 2) = Rank(rs, k + 1) + 1
          /\ ~rs[k + 2].shown => Rank(rs, k + 2) = Rank(rs, k + 1)
      BY <3>1, RankStep
    <3>6. Rank(rs, k + 1) \in Nat
      BY <3>1, RankType
    <3> QED
      BY <3>1, <3>2, <3>3, <3>4, <3>5, <3>6
  <2> QED
    BY <2>1, <2>2
<1> HIDE DEF S
<1>7. m \in S
  <2>1. Nat \subseteq S
    BY <1>5, <1>6, NaturalsCovered
  <2> QED
    BY <1>1, <2>1
<1>8. m >= n - 1 => Rank(ss, m) = After(m)
  <2>1. m >= n - 1 => m \in (n - 1)..(len - 1)
    BY <1>1
  <2> QED
    BY <1>7, <2>1 DEF S
<1> QED
  BY <1>1, <1>3, <1>8

LEMMA RemoveFits ==
  ASSUME NEW rs \in Collections, NEW n \in DOMAIN rs, NEW ss, Removed(rs, ss, n),
         NEW st, st \subseteq ShownIn(rs), NEW q \in 0..Len(rs), NEW e \in Nat,
         NEW got \in Seq(Ids), NEW taken \in Nat, NEW lost \in Nat, NEW bound \in Nat,
         FitsIn(rs, st, lost, bound, q, e, got, taken),
         NEW p \in Nat, (p = q /\ q < Len(rs)) \/ (p = Len(rs) - 1 /\ q = Len(rs)),
         NEW b \in Nat, b = 1 \/ (b = 0 /\ q = 0)
  PROVE  FitsIn(ss, st \cap ShownIn(ss), lost + 1, bound + b, p, e, got, taken)
<1> DEFINE tt == st \cap ShownIn(ss)
           X == Missing(rs, st, q, e, got)
           Y == Coming(rs, q, e, got)
<1>1. /\ ss \in Collections /\ q \in Nat /\ DOMAIN rs = 1..Len(rs) /\ st \subseteq Ids /\ tt \subseteq Ids
  BY RowFields, ShownType DEF Removed
<1>2. /\ Missed(ss, tt, p, e, got) <= Missed(rs, st, q, e, got) + 1
      /\ Missed(ss, tt, p, e, got) + Rank(rs, q) <= Missed(rs, st, q, e, got) + Rank(ss, p) + 1
      /\ Cardinality(Coming(ss, p, e, got)) <= Cardinality(Coming(rs, q, e, got)) + b
      /\ Cardinality(Coming(ss, p, e, got)) + Rank(ss, p)
           <= Cardinality(Coming(rs, q, e, got)) + Rank(rs, q) + b
  <2>1. PICK len \in Nat : len = Len(rs)
    BY RowFields
  <2>2. PICK v \in Nat : v = IF rs[n].shown THEN 1 ELSE 0
    OBVIOUS
  <2>3. PICK r \in Nat : r = Rank(rs, q)
    BY RowFields, RankType
  <2>4. PICK u \in Nat : u = IF n <= q /\ p = q /\ rs[q + 1].shown THEN 1 ELSE 0
    OBVIOUS
  <2>5. /\ DOMAIN rs = 1..len /\ n \in 1..len /\ q \in 0..len /\ q \in Nat
        /\ ss \in Collections /\ DOMAIN ss = 1..(len - 1)
        /\ (p = q /\ q < len) \/ (p = len - 1 /\ q = len)
        /\ p \in 0..(len - 1)
    <3>1. ss \in Collections /\ Len(ss) = len - 1
      BY <2>1 DEF Removed
    <3>2. DOMAIN ss = 1..(len - 1)
      BY <3>1, RowFields
    <3>3. DOMAIN rs = 1..len /\ q \in 0..len /\ n \in 1..len
      BY <2>1, RowFields
    <3> QED
      BY <3>1, <3>2, <3>3
  <2>6. ASSUME NEW m \in DOMAIN ss
        PROVE  /\ From(n, m) \in DOMAIN rs /\ ss[m] = rs[From(n, m)] /\ Rank(rs, From(n, m)) \in Nat
               /\ Rank(ss, m) = IF m < n THEN Rank(rs, From(n, m)) ELSE Rank(rs, From(n, m)) - v
               /\ m \in 1..(len - 1) /\ From(n, m) = IF m < n THEN m ELSE m + 1
    <3>1. m \in 1..(len - 1) /\ m \in 0..(len - 1)
      BY <2>5
    <3>2. From(n, m) = (IF m < n THEN m ELSE m + 1) /\ From(n, m) \in 1..len
      BY <2>5, <3>1 DEF From
    <3>3. ss[m] = rs[From(n, m)]
      BY <2>1, <3>1 DEF Removed
    <3>4. From(n, m) \in Nat /\ Rank(rs, From(n, m)) \in Nat
      <4>1. From(n, m) \in Nat
        BY <3>2
      <4> QED
        BY <4>1, RankType
    <3>5. CASE m < n
      <4>1. Rank(ss, m) = Rank(rs, m)
        BY <3>1, <3>5, RemoveRanks
      <4> QED
        BY <2>5, <3>1, <3>2, <3>3, <3>4, <3>5, <4>1
    <3>6. CASE ~(m < n)
      <4>1. m >= n - 1
        BY <2>5, <3>1, <3>6
      <4>2. Rank(ss, m) = Rank(rs, m + 1) - v
        <5>1. CASE rs[n].shown
          BY <2>1, <2>2, <3>1, <4>1, <5>1, RemoveRanks
        <5>2. CASE ~rs[n].shown
          <6>1. Rank(ss, m) = Rank(rs, m + 1) /\ v = 0
            BY <2>1, <2>2, <3>1, <4>1, <5>2, RemoveRanks
          <6> QED
            BY <3>2, <3>4, <3>6, <6>1
        <5> QED
          BY <5>1, <5>2
      <4> QED
        BY <2>5, <3>1, <3>2, <3>3, <3>4, <3>6, <4>2
    <3> QED
      BY <3>5, <3>6
  <2>7. /\ Rank(ss, p) \in Nat
        /\ n > q => p = q /\ Rank(ss, p) = r
        /\ n <= q => Rank(ss, p) = r + u - v
    <3>1. Rank(ss, p) \in Nat
      BY RankType
    <3>2. ASSUME n > q PROVE p = q /\ Rank(ss, p) = r
      <4>1. p = q /\ p < n /\ p \in 0..(len - 1)
        BY <2>5, <3>2
      <4> QED
        BY <2>1, <2>3, <4>1, RemoveRanks
    <3>3. ASSUME n <= q PROVE Rank(ss, p) = r + u - v
      <4>1. p >= n - 1 /\ p \in 0..(len - 1)
        BY <2>5, <3>3
      <4>2. Rank(rs, p + 1) = r + u
        <5>1. CASE p = q
          <6>1. /\ rs[q + 1].shown => Rank(rs, q + 1) = r + 1
                /\ ~rs[q + 1].shown => Rank(rs, q + 1) = r
            BY <2>3, <2>5, RankStep
          <6> QED
            BY <2>4, <3>3, <5>1, <6>1
        <5>2. CASE p # q
          <6>1. p + 1 = q
            BY <2>5, <5>2
          <6> QED
            BY <2>3, <2>4, <5>2, <6>1
        <5> QED
          BY <5>1, <5>2
      <4>3. CASE rs[n].shown
        <5>1. Rank(ss, p) = Rank(rs, p + 1) - 1 /\ v = 1
          BY <2>1, <2>2, <4>1, <4>3, RemoveRanks
        <5> QED
          BY <4>2, <5>1
      <4>4. CASE ~rs[n].shown
        BY <2>1, <2>2, <4>1, <4>2, <4>4, RemoveRanks
      <4> QED
        BY <4>3, <4>4
    <3> QED
      BY <3>1, <3>2, <3>3
  <2>8. v \in {0, 1} /\ u \in {0, 1}
    BY <2>2, <2>4
  <2>9. PICK z : \A m \in DOMAIN rs : rs[m].shown /\ Rank(rs, m) = r + e + 1 => rs[m].id = z
    BY OneOfARank
  <2>10. ASSUME NEW x \in Missing(ss, tt, p, e, got)
        PROVE  x \in X \/ ((n > q \/ u = 1) /\ x = z)
    <3>1. PICK m \in DOMAIN ss : /\ x = ss[m].id /\ ss[m].shown /\ x \in st /\ x \notin ToSet(got)
                                 /\ m <= p \/ Rank(ss, m) <= Rank(ss, p) + e
      BY <2>5, MissingRow
    <3>2. PICK k \in DOMAIN rs : k = From(n, m)
      BY <2>6
    <3>3. PICK i \in Nat : i = Rank(rs, k)
      BY <3>2, <2>6
    <3>4. /\ x = rs[k].id /\ rs[k].shown /\ m \in 1..(len - 1)
          /\ k = (IF m < n THEN m ELSE m + 1)
          /\ Rank(ss, m) = IF m < n THEN i ELSE i - v
      BY <3>2, <3>3, <2>6, <3>1
    <3>5. \/ k <= q \/ i <= r + e
          \/ (n > q \/ u = 1) /\ i = r + e + 1
      <4>1. CASE n > q
        <5>1. CASE m < n
          BY <2>5, <2>7, <3>1, <3>4, <4>1, <5>1
        <5>2. CASE ~(m < n)
          <6>1. ~(m <= p)
            BY <2>5, <2>7, <3>4, <4>1, <5>2
          <6>2. i - v <= r + e
            BY <2>7, <3>1, <3>4, <4>1, <5>2, <6>1
          <6> QED
            BY <2>8, <4>1, <6>2
        <5> QED
          BY <5>1, <5>2
      <4>2. CASE n <= q /\ m <= p
        <5>1. k <= p + 1
          BY <2>5, <3>4, <4>2
        <5>2. CASE k <= q
          BY <5>2
        <5>3. CASE k > q
          <6>1. p = q /\ k = q + 1
            BY <2>5, <5>1, <5>3
          <6>2. i = r + 1 /\ u = 1
            BY <2>3, <2>4, <3>3, <2>5, <3>4, <4>2, <6>1, RankStep
          <6> QED
            BY <6>2
        <5> QED
          BY <2>5, <5>2, <5>3
      <4>3. CASE n <= q /\ ~(m <= p)
        <5>1. ~(m < n)
          BY <2>5, <3>4, <4>3
        <5>2. Rank(ss, m) = i - v /\ Rank(ss, p) = r + u - v /\ Rank(ss, m) <= Rank(ss, p) + e
          <6>1. Rank(ss, m) = i - v
            BY <3>4, <5>1
          <6>2. Rank(ss, p) = r + u - v
            BY <2>7, <4>3
          <6> QED
            BY <3>1, <4>3, <6>1, <6>2
        <5>3. i <= r + u + e
          BY <5>2
        <5> QED
          BY <2>8, <5>3
      <4> QED
        BY <2>5, <4>1, <4>2, <4>3
    <3>6. CASE k <= q \/ i <= r + e
      BY <2>3, <3>3, <3>1, <3>4, <3>6, InMissing
    <3>7. CASE (n > q \/ u = 1) /\ i = r + e + 1
      BY <2>3, <3>3, <2>9, <3>4, <3>7
    <3> QED
      BY <3>5, <3>6, <3>7
  <2>11. ASSUME NEW x \in Coming(ss, p, e, got) PROVE x \in Y
    <3>1. PICK m \in DOMAIN ss : /\ x = ss[m].id /\ m > p /\ ss[m].shown /\ x \in ToSet(got)
                                 /\ Rank(ss, m) > Rank(ss, p) + e
      BY <2>5, ComingRow
    <3>2. PICK k \in DOMAIN rs : k = From(n, m)
      BY <2>6
    <3>3. PICK i \in Nat : i = Rank(rs, k)
      BY <3>2, <2>6
    <3>4. /\ x = rs[k].id /\ rs[k].shown /\ m \in 1..(len - 1)
          /\ k = (IF m < n THEN m ELSE m + 1)
          /\ Rank(ss, m) = IF m < n THEN i ELSE i - v
      BY <3>2, <3>3, <2>6, <3>1
    <3>5. k > q /\ i > r + e
      <4>1. CASE n > q
        <5>1. CASE m < n
          BY <2>5, <2>7, <3>1, <3>4, <4>1, <5>1
        <5>2. CASE ~(m < n)
          <6>1. k > q
            BY <2>5, <3>4, <4>1, <5>2
          <6>2. i - v > r + e
            BY <2>7, <3>1, <3>4, <4>1, <5>2
          <6> QED
            BY <2>8, <6>1, <6>2
        <5> QED
          BY <5>1, <5>2
      <4>2. CASE n <= q
        <5>1. ~(m < n)
          BY <2>5, <3>1, <3>4, <4>2
        <5>2. k > q
          BY <2>5, <3>1, <3>4, <4>2, <5>1
        <5>3. Rank(ss, m) = i - v /\ Rank(ss, p) = r + u - v /\ Rank(ss, m) > Rank(ss, p) + e
          <6>1. Rank(ss, m) = i - v
            BY <3>4, <5>1
          <6>2. Rank(ss, p) = r + u - v
            BY <2>7, <4>2
          <6> QED
            BY <3>1, <6>1, <6>2
        <5>4. i > r + u + e
          BY <5>3
        <5> QED
          BY <2>8, <5>2, <5>4
      <4> QED
        BY <2>5, <4>1, <4>2
    <3> QED
      BY <2>3, <3>3, <3>1, <3>4, <3>5, InComing
  <2>12. st \subseteq Ids /\ tt \subseteq Ids
    BY ShownType
  <2> HIDE DEF tt
  <2>13. /\ Missed(ss, tt, p, e, got) \in Nat /\ Missed(rs, st, q, e, got) \in Nat
        /\ Cardinality(Y) \in Nat /\ Cardinality(Coming(ss, p, e, got)) \in Nat
        /\ IsFiniteSet(X) /\ IsFiniteSet(Y)
    BY <2>5, <2>12, Sizes
  <2>14. Cardinality(Coming(ss, p, e, got)) <= Cardinality(Y)
    <3>1. Coming(ss, p, e, got) \subseteq Y
      BY <2>11
    <3> QED
      BY <2>13, <3>1, NoMore
  <2>15. /\ Missed(ss, tt, p, e, got) <= Missed(rs, st, q, e, got) + 1
         /\ ~(n > q \/ u = 1) => Missed(ss, tt, p, e, got) <= Missed(rs, st, q, e, got)
    <3>1. Missing(ss, tt, p, e, got) \subseteq X \cup {z}
      BY <2>10
    <3>2. ~(n > q \/ u = 1) => Missing(ss, tt, p, e, got) \subseteq X
      BY <2>10
    <3> QED
      BY <2>13, <3>1, <3>2, NoMore, OneMore DEF Missed
  <2> HIDE DEF X
  <2>16. Missed(ss, tt, p, e, got) + r <= Missed(rs, st, q, e, got) + Rank(ss, p) + 1
    <3>1. PICK x \in Nat : x = Missed(ss, tt, p, e, got)
      BY <2>13
    <3>2. PICK y \in Nat : y = Missed(rs, st, q, e, got)
      BY <2>13
    <3>3. PICK k \in Nat : k = Rank(ss, p)
      BY <2>7
    <3>4. (x <= y /\ r <= k + 1) \/ (x <= y + 1 /\ r <= k)
      <4>1. CASE n > q
        BY <2>7, <2>15, <3>1, <3>2, <3>3, <4>1
      <4>2. CASE ~(n > q) /\ u = 1
        <5>1. k = r + 1 - v
          BY <2>5, <2>7, <3>3, <4>2
        <5> QED
          BY <2>8, <2>15, <3>1, <3>2, <5>1
      <4>3. CASE ~(n > q) /\ u = 0
        <5>1. k = r - v
          BY <2>5, <2>7, <3>3, <4>3
        <5>2. x <= y
          BY <2>15, <3>1, <3>2, <4>3
        <5> QED
          BY <2>8, <5>1, <5>2
      <4> QED
        BY <2>8, <4>1, <4>2, <4>3
    <3>5. x + r <= y + k + 1
      BY <3>4
    <3> QED
      BY <3>1, <3>2, <3>3, <3>5
  <2>17. Cardinality(Coming(ss, p, e, got)) + Rank(ss, p) <= Cardinality(Y) + r + b
    <3> HIDE DEF Y
    <3>1. CASE n > q
      BY <2>7, <2>13, <2>14, <3>1
    <3>2. CASE ~(n > q)
      <4>1. n <= q
        BY <2>5, <3>2
      <4>2. b = 1
        BY <2>5, <4>1
      <4>3. Rank(ss, p) <= r + b
        BY <2>7, <2>8, <4>1, <4>2
      <4>4. Rank(ss, p) \in Nat /\ Cardinality(Y) \in Nat /\ Cardinality(Coming(ss, p, e, got)) \in Nat
        BY <2>7, <2>13
      <4> QED
        BY <2>14, <4>3, <4>4
    <3> QED
      BY <3>1, <3>2
  <2>18. Cardinality(Coming(ss, p, e, got)) <= Cardinality(Y) + b
    BY <2>13, <2>14
  <2> QED
    BY <2>3, <2>15, <2>16, <2>17, <2>18
<1> HIDE DEF tt
<1>3. FitsIn(ss, tt, lost + 1, bound + b, p, e, got, taken)
  BY <1>1, <1>2, FitsLater
<1> QED
  BY <1>3 DEF tt

-----------------------------------------------------------------------------
(* The loop takes a row.                                                   *)

LEMMA ToSetAppend ==
  ASSUME NEW got \in Seq(Ids), NEW x \in Ids
  PROVE  /\ Append(got, x) \in Seq(Ids) /\ ToSet(Append(got, x)) = ToSet(got) \cup {x}
         /\ Len(Append(got, x)) = Len(got) + 1
         /\ Repeated(Append(got, x)) = Repeated(got) + IF x \in ToSet(got) THEN 1 ELSE 0
<1> DEFINE hot == Append(got, x)
<1> PICK len \in Nat : len = Len(got)
  BY LenProperties
<1>1. /\ hot \in Seq(Ids) /\ Len(hot) = len + 1 /\ hot[len + 1] = x
      /\ \A i \in 1..len : hot[i] = got[i]
  BY AppendProperties
<1> HIDE DEF hot
<1>2. DOMAIN got = 1..len /\ DOMAIN hot = 1..(len + 1)
  BY <1>1, LenProperties
<1>3. ToSet(hot) = ToSet(got) \cup {x}
  <2>1. \A i \in 1..len : i \in 1..(len + 1)
    OBVIOUS
  <2>2. len + 1 \in 1..(len + 1)
    OBVIOUS
  <2>3. ToSet(got) \cup {x} \subseteq ToSet(hot)
    BY <1>1, <1>2, <2>1, <2>2 DEF ToSet
  <2>4. \A i \in 1..(len + 1) : i \in 1..len \/ i = len + 1
    OBVIOUS
  <2>5. ToSet(hot) \subseteq ToSet(got) \cup {x}
    BY <1>1, <1>2, <2>4 DEF ToSet
  <2> QED
    BY <2>3, <2>5
<1>4. /\ x \in ToSet(got) => Cardinality(ToSet(hot)) = Cardinality(ToSet(got))
      /\ x \notin ToSet(got) => Cardinality(ToSet(hot)) = Cardinality(ToSet(got)) + 1
  <2>1. IsFiniteSet(ToSet(got))
    BY ToSetType, IdsFinite
  <2> QED
    BY <1>3, <2>1, FS_AddElement
<1>5. Cardinality(ToSet(got)) \in Nat
  BY ToSetType
<1>6. Repeated(hot) = Repeated(got) + IF x \in ToSet(got) THEN 1 ELSE 0
  BY <1>1, <1>4, <1>5 DEF Repeated
<1> QED
  BY <1>1, <1>3, <1>6 DEF hot

\* How it fits when the collection stays as it is.
LEMMA FitsOn ==
  ASSUME NEW rs \in Collections, NEW st, st \subseteq Ids, NEW lost \in Nat, NEW bound \in Nat,
         NEW q \in Nat, NEW e, NEW got \in Seq(Ids), NEW taken \in Nat,
         NEW p \in Nat, NEW f, NEW hot \in Seq(Ids), NEW now \in Nat,
         FitsIn(rs, st, lost, bound, q, e, got, taken),
         Missed(rs, st, p, f, hot) <= Missed(rs, st, q, e, got),
         Again(rs, p, f, hot) <= Again(rs, q, e, got),
         now - Rank(rs, p) = taken - Rank(rs, q)
  PROVE  FitsIn(rs, st, lost, bound, p, f, hot, now)
<1> DEFINE m1 == Missed(rs, st, q, e, got)
           m2 == Missed(rs, st, p, f, hot)
           a1 == Again(rs, q, e, got)
           a2 == Again(rs, p, f, hot)
           r1 == Rank(rs, q)
           r2 == Rank(rs, p)
<1>1. m1 \in Nat /\ m2 \in Nat /\ a1 \in Int /\ a2 \in Int
  BY Sizes
<1>2. r1 \in Nat /\ r2 \in Nat
  BY RankType
<1>3. m1 <= lost /\ m1 + taken - r1 <= lost /\ a1 <= bound /\ a1 + r1 - taken <= bound
  BY DEF FitsIn
<1>4. m2 <= m1 /\ a2 <= a1 /\ now - r2 = taken - r1
  OBVIOUS
<1> HIDE DEF m1, m2, a1, a2, r1, r2
<1>5. m2 <= lost /\ m2 + now - r2 <= lost
  BY <1>1, <1>2, <1>3, <1>4
<1>6. a2 <= bound /\ a2 + r2 - now <= bound
  BY <1>1, <1>2, <1>3, <1>4
<1> QED
  BY <1>5, <1>6 DEF FitsIn, m2, a2, r2

LEMMA TakeFits ==
  ASSUME NEW rs \in Collections, NEW st, st \subseteq ShownIn(rs), NEW lost \in Nat, NEW bound \in Nat,
         NEW q \in Nat, q + 1 \in DOMAIN rs, NEW e \in Nat, NEW got \in Seq(Ids), NEW taken \in Nat,
         FitsIn(rs, st, lost, bound, q, e, got, taken)
  PROVE  /\ ~rs[q + 1].shown => FitsIn(rs, st, lost, bound, q + 1, e, got, taken)
         /\ rs[q + 1].shown /\ e > 0 => FitsIn(rs, st, lost, bound, q + 1, e - 1, got, taken + 1)
         /\ rs[q + 1].shown /\ e = 0 =>
              FitsIn(rs, st, lost, bound, q + 1, 0, Append(got, rs[q + 1].id), taken + 1)
<1>1. /\ st \subseteq Ids /\ rs[q + 1].id \in Ids /\ q + 1 \in Nat
      /\ \A m \in DOMAIN rs : m \in Nat /\ Rank(rs, m) \in Nat
  BY ShownType, RowFields, RankInt
<1>2. /\ Rank(rs, q) \in Nat
      /\ rs[q + 1].shown => Rank(rs, q + 1) = Rank(rs, q) + 1
      /\ ~rs[q + 1].shown => Rank(rs, q + 1) = Rank(rs, q)
  BY RankType, RankStep
<1>3. /\ IsFiniteSet(Missing(rs, st, q, e, got)) /\ IsFiniteSet(Coming(rs, q, e, got))
      /\ Repeated(got) \in Int /\ Cardinality(Coming(rs, q, e, got)) \in Nat
  BY <1>1, Sizes, ToSetType
<1>4. ASSUME NEW f \in Nat, NEW now \in Nat, NEW hot \in Seq(Ids),
             Missing(rs, st, q + 1, f, hot) \subseteq Missing(rs, st, q, e, got),
             Again(rs, q + 1, f, hot) <= Again(rs, q, e, got),
             now - Rank(rs, q + 1) = taken - Rank(rs, q)
      PROVE  FitsIn(rs, st, lost, bound, q + 1, f, hot, now)
  <2>1. Missed(rs, st, q + 1, f, hot) <= Missed(rs, st, q, e, got)
    BY <1>3, <1>4, NoMore DEF Missed
  <2> QED
    BY <1>1, <1>4, <2>1, FitsOn
<1>5. ASSUME NEW f \in Nat, Coming(rs, q + 1, f, got) \subseteq Coming(rs, q, e, got)
      PROVE  Again(rs, q + 1, f, got) <= Again(rs, q, e, got)
  BY <1>3, <1>5, NoMore DEF Again
<1>6. ASSUME ~rs[q + 1].shown PROVE FitsIn(rs, st, lost, bound, q + 1, e, got, taken)
  <2>1. ASSUME NEW x \in Missing(rs, st, q + 1, e, got) PROVE x \in Missing(rs, st, q, e, got)
    <3>1. PICK m \in DOMAIN rs : /\ x = rs[m].id /\ rs[m].shown /\ x \in st /\ x \notin ToSet(got)
                                 /\ m <= q + 1 \/ Rank(rs, m) <= Rank(rs, q + 1) + e
      BY <1>1, MissingRow
    <3>2. m # q + 1
      BY <1>6, <3>1
    <3>3. m <= q \/ Rank(rs, m) <= Rank(rs, q) + e
      BY <1>1, <1>2, <1>6, <3>1, <3>2
    <3> QED
      BY <3>1, <3>3, InMissing
  <2>2. ASSUME NEW x \in Coming(rs, q + 1, e, got) PROVE x \in Coming(rs, q, e, got)
    <3>1. PICK m \in DOMAIN rs : /\ x = rs[m].id /\ m > q + 1 /\ rs[m].shown /\ x \in ToSet(got)
                                 /\ Rank(rs, m) > Rank(rs, q + 1) + e
      BY <1>1, ComingRow
    <3>2. m > q /\ Rank(rs, m) > Rank(rs, q) + e
      BY <1>1, <1>2, <1>6, <3>1
    <3> QED
      BY <3>1, <3>2, InComing
  <2>3. Again(rs, q + 1, e, got) <= Again(rs, q, e, got)
    BY <1>5, <2>2
  <2>4. Missing(rs, st, q + 1, e, got) \subseteq Missing(rs, st, q, e, got)
    BY <2>1
  <2>5. taken - Rank(rs, q + 1) = taken - Rank(rs, q)
    BY <1>2, <1>6
  <2> QED
    BY <1>4, <2>3, <2>4, <2>5
<1>7. ASSUME rs[q + 1].shown, e > 0
      PROVE  FitsIn(rs, st, lost, bound, q + 1, e - 1, got, taken + 1)
  <2>1. ASSUME NEW x \in Missing(rs, st, q + 1, e - 1, got) PROVE x \in Missing(rs, st, q, e, got)
    <3>1. PICK m \in DOMAIN rs : /\ x = rs[m].id /\ rs[m].shown /\ x \in st /\ x \notin ToSet(got)
                                 /\ m <= q + 1 \/ Rank(rs, m) <= Rank(rs, q + 1) + (e - 1)
      BY <1>1, MissingRow
    <3>2. m <= q \/ Rank(rs, m) <= Rank(rs, q) + e
      BY <1>1, <1>2, <1>7, <3>1
    <3> QED
      BY <3>1, <3>2, InMissing
  <2>2. ASSUME NEW x \in Coming(rs, q + 1, e - 1, got) PROVE x \in Coming(rs, q, e, got)
    <3>1. PICK m \in DOMAIN rs : /\ x = rs[m].id /\ m > q + 1 /\ rs[m].shown /\ x \in ToSet(got)
                                 /\ Rank(rs, m) > Rank(rs, q + 1) + (e - 1)
      BY <1>1, ComingRow
    <3>2. m > q /\ Rank(rs, m) > Rank(rs, q) + e
      BY <1>1, <1>2, <1>7, <3>1
    <3> QED
      BY <3>1, <3>2, InComing
  <2>3. e - 1 \in Nat /\ taken + 1 \in Nat
    BY <1>7
  <2>4. Again(rs, q + 1, e - 1, got) <= Again(rs, q, e, got)
    BY <1>5, <2>2, <2>3
  <2>5. Missing(rs, st, q + 1, e - 1, got) \subseteq Missing(rs, st, q, e, got)
    BY <2>1
  <2>6. (taken + 1) - Rank(rs, q + 1) = taken - Rank(rs, q)
    BY <1>2, <1>7
  <2> QED
    BY <1>4, <2>3, <2>4, <2>5, <2>6
<1>8. ASSUME rs[q + 1].shown, e = 0
      PROVE  FitsIn(rs, st, lost, bound, q + 1, 0, Append(got, rs[q + 1].id), taken + 1)
  <2> DEFINE hot == Append(got, rs[q + 1].id)
             Y == Coming(rs, q, e, got)
  <2>1. /\ hot \in Seq(Ids) /\ ToSet(hot) = ToSet(got) \cup {rs[q + 1].id}
        /\ Repeated(hot) = Repeated(got) + IF rs[q + 1].id \in ToSet(got) THEN 1 ELSE 0
    BY <1>1, ToSetAppend
  <2> HIDE DEF hot
  <2>2. ASSUME NEW x \in Missing(rs, st, q + 1, 0, hot) PROVE x \in Missing(rs, st, q, e, got)
    <3>1. PICK m \in DOMAIN rs : /\ x = rs[m].id /\ rs[m].shown /\ x \in st /\ x \notin ToSet(hot)
                                 /\ m <= q + 1 \/ Rank(rs, m) <= Rank(rs, q + 1) + 0
      BY <1>1, MissingRow
    <3>2. m # q + 1 /\ x \notin ToSet(got)
      BY <2>1, <3>1
    <3>3. q + 1 < m => Rank(rs, q + 1) < Rank(rs, m)
      BY <1>1, <3>1, RankGrows
    <3>4. m <= q
      BY <1>1, <1>2, <1>8, <3>1, <3>2, <3>3
    <3> QED
      BY <3>1, <3>2, <3>4, InMissing
  <2>3. ASSUME NEW x \in Coming(rs, q + 1, 0, hot) PROVE x \in Y \ {rs[q + 1].id}
    <3>1. PICK m \in DOMAIN rs : /\ x = rs[m].id /\ m > q + 1 /\ rs[m].shown /\ x \in ToSet(hot)
                                 /\ Rank(rs, m) > Rank(rs, q + 1) + 0
      BY <1>1, ComingRow
    <3>2. m # q + 1 /\ m > q /\ Rank(rs, m) > Rank(rs, q) + e
      BY <1>1, <1>2, <1>8, <3>1
    <3>3. rs[m].id # rs[q + 1].id
      BY <3>2, RowFields DEF Distinct
    <3> QED
      BY <2>1, <3>1, <3>2, <3>3, InComing
  <2>4. rs[q + 1].id \in ToSet(got) => rs[q + 1].id \in Y
    <3>1. q + 1 > q /\ Rank(rs, q + 1) > Rank(rs, q) + e
      BY <1>2, <1>8
    <3> QED
      BY <1>8, <3>1, InComing
  <2> HIDE DEF Y
  <2>5. Again(rs, q + 1, 0, hot) <= Again(rs, q, e, got)
    <3>1. /\ IsFiniteSet(Y \ {rs[q + 1].id}) /\ Cardinality(Y) \in Nat
          /\ rs[q + 1].id \in Y => Cardinality(Y \ {rs[q + 1].id}) = Cardinality(Y) - 1
          /\ rs[q + 1].id \notin Y => Cardinality(Y \ {rs[q + 1].id}) = Cardinality(Y)
      BY <1>3, FS_RemoveElement DEF Y
    <3>2. Coming(rs, q + 1, 0, hot) \subseteq Y \ {rs[q + 1].id}
      BY <2>3
    <3>3. /\ Cardinality(Coming(rs, q + 1, 0, hot)) \in Nat
          /\ Cardinality(Coming(rs, q + 1, 0, hot)) <= Cardinality(Y \ {rs[q + 1].id})
      BY <3>1, <3>2, NoMore
    <3>4. Repeated(hot) + Cardinality(Coming(rs, q + 1, 0, hot)) <= Repeated(got) + Cardinality(Y)
      <4>1. CASE rs[q + 1].id \in ToSet(got)
        <5>1. Repeated(hot) = Repeated(got) + 1 /\ Repeated(got) \in Int
          BY <1>3, <2>1, <4>1
        <5>2. PICK x \in Nat : x = Cardinality(Coming(rs, q + 1, 0, hot))
          BY <3>3
        <5>3. PICK y \in Nat : y = Cardinality(Y)
          BY <3>1
        <5>4. x <= y - 1
          BY <2>4, <3>1, <3>3, <4>1, <5>2, <5>3
        <5> QED
          BY <5>1, <5>2, <5>3, <5>4
      <4>2. CASE rs[q + 1].id \notin ToSet(got)
        BY <1>3, <2>1, <3>1, <3>3, <4>2
      <4> QED
        BY <4>1, <4>2
    <3> QED
      BY <3>4 DEF Again, Y
  <2>6. Missing(rs, st, q + 1, 0, hot) \subseteq Missing(rs, st, q, e, got)
    BY <2>2
  <2>7. (taken + 1) - Rank(rs, q + 1) = taken - Rank(rs, q) /\ taken + 1 \in Nat
    BY <1>2, <1>8
  <2>8. FitsIn(rs, st, lost, bound, q + 1, 0, hot, taken + 1)
    BY <1>4, <2>1, <2>5, <2>6, <2>7
  <2> QED
    BY <2>8 DEF hot
<1> QED
  BY <1>6, <1>7, <1>8

\* An object that the answer lacks is missed now and may be repeated later.
LEMMA DropFits ==
  ASSUME NEW rs \in Collections, NEW st, st \subseteq ShownIn(rs), NEW lost \in Nat, NEW bound \in Nat,
         NEW q \in Nat, q + 1 \in DOMAIN rs, NEW e \in Nat, NEW got \in Seq(Ids), NEW taken \in Nat,
         FitsIn(rs, st, lost, bound, q, e, got, taken), rs[q + 1].shown
  PROVE  FitsIn(rs, st, lost + 1, bound + 1, q + 1, e, got, taken)
<1>1. /\ st \subseteq Ids /\ q + 1 \in Nat /\ Rank(rs, q) \in Nat
      /\ Rank(rs, q + 1) = Rank(rs, q) + 1
      /\ \A m \in DOMAIN rs : m \in Nat /\ Rank(rs, m) \in Nat
  BY ShownType, RankInt, RankType, RankStep
<1>2. /\ IsFiniteSet(Missing(rs, st, q, e, got)) /\ IsFiniteSet(Coming(rs, q, e, got))
      /\ Missed(rs, st, q, e, got) \in Nat /\ Cardinality(Coming(rs, q, e, got)) \in Nat
      /\ Missed(rs, st, q + 1, e, got) \in Nat
      /\ Cardinality(Coming(rs, q + 1, e, got)) \in Nat
  BY <1>1, Sizes
<1>3. Missed(rs, st, q + 1, e, got) <= Missed(rs, st, q, e, got) + 1
  <2>1. PICK x : \A m \in DOMAIN rs :
                   rs[m].shown /\ Rank(rs, m) = Rank(rs, q) + e + 1 => rs[m].id = x
    BY OneOfARank
  <2>2. ASSUME NEW y \in Missing(rs, st, q + 1, e, got)
        PROVE  y \in Missing(rs, st, q, e, got) \cup {x}
    <3>1. PICK m \in DOMAIN rs : /\ y = rs[m].id /\ rs[m].shown /\ y \in st /\ y \notin ToSet(got)
                                 /\ m <= q + 1 \/ Rank(rs, m) <= Rank(rs, q + 1) + e
      BY <1>1, MissingRow
    <3>2. \/ m <= q \/ Rank(rs, m) <= Rank(rs, q) + e
          \/ Rank(rs, m) = Rank(rs, q) + e + 1
      BY <1>1, <3>1
    <3> QED
      BY <2>1, <3>1, <3>2, InMissing
  <2>3. Missing(rs, st, q + 1, e, got) \subseteq Missing(rs, st, q, e, got) \cup {x}
    BY <2>2
  <2> QED
    BY <1>2, <2>3, OneMore DEF Missed
<1>4. Cardinality(Coming(rs, q + 1, e, got)) <= Cardinality(Coming(rs, q, e, got))
  <2>1. ASSUME NEW y \in Coming(rs, q + 1, e, got) PROVE y \in Coming(rs, q, e, got)
    <3>1. PICK m \in DOMAIN rs : /\ y = rs[m].id /\ m > q + 1 /\ rs[m].shown /\ y \in ToSet(got)
                                 /\ Rank(rs, m) > Rank(rs, q + 1) + e
      BY <1>1, ComingRow
    <3>2. m > q /\ Rank(rs, m) > Rank(rs, q) + e
      BY <1>1, <3>1
    <3> QED
      BY <3>1, <3>2, InComing
  <2>2. Coming(rs, q + 1, e, got) \subseteq Coming(rs, q, e, got)
    BY <2>1
  <2> QED
    BY <1>2, <2>2, NoMore
<1>5. /\ Missed(rs, st, q + 1, e, got) + Rank(rs, q)
           <= Missed(rs, st, q, e, got) + Rank(rs, q + 1) + 1
      /\ Cardinality(Coming(rs, q + 1, e, got)) + Rank(rs, q + 1)
           <= Cardinality(Coming(rs, q, e, got)) + Rank(rs, q) + 1
      /\ Cardinality(Coming(rs, q + 1, e, got)) <= Cardinality(Coming(rs, q, e, got)) + 1
  <2>1. PICK m \in Nat : m = Missed(rs, st, q, e, got)
    BY <1>2
  <2>2. PICK n \in Nat : n = Missed(rs, st, q + 1, e, got)
    BY <1>2
  <2>3. PICK c \in Nat : c = Cardinality(Coming(rs, q, e, got))
    BY <1>2
  <2>4. PICK d \in Nat : d = Cardinality(Coming(rs, q + 1, e, got))
    BY <1>2
  <2>5. PICK r \in Nat : r = Rank(rs, q) /\ Rank(rs, q + 1) = r + 1
    BY <1>1
  <2>6. n <= m + 1 /\ d <= c
    BY <1>3, <1>4, <2>1, <2>2, <2>3, <2>4
  <2>7. n + r <= m + (r + 1) + 1 /\ d + (r + 1) <= c + r + 1 /\ d <= c + 1
    BY <2>6
  <2> QED
    BY <2>1, <2>2, <2>3, <2>4, <2>5, <2>7
<1>6. 1 \in Nat
  OBVIOUS
<1> QED
  BY <1>1, <1>3, <1>5, <1>6, FitsLater

-----------------------------------------------------------------------------
(* The answer ends, and the next LIST starts from the first row.           *)

\* The shown objects with a rank above a and up to b.
Band(rs, a, b) ==
  {rs[n].id : n \in {m \in DOMAIN rs : rs[m].shown /\ Rank(rs, m) > a /\ Rank(rs, m) <= b}}

\* There are no more of them than ranks.
LEMMA BandSize ==
  ASSUME NEW rs \in Collections, NEW a \in Nat, NEW b \in Nat, a <= b
  PROVE  IsFiniteSet(Band(rs, a, b)) /\ Cardinality(Band(rs, a, b)) <= b - a
<1> DEFINE B == Band(rs, a, b)
           Row(x) == CHOOSE m \in DOMAIN rs : x = rs[m].id /\ rs[m].shown
                                             /\ Rank(rs, m) > a /\ Rank(rs, m) <= b
           f == [x \in B |-> Rank(rs, Row(x))]
<1>1. ASSUME NEW x \in B
      PROVE  /\ Row(x) \in DOMAIN rs /\ x = rs[Row(x)].id /\ rs[Row(x)].shown
             /\ Rank(rs, Row(x)) > a /\ Rank(rs, Row(x)) <= b
  <2>1. \E m \in DOMAIN rs : x = rs[m].id /\ rs[m].shown /\ Rank(rs, m) > a /\ Rank(rs, m) <= b
    BY DEF Band
  <2> QED
    BY <2>1
<1> HIDE DEF B, Row
<1>2. f \in Injection(B, (a + 1)..b)
  <2>1. ASSUME NEW x \in B PROVE f[x] \in (a + 1)..b
    <3>1. Row(x) \in DOMAIN rs /\ Rank(rs, Row(x)) > a /\ Rank(rs, Row(x)) <= b
      BY <1>1
    <3>2. Rank(rs, Row(x)) \in Nat
      BY <3>1, RankInt
    <3> QED
      BY <3>1, <3>2
  <2>2. ASSUME NEW x \in B, NEW y \in B, f[x] = f[y] PROVE x = y
    <3>1. Rank(rs, Row(x)) = Rank(rs, Row(y))
      BY <2>2
    <3>2. /\ Row(x) \in DOMAIN rs /\ rs[Row(x)].shown /\ x = rs[Row(x)].id
          /\ Row(y) \in DOMAIN rs /\ rs[Row(y)].shown /\ y = rs[Row(y)].id
      BY <1>1
    <3>3. Row(x) = Row(y)
      BY <3>1, <3>2, RankUnique
    <3> QED
      BY <3>2, <3>3
  <2>3. f \in [B -> (a + 1)..b]
    BY <2>1
  <2>4. IsInjective(f)
    BY <2>2 DEF IsInjective
  <2> QED
    BY <2>3, <2>4 DEF Injection
<1>3. IsFiniteSet((a + 1)..b) /\ Cardinality((a + 1)..b) = b - a
  <2>1. a + 1 \in Int /\ b \in Int
    OBVIOUS
  <2>2. /\ IsFiniteSet((a + 1)..b)
        /\ Cardinality((a + 1)..b) = IF a + 1 > b THEN 0 ELSE b - (a + 1) + 1
    BY <2>1, FS_Interval
  <2>3. (IF a + 1 > b THEN 0 ELSE b - (a + 1) + 1) = b - a
    OBVIOUS
  <2> QED
    BY <2>2, <2>3
<1>4. IsFiniteSet(B) /\ Cardinality(B) <= Cardinality((a + 1)..b)
  BY <1>2, <1>3, FS_Injection
<1> QED
  BY <1>3, <1>4 DEF B

LEMMA InBand ==
  ASSUME NEW rs \in Collections, NEW a, NEW b, NEW m \in DOMAIN rs, rs[m].shown,
         Rank(rs, m) > a, Rank(rs, m) <= b
  PROVE  rs[m].id \in Band(rs, a, b)
BY DEF Band

LEMMA JoinedSize ==
  ASSUME NEW S, NEW T, IsFiniteSet(S), IsFiniteSet(T), NEW R, R \subseteq S \cup T
  PROVE  /\ Cardinality(R) <= Cardinality(S) + Cardinality(T)
         /\ Cardinality(R) \in Nat /\ Cardinality(S) \in Nat /\ Cardinality(T) \in Nat
<1>1. /\ IsFiniteSet(S \cup T) /\ IsFiniteSet(S \cap T)
      /\ Cardinality(S \cup T) = Cardinality(S) + Cardinality(T) - Cardinality(S \cap T)
  BY FS_Union, FS_Intersection
<1>2. /\ Cardinality(S \cap T) \in Nat /\ Cardinality(S) \in Nat /\ Cardinality(T) \in Nat
      /\ Cardinality(S \cup T) \in Nat
  BY <1>1, FS_CardinalityType
<1>3. Cardinality(R) \in Nat /\ Cardinality(R) <= Cardinality(S \cup T)
  BY <1>1, NoMore
<1> QED
  BY <1>1, <1>2, <1>3

\* Where a page has ended the next one can go on: what it counted too much it will
\* miss at most, and what it counted too little it will repeat at most.
LEMMA FitsPaged ==
  ASSUME NEW rs \in Collections, NEW st, st \subseteq ShownIn(rs), NEW lost \in Nat, NEW bound \in Nat,
         NEW q \in Nat, NEW got \in Seq(Ids), FitsIn(rs, st, lost, bound, q, 0, got, Len(got))
  PROVE  FitsIn(rs, st, lost, bound, 0, Len(got), got, 0)
<1> DEFINE X == Missing(rs, st, q, 0, got)
           Y == Coming(rs, q, 0, got)
           V == Missing(rs, st, 0, Len(got), got)
           W == Coming(rs, 0, Len(got), got)
           r == Rank(rs, q)
           g == Len(got)
<1>1. /\ st \subseteq Ids /\ r \in Nat /\ g \in Nat /\ Rank(rs, 0) = 0 /\ Repeated(got) \in Int
      /\ \A m \in DOMAIN rs : m \in Nat /\ Rank(rs, m) \in Nat /\ m > 0
      /\ \A m \in DOMAIN rs : /\ m <= q => Rank(rs, m) <= r
                              /\ rs[m].shown /\ ~(m <= q) => Rank(rs, m) > r
  <2>1. \A m \in DOMAIN rs : m \in Nat /\ Rank(rs, m) \in Nat /\ m > 0
    BY RowFields, RankInt
  <2>2. r \in Nat
    BY RankType
  <2>3. ASSUME NEW m \in DOMAIN rs
        PROVE  /\ m <= q => Rank(rs, m) <= r
               /\ rs[m].shown /\ ~(m <= q) => Rank(rs, m) > r
    <3>1. CASE m <= q
      BY <2>1, <3>1, RankGrows
    <3>2. CASE ~(m <= q)
      <4>1. q < m /\ q <= m
        BY <2>1, <3>2
      <4>2. rs[m].shown => r < Rank(rs, m)
        BY <2>1, <4>1, RankGrows
      <4> QED
        BY <2>1, <2>2, <3>2, <4>2
    <3> QED
      BY <3>1, <3>2
  <2> QED
    BY <2>1, <2>2, <2>3, ShownType, ToSetType, RankZero
<1>2. /\ IsFiniteSet(X) /\ IsFiniteSet(Y)
      /\ Cardinality(X) \in Nat /\ Cardinality(V) \in Nat
      /\ Cardinality(Y) \in Nat /\ Cardinality(W) \in Nat
  BY <1>1, Sizes DEF Missed
<1>3. /\ Cardinality(X) <= lost /\ Cardinality(X) + g - r <= lost
      /\ Repeated(got) + Cardinality(Y) <= bound /\ Repeated(got) + Cardinality(Y) + r - g <= bound
  BY DEF FitsIn, Missed, Again
<1> HIDE DEF X, Y, V, W, r, g
<1>4. ASSUME NEW x \in V PROVE x \in X \/ (g > r /\ x \in Band(rs, r, g))
  <2>1. PICK m \in DOMAIN rs : /\ x = rs[m].id /\ rs[m].shown /\ x \in st /\ x \notin ToSet(got)
                               /\ m <= 0 \/ Rank(rs, m) <= Rank(rs, 0) + g
    BY MissingRow DEF V, g
  <2>2. Rank(rs, m) <= g
    BY <1>1, <2>1
  <2>3. CASE m <= q
    BY <2>1, <2>3, InMissing DEF X
  <2>4. CASE ~(m <= q)
    <3>1. Rank(rs, m) > r
      BY <1>1, <2>1, <2>4
    <3>2. g > r
      BY <1>1, <2>2, <3>1
    <3> QED
      BY <2>1, <2>2, <3>1, <3>2, InBand
  <2> QED
    BY <2>3, <2>4
<1>5. ASSUME NEW x \in W PROVE x \in Y \/ (r > g /\ x \in Band(rs, g, r))
  <2>1. PICK m \in DOMAIN rs : /\ x = rs[m].id /\ m > 0 /\ rs[m].shown /\ x \in ToSet(got)
                               /\ Rank(rs, m) > Rank(rs, 0) + g
    BY ComingRow DEF W, g
  <2>2. Rank(rs, m) > g
    BY <1>1, <2>1
  <2>3. CASE m > q
    <3>1. Rank(rs, m) > r + 0
      BY <1>1, <2>1, <2>3
    <3> QED
      BY <2>1, <2>3, <3>1, InComing DEF Y, r
  <2>4. CASE ~(m > q)
    <3>1. Rank(rs, m) <= r
      BY <1>1, <2>4
    <3>2. r > g
      BY <1>1, <2>2, <3>1
    <3> QED
      BY <2>1, <2>2, <3>1, <3>2, InBand
  <2> QED
    BY <2>3, <2>4
<1>6. Cardinality(V) <= lost
  <2>1. CASE g > r
    <3>1. IsFiniteSet(Band(rs, r, g)) /\ Cardinality(Band(rs, r, g)) <= g - r
      BY <1>1, <2>1, BandSize
    <3>2. V \subseteq X \cup Band(rs, r, g)
      BY <1>4
    <3>3. Cardinality(V) <= Cardinality(X) + Cardinality(Band(rs, r, g)) /\ Cardinality(Band(rs, r, g)) \in Nat
      BY <1>2, <3>1, <3>2, JoinedSize
    <3>4. PICK x \in Nat : x = Cardinality(X)
      BY <1>2
    <3>5. PICK y \in Nat : y = Cardinality(Band(rs, r, g))
      BY <3>3
    <3>6. x + g - r <= lost /\ y <= g - r /\ Cardinality(V) <= x + y
      BY <1>3, <3>1, <3>3, <3>4, <3>5
    <3> QED
      BY <1>1, <1>2, <3>6
  <2>2. CASE ~(g > r)
    <3>1. V \subseteq X
      BY <1>4, <2>2
    <3> QED
      BY <1>2, <1>3, <3>1, NoMore
  <2> QED
    BY <2>1, <2>2
<1>7. Repeated(got) + Cardinality(W) <= bound
  <2>1. CASE r > g
    <3>1. IsFiniteSet(Band(rs, g, r)) /\ Cardinality(Band(rs, g, r)) <= r - g
      BY <1>1, <2>1, BandSize
    <3>2. W \subseteq Y \cup Band(rs, g, r)
      BY <1>5
    <3>3. Cardinality(W) <= Cardinality(Y) + Cardinality(Band(rs, g, r)) /\ Cardinality(Band(rs, g, r)) \in Nat
      BY <1>2, <3>1, <3>2, JoinedSize
    <3>4. PICK y \in Nat : y = Cardinality(Y)
      BY <1>2
    <3>5. PICK x \in Nat : x = Cardinality(Band(rs, g, r))
      BY <3>3
    <3>6. Repeated(got) + y + r - g <= bound /\ x <= r - g /\ Cardinality(W) <= y + x
      BY <1>3, <3>1, <3>3, <3>4, <3>5
    <3> QED
      BY <1>1, <1>2, <3>6
  <2>2. CASE ~(r > g)
    <3>1. W \subseteq Y
      BY <1>5, <2>2
    <3>2. Cardinality(W) <= Cardinality(Y)
      BY <1>2, <3>1, NoMore
    <3> QED
      BY <1>1, <1>2, <1>3, <3>2
  <2> QED
    BY <2>1, <2>2
<1>8. /\ Missed(rs, st, 0, Len(got), got) <= lost /\ Missed(rs, st, 0, Len(got), got) \in Nat
      /\ Again(rs, 0, Len(got), got) <= bound /\ Again(rs, 0, Len(got), got) \in Int
  BY <1>1, <1>2, <1>6, <1>7 DEF Missed, Again, V, W
<1> QED
  BY <1>1, <1>8 DEF FitsIn

\* When the loop has gone through all rows there is nothing left to come.
LEMMA FitsComplete ==
  ASSUME NEW rs \in Collections, NEW st, st \subseteq ShownIn(rs), NEW lost \in Nat, NEW bound \in Nat,
         NEW e, NEW got \in Seq(Ids), NEW taken, FitsIn(rs, st, lost, bound, Len(rs), e, got, taken)
  PROVE  Cardinality(st \ ToSet(got)) <= lost
<1>1. \A m \in DOMAIN rs : m <= Len(rs)
  BY RowFields
<1>2. ASSUME NEW x \in st \ ToSet(got) PROVE x \in Missing(rs, st, Len(rs), e, got)
  <2>1. PICK m \in DOMAIN rs : x = rs[m].id
    BY <1>2, StableRow
  <2> QED
    BY <1>1, <1>2, <2>1, InMissing
<1>3. /\ IsFiniteSet(Missing(rs, st, Len(rs), e, got)) /\ Missed(rs, st, Len(rs), e, got) \in Nat
      /\ Missed(rs, st, Len(rs), e, got) <= lost
  BY ShownType, Sizes DEF FitsIn
<1>4. st \ ToSet(got) \subseteq Missing(rs, st, Len(rs), e, got)
  BY <1>2
<1>5. /\ Cardinality(st \ ToSet(got)) \in Nat
      /\ Cardinality(st \ ToSet(got)) <= Missed(rs, st, Len(rs), e, got)
  BY <1>3, <1>4, NoMore DEF Missed
<1> QED
  BY <1>3, <1>5

-----------------------------------------------------------------------------
(* A LIST takes a row.                                                     *)

Records == [stage: {"serving", "answered"}, walking: BOOLEAN, limit: Int, offset: Int,
            page: Nat, skipped: Nat, result: Seq(Ids), unsaved: Seq(Ids), quiet: BOOLEAN]

\* What stays the same while a LIST is served, but for its page.
SameRequest(l, k) ==
  /\ k.walking = l.walking /\ k.limit = l.limit /\ k.offset = l.offset /\ k.quiet = l.quiet

LEMMA RecordType ==
  ASSUME NEW l \in Records
  PROVE  /\ l.stage \in {"serving", "answered"} /\ l.walking \in BOOLEAN /\ l.limit \in Int
         /\ l.offset \in Int /\ l.page \in Nat /\ l.skipped \in Nat /\ l.result \in Seq(Ids)
         /\ l.quiet \in BOOLEAN /\ First(l.offset) \in Nat /\ Len(l.result) \in Nat
         /\ l.unsaved \in Seq(Ids) /\ Len(l.unsaved) \in Nat
<1>1. /\ l.stage \in {"serving", "answered"} /\ l.walking \in BOOLEAN /\ l.limit \in Int
      /\ l.offset \in Int /\ l.page \in Nat /\ l.skipped \in Nat /\ l.result \in Seq(Ids)
      /\ l.quiet \in BOOLEAN /\ l.unsaved \in Seq(Ids)
  BY DEF Records
<1>2. First(l.offset) \in Nat
  BY <1>1 DEF First
<1>3. Len(l.result) \in Nat /\ Len(l.unsaved) \in Nat
  BY <1>1, LenProperties
<1> QED
  BY <1>1, <1>2, <1>3

\* The four ways a turn of the loop can go.
Ignores(l, k, row) == k = l /\ (l.stage = "answered" \/ ~row.shown)
Drops(l, k, row) ==
  /\ l.stage = "serving" /\ row.shown /\ k.stage = "serving" /\ k.skipped = l.skipped
  /\ k.result = l.result /\ k.unsaved = Append(l.unsaved, row.id)
Skips(l, k, row) ==
  /\ l.stage = "serving" /\ row.shown /\ l.skipped < l.offset /\ k.unsaved = l.unsaved
  /\ k.stage = "serving" /\ k.skipped = l.skipped + 1 /\ k.result = l.result
Adds(l, k, row) ==
  /\ l.stage = "serving" /\ row.shown /\ ~(l.skipped < l.offset) /\ k.unsaved = l.unsaved
  /\ k.skipped = l.skipped /\ k.result = Append(l.result, row.id)
  /\ k.stage = IF Enough(l.limit, k.result) THEN "answered" ELSE "serving"

LEMMA TakeCases ==
  ASSUME NEW l \in Records, NEW row \in Rows, NEW saved \in BOOLEAN, NEW k, k = Take(l, row, saved)
  PROVE  /\ k \in Records /\ SameRequest(l, k) /\ k.page = l.page
         /\ \/ Ignores(l, k, row) \/ Skips(l, k, row) \/ Adds(l, k, row)
            \/ ~saved /\ Drops(l, k, row)
<1>1. row.shown \in BOOLEAN /\ row.id \in Ids
  BY DEF Rows
<1>2. CASE l.stage = "answered" \/ ~row.shown
  BY <1>2 DEF Take, SameRequest, Ignores
<1>3. CASE ~(l.stage = "answered" \/ ~row.shown) /\ ~saved
  <2>1. PICK unsaved : unsaved = Append(l.unsaved, row.id)
    OBVIOUS
  <2>2. l.stage = "serving" /\ unsaved \in Seq(Ids)
    BY <1>1, <1>3, <2>1, RecordType, AppendProperties
  <2>3. k = [l EXCEPT !.unsaved = unsaved]
    BY <1>3, <2>1 DEF Take
  <2>4. /\ k \in Records /\ SameRequest(l, k) /\ k.page = l.page /\ k.stage = l.stage
        /\ k.skipped = l.skipped /\ k.result = l.result /\ k.unsaved = unsaved
    BY <2>2, <2>3 DEF SameRequest, Records
  <2> QED
    BY <1>3, <2>1, <2>2, <2>4 DEF Drops
<1>4. CASE ~(l.stage = "answered" \/ ~row.shown) /\ saved /\ l.skipped < l.offset
  <2>1. k = [l EXCEPT !.skipped = @ + 1]
    BY <1>4 DEF Take
  <2>2. l.stage = "serving" /\ l.skipped + 1 \in Nat
    BY <1>4, RecordType
  <2>3. /\ k \in Records /\ SameRequest(l, k) /\ k.page = l.page /\ k.stage = "serving"
        /\ k.skipped = l.skipped + 1 /\ k.result = l.result /\ k.unsaved = l.unsaved
    BY <2>1, <2>2 DEF SameRequest, Records
  <2> QED
    BY <1>4, <2>2, <2>3 DEF Skips
<1>5. CASE ~(l.stage = "answered" \/ ~row.shown) /\ saved /\ ~(l.skipped < l.offset)
  <2>1. PICK result : result = Append(l.result, row.id)
    OBVIOUS
  <2>2. PICK stage : stage = IF Enough(l.limit, result) THEN "answered" ELSE "serving"
    OBVIOUS
  <2>3. l.stage = "serving" /\ l.result \in Seq(Ids)
    BY <1>5, RecordType
  <2>4. result \in Seq(Ids) /\ stage \in {"serving", "answered"}
    BY <1>1, <2>1, <2>2, <2>3, AppendProperties
  <2>5. k = [l EXCEPT !.result = result, !.stage = stage]
    BY <1>5, <2>1, <2>2, <2>3 DEF Take
  <2>6. /\ k \in Records /\ SameRequest(l, k) /\ k.page = l.page
        /\ k.skipped = l.skipped /\ k.result = result /\ k.stage = stage
        /\ k.unsaved = l.unsaved
    BY <2>4, <2>5 DEF SameRequest, Records
  <2> QED
    BY <1>5, <2>1, <2>2, <2>3, <2>6 DEF Adds
<1> QED
  BY <1>2, <1>4, <1>5, <1>3

\* What the lemmas assume of the state.
Standing ==
  /\ rows \in Collections /\ source \in {"local", "remote"}
  /\ history.stable \subseteq ShownIn(rows) /\ Losses \in Nat /\ Bound \in Nat
  /\ walk.got \in Seq(Ids) /\ walk.offset = Len(walk.got) /\ walk.limit \in Nat \ {0}
  /\ Paged(walk.got, 0)

LEMMA SliceType ==
  ASSUME NEW rs, NEW a \in Nat, NEW b \in Nat
  PROVE  /\ b <= a => Slice(rs, a, b) = << >>
         /\ Len(Slice(rs, a, b)) = IF b > a THEN b - a ELSE 0
         /\ b >= a => Slice(rs, a, b + 1) = Append(Slice(rs, a, b), Nth(rs, b + 1))
<1>1. ASSUME b <= a PROVE Slice(rs, a, b) = << >>
  <2>1. 1..0 = {} /\ ~(b > a)
    BY <1>1
  <2> QED
    BY <2>1 DEF Slice
<1>2. Len(Slice(rs, a, b)) = IF b > a THEN b - a ELSE 0
  <2>1. (IF b > a THEN b - a ELSE 0) \in Nat
    OBVIOUS
  <2> PICK n \in Nat : n = IF b > a THEN b - a ELSE 0
    BY <2>1
  <2>2. Slice(rs, a, b) = [i \in 1..n |-> Nth(rs, a + i)]
    BY DEF Slice
  <2> QED
    BY <2>2
<1>3. ASSUME b >= a PROVE Slice(rs, a, b + 1) = Append(Slice(rs, a, b), Nth(rs, b + 1))
  <2> PICK n \in Nat : n = b - a
    BY <1>3
  <2>1. (IF b > a THEN b - a ELSE 0) = n /\ (IF b + 1 > a THEN (b + 1) - a ELSE 0) = n + 1 /\ a + (n + 1) = b + 1
    BY <1>3
  <2>2. Slice(rs, a, b) = [i \in 1..n |-> Nth(rs, a + i)] /\ Slice(rs, a, b + 1) = [i \in 1..(n + 1) |-> Nth(rs, a + i)]
    BY <2>1 DEF Slice
  <2> DEFINE N(i) == Nth(rs, a + i)
  <2>3. N(n + 1) = Nth(rs, b + 1)
    BY <2>1
  <2> HIDE DEF N
  <2>4. [i \in 1..(n + 1) |-> N(i)] = Append([i \in 1..n |-> N(i)], N(n + 1))
    OBVIOUS
  <2> QED
    BY <2>2, <2>3, <2>4 DEF N
<1> QED
  BY <1>1, <1>2, <1>3

LEMMA SliceLen == ASSUME NEW rs, NEW a \in Nat, NEW b \in Nat, a <= b PROVE Len(Slice(rs, a, b)) = b - a
<1>1. (IF b > a THEN b - a ELSE 0) = b - a
  OBVIOUS
<1>2. Len(Slice(rs, a, b)) = IF b > a THEN b - a ELSE 0
  BY SliceType
<1> QED
  BY <1>1, <1>2

LEMMA NthRow ==
  ASSUME NEW rs \in Collections, NEW m \in DOMAIN rs, rs[m].shown
  PROVE  Nth(rs, Rank(rs, m)) = rs[m].id
<1> DEFINE c == CHOOSE i \in DOMAIN rs : rs[i].shown /\ Rank(rs, i) = Rank(rs, m)
<1>1. c \in DOMAIN rs /\ rs[c].shown /\ Rank(rs, c) = Rank(rs, m)
  OBVIOUS
<1> HIDE DEF c
<1>2. c = m
  BY <1>1, RankUnique
<1> QED
  BY <1>2 DEF Nth, c

\* There is an object of each rank up to that of a row.
LEMMA RankReached ==
  ASSUME NEW rs, NEW q \in Nat, NEW i \in Nat \ {0}, i <= Rank(rs, q)
  PROVE  \E m \in 1..q : rs[m].shown /\ Rank(rs, m) = i
<1> DEFINE S == {n \in Nat : i <= Rank(rs, n) => \E m \in 1..n : rs[m].shown /\ Rank(rs, m) = i}
<1>1. 0 \in S
  BY RankZero
<1>2. ASSUME NEW n \in S PROVE n + 1 \in S
  <2> SUFFICES ASSUME i <= Rank(rs, n + 1)
               PROVE  \E m \in 1..(n + 1) : rs[m].shown /\ Rank(rs, m) = i
    OBVIOUS
  <2>1. /\ rs[n + 1].shown => Rank(rs, n + 1) = Rank(rs, n) + 1
        /\ ~rs[n + 1].shown => Rank(rs, n + 1) = Rank(rs, n)
    BY RankStep
  <2>2. Rank(rs, n) \in Nat
    BY RankType
  <2>3. CASE i <= Rank(rs, n)
    BY <2>3
  <2>4. CASE ~(i <= Rank(rs, n))
    <3>1. rs[n + 1].shown /\ Rank(rs, n + 1) = i
      BY <2>1, <2>2, <2>4
    <3>2. n + 1 \in 1..(n + 1)
      OBVIOUS
    <3> QED
      BY <3>1, <3>2
  <2> QED
    BY <2>3, <2>4
<1> HIDE DEF S
<1>3. Nat \subseteq S
  BY <1>1, <1>2, NaturalsCovered
<1>4. q \in S
  BY <1>3
<1> QED
  BY <1>4 DEF S

\* Slices depend on the rows they come from only.
LEMMA SliceEmpty ==
  ASSUME NEW rs, NEW a \in Nat, NEW b \in Nat, b <= a
  PROVE  Slice(rs, a, b) = << >>
  BY SliceType

LEMMA SliceSame ==
  ASSUME NEW rs \in Collections, NEW ss \in Collections, NEW q \in Nat,
         1..q \subseteq DOMAIN rs, 1..q \subseteq DOMAIN ss,
         \A m \in 1..q : rs[m] = ss[m],
         NEW a \in Nat, NEW b \in Nat, b <= Rank(rs, q)
  PROVE  Slice(rs, a, b) = Slice(ss, a, b)
<1>1. ASSUME NEW i \in Nat \ {0}, i <= b PROVE Nth(rs, i) = Nth(ss, i)
  <2>1. i <= Rank(rs, q)
    <3>1. PICK r \in Nat : r = Rank(rs, q)
      BY RankType
    <3>2. i <= r
      BY <1>1, <3>1
    <3> QED
      BY <3>1, <3>2
  <2>2. PICK m \in 1..q : rs[m].shown /\ Rank(rs, m) = i
    BY <2>1, RankReached
  <2>3. m \in Nat /\ \A n \in 1..m : rs[n].shown <=> ss[n].shown
    OBVIOUS
  <2>4. Rank(rs, m) = Rank(ss, m)
    BY <2>3, RankSame
  <2>5. m \in DOMAIN rs /\ m \in DOMAIN ss /\ ss[m] = rs[m]
    OBVIOUS
  <2>6. Nth(rs, Rank(rs, m)) = rs[m].id /\ Nth(ss, Rank(ss, m)) = ss[m].id
    BY <2>2, <2>5, NthRow
  <2> QED
    BY <2>2, <2>4, <2>5, <2>6
<1>2. PICK size \in Nat : size = IF b > a THEN b - a ELSE 0
  OBVIOUS
<1>3. ASSUME NEW n \in 1..size PROVE Nth(rs, a + n) = Nth(ss, a + n)
  <2>1. a + n \in Nat \ {0} /\ a + n <= b
    BY <1>2
  <2> QED
    BY <1>1, <2>1
<1>4. [n \in 1..size |-> Nth(rs, a + n)] = [n \in 1..size |-> Nth(ss, a + n)]
  BY <1>3
<1> QED
  BY <1>2, <1>4 DEF Slice

\* The collection that a LIST sees.
LEMMA WithoutRows ==
  ASSUME rows \in Collections, NEW ids
  PROVE  /\ Without(ids) \in Collections
         /\ Len(Without(ids)) = Len(rows) /\ DOMAIN Without(ids) = DOMAIN rows
         /\ \A m \in DOMAIN rows :
              /\ Without(ids)[m] \in Rows /\ Without(ids)[m].id = rows[m].id
              /\ Without(ids)[m].shown <=> rows[m].shown /\ rows[m].id \notin ToSet(ids)
<1>1. PICK size \in Nat : size = Len(rows) /\ DOMAIN rows = 1..size
  BY RowFields
<1>2. PICK seen : seen = Without(ids)
  OBVIOUS
<1>3. seen = [n \in 1..size |-> [rows[n] EXCEPT !.shown = @ /\ rows[n].id \notin ToSet(ids)]]
  BY <1>1, <1>2 DEF Without
<1>4. ASSUME NEW m \in 1..size
      PROVE  /\ seen[m] \in Rows /\ seen[m].id = rows[m].id
             /\ seen[m].shown <=> rows[m].shown /\ rows[m].id \notin ToSet(ids)
  <2>1. rows[m] \in [id: Ids, shown: BOOLEAN]
    BY <1>1, RowFields DEF Rows
  <2>2. PICK shown \in BOOLEAN : shown <=> rows[m].shown /\ rows[m].id \notin ToSet(ids)
    BY Zenon
  <2>3. shown = (rows[m].shown /\ rows[m].id \notin ToSet(ids))
    BY <2>1, <2>2
  <2>4. seen[m] = [rows[m] EXCEPT !.shown = shown]
    BY <1>3, <2>3
  <2> QED
    BY <2>1, <2>2, <2>4 DEF Rows
<1>5. seen \in Seq(Rows) /\ Len(seen) = size /\ DOMAIN seen = 1..size
  BY <1>3, <1>4
<1>6. Distinct(seen)
  BY <1>1, <1>4, <1>5, RowFields DEF Distinct
<1> QED
  BY <1>1, <1>2, <1>4, <1>5, <1>6 DEF Collections

\* How many objects are wanted, and the last one of a page.
Wanted(rs, limit) ==
  IF limit >= 0 THEN limit ELSE IF source = "local" THEN 1 ELSE Rank(rs, Len(rs))

LEMMA WindowEnds ==
  ASSUME NEW rs, NEW limit \in Int, NEW offset \in Int, NEW total \in Nat, total = Rank(rs, Len(rs)),
         NEW length \in Nat, length = Wanted(rs, limit), NEW first \in Nat, first = First(offset)
  PROVE  /\ first + length <= total => Window(rs, limit, offset) = Slice(rs, first, first + length)
         /\ total <= first + length => Window(rs, limit, offset) = Slice(rs, first, total)
<1>1. Window(rs, limit, offset)
        = Slice(rs, first, IF first + length < total THEN first + length ELSE total)
  BY DEF Window, Wanted
<1>2. /\ first + length <= total =>
           (IF first + length < total THEN first + length ELSE total) = first + length
      /\ total <= first + length => (IF first + length < total THEN first + length ELSE total) = total
  OBVIOUS
<1> QED
  BY <1>1, <1>2

\* A turn of the loop of a LIST that has not been disturbed.
LEMMA QuietTake ==
  ASSUME rows \in Collections, source \in {"local", "remote"}, NEW l \in Records,
         NEW q \in Nat, q + 1 \in DOMAIN rows, ListInv(l, q), l.quiet,
         NEW saved \in BOOLEAN, NEW k, k = Take(l, rows[q + 1], saved)
  PROVE  QuietInv(k, q + 1)
<1>1. \A rs : \A a, b \in Nat :
        /\ b <= a => Slice(rs, a, b) = << >>
        /\ Len(Slice(rs, a, b)) = IF b > a THEN b - a ELSE 0
        /\ b >= a => Slice(rs, a, b + 1) = Append(Slice(rs, a, b), Nth(rs, b + 1))
  BY SliceType
<1> PICK seen : seen = Without(l.unsaved)
  OBVIOUS
<1>2. /\ seen \in Collections /\ Len(seen) = Len(rows) /\ DOMAIN seen = DOMAIN rows
      /\ \A m \in DOMAIN rows :
           /\ seen[m].id = rows[m].id
           /\ seen[m].shown <=> rows[m].shown /\ rows[m].id \notin ToSet(l.unsaved)
  BY WithoutRows
<1> PICK first \in Nat : first = First(l.offset)
  BY RecordType
<1> PICK r \in Nat : r = Rank(seen, q)
  BY RankType
<1>3. PICK total \in Nat : total = Rank(seen, Len(seen))
  BY <1>2, RowFields, RankType
<1>4. /\ l.skipped \in 0..first /\ l.limit \in Int /\ l.offset \in Int /\ QuietInv(l, q)
      /\ l.stage \in {"serving", "answered"} /\ l.unsaved \in Seq(Ids)
      /\ l.stage = "serving" => l.limit # 0 /\ (l.result = << >> \/ ~Enough(l.limit, l.result))
  BY RecordType DEF ListInv
<1>5. /\ rows[q + 1] \in Rows /\ rows[q + 1].shown \in BOOLEAN /\ q + 1 \in Nat
      /\ q + 1 <= Len(rows) /\ Len(rows) \in Nat /\ DOMAIN rows = 1..Len(rows)
  BY RowFields
<1>6. ASSUME l.stage = "serving"
       PROVE  /\ l.skipped = IF r < first THEN r ELSE first
              /\ l.result = Slice(seen, first, r)
              /\ \A n \in DOMAIN rows : rows[n].id \in ToSet(l.unsaved) => n <= q
  BY <1>4, <1>6 DEF QuietInv
<1>7. ASSUME l.stage = "serving" PROVE seen[q + 1].shown <=> rows[q + 1].shown
  <2>1. rows[q + 1].id \notin ToSet(l.unsaved)
    BY <1>6, <1>7
  <2> QED
    BY <1>2, <2>1
<1>8. /\ seen[q + 1].shown =>
           Rank(seen, q + 1) = r + 1 /\ r + 1 <= total /\ Nth(seen, r + 1) = rows[q + 1].id
      /\ ~seen[q + 1].shown => Rank(seen, q + 1) = r
  <2>1. /\ seen[q + 1].shown => Rank(seen, q + 1) = r + 1
        /\ ~seen[q + 1].shown => Rank(seen, q + 1) = r
    BY RankStep
  <2>2. Rank(seen, q + 1) <= total
    BY <1>5, <1>2, <1>3, RankGrows
  <2>3. seen[q + 1].shown => Nth(seen, Rank(seen, q + 1)) = rows[q + 1].id
    BY <1>2, NthRow
  <2> QED
    BY <2>1, <2>2, <2>3
<1>9. /\ k \in Records /\ SameRequest(l, k)
      /\ \/ Ignores(l, k, rows[q + 1]) \/ Skips(l, k, rows[q + 1]) \/ Adds(l, k, rows[q + 1])
         \/ Drops(l, k, rows[q + 1])
  BY <1>5, TakeCases
<1>10. \A n \in DOMAIN rows : n <= q => n <= q + 1
  BY <1>5
<1>11. CASE Ignores(l, k, rows[q + 1])
  <2>1. CASE l.stage = "answered"
    BY <1>4, <1>11, <2>1 DEF Ignores, QuietInv
  <2>2. CASE l.stage = "serving"
    <3>1. k = l /\ ~rows[q + 1].shown
      BY <1>11, <2>2 DEF Ignores
    <3>2. Rank(seen, q + 1) = r
      BY <1>8, <1>7, <2>2, <3>1
    <3> QED
      BY <1>6, <1>10, <2>2, <3>1, <3>2 DEF QuietInv
  <2> QED
    BY <1>4, <2>1, <2>2
<1>12. CASE Skips(l, k, rows[q + 1])
  <2>1. /\ l.stage = "serving" /\ rows[q + 1].shown /\ l.skipped < l.offset /\ k.unsaved = l.unsaved
        /\ k.stage = "serving" /\ k.skipped = l.skipped + 1 /\ k.result = l.result
    BY <1>12 DEF Skips
  <2>2. /\ Rank(seen, q + 1) = r + 1 /\ r + 1 <= total /\ Nth(seen, r + 1) = rows[q + 1].id
         /\ \A n \in DOMAIN rows : rows[n].id \in ToSet(k.unsaved) => n <= q + 1
    BY <1>8, <1>6, <1>7, <1>10, <2>1
  <2>3. l.skipped < first
    BY <1>4, <2>1 DEF First
  <2>4. /\ l.skipped = IF r < first THEN r ELSE first
        /\ l.result = Slice(seen, first, r)
    BY <1>6, <2>1
  <2>5. r < first /\ k.skipped = r + 1
    BY <2>1, <2>3, <2>4
  <2>6. Slice(seen, first, r) = Slice(seen, first, r + 1)
    <3>1. r <= first /\ r + 1 <= first /\ r + 1 \in Nat
      BY <2>5
    <3>2. Slice(seen, first, r) = << >>
      BY <3>1, SliceEmpty
    <3>3. Slice(seen, first, r + 1) = << >>
      BY <3>1, SliceEmpty
    <3> QED
      BY <3>2, <3>3
  <2>7. k.skipped = IF r + 1 < first THEN r + 1 ELSE first
    BY <2>5
  <2>8. First(k.offset) = first
    BY <1>9 DEF SameRequest
  <2> QED
    BY <2>2, <2>1, <2>4, <2>6, <2>7, <2>8 DEF QuietInv
<1>13. CASE Adds(l, k, rows[q + 1])
  <2>1. /\ l.stage = "serving" /\ rows[q + 1].shown /\ ~(l.skipped < l.offset) /\ k.unsaved = l.unsaved
        /\ k.skipped = l.skipped /\ k.result = Append(l.result, rows[q + 1].id)
        /\ k.stage = IF Enough(l.limit, k.result) THEN "answered" ELSE "serving"
    BY <1>13 DEF Adds
  <2>2. /\ Rank(seen, q + 1) = r + 1 /\ r + 1 <= total /\ Nth(seen, r + 1) = rows[q + 1].id
         /\ \A n \in DOMAIN rows : rows[n].id \in ToSet(k.unsaved) => n <= q + 1
    BY <1>8, <1>6, <1>7, <1>10, <2>1
  <2>3. l.skipped = first
    BY <1>4, <2>1 DEF First
  <2>4. /\ l.skipped = IF r < first THEN r ELSE first
        /\ l.result = Slice(seen, first, r)
    BY <1>6, <2>1
  <2>5. r >= first
    BY <2>3, <2>4
  <2>6. k.result = Slice(seen, first, r + 1)
    <3>1. Slice(seen, first, r + 1) = Append(Slice(seen, first, r), Nth(seen, r + 1))
      BY <1>1, <2>5
    <3> QED
      BY <2>2, <2>1, <2>4, <3>1
  <2>7. Len(l.result) = r - first /\ Len(k.result) = (r + 1) - first
    <3>1. Len(Slice(seen, first, r)) = r - first
      BY <2>5, SliceLen
    <3>2. PICK b \in Nat : b = r + 1
      OBVIOUS
    <3>3. first <= b
      BY <2>5, <3>2
    <3>4. Len(Slice(seen, first, b)) = b - first
      BY <3>3, SliceLen
    <3> QED
      BY <2>4, <2>6, <3>1, <3>2, <3>4
  <2>8. First(k.offset) = first /\ k.limit = l.limit /\ k.offset = l.offset
    BY <1>9 DEF SameRequest
  <2>9. CASE ~Enough(l.limit, k.result)
    <3>1. k.stage = "serving" /\ k.skipped = IF r + 1 < first THEN r + 1 ELSE first
      BY <2>1, <2>3, <2>5, <2>9
    <3> QED
      BY <2>2, <2>1, <2>6, <2>8, <3>1 DEF QuietInv
  <2>10. CASE Enough(l.limit, k.result)
    <3>1. k.stage = "answered"
      BY <2>1, <2>10
    <3>2. Len(k.result) >= l.limit /\ (source = "remote" => l.limit >= 0)
      BY <2>10 DEF Enough
    <3>3. /\ l.limit # 0
          /\ Len(l.result) = 0 \/ ~(Len(l.result) >= l.limit) \/ ~(source = "remote" => l.limit >= 0)
      BY <1>4, <2>1 DEF Enough
    <3>4. ASSUME NEW length \in Nat, first + length = r + 1, length = Wanted(seen, l.limit)
          PROVE  k.result = Window(seen, l.limit, l.offset)
      <4>1. first + length <= total
        BY <2>2, <2>1, <3>4
      <4>2. Window(seen, l.limit, l.offset) = Slice(seen, first, first + length)
        BY <1>4, <1>3, <3>4, <4>1, WindowEnds
      <4> QED
        BY <2>6, <3>4, <4>2
    <3>5. PICK n \in Nat : n = r - first
      BY <2>5
    <3>6. Len(l.result) = n /\ Len(k.result) = n + 1
      BY <2>7, <3>5
    <3>7. CASE l.limit >= 0
      <4>1. PICK m \in Nat : m = l.limit
        BY <1>4, <3>7
      <4>2. n + 1 >= m /\ m # 0 /\ (n = 0 \/ ~(n >= m))
        BY <3>2, <3>3, <3>7, <3>6, <4>1
      <4>3. m = n + 1
        BY <4>2
      <4>4. l.limit \in Nat /\ first + l.limit = r + 1
        BY <3>5, <4>1, <4>3
      <4>5. k.result = Window(seen, l.limit, l.offset)
        BY <3>4, <3>7, <4>4 DEF Wanted
      <4> QED
        BY <2>1, <2>8, <3>1, <4>5 DEF QuietInv
    <3>8. CASE ~(l.limit >= 0)
      <4>1. source = "local"
        BY <3>2, <3>8
      <4>2. r - first = 0
        <5>1. n = 0 \/ ~(n >= l.limit)
          BY <3>3, <3>6, <4>1
        <5> QED
          BY <1>4, <3>8, <3>5, <5>1
      <4>3. first + 1 = r + 1
        BY <4>2
      <4>4. k.result = Window(seen, l.limit, l.offset)
        BY <3>4, <3>8, <4>1, <4>3 DEF Wanted
      <4> QED
        BY <2>1, <2>8, <3>1, <4>4 DEF QuietInv
    <3> QED
      BY <3>7, <3>8
  <2> QED
    BY <2>9, <2>10
<1>14. CASE Drops(l, k, rows[q + 1])
  <2> DEFINE id == rows[q + 1].id
             next == Without(k.unsaved)
  <2>1. /\ l.stage = "serving" /\ rows[q + 1].shown /\ k.stage = "serving" /\ k.skipped = l.skipped
        /\ k.result = l.result /\ k.unsaved = Append(l.unsaved, id) /\ id \in Ids
    BY <1>5, <1>14 DEF Drops, Rows
  <2>2. ToSet(k.unsaved) = ToSet(l.unsaved) \cup {id}
    BY <1>4, <2>1, ToSetAppend
  <2>3. /\ next \in Collections /\ Len(next) = Len(rows) /\ DOMAIN next = DOMAIN rows
        /\ \A m \in DOMAIN rows :
             /\ next[m].id = rows[m].id /\ next[m] \in Rows
             /\ next[m].shown <=> rows[m].shown /\ rows[m].id \notin ToSet(k.unsaved)
    BY WithoutRows
  <2>4. ~next[q + 1].shown
    BY <2>1, <2>2, <2>3
  <2>5. \A m \in 1..q : m \in DOMAIN rows /\ m # q + 1
    BY <1>5
  <2>6. ASSUME NEW m \in 1..q PROVE seen[m] = next[m]
    <3>1. rows[m].id # id /\ m \in DOMAIN rows
      BY <2>5, RowFields DEF Distinct
    <3>2. seen[m] \in Rows /\ next[m] \in Rows
      BY <1>2, <2>3, <3>1, RowFields
    <3>3. seen[m].id = next[m].id /\ (seen[m].shown <=> next[m].shown)
      BY <1>2, <2>2, <2>3, <3>1
    <3> QED
      BY <3>2, <3>3 DEF Rows
  <2> HIDE DEF next, id
  <2>7. Rank(next, q) = r
    <3>1. \A m \in 1..q : seen[m].shown <=> next[m].shown
      BY <2>6
    <3> QED
      BY <3>1, RankSame
  <2>8. Rank(next, q + 1) = r
    BY <2>4, <2>7, RankStep
  <2>9. Slice(seen, first, r) = Slice(next, first, r)
    <3>1. 1..q \subseteq DOMAIN seen /\ 1..q \subseteq DOMAIN next /\ r <= Rank(seen, q)
      BY <1>2, <2>3, <2>5
    <3>2. PICK ss \in Collections : ss = next
      BY <2>3
    <3>3. /\ seen \in Collections /\ 1..q \subseteq DOMAIN ss /\ \A m \in 1..q : seen[m] = ss[m]
      BY <1>2, <2>6, <3>1, <3>2
    <3>4. Slice(seen, first, r) = Slice(ss, first, r)
      BY <3>1, <3>3, SliceSame
    <3> QED
      BY <3>2, <3>4
  <2>10. First(k.offset) = first
    BY <1>9 DEF SameRequest
  <2>11. \A n \in DOMAIN rows : rows[n].id \in ToSet(k.unsaved) => n <= q + 1
    <3> SUFFICES ASSUME NEW n \in DOMAIN rows, rows[n].id \in ToSet(k.unsaved) PROVE n <= q + 1
      OBVIOUS
    <3>1. CASE rows[n].id \in ToSet(l.unsaved)
      BY <1>6, <1>10, <2>1, <3>1
    <3>2. CASE rows[n].id = id
      <4>1. n = q + 1
        BY <3>2, RowFields DEF Distinct, id
      <4> QED
        BY <1>5, <4>1
    <3> QED
      BY <2>2, <3>1, <3>2
  <2> QED
    BY <1>6, <2>1, <2>8, <2>9, <2>10, <2>11 DEF QuietInv, next
<1> QED
  BY <1>9, <1>11, <1>12, <1>13, <1>14

\* The answer of a LIST that has gone through all rows without a change.
LEMMA QuietEnd ==
  ASSUME rows \in Collections, source \in {"local", "remote"}, NEW l \in Records,
         ListInv(l, Len(rows)), l.quiet, l.stage = "serving"
  PROVE  l.result = Window(Without(l.unsaved), l.limit, l.offset)
<1> PICK seen : seen = Without(l.unsaved)
  OBVIOUS
<1>1. seen \in Collections /\ Len(seen) = Len(rows)
  BY WithoutRows
<1>2. PICK total \in Nat : total = Rank(seen, Len(seen))
  BY <1>1, RowFields, RankType
<1>3. PICK first \in Nat : first = First(l.offset)
  BY RecordType
<1>4. /\ l.limit \in Int /\ l.offset \in Int /\ l.limit # 0
      /\ l.result = << >> \/ ~Enough(l.limit, l.result)
      /\ l.result = Slice(seen, first, total)
  BY <1>2, <1>3, <1>1, RecordType DEF ListInv, QuietInv
<1>5. ASSUME NEW length \in Nat, length = Wanted(seen, l.limit), total <= first + length
      PROVE  l.result = Window(seen, l.limit, l.offset)
  BY <1>2, <1>3, <1>4, <1>5, WindowEnds
<1>6. CASE total <= first
  <2>1. PICK length \in Nat : length = Wanted(seen, l.limit)
    <3>1. CASE l.limit >= 0
      BY <1>4, <3>1 DEF Wanted
    <3>2. CASE ~(l.limit >= 0)
      BY <1>2, <1>4, <3>2 DEF Wanted
    <3> QED
      BY <3>1, <3>2
  <2>2. total <= first + length
    BY <1>6
  <2> QED
    BY <1>5, <2>1, <2>2
<1>7. CASE ~(total <= first)
  <2>1. Len(l.result) = total - first
    <3>1. first <= total
      BY <1>7
    <3>2. Len(Slice(seen, first, total)) = total - first
      BY <3>1, SliceLen
    <3> QED
      BY <1>4, <3>2
  <2>2. l.result # << >>
    BY <1>7, <2>1
  <2>3. ~((source = "remote" => l.limit >= 0) /\ Len(l.result) >= l.limit)
    BY <1>4, <2>2 DEF Enough
  <2>4. CASE l.limit >= 0
    <3>1. l.limit \in Nat /\ total <= first + l.limit
      BY <1>4, <2>1, <2>3, <2>4
    <3> QED
      BY <1>5, <2>4, <3>1 DEF Wanted
  <2>5. CASE ~(l.limit >= 0)
    <3>1. Len(l.result) >= l.limit
      BY <1>4, <1>7, <2>1, <2>5
    <3>2. source # "local"
      BY <2>3, <3>1
    <3>3. total = Wanted(seen, l.limit) /\ total <= first + total
      BY <1>2, <2>5, <3>2 DEF Wanted
    <3> QED
      BY <1>5, <3>3
  <2> QED
    BY <2>4, <2>5
<1> QED
  BY <1>6, <1>7

LEMMA GotAppend ==
  ASSUME NEW got \in Seq(Ids), NEW result \in Seq(Ids), NEW x \in Ids
  PROVE  /\ got \o result \in Seq(Ids) /\ Len(got \o result) = Len(got) + Len(result)
         /\ got \o Append(result, x) = Append(got \o result, x)
         /\ Len(got) \in Nat /\ Len(result) \in Nat /\ Len(Append(result, x)) = Len(result) + 1
<1>1. /\ got \o result \in Seq(Ids) /\ Len(got \o result) = Len(got) + Len(result)
      /\ Len(got) \in Nat /\ Len(result) \in Nat /\ Len(Append(result, x)) = Len(result) + 1
  BY ConcatProperties, LenProperties, AppendProperties
<1>2. <<x>> \in Seq(Ids)
  OBVIOUS
<1>3. /\ Append(result, x) = result \o <<x>>
      /\ Append(got \o result, x) = (got \o result) \o <<x>>
  BY <1>1, AppendIsConcat
<1>4. got \o (result \o <<x>>) = (got \o result) \o <<x>>
  BY <1>2, ConcatAssociative
<1> QED
  BY <1>1, <1>3, <1>4

LEMMA WalkTake ==
  ASSUME Standing, NEW l \in Records, NEW q \in Nat, q + 1 \in DOMAIN rows,
         ListInv(l, q), l.walking,
         NEW saved \in BOOLEAN, source = "local" => saved, NEW k, k = Take(l, rows[q + 1], saved)
  PROVE  WalkInv(k, q + 1)
<1> DEFINE id == rows[q + 1].id
           old == walk.got
           got == old \o l.result
           taken == l.skipped + Len(l.result)
           u == Len(l.unsaved)
<1>1. /\ rows \in Collections /\ history.stable \subseteq ShownIn(rows) /\ Losses \in Nat
      /\ Bound \in Nat /\ old \in Seq(Ids) /\ walk.offset = Len(old) /\ walk.limit \in Nat \ {0}
  BY DEF Standing
<1>2. rows[q + 1] \in Rows /\ rows[q + 1].shown \in BOOLEAN /\ id \in Ids
  BY <1>1, RowFields
<1>3. /\ l.skipped \in 0..First(l.offset) /\ WalkInv(l, q) /\ l.offset = Len(old)
      /\ l.limit = walk.limit /\ ~walk.over /\ l.result \in Seq(Ids)
      /\ l.unsaved \in Seq(Ids) /\ u \in Nat
  <2>1. l.skipped \in 0..First(l.offset) /\ WalkInv(l, q)
    BY DEF ListInv
  <2>2. l.offset = walk.offset /\ l.limit = walk.limit /\ ~walk.over
    BY <2>1 DEF WalkInv
  <2>3. l.result \in Seq(Ids) /\ l.unsaved \in Seq(Ids) /\ u \in Nat
    BY RecordType
  <2> QED
    BY <1>1, <2>1, <2>2, <2>3
<1>4. /\ got \in Seq(Ids) /\ Len(got) = Len(old) + Len(l.result)
      /\ old \o Append(l.result, id) = Append(got, id) /\ Append(got, id) \in Seq(Ids)
      /\ Len(old) \in Nat /\ Len(l.result) \in Nat /\ Len(Append(l.result, id)) = Len(l.result) + 1
      /\ Len(Append(got, id)) = Len(got) + 1
  <2> HIDE DEF old, id
  <2>1. /\ got \in Seq(Ids) /\ Len(got) = Len(old) + Len(l.result)
        /\ old \o Append(l.result, id) = Append(got, id)
        /\ Len(old) \in Nat /\ Len(l.result) \in Nat /\ Len(Append(l.result, id)) = Len(l.result) + 1
    BY <1>1, <1>2, <1>3, GotAppend
  <2> HIDE DEF got
  <2>2. Append(got, id) \in Seq(Ids) /\ Len(Append(got, id)) = Len(got) + 1
    BY <1>2, <2>1, AppendProperties
  <2> QED
    BY <2>1, <2>2
<1>5. l.skipped \in 0..l.offset /\ l.offset \in Nat /\ taken \in Nat /\ l.offset - l.skipped \in Nat
  BY <1>3, <1>4 DEF First
<1> HIDE DEF id, old, got, taken, u
<1>6. /\ k \in Records /\ SameRequest(l, k)
      /\ \/ Ignores(l, k, rows[q + 1]) \/ Skips(l, k, rows[q + 1]) \/ Adds(l, k, rows[q + 1])
         \/ ~saved /\ Drops(l, k, rows[q + 1])
  BY <1>2, TakeCases
<1>7. l.stage = "serving" => Fits(q, l.offset - l.skipped, got, taken, u)
  BY <1>3 DEF WalkInv, got, taken, old, u
<1>8. Losses + u \in Nat /\ Bound + u \in Nat
  BY <1>1, <1>3
<1>9. ASSUME NEW e \in Nat, Fits(q, e, got, taken, u)
      PROVE  /\ ~rows[q + 1].shown => Fits(q + 1, e, got, taken, u)
             /\ rows[q + 1].shown /\ e > 0 => Fits(q + 1, e - 1, got, taken + 1, u)
             /\ rows[q + 1].shown /\ e = 0 => Fits(q + 1, 0, Append(got, id), taken + 1, u)
             /\ rows[q + 1].shown => Fits(q + 1, e, got, taken, u + 1)
  <2>1. PICK lost \in Nat : lost = Losses + u
    BY <1>8
  <2>2. PICK bound \in Nat : bound = Bound + u
    BY <1>8
  <2>3. FitsIn(rows, history.stable, lost, bound, q, e, got, taken)
    BY <1>9, <2>1, <2>2 DEF Fits
  <2>4. /\ ~rows[q + 1].shown => FitsIn(rows, history.stable, lost, bound, q + 1, e, got, taken)
        /\ rows[q + 1].shown /\ e > 0 =>
             FitsIn(rows, history.stable, lost, bound, q + 1, e - 1, got, taken + 1)
        /\ rows[q + 1].shown /\ e = 0 =>
             FitsIn(rows, history.stable, lost, bound, q + 1, 0, Append(got, id), taken + 1)
    BY <1>1, <1>4, <1>5, <2>3, TakeFits DEF id
  <2>5. rows[q + 1].shown =>
          FitsIn(rows, history.stable, lost + 1, bound + 1, q + 1, e, got, taken)
    BY <1>1, <1>4, <1>5, <2>3, DropFits
  <2>6. lost + 1 = Losses + (u + 1) /\ bound + 1 = Bound + (u + 1)
    BY <1>1, <1>3, <2>1, <2>2
  <2> QED
    BY <2>1, <2>2, <2>4, <2>5, <2>6 DEF Fits
<1>10. CASE Ignores(l, k, rows[q + 1]) /\ l.stage = "answered"
  BY <1>3, <1>10 DEF WalkInv, Ignores
<1>11. CASE Ignores(l, k, rows[q + 1]) /\ l.stage = "serving"
  <2>1. k = l /\ ~rows[q + 1].shown
    BY <1>11 DEF Ignores
  <2>2. Fits(q + 1, l.offset - l.skipped, got, taken, u)
    BY <1>5, <1>7, <1>9, <1>11, <2>1
  <2> QED
    BY <1>3, <1>11, <2>1, <2>2 DEF WalkInv, got, taken, old, u
<1>12. CASE ~saved /\ Drops(l, k, rows[q + 1])
  <2>1. /\ l.stage = "serving" /\ rows[q + 1].shown /\ k.stage = "serving" /\ k.skipped = l.skipped
        /\ k.result = l.result /\ k.unsaved = Append(l.unsaved, id)
    BY <1>12 DEF Drops, id
  <2>2. Fits(q + 1, l.offset - l.skipped, got, taken, u + 1)
    BY <1>5, <1>7, <1>9, <2>1
  <2>3. Len(k.unsaved) = u + 1
    BY <1>2, <1>3, <2>1, AppendProperties DEF u
  <2>4. k.offset - k.skipped = l.offset - l.skipped /\ k.limit = l.limit /\ k.offset = l.offset
    BY <1>6, <2>1 DEF SameRequest
  <2>5. Fits(q + 1, k.offset - k.skipped, walk.got \o k.result, k.skipped + Len(k.result), Len(k.unsaved))
    BY <2>1, <2>2, <2>3, <2>4 DEF got, taken, old
  <2>6. k.limit = walk.limit /\ k.offset = walk.offset /\ ~walk.over
    BY <1>1, <1>3, <2>4
  <2> QED
    BY <2>1, <2>5, <2>6 DEF WalkInv
<1>13. CASE Skips(l, k, rows[q + 1])
  <2>1. /\ l.stage = "serving" /\ rows[q + 1].shown /\ l.skipped < l.offset /\ k.unsaved = l.unsaved
        /\ k.stage = "serving" /\ k.skipped = l.skipped + 1 /\ k.result = l.result
    BY <1>13 DEF Skips
  <2>2. l.offset - l.skipped > 0 /\ (l.offset - l.skipped) - 1 = l.offset - k.skipped
    BY <1>5, <2>1
  <2>3. Fits(q + 1, (l.offset - l.skipped) - 1, got, taken + 1, u)
    BY <1>5, <1>7, <1>9, <2>1, <2>2
  <2>4. taken + 1 = k.skipped + Len(k.result)
    BY <1>4, <1>5, <2>1 DEF taken
  <2>5. Fits(q + 1, k.offset - k.skipped, old \o k.result, k.skipped + Len(k.result), u)
    BY <1>6, <2>1, <2>2, <2>3, <2>4 DEF SameRequest, got
  <2> QED
    BY <1>3, <1>6, <2>1, <2>5 DEF WalkInv, SameRequest, old, u
<1>14. CASE Adds(l, k, rows[q + 1])
  <2>1. /\ l.stage = "serving" /\ rows[q + 1].shown /\ ~(l.skipped < l.offset) /\ k.unsaved = l.unsaved
        /\ k.skipped = l.skipped /\ k.result = Append(l.result, id)
        /\ k.stage = IF Enough(l.limit, k.result) THEN "answered" ELSE "serving"
    BY <1>14 DEF Adds, id
  <2>2. l.offset - l.skipped = 0 /\ l.skipped = l.offset
    BY <1>5, <2>1
  <2>3. Fits(q + 1, 0, Append(got, id), taken + 1, u)
    BY <1>7, <1>9, <2>1, <2>2
  <2>4. taken + 1 = k.skipped + Len(k.result) /\ taken + 1 = Len(Append(got, id))
    BY <1>3, <1>4, <1>5, <2>1, <2>2 DEF taken
  <2>5. old \o k.result = Append(got, id) /\ k.offset - k.skipped = 0
    BY <1>4, <1>6, <2>1, <2>2 DEF SameRequest
  <2>6. Paged(old \o k.result, u)
    <3> PICK hot : hot = Append(got, id)
      OBVIOUS
    <3>1. hot \in Seq(Ids) /\ q + 1 \in Nat
      BY <1>4
    <3>2. FitsIn(rows, history.stable, Losses + u, Bound + u, q + 1, 0, hot, Len(hot))
      BY <2>3, <2>4 DEF Fits
    <3>3. FitsIn(rows, history.stable, Losses + u, Bound + u, 0, Len(hot), hot, 0)
      BY <1>1, <1>8, <3>1, <3>2, FitsPaged
    <3> QED
      BY <2>5, <3>3 DEF Paged, Fits
  <2>7. k.stage = "answered" => ~(Len(k.result) < k.limit)
    <3>1. Len(k.result) \in Nat /\ k.limit \in Nat /\ k.limit = l.limit
      BY <1>1, <1>3, <1>4, <1>6, <2>1 DEF SameRequest
    <3> QED
      BY <2>1, <3>1 DEF Enough
  <2>8. Fits(q + 1, k.offset - k.skipped, old \o k.result, k.skipped + Len(k.result), u)
    BY <2>3, <2>4, <2>5
  <2> QED
    BY <1>3, <1>6, <2>1, <2>6, <2>7, <2>8 DEF WalkInv, SameRequest, old, u
<1>15. l.stage \in {"serving", "answered"}
  BY RecordType
<1> QED
  BY <1>6, <1>10, <1>11, <1>13, <1>14, <1>15, <1>12

LEMMA TakeKeeps ==
  ASSUME Standing, NEW l \in Records, NEW q \in Nat, q + 1 \in DOMAIN rows,
         ListInv(l, q), NEW saved \in BOOLEAN, source = "local" => saved,
         NEW k, k = Take(l, rows[q + 1], saved)
  PROVE  k \in Records /\ SameRequest(l, k) /\ k.page = l.page /\ ListInv(k, q + 1)
<1>1. rows \in Collections /\ source \in {"local", "remote"} /\ rows[q + 1] \in Rows
  BY RowFields DEF Standing
<1>2. /\ k \in Records /\ SameRequest(l, k) /\ k.page = l.page
      /\ \/ Ignores(l, k, rows[q + 1]) \/ Skips(l, k, rows[q + 1]) \/ Adds(l, k, rows[q + 1])
         \/ ~saved /\ Drops(l, k, rows[q + 1])
  BY <1>1, TakeCases
<1>3. k.quiet => QuietInv(k, q + 1)
  <2>1. ASSUME k.quiet PROVE QuietInv(k, q + 1)
    <3>1. l.quiet
      BY <1>2, <2>1 DEF SameRequest
    <3> QED
      BY <1>1, <3>1, QuietTake
  <2> QED
    BY <2>1
<1>4. k.walking => WalkInv(k, q + 1)
  <2>1. ASSUME k.walking PROVE WalkInv(k, q + 1)
    <3>1. l.walking
      BY <1>2, <2>1 DEF SameRequest
    <3> QED
      BY <3>1, WalkTake
  <2> QED
    BY <2>1
<1>5. /\ l.skipped \in 0..First(l.offset) /\ l.offset \in Int
      /\ source = "local" => l.unsaved = << >>
      /\ First(l.offset) = IF l.offset > 0 THEN l.offset ELSE 0
      /\ l.stage = "serving" => /\ l.limit # 0
                                /\ l.result = << >> \/ ~Enough(l.limit, l.result)
                                /\ l.result # << >> => l.skipped = First(l.offset)
  BY RecordType DEF ListInv, First
<1>6. k.limit = l.limit /\ k.offset = l.offset
  BY <1>2 DEF SameRequest
<1>7. /\ k.skipped \in 0..First(k.offset) /\ (source = "local" => k.unsaved = << >>)
      /\ k.stage = "serving" => /\ k.limit # 0
                                /\ k.result = << >> \/ ~Enough(k.limit, k.result)
                                /\ k.result # << >> => k.skipped = First(k.offset)
  <2>1. CASE Ignores(l, k, rows[q + 1])
    BY <1>5, <2>1 DEF Ignores
  <2>2. CASE Skips(l, k, rows[q + 1])
    BY <1>5, <1>6, <2>2 DEF Skips
  <2>3. CASE Adds(l, k, rows[q + 1])
    BY <1>5, <1>6, <2>3 DEF Adds
  <2>4. CASE ~saved /\ Drops(l, k, rows[q + 1])
    BY <1>5, <1>6, <2>4 DEF Drops
  <2> QED
    BY <1>2, <2>1, <2>2, <2>3, <2>4
<1> QED
  BY <1>2, <1>3, <1>4, <1>7 DEF ListInv

\* What fits goes on to fit when more is charged.
LEMMA PagedMore ==
  ASSUME Standing, NEW got \in Seq(Ids), Paged(got, 0), NEW u \in Nat
  PROVE  Paged(got, u)
<1>1. Losses \in Nat /\ Bound \in Nat /\ rows \in Collections /\ history.stable \subseteq Ids
  BY ShownType DEF Standing
<1>2. PICK n \in Nat : n = Len(got)
  BY LenProperties
<1>3. PICK m \in Nat : m = Missed(rows, history.stable, 0, n, got)
  BY <1>1, Sizes
<1>4. PICK a \in Int : a = Again(rows, 0, n, got)
  BY <1>1, Sizes
<1>5. PICK r \in Nat : r = Rank(rows, 0)
  BY RankType
<1>6. FitsIn(rows, history.stable, Losses + 0, Bound + 0, 0, n, got, 0)
  BY <1>2 DEF Paged, Fits
<1>7. m <= Losses /\ m + 0 - r <= Losses /\ a <= Bound /\ a + r - 0 <= Bound
  BY <1>1, <1>3, <1>4, <1>5, <1>6 DEF FitsIn
<1>8. m <= Losses + u /\ m + 0 - r <= Losses + u /\ a <= Bound + u /\ a + r - 0 <= Bound + u
  BY <1>1, <1>7
<1>9. FitsIn(rows, history.stable, Losses + u, Bound + u, 0, n, got, 0)
  BY <1>3, <1>4, <1>5, <1>8 DEF FitsIn
<1> QED
  BY <1>2, <1>9 DEF Paged, Fits

\* The rows end, and with them the answer.
LEMMA EndKeeps ==
  ASSUME Standing, NEW l \in Records, ListInv(l, Len(rows)), NEW q,
         NEW k, k = [l EXCEPT !.stage = "answered"]
  PROVE  k \in Records /\ SameRequest(l, k) /\ k.page = l.page /\ ListInv(k, q)
<1>1. /\ k \in Records /\ SameRequest(l, k) /\ k.page = l.page
      /\ k.stage = "answered" /\ k.skipped = l.skipped /\ k.result = l.result
      /\ k.unsaved = l.unsaved
  BY DEF Records, SameRequest
<1>2. k.limit = l.limit /\ k.offset = l.offset /\ k.quiet = l.quiet /\ k.walking = l.walking
  BY <1>1 DEF SameRequest
<1>3. l.stage \in {"serving", "answered"} /\ l.result \in Seq(Ids) /\ l.offset \in Int /\ Len(l.result) \in Nat
      /\ Len(l.unsaved) \in Nat
  BY RecordType
<1>4. l.stage = "answered" => k = l
  BY <1>1 DEF Records
<1>5. ASSUME k.quiet, l.stage = "serving" PROVE k.result = Window(Without(k.unsaved), k.limit, k.offset)
  BY <1>1, <1>2, <1>5, QuietEnd DEF Standing
<1>6. ASSUME k.walking, l.stage = "serving" PROVE WalkInv(k, q)
  <2> PICK got : got = walk.got \o l.result
    OBVIOUS
  <2> PICK u \in Nat : u = Len(l.unsaved)
    BY <1>3
  <2>1. /\ rows \in Collections /\ history.stable \subseteq ShownIn(rows) /\ Losses \in Nat
        /\ Bound \in Nat /\ walk.got \in Seq(Ids) /\ walk.offset = Len(walk.got) /\ Paged(walk.got, 0)
    BY DEF Standing
  <2>2. Losses + u \in Nat /\ Bound + u \in Nat
    BY <2>1
  <2>3. /\ WalkInv(l, Len(rows)) /\ l.skipped \in 0..First(l.offset)
        /\ l.result # << >> => l.skipped = First(l.offset)
    BY <1>2, <1>6 DEF ListInv
  <2>4. /\ l.offset = Len(walk.got) /\ l.limit = walk.limit /\ ~walk.over
        /\ Fits(Len(rows), l.offset - l.skipped, got, l.skipped + Len(l.result), u)
    BY <1>6, <2>1, <2>3 DEF WalkInv
  <2>5. got \in Seq(Ids) /\ Len(got) = Len(walk.got) + Len(l.result) /\ Len(walk.got) \in Nat
    BY <1>3, <2>1, ConcatProperties, LenProperties
  <2>6. First(l.offset) = l.offset /\ l.skipped \in Nat
    BY <2>3, <2>4, <2>5 DEF First
  <2>7. Complete(got, u)
    <3>1. FitsIn(rows, history.stable, Losses + u, Bound + u, Len(rows), l.offset - l.skipped, got,
                 l.skipped + Len(l.result))
      BY <2>4 DEF Fits
    <3> QED
      BY <2>1, <2>5, <2>2, <3>1, FitsComplete DEF Complete
  <2>8. Paged(got, u)
    <3>1. CASE l.result = << >>
      <4>1. got = walk.got
        BY <2>1, <3>1, ConcatEmptySeq
      <4>2. Paged(got, 0)
        BY <2>1, <4>1
      <4> QED
        BY <2>1, <2>5, <4>2, PagedMore
    <3>2. CASE l.result # << >>
      <4>1. l.offset - l.skipped = 0 /\ l.skipped + Len(l.result) = Len(got)
        <5>1. l.skipped = l.offset
          BY <2>3, <2>6, <3>2
        <5> QED
          BY <1>3, <2>4, <2>5, <2>6, <5>1
      <4>2. FitsIn(rows, history.stable, Losses + u, Bound + u, Len(rows), 0, got, Len(got))
        BY <2>4, <4>1 DEF Fits
      <4>3. Len(rows) \in Nat
        BY <2>1, RowFields
      <4>4. FitsIn(rows, history.stable, Losses + u, Bound + u, 0, Len(got), got, 0)
        BY <2>1, <2>5, <2>2, <4>2, <4>3, FitsPaged
      <4> QED
        BY <4>4 DEF Paged, Fits
    <3> QED
      BY <3>1, <3>2
  <2> QED
    BY <1>1, <1>2, <2>1, <2>4, <2>7, <2>8 DEF WalkInv
<1>7. CASE l.stage = "serving"
  <2>1. k.skipped \in 0..First(k.offset) /\ (source = "local" => k.unsaved = << >>)
    BY <1>1, <1>2 DEF ListInv
  <2> QED
    BY <1>1, <1>5, <1>6, <1>7, <2>1 DEF ListInv, QuietInv
<1>8. CASE l.stage = "answered"
  BY <1>1, <1>4, <1>8 DEF ListInv, QuietInv, WalkInv
<1> QED
  BY <1>1, <1>3, <1>7, <1>8

-----------------------------------------------------------------------------
(* The loop.                                                               *)

\* What a turn of Loop is.
Turn(l, rs, failed, f, n) == IF n = 0 THEN l ELSE Take(f[n - 1], rs[n], n \notin failed)

LEMMA TurnsExist ==
  ASSUME NEW l, NEW rs, NEW failed, NEW size \in Nat
  PROVE  \E f : f = [n \in 0..size |-> Turn(l, rs, failed, f, n)]
<1> DEFINE S == {m \in Nat : \E f : f = [n \in 0..m |-> Turn(l, rs, failed, f, n)]}
<1>1. 0 \in S
  <2>1. [n \in 0..0 |-> l] = [n \in 0..0 |-> Turn(l, rs, failed, [i \in 0..0 |-> l], n)]
    BY DEF Turn
  <2> QED
    BY <2>1
<1>2. ASSUME NEW m \in S PROVE m + 1 \in S
  <2>1. PICK f : f = [n \in 0..m |-> Turn(l, rs, failed, f, n)]
    OBVIOUS
  <2> DEFINE g == [n \in 0..(m + 1) |-> IF n = m + 1 THEN Turn(l, rs, failed, f, m + 1) ELSE f[n]]
  <2>2. \A n \in 0..m : g[n] = f[n]
    OBVIOUS
  <2>3. ASSUME NEW n \in 0..(m + 1) PROVE Turn(l, rs, failed, g, n) = Turn(l, rs, failed, f, n)
    <3>1. n # 0 => n - 1 \in 0..m
      OBVIOUS
    <3> HIDE DEF g
    <3> QED
      BY <2>2, <3>1 DEF Turn
  <2>4. ASSUME NEW n \in 0..(m + 1) PROVE g[n] = Turn(l, rs, failed, f, n)
    <3>1. CASE n = m + 1
      BY <3>1
    <3>2. CASE n # m + 1
      <4>1. n \in 0..m
        BY <3>2
      <4> QED
        BY <2>1, <2>2, <4>1
    <3> QED
      BY <3>1, <3>2
  <2>5. g = [n \in 0..(m + 1) |-> g[n]]
    OBVIOUS
  <2> HIDE DEF g
  <2>6. g = [n \in 0..(m + 1) |-> Turn(l, rs, failed, g, n)]
    BY <2>3, <2>4, <2>5
  <2> QED
    BY <2>6
<1> HIDE DEF S
<1>3. Nat \subseteq S
  BY <1>1, <1>2, NaturalsCovered
<1> QED
  BY <1>3 DEF S

\* The turns of a loop one by one.
Run(l, rs, failed, f) ==
  /\ Loop(l, rs, failed) = f[Len(rs)]
  /\ \A n \in 0..Len(rs) : f[n] = Turn(l, rs, failed, f, n)

LEMMA LoopTurns ==
  ASSUME NEW l, NEW rs, NEW failed, Len(rs) \in Nat
  PROVE  \E f : Run(l, rs, failed, f)
<1> PICK size \in Nat : size = Len(rs)
  OBVIOUS
<1> DEFINE F == CHOOSE f : f = [n \in 0..size |-> Turn(l, rs, failed, f, n)]
<1>1. F = [n \in 0..size |-> Turn(l, rs, failed, F, n)]
  BY TurnsExist
<1>2. Loop(l, rs, failed) = F[size]
  BY DEF Loop, Turn
<1> HIDE DEF F
<1>3. ASSUME NEW n \in 0..size PROVE F[n] = Turn(l, rs, failed, F, n)
  BY <1>1
<1> QED
  BY <1>2, <1>3 DEF Run

LEMMA LoopKeeps ==
  ASSUME Standing, NEW l \in Records, NEW size \in Nat, NEW rs, Len(rs) = size,
         NEW base \in Nat, ListInv(l, base),
         NEW failed, source = "local" => failed = {},
         \A n \in 1..size : base + n \in DOMAIN rows /\ rs[n] = rows[base + n]
  PROVE  /\ Loop(l, rs, failed) \in Records /\ SameRequest(l, Loop(l, rs, failed))
         /\ Loop(l, rs, failed).page = l.page
         /\ ListInv(Loop(l, rs, failed), base + size)
<1> DEFINE Good(k, n) == k \in Records /\ SameRequest(l, k) /\ k.page = l.page /\ ListInv(k, base + n)
<1>1. PICK F : Run(l, rs, failed, F)
  BY LoopTurns
<1>2. /\ Loop(l, rs, failed) = F[size]
      /\ \A n \in 0..size : F[n] = Turn(l, rs, failed, F, n)
  BY <1>1 DEF Run
<1>3. /\ F[0] = l
      /\ \A n \in 1..size : F[n] = Take(F[n - 1], rs[n], n \notin failed)
  BY <1>2 DEF Turn
<1> DEFINE S == {n \in Nat : n <= size => Good(F[n], n)}
<1>4. 0 \in S
  <2>1. base + 0 = base
    OBVIOUS
  <2> QED
    BY <1>3, <2>1 DEF SameRequest
<1>5. ASSUME NEW n \in S PROVE n + 1 \in S
  <2> SUFFICES ASSUME n + 1 <= size PROVE Good(F[n + 1], n + 1)
    OBVIOUS
  <2>1. n + 1 \in 1..size /\ (n + 1) - 1 = n /\ n <= size /\ Good(F[n], n)
    OBVIOUS
  <2>2. PICK saved \in BOOLEAN : saved <=> n + 1 \notin failed
    BY Zenon
  <2>3. PICK q \in Nat : q = base + n
    OBVIOUS
  <2>4. q + 1 = base + (n + 1) /\ q + 1 \in DOMAIN rows /\ rs[n + 1] = rows[q + 1]
    BY <2>1, <2>3
  <2>5. F[n + 1] = Take(F[n], rows[q + 1], saved)
    <3>1. saved = (n + 1 \notin failed)
      BY <2>2
    <3> QED
      BY <1>3, <2>1, <2>4, <3>1
  <2> PICK k : k = F[n]
    OBVIOUS
  <2>6. k \in Records /\ SameRequest(l, k) /\ k.page = l.page /\ ListInv(k, q)
    BY <2>1, <2>3
  <2>7. source = "local" => saved
    BY <2>2
  <2>8. /\ F[n + 1] \in Records /\ SameRequest(k, F[n + 1]) /\ F[n + 1].page = k.page
        /\ ListInv(F[n + 1], q + 1)
    BY <2>4, <2>5, <2>6, <2>7, TakeKeeps
  <2> QED
    BY <2>4, <2>6, <2>8 DEF SameRequest
<1> HIDE DEF S
<1>6. size \in S
  <2>1. Nat \subseteq S
    BY <1>4, <1>5, NaturalsCovered
  <2> QED
    BY <2>1
<1> QED
  BY <1>2, <1>6 DEF S

-----------------------------------------------------------------------------
(* Serving a LIST keeps the invariant.                                     *)

LEMMA CollectionType ==
  ASSUME NEW rs
  PROVE  rs \in Collections <=> rs \in Seq(Rows) /\ IsInjective([n \in DOMAIN rs |-> rs[n].id])
BY DEF Collections, Distinct, IsInjective

LEMMA InvStanding ==
  ASSUME IInv
  PROVE  Standing /\ (list # NoList => list \in Records) /\ (list = NoList \/ list \in Records)
<1>1. rows \in Collections /\ source \in {"local", "remote"}
  BY CollectionType DEF IInv, TypeOK
<1>2. /\ walk.got \in Seq(Ids) /\ walk.limit \in Nat \ {0}
      /\ walk.offset = Len(walk.got) /\ Paged(walk.got, 0) /\ history.stable \subseteq ShownIn(rows)
  BY DEF IInv, TypeOK
<1>3. /\ history.lost \in Nat /\ history.inserted \in Nat /\ history.changes \in 0..MaxChanges
      /\ history.unsaved \in Nat
  BY DEF IInv, TypeOK
<1>4. Bound \in Nat /\ Losses \in Nat
  BY <1>3, ListsAssumption DEF Bound, Losses
<1>5. list = NoList \/ list \in Records
  BY DEF IInv, TypeOK, Lists, Records
<1> QED
  BY <1>1, <1>2, <1>3, <1>4, <1>5 DEF Standing

\* Where rows, source and history stay the same so do the parts of the invariant.
LEMMA SameFits ==
  ASSUME UNCHANGED <<source, rows, history>>, NEW q, NEW e, NEW got, NEW taken, NEW u
  PROVE  /\ Fits(q, e, got, taken, u)' = Fits(q, e, got, taken, u)
         /\ Paged(got, u)' = Paged(got, u) /\ Complete(got, u)' = Complete(got, u)
BY DEF Fits, Paged, Complete, Bound, Losses

LEMMA SameList ==
  ASSUME UNCHANGED <<source, rows, walk, history>>, NEW l, NEW q
  PROVE  ListInv(l, q)' = ListInv(l, q)
BY DEF ListInv, QuietInv, WalkInv, Fits, Paged, Complete, Bound, Losses, Window, Without, Enough

\* A step that changes the LIST and nothing else.
LEMMA ListStep ==
  ASSUME IInv, UNCHANGED <<source, rows, walk, history>>,
         \/ list' = NoList
         \/ \E l \in Records : /\ l = list' /\ (source = "local" => l.page = 0)
                               /\ ListInv(l, Position(l))
  PROVE  IInv'
<1>1. /\ TypeOK /\ history.stable \subseteq ShownIn(rows)
      /\ walk.offset = Len(walk.got) /\ Paged(walk.got, 0)
      /\ walk.over => Complete(walk.got, 0)
  BY DEF IInv
<1>2. /\ (history.stable \subseteq ShownIn(rows))'
      /\ (walk.offset = Len(walk.got))' /\ Paged(walk.got, 0)'
      /\ (walk.over => Complete(walk.got, 0))'
  BY <1>1 DEF Paged, Fits, Complete, Bound, Losses, ShownIn
<1>3. CASE list' = NoList
  <2>1. TypeOK'
    BY <1>1, <1>3 DEF TypeOK, Lists
  <2> QED
    BY <1>2, <1>3, <2>1 DEF IInv
<1>4. CASE \E l \in Records : /\ l = list' /\ (source = "local" => l.page = 0)
                             /\ ListInv(l, Position(l))
  <2>1. PICK l \in Records : /\ l = list' /\ (source = "local" => l.page = 0)
                             /\ ListInv(l, Position(l))
    BY <1>4
  <2>2. l.skipped = 0 \/ l.skipped <= l.offset
    BY <2>1, RecordType DEF ListInv, First
  <2>3. TypeOK'
    BY <1>1, <2>1, <2>2 DEF TypeOK, Lists, Records
  <2>4. PICK q : q = Position(l)
    OBVIOUS
  <2>5. ListInv(l, q)'
    BY <2>1, <2>4, SameList
  <2>6. q = Position(l)'
    BY <2>4 DEF Position
  <2>7. ListInv(list, Position(list))'
    BY <2>1, <2>5, <2>6
  <2> QED
    BY <1>2, <2>1, <2>3, <2>7 DEF IInv
<1> QED
  BY <1>3, <1>4

LEMMA AskKeeps == ASSUME IInv, Ask PROVE IInv'
<1>1. Standing /\ UNCHANGED <<source, rows, walk, history>>
  BY InvStanding DEF Ask
<1>2. PICK walking \in BOOLEAN, limit \in Int, offset \in Int :
        /\ Start(walking, limit, offset)
        /\ walking => ~walk.over /\ limit = walk.limit /\ offset = walk.offset
  <2>1. walk.limit \in Int /\ walk.offset \in Int
    <3>1. walk.limit \in Int /\ walk.offset = Len(walk.got) /\ walk.got \in Seq(Ids)
      BY <1>1 DEF Standing
    <3> QED
      BY <3>1, LenProperties
  <2>2. CASE \E limit \in Limits \cup {-1}, offset \in Offsets \cup {-1} : Start(FALSE, limit, offset)
    <3>1. PICK limit \in Limits \cup {-1}, offset \in Offsets \cup {-1} : Start(FALSE, limit, offset)
      BY <2>2
    <3>2. limit \in Int /\ offset \in Int
      BY ListsAssumption
    <3> QED
      BY <3>1, <3>2
  <2>3. CASE ~walk.over /\ Start(TRUE, walk.limit, walk.offset)
    BY <2>1, <2>3
  <2> QED
    BY <2>2, <2>3 DEF Ask
<1>3. PICK stage : stage = IF limit = 0 THEN "answered" ELSE "serving"
  OBVIOUS
<1>4. PICK l : l = [stage |-> stage, walking |-> walking, limit |-> limit, offset |-> offset, page |-> 0,
                    skipped |-> 0, result |-> << >>, unsaved |-> << >>, quiet |-> TRUE]
  OBVIOUS
<1>5. /\ l \in Records /\ l = list' /\ l.stage = stage /\ l.walking = walking /\ l.limit = limit
      /\ l.offset = offset /\ l.page = 0 /\ l.skipped = 0 /\ l.result = << >> /\ l.unsaved = << >>
  <2>1. << >> \in Seq(Ids) /\ stage \in {"serving", "answered"}
    BY <1>3
  <2>2. l \in Records
    BY <1>4, <2>1 DEF Records
  <2>3. l = list'
    BY <1>2, <1>3, <1>4 DEF Start
  <2> QED
    BY <1>4, <2>2, <2>3
<1>6. PICK first \in Nat : first = First(offset)
  BY DEF First
<1>7. QuietInv(l, 0)
  <2> PICK seen : seen = Without(<< >>)
    OBVIOUS
  <2>1. Len(seen) \in Nat
    BY <1>1, WithoutRows, RowFields DEF Standing
  <2>2. ToSet(<< >>) = {}
    BY DEF ToSet
  <2>3. Rank(seen, 0) = 0
    BY RankZero
  <2>4. Slice(seen, first, 0) = << >>
    <3>1. 0 \in Nat /\ 0 <= first
      OBVIOUS
    <3> QED
      BY <3>1, SliceType
  <2>5. ASSUME limit = 0 PROVE << >> = Window(seen, limit, offset)
    <3>1. PICK total \in Nat : total = Rank(seen, Len(seen))
      BY <2>1, RankType
    <3>2. 0 = Wanted(seen, limit)
      BY <2>5 DEF Wanted
    <3>3. /\ first + 0 <= total => Window(seen, limit, offset) = Slice(seen, first, first + 0)
          /\ total <= first + 0 => Window(seen, limit, offset) = Slice(seen, first, total)
      BY <1>6, <3>1, <3>2, WindowEnds
    <3>4. CASE first <= total
      <4>1. Window(seen, limit, offset) = Slice(seen, first, first)
        BY <3>3, <3>4
      <4> QED
        BY <4>1, SliceType
    <3>5. CASE total <= first
      <4>1. Window(seen, limit, offset) = Slice(seen, first, total)
        BY <3>3, <3>5
      <4> QED
        BY <3>5, <4>1, SliceType
    <3> QED
      BY <3>4, <3>5
  <2>6. /\ 0 = IF 0 < first THEN 0 ELSE first
        /\ stage = "answered" => limit = 0
    BY <1>3
  <2> QED
    BY <1>5, <1>6, <2>3, <2>4, <2>5, <2>6, <2>2 DEF QuietInv
<1>8. ASSUME walking PROVE WalkInv(l, 0)
  <2>1. /\ ~walk.over /\ limit = walk.limit /\ offset = walk.offset /\ limit # 0
        /\ walk.got \in Seq(Ids) /\ offset = Len(walk.got) /\ Paged(walk.got, 0)
    BY <1>1, <1>2, <1>8 DEF Standing
  <2>2. walk.got \o << >> = walk.got /\ Len(<< >>) = 0 /\ offset - 0 = Len(walk.got)
    BY <2>1, ConcatEmptySeq, LenProperties
  <2>3. Fits(0, offset - 0, walk.got \o << >>, 0 + Len(<< >>), Len(<< >>))
    BY <2>1, <2>2 DEF Paged
  <2>4. stage = "serving"
    BY <1>3, <2>1
  <2> QED
    BY <1>5, <2>1, <2>3, <2>4 DEF WalkInv
<1>9. ListInv(l, 0)
  BY <1>3, <1>5, <1>6, <1>7, <1>8 DEF ListInv
<1>10. Position(l) = 0
  <2>1. Len(rows) \in Nat
    BY <1>1, RowFields DEF Standing
  <2> QED
    BY <1>5, <2>1 DEF Position
<1> QED
  BY <1>1, <1>5, <1>9, <1>10, ListStep

LEMMA ListLocalKeeps == ASSUME IInv, ListLocal PROVE IInv'
<1>1. /\ Standing /\ UNCHANGED <<source, rows, walk, history>> /\ source = "local"
      /\ list' = [Loop(list, rows, {}) EXCEPT !.stage = "answered"]
      /\ list.stage = "serving"
  BY InvStanding DEF ListLocal
<1>2. list # NoList /\ list \in Records
  BY <1>1, InvStanding DEF NoList
<1>3. PICK l \in Records : l = list
  BY <1>2
<1>4. PICK size \in Nat : size = Len(rows) /\ DOMAIN rows = 1..size
  BY <1>1, RowFields DEF Standing
<1>5. l.page = 0 /\ ListInv(l, 0)
  <2>1. l.page = 0 /\ ListInv(l, Position(l))
    BY <1>1, <1>2, <1>3 DEF IInv
  <2>2. Position(l) = 0
    BY <1>4, <2>1 DEF Position
  <2> QED
    BY <2>1, <2>2
<1>6. \A n \in 1..size : 0 + n \in DOMAIN rows /\ rows[n] = rows[0 + n]
  BY <1>4
<1>7. PICK k : k = Loop(l, rows, {})
  OBVIOUS
<1>8. k \in Records /\ SameRequest(l, k) /\ k.page = 0 /\ ListInv(k, 0 + size)
  BY <1>1, <1>4, <1>5, <1>6, <1>7, LoopKeeps
<1>9. PICK j : j = [k EXCEPT !.stage = "answered"]
  OBVIOUS
<1>10. ListInv(k, Len(rows))
  <2>1. 0 + size = Len(rows)
    BY <1>4
  <2> QED
    BY <1>8, <2>1
<1>11. j \in Records /\ j.page = 0 /\ ListInv(j, Position(j))
  BY <1>1, <1>8, <1>9, <1>10, EndKeeps
<1>12. j = list'
  BY <1>1, <1>3, <1>7, <1>9
<1> QED
  BY <1>1, <1>11, <1>12, ListStep

LEMMA PageFree ==
  ASSUME NEW l \in Records, NEW page \in Nat, NEW q, ListInv(l, q),
         NEW k, k = [l EXCEPT !.page = page]
  PROVE  k \in Records /\ k.page = page /\ ListInv(k, q)
<1>1. /\ k \in Records /\ k.page = page /\ k.stage = l.stage /\ k.walking = l.walking
      /\ k.limit = l.limit /\ k.offset = l.offset /\ k.skipped = l.skipped
      /\ k.result = l.result /\ k.unsaved = l.unsaved /\ k.quiet = l.quiet
  BY DEF Records
<1> QED
  BY <1>1 DEF ListInv, QuietInv, WalkInv

LEMMA PageRows ==
  ASSUME NEW rs \in Seq(Rows), NEW base \in Nat, NEW length \in Nat, base + length <= Len(rs)
  PROVE  LET page == SubSeq(rs, base + 1, base + length)
         IN Len(page) = length /\ \A n \in 1..length : page[n] = rs[base + n]
<1>1. Len(rs) \in Nat
  BY LenProperties
<1>2. \A n \in (base + 1)..(base + length) : n \in 1..Len(rs)
  BY <1>1
<1> QED
  BY <1>1, <1>2, SubSeqProperties

LEMMA ListRemotePageKeeps == ASSUME IInv, ListRemotePage PROVE IInv'
<1>1. Standing /\ UNCHANGED <<source, rows, walk, history>> /\ source = "remote" /\ list.stage = "serving"
  BY InvStanding DEF ListRemotePage
<1>2. list # NoList /\ list \in Records
  BY <1>1, InvStanding DEF NoList
<1>3. PICK l \in Records : l = list
  BY <1>2
<1>4. PICK size \in Nat : size = Len(rows) /\ DOMAIN rows = 1..size /\ rows \in Seq(Rows)
  BY <1>1, RowFields DEF Standing
<1>5. ListInv(l, Position(l)) /\ l.page \in Nat /\ PageSize \in Nat \ {0}
  BY <1>2, <1>3, RecordType, ListsAssumption DEF IInv
<1>6. PICK last \in Nat : last = IF l.page + PageSize < size THEN l.page + PageSize ELSE size
  BY <1>5
<1>7. PICK rs : rs = SubSeq(rows, l.page + 1, last)
  OBVIOUS
<1>8. PICK failed \in SUBSET (DOMAIN rs) :
        list' = IF rs = << >> THEN [l EXCEPT !.stage = "answered"]
                ELSE [Loop(l, rs, failed) EXCEPT !.page = @ + PageSize]
  BY <1>3, <1>4, <1>6, <1>7 DEF ListRemotePage
<1>9. CASE l.page >= size
  <2>1. last = size
    BY <1>5, <1>6, <1>9
  <2>2. rs = << >>
    <3>1. rs = << >>
      BY <1>4, <1>5, <1>7, <1>9, <2>1, SubSeqEmpty
    <3> QED
      BY <3>1
  <2>3. Position(l) = Len(rows)
    BY <1>4, <1>5, <1>9 DEF Position
  <2>4. PICK k : k = [l EXCEPT !.stage = "answered"]
    OBVIOUS
  <2>5. k \in Records /\ ListInv(k, Position(k))
    BY <1>1, <1>5, <2>3, <2>4, EndKeeps
  <2>6. k = list'
    BY <1>8, <2>2, <2>4
  <2> QED
    BY <1>1, <2>5, <2>6, ListStep
<1>10. CASE l.page < size
  <2>1. PICK base \in Nat : base = l.page
    BY <1>5
  <2>2. PICK length \in Nat : length = last - base
    BY <1>5, <1>6, <1>10, <2>1
  <2>3. length > 0 /\ base + length = last /\ last <= size
    BY <1>5, <1>6, <1>10, <2>1, <2>2
  <2>4. Len(rs) = length /\ \A n \in 1..length : base + n \in DOMAIN rows /\ rs[n] = rows[base + n]
    <3>1. rs = SubSeq(rows, base + 1, base + length) /\ base + length <= Len(rows)
      BY <1>4, <1>7, <2>1, <2>3
    <3>2. Len(rs) = length /\ \A n \in 1..length : rs[n] = rows[base + n]
      BY <1>4, <3>1, PageRows
    <3>3. \A n \in 1..length : base + n \in 1..size
      BY <2>3
    <3> QED
      BY <1>4, <3>2, <3>3
  <2>5. rs # << >>
    BY <2>3, <2>4
  <2>6. ListInv(l, base)
    <3>1. Position(l) = base
      BY <1>4, <1>10, <2>1 DEF Position
    <3> QED
      BY <1>5, <3>1
  <2>7. PICK k : k = Loop(l, rs, failed)
    OBVIOUS
  <2>8. k \in Records /\ k.page = base /\ ListInv(k, base + length)
    BY <1>1, <2>1, <2>4, <2>6, <2>7, LoopKeeps
  <2>9. PICK j : j = [k EXCEPT !.page = base + PageSize]
    OBVIOUS
  <2>10. j \in Records /\ j.page = base + PageSize /\ ListInv(j, base + length)
    BY <1>5, <2>8, <2>9, PageFree
  <2>11. Position(j) = base + length
    <3>1. last = IF base + PageSize < size THEN base + PageSize ELSE size
      BY <1>6, <2>1
    <3> QED
      BY <1>4, <2>3, <2>10, <3>1 DEF Position
  <2>12. j = list'
    BY <1>8, <2>5, <2>7, <2>8, <2>9
  <2> QED
    BY <1>1, <2>10, <2>11, <2>12, ListStep
<1> QED
  BY <1>5, <1>9, <1>10

LEMMA ListFailsKeeps == ASSUME IInv, ListFails PROVE IInv'
BY ListStep DEF ListFails

LEMMA ReceiveKeeps == ASSUME IInv, Receive PROVE IInv'
<1>1. Standing /\ UNCHANGED <<source, rows>> /\ list' = NoList /\ list.stage = "answered"
  BY InvStanding DEF Receive
<1>2. list # NoList /\ list \in Records
  BY <1>1, InvStanding DEF NoList
<1>3. CASE ~list.walking
  <2>1. UNCHANGED <<walk, history>>
    BY <1>3 DEF Receive
  <2> QED
    BY <1>1, <2>1, ListStep
<1>4. CASE list.walking
  <2>1. PICK l \in Records : l = list
    BY <1>2
  <2>2. /\ walk \in [limit: Nat \ {0}, offset: Nat, got: Seq(Ids), over: BOOLEAN]
        /\ walk.got \in Seq(Ids) /\ walk.offset = Len(walk.got) /\ l.result \in Seq(Ids)
    BY RecordType DEF IInv, TypeOK
  <2>3. PICK got : got = walk.got \o l.result
    OBVIOUS
  <2>4. /\ got \in Seq(Ids) /\ Len(got) = Len(walk.got) + Len(l.result)
        /\ Len(l.result) \in Nat /\ Len(walk.got) \in Nat
    BY <2>2, <2>3, ConcatProperties, LenProperties
  <2>5. PICK u \in Nat : u = Len(l.unsaved)
    BY RecordType
  <2>6. /\ Paged(got, u) /\ (Len(l.result) < walk.limit => Complete(got, u))
        /\ source = "local" => u = 0
    <3>1. ListInv(l, Position(l)) /\ l.stage = "answered" /\ l.walking
      BY <1>1, <1>2, <1>4, <2>1 DEF IInv
    <3>2. Paged(got, u) /\ (Len(l.result) < walk.limit => Complete(got, u))
      BY <2>3, <2>5, <3>1 DEF ListInv, WalkInv
    <3>3. Len(<< >>) = 0 /\ (source = "local" => l.unsaved = << >>)
      BY <3>1 DEF ListInv
    <3> QED
      BY <2>5, <3>2, <3>3
  <2>7. /\ history \in [stable: SUBSET Ids, lost: Nat, inserted: Nat, changes: 0..MaxChanges, unsaved: Nat]
         /\ history' = [history EXCEPT !.unsaved = @ + u]
    BY <1>4, <2>1, <2>5 DEF Receive, IInv, TypeOK
  <2>8. /\ history' \in [stable: SUBSET Ids, lost: Nat, inserted: Nat, changes: 0..MaxChanges, unsaved: Nat]
         /\ history'.stable = history.stable /\ history'.lost = history.lost
         /\ history'.inserted = history.inserted /\ history'.changes = history.changes
         /\ history'.unsaved = history.unsaved + u
         /\ history.lost \in Nat /\ history.unsaved \in Nat /\ history.changes \in Int
         /\ history.inserted \in Nat
    BY <2>7
  <2>9. Losses' + 0 = Losses + u
    BY <2>8 DEF Losses
  <2>10. Bound' + 0 = Bound + u
    <3>1. CASE source = "remote"
      <4>1. PICK c \in Int, v \in Nat : c = history.changes /\ v = history.unsaved
        BY <2>8
      <4>2. Bound' = c + (v + u) /\ Bound = c + v
        BY <1>1, <2>8, <3>1, <4>1 DEF Bound
      <4>3. c + (v + u) = c + v + u /\ c + (v + u) + 0 = c + (v + u)
        OBVIOUS
      <4> QED
        BY <4>2, <4>3
    <3>2. CASE source # "remote"
      <4>1. Bound' = history.inserted /\ Bound = history.inserted
        BY <1>1, <2>8, <3>2 DEF Bound
      <4>2. u = 0
        BY <2>6, <3>2 DEF IInv, TypeOK
      <4> QED
        BY <2>8, <4>1, <4>2
    <3> QED
      BY <3>1, <3>2
  <2>11. PICK over : over = (Len(l.result) < walk.limit)
    OBVIOUS
  <2>12. walk' = [walk EXCEPT !.got = got, !.offset = Len(got), !.over = over]
    BY <1>4, <2>1, <2>2, <2>3, <2>4, <2>11 DEF Receive
  <2>13. over \in BOOLEAN /\ Len(got) \in Nat
    <3>1. (Len(l.result) < walk.limit) \in BOOLEAN
      BY <2>2, <2>4
    <3>2. over \in BOOLEAN
      BY <2>11, <3>1, Zenon
    <3>3. Len(got) \in Nat
      BY <2>4, LenProperties
    <3> QED
      BY <3>2, <3>3
  <2>14. /\ walk' \in [limit: Nat \ {0}, offset: Nat, got: Seq(Ids), over: BOOLEAN]
        /\ walk'.got = got /\ walk'.offset = Len(got) /\ walk'.over = over
    BY <2>2, <2>4, <2>12, <2>13
  <2>15. TypeOK'
    BY <1>1, <2>14, <2>8 DEF IInv, TypeOK, Lists
  <2>16. Paged(got, 0)' /\ (over => Complete(got, 0)')
    <3>1. Paged(got, 0)'
      BY <1>1, <2>6, <2>8, <2>9, <2>10 DEF Paged, Fits
    <3>2. over => Complete(got, 0)'
      BY <2>6, <2>11, <2>8, <2>9 DEF Complete
    <3> QED
      BY <3>1, <3>2
  <2>17. /\ (history.stable \subseteq ShownIn(rows))' /\ (walk.offset = Len(walk.got))'
         /\ Paged(walk.got, 0)' /\ (walk.over => Complete(walk.got, 0))'
    BY <1>1, <2>14, <2>16, <2>8 DEF IInv, ShownIn
  <2> QED
    BY <1>1, <2>15, <2>17 DEF IInv
<1> QED
  BY <1>3, <1>4

-----------------------------------------------------------------------------
(* Changes of the collection keep the invariant.                           *)

At(page, rs) == IF page < Len(rs) THEN page ELSE Len(rs)

LEMMA FitsMore ==
  ASSUME NEW rs \in Collections, NEW st, st \subseteq Ids, NEW lost \in Nat, NEW bound \in Nat,
         NEW q \in Nat, NEW e, NEW got \in Seq(Ids), NEW taken \in Nat,
         FitsIn(rs, st, lost, bound, q, e, got, taken)
  PROVE  FitsIn(rs, st, lost, bound + 1, q, e, got, taken)
<1> DEFINE a == Again(rs, q, e, got)
           r == Rank(rs, q)
<1>1. a \in Int /\ r \in Nat
  BY Sizes, RankType
<1>2. a <= bound /\ a + r - taken <= bound
  BY DEF FitsIn
<1> HIDE DEF a, r
<1>3. a <= bound + 1 /\ a + r - taken <= bound + 1
  BY <1>1, <1>2
<1> QED
  BY <1>3 DEF FitsIn, a, r

\* What a change has to show: wherever a LIST is, the walk fits as before, with the
\* lost object and the inserted one charged.
Absorbed(rs, lost, b) ==
  \A page \in Nat, e \in Nat, got \in Seq(Ids), taken \in Nat, most, bound \in Nat :
    /\ source = "local" => page = 0
    /\ ToSet(got) \subseteq Returned
    /\ FitsIn(rows, history.stable, most, bound, At(page, rows), e, got, taken)
    => FitsIn(rs, history.stable \cap ShownIn(rs), most + lost, bound + b,
              At(page, rs), e, got, taken)

LEMMA ChangeKeeps ==
  ASSUME IInv, NEW rs \in Collections, NEW lost \in {0, 1}, NEW inserted \in {0, 1},
         Changed(rs, lost, inserted),
         NEW b, b = (IF source = "remote" THEN 1 ELSE inserted), Absorbed(rs, lost, b)
  PROVE  IInv'
<1>1. /\ Standing /\ (list = NoList \/ list \in Records)
      /\ rows' = rs /\ source' = source /\ walk' = walk /\ history.changes < MaxChanges
      /\ history' = [stable |-> history.stable \cap ShownIn(rs),
                     lost |-> history.lost + lost, inserted |-> history.inserted + inserted,
                     changes |-> history.changes + 1, unsaved |-> history.unsaved]
  BY InvStanding DEF Changed
<1>2. /\ history'.stable = history.stable \cap ShownIn(rs) /\ history'.lost = history.lost + lost
      /\ history'.inserted = history.inserted + inserted /\ history'.changes = history.changes + 1
      /\ history'.unsaved = history.unsaved
  BY <1>1
<1>3. /\ history.stable \subseteq Ids /\ history.lost \in Nat /\ history.inserted \in Nat
      /\ history.changes \in 0..MaxChanges /\ history.unsaved \in Nat
  BY DEF IInv, TypeOK
<1>4. history' \in [stable: SUBSET Ids, lost: Nat, inserted: Nat, changes: 0..MaxChanges, unsaved: Nat]
  <2>1. history.lost + lost \in Nat /\ history.inserted + inserted \in Nat
    BY <1>3
  <2>2. history.changes + 1 \in 0..MaxChanges
    BY <1>1, <1>3, ListsAssumption
  <2>3. history.stable \cap ShownIn(rs) \in SUBSET Ids
    BY <1>3
  <2>4. PICK stable \in SUBSET Ids, gone \in Nat, come \in Nat, n \in 0..MaxChanges :
          /\ stable = history.stable \cap ShownIn(rs) /\ gone = history.lost + lost
          /\ come = history.inserted + inserted /\ n = history.changes + 1
    BY <2>1, <2>2, <2>3
  <2>5. history' = [stable |-> stable, lost |-> gone, inserted |-> come, changes |-> n,
                    unsaved |-> history.unsaved]
    BY <1>1, <2>4
  <2> QED
    BY <1>3, <2>4, <2>5
<1>5. Bound' = Bound + b /\ Losses' = Losses + lost
  <2>1. Bound' = Bound + b
    <3>1. CASE source = "remote"
      BY <1>1, <1>2, <1>3, <3>1 DEF Bound
    <3>2. CASE source # "remote"
      BY <1>1, <1>2, <3>2 DEF Bound
    <3> QED
      BY <3>1, <3>2
  <2> QED
    BY <1>2, <1>3, <2>1 DEF Losses
<1>6. ASSUME NEW page \in Nat, NEW e \in Nat, NEW got \in Seq(Ids), NEW taken \in Nat, NEW u \in Nat,
             source = "local" => page = 0, ToSet(got) \subseteq Returned,
             NEW q, q = At(page, rows), Fits(q, e, got, taken, u), NEW p, p = At(page, rs)
      PROVE  Fits(p, e, got, taken, u)'
  <2>1. Losses \in Nat /\ Bound \in Nat
    BY <1>1 DEF Standing
  <2>2. PICK most \in Nat : most = Losses + u
    BY <2>1
  <2>3. PICK bound \in Nat : bound = Bound + u
    BY <2>1
  <2>4. FitsIn(rows, history.stable, most, bound, At(page, rows), e, got, taken)
    BY <1>6, <2>2, <2>3 DEF Fits
  <2>5. FitsIn(rs, history.stable \cap ShownIn(rs), most + lost, bound + b,
               At(page, rs), e, got, taken)
    BY <1>6, <2>4 DEF Absorbed
  <2>6. most + lost = Losses' + u /\ bound + b = Bound' + u
    <3>1. lost \in Nat /\ b \in Nat /\ u \in Nat
      OBVIOUS
    <3>2. PICK x \in Nat, y \in Nat : x = Losses /\ y = Bound
      BY <2>1
    <3>3. most = x + u /\ bound = y + u /\ Losses' = x + lost /\ Bound' = y + b
      BY <1>5, <2>2, <2>3, <3>2
    <3>4. x + u + lost = x + lost + u /\ y + u + b = y + b + u
      BY <3>1
    <3> QED
      BY <3>3, <3>4
  <2>7. FitsIn(rs, history'.stable, Losses' + u, Bound' + u, p, e, got, taken)
    BY <1>2, <1>6, <2>5, <2>6
  <2> QED
    BY <1>1, <2>7 DEF Fits
<1>7. At(0, rows) = 0 /\ At(0, rs) = 0
  <2>1. Len(rows) \in Nat /\ Len(rs) \in Nat
    BY <1>1, RowFields DEF Standing
  <2> QED
    BY <2>1 DEF At
<1>8. ASSUME NEW got \in Seq(Ids), NEW u \in Nat, ToSet(got) \subseteq Returned
      PROVE  /\ Paged(got, u) => Paged(got, u)'
             /\ Complete(got, u) => Complete(got, u)'
  <2>1. ASSUME Paged(got, u) PROVE Paged(got, u)'
    <3>1. PICK taken \in Nat : taken = Len(got)
      BY LenProperties
    <3>2. Fits(0, taken, got, 0, u)
      BY <2>1, <3>1 DEF Paged
    <3>3. Fits(0, taken, got, 0, u)'
      BY <1>6, <1>7, <1>8, <3>2
    <3> QED
      BY <3>1, <3>3 DEF Paged
  <2>2. ASSUME Complete(got, u) PROVE Complete(got, u)'
    <3>1. Cardinality(history.stable \ ToSet(got)) <= Losses + u
      BY <2>2 DEF Complete
    <3>2. /\ IsFiniteSet(history.stable \ ToSet(got))
          /\ (history.stable \cap ShownIn(rs)) \ ToSet(got) \subseteq history.stable \ ToSet(got)
      BY <1>3, IdsFinite
    <3>3. Cardinality((history.stable \cap ShownIn(rs)) \ ToSet(got)) <= Losses' + u
      <4>1. PICK m \in Nat : m = Cardinality(history.stable \ ToSet(got))
        BY <3>2, NoMore
      <4>2. PICK k \in Nat : k = Cardinality((history.stable \cap ShownIn(rs)) \ ToSet(got))
        BY <3>2, NoMore
      <4>3. k <= m
        BY <3>2, <4>1, <4>2, NoMore
      <4>4. Losses \in Nat /\ Losses' = Losses + lost /\ m <= Losses + u
        BY <1>1, <1>5, <3>1, <4>1 DEF Standing
      <4>5. k <= Losses' + u
        BY <4>3, <4>4
      <4> QED
        BY <4>2, <4>5
    <3> QED
      BY <1>2, <3>3 DEF Complete
  <2> QED
    BY <2>1, <2>2
<1>9. /\ walk.got \in Seq(Ids) /\ ToSet(walk.got) \subseteq Returned /\ walk.offset = Len(walk.got)
      /\ Paged(walk.got, 0) /\ (walk.over => Complete(walk.got, 0))
  BY <1>1 DEF IInv, Standing, Returned
<1>10. /\ (history.stable \subseteq ShownIn(rows))'
       /\ (walk.offset = Len(walk.got))'
       /\ Paged(walk.got, 0)' /\ (walk.over => Complete(walk.got, 0))'
  <2>1. PICK got \in Seq(Ids) : got = walk.got
    BY <1>9
  <2>2. Paged(got, 0)' /\ (walk.over => Complete(got, 0)')
    BY <1>8, <1>9, <2>1
  <2>3. (history.stable \subseteq ShownIn(rows))'
    BY <1>1, <1>2 DEF ShownIn
  <2> QED
    BY <1>1, <1>9, <2>1, <2>2, <2>3
<1>11. (rows \in Seq(Rows) /\ IsInjective([n \in DOMAIN rows |-> rows[n].id]))'
  BY <1>1, CollectionType
<1>12. CASE list = NoList
  <2>1. list' = NoList
    BY <1>12 DEF Changed
  <2>2. TypeOK'
    BY <1>1, <1>4, <1>11, <2>1 DEF IInv, TypeOK, Lists
  <2> QED
    BY <1>10, <2>1, <2>2 DEF IInv
<1>13. CASE list \in Records
  <2>1. PICK l \in Records : l = list
    BY <1>13
  <2>2. PICK k : k = [l EXCEPT !.quiet = FALSE]
    OBVIOUS
  <2>3. list # NoList
    BY <1>13 DEF NoList, Records
  <2>4. /\ k \in Records /\ k.stage = l.stage /\ k.walking = l.walking /\ k.limit = l.limit
        /\ k.offset = l.offset /\ k.page = l.page /\ k.skipped = l.skipped /\ k.result = l.result
        /\ k.unsaved = l.unsaved /\ ~k.quiet
    BY <2>2 DEF Records
  <2>5. k = list'
    BY <2>1, <2>2, <2>3 DEF Changed
  <2>6. (source = "local" => l.page = 0) /\ ListInv(l, Position(l))
    BY <2>1, <2>3 DEF IInv
  <2>7. /\ l.page \in Nat /\ l.result \in Seq(Ids) /\ l.skipped \in 0..First(l.offset)
        /\ l.offset \in Int /\ Len(l.result) \in Nat /\ l.skipped \in Nat
        /\ Len(l.unsaved) \in Nat
    BY <2>6, RecordType DEF ListInv
  <2>8. PICK q : q = At(l.page, rows) /\ q = Position(l)
    BY DEF At, Position
  <2>9. PICK p : p = At(l.page, rs)
    OBVIOUS
  <2>10. p = Position(k)'
    BY <1>1, <2>4, <2>9 DEF At, Position
  <2>11. ASSUME k.walking PROVE WalkInv(k, p)'
    <3>1. WalkInv(l, q)
      BY <2>4, <2>6, <2>8, <2>11 DEF ListInv
    <3>2. PICK got : got = walk.got \o l.result
      OBVIOUS
    <3> PICK u \in Nat : u = Len(l.unsaved)
      BY <2>7
    <3>3. got \in Seq(Ids) /\ ToSet(got) \subseteq Returned
      <4>1. got \in Seq(Ids)
        BY <1>9, <2>7, <3>2, ConcatProperties
      <4>2. ToSet(got) \subseteq ToSet(walk.got) \cup ToSet(l.result)
        <5> SUFFICES ASSUME NEW i \in DOMAIN got
                     PROVE  got[i] \in ToSet(walk.got) \cup ToSet(l.result)
          BY DEF ToSet
        <5>1. Len(got) = Len(walk.got) + Len(l.result) /\ DOMAIN got = 1..Len(got)
          BY <1>9, <2>7, <3>2, <4>1, ConcatProperties, LenProperties
        <5>2. PICK m \in Nat : m = Len(walk.got) /\ DOMAIN walk.got = 1..m
          BY <1>9, LenProperties
        <5>3. PICK n \in Nat : n = Len(l.result) /\ DOMAIN l.result = 1..n
          BY <2>7, LenProperties
        <5>4. i \in 1..(m + n)
          BY <5>1, <5>2, <5>3
        <5>5. got[i] = IF i <= m THEN walk.got[i] ELSE l.result[i - m]
          BY <1>9, <2>7, <3>2, <5>2, <5>3, <5>4, ConcatProperties
        <5>6. i \in 1..m \/ (~(i <= m) /\ i - m \in 1..n)
          BY <5>4
        <5> QED
          BY <5>2, <5>3, <5>5, <5>6 DEF ToSet
      <4> QED
        BY <2>1, <2>3, <4>1, <4>2 DEF Returned
    <3>4. /\ ~walk.over /\ l.limit = walk.limit /\ l.offset = walk.offset
          /\ l.stage = "serving" => Fits(q, l.offset - l.skipped, got, l.skipped + Len(l.result), u)
          /\ l.stage = "answered" => Paged(got, u) /\ (Len(l.result) < l.limit => Complete(got, u))
      BY <3>1, <3>2 DEF WalkInv
    <3>5. ASSUME l.stage = "serving"
          PROVE  Fits(p, l.offset - l.skipped, got, l.skipped + Len(l.result), u)'
      <4>1. PICK e \in Nat : e = l.offset - l.skipped
        <5>1. l.offset \in Nat
          BY <1>9, <3>4, LenProperties
        <5> QED
          BY <2>7, <5>1 DEF First
      <4>2. PICK taken \in Nat : taken = l.skipped + Len(l.result)
        BY <2>7
      <4>3. Fits(q, e, got, taken, u)
        BY <3>4, <3>5, <4>1, <4>2
      <4>4. Fits(p, e, got, taken, u)'
        BY <1>6, <2>6, <2>7, <2>8, <2>9, <3>3, <4>3
      <4> QED
        BY <4>1, <4>2, <4>4
    <3>6. ASSUME l.stage = "answered" PROVE Paged(got, u)' /\ (Len(l.result) < l.limit => Complete(got, u)')
      BY <1>8, <3>3, <3>4, <3>6
    <3> QED
      BY <1>1, <2>4, <3>2, <3>4, <3>5, <3>6 DEF WalkInv
  <2>12. ListInv(k, p)'
    <3>1. /\ k.skipped \in 0..First(k.offset)
          /\ source' = "local" => k.unsaved = << >>
          /\ k.stage = "serving" =>
               /\ k.limit # 0 /\ (k.result = << >> \/ ~Enough(k.limit, k.result)')
               /\ k.result # << >> => k.skipped = First(k.offset)
      BY <1>1, <2>4, <2>6 DEF ListInv, Enough
    <3> QED
      BY <2>4, <2>11, <3>1 DEF ListInv
  <2>13. TypeOK'
    <3>1. k.skipped = 0 \/ k.skipped <= k.offset
      BY <2>4, <2>7 DEF First
    <3> QED
      BY <1>1, <1>4, <1>11, <2>4, <2>5, <3>1 DEF IInv, TypeOK, Lists, Records
  <2>14. (source = "local" => list.page = 0)' /\ ListInv(list, Position(list))'
    BY <1>1, <2>4, <2>5, <2>6, <2>10, <2>12
  <2> QED
    BY <1>10, <2>13, <2>14 DEF IInv
<1> QED
  BY <1>1, <1>12, <1>13

LEMMA AtType == ASSUME NEW rs \in Collections, NEW page \in Nat PROVE At(page, rs) \in 0..Len(rs)
BY RowFields DEF At

LEMMA CreateKeeps == ASSUME IInv, Create PROVE IInv'
<1>1. PICK row \in Rows :
        /\ \A n \in DOMAIN rows : rows[n].id # row.id
        /\ Changed(Append(rows, row), 0, IF row.id \in Returned THEN 1 ELSE 0)
  BY DEF Create
<1>2. Standing
  BY InvStanding
<1>3. PICK rs : rs = Append(rows, row)
  OBVIOUS
<1>4. rows \in Collections /\ history.stable \subseteq ShownIn(rows) /\ Losses \in Nat /\ Bound \in Nat
  BY <1>2 DEF Standing
<1>5. Extended(rows, rs, row)
  BY <1>1, <1>3, <1>4, AppendRows
<1>6. rs \in Collections
  BY <1>5 DEF Extended
<1>7. PICK inserted \in {0, 1} : inserted = IF row.id \in Returned THEN 1 ELSE 0
  OBVIOUS
<1>8. PICK b \in {0, 1} : b = IF source = "remote" THEN 1 ELSE inserted
  OBVIOUS
<1>9. Absorbed(rs, 0, b)
  <2> SUFFICES ASSUME NEW page \in Nat, NEW e \in Nat, NEW got \in Seq(Ids), NEW taken \in Nat,
                      NEW most \in Nat, NEW bound \in Nat,
                      source = "local" => page = 0, ToSet(got) \subseteq Returned,
                      FitsIn(rows, history.stable, most, bound, At(page, rows), e, got, taken)
               PROVE  FitsIn(rs, history.stable \cap ShownIn(rs), most + 0, bound + b,
                             At(page, rs), e, got, taken)
    BY DEF Absorbed
  <2>1. PICK len \in Nat : len = Len(rows)
    BY <1>4, RowFields
  <2>2. Len(rs) = len + 1
    BY <1>5, <2>1 DEF Extended
  <2>3. PICK q \in 0..Len(rows) : q = At(page, rows)
    BY <1>4, AtType
  <2>4. PICK p \in Nat : p = At(page, rs)
    BY <2>2 DEF At
  <2>5. (p = q \/ (p = q + 1 /\ q = Len(rows))) /\ (page = 0 => p = q)
    BY <2>1, <2>2, <2>3, <2>4 DEF At
  <2>6. b = 1 \/ (b = 0 /\ p = q /\ row.id \notin ToSet(got))
    <3>1. CASE source = "remote"
      BY <1>8, <3>1
    <3>2. CASE source # "remote"
      <4>1. p = q
        BY <1>2, <2>5, <3>2 DEF Standing
      <4>2. row.id \in ToSet(got) => b = 1
        BY <1>7, <1>8, <3>2
      <4> QED
        BY <4>1, <4>2
    <3> QED
      BY <3>1, <3>2
  <2>7. FitsIn(rows, history.stable, most, bound, q, e, got, taken)
    BY <2>3
  <2>8. b \in Nat
    OBVIOUS
  <2>9. FitsIn(rs, history.stable \cap ShownIn(rs), most, bound + b, p, e, got, taken)
    BY <1>4, <1>5, <2>5, <2>6, <2>7, <2>8, AppendFits
  <2>10. most + 0 = most
    BY <1>4
  <2> QED
    BY <2>4, <2>9, <2>10
<1>10. Changed(rs, 0, inserted)
  BY <1>1, <1>3, <1>7
<1> QED
  BY <1>6, <1>8, <1>9, <1>10, ChangeKeeps

LEMMA UpdateKeeps == ASSUME IInv, Update PROVE IInv'
<1>1. PICK n \in DOMAIN rows :
        Changed([rows EXCEPT ![n].shown = ~@],
                IF rows[n].shown THEN 1 ELSE 0, IF rows[n].shown THEN 0 ELSE 1)
  BY DEF Update
<1>2. Standing
  BY InvStanding
<1>3. PICK rs : rs = [rows EXCEPT ![n].shown = ~@]
  OBVIOUS
<1>4. rows \in Collections /\ history.stable \subseteq ShownIn(rows) /\ Losses \in Nat /\ Bound \in Nat
  BY <1>2 DEF Standing
<1>5. Flipped(rows, rs, n)
  BY <1>3, <1>4, UpdateRows
<1>6. rs \in Collections /\ Len(rs) = Len(rows)
  BY <1>5 DEF Flipped
<1>7. PICK lost \in {0, 1} : lost = IF rows[n].shown THEN 1 ELSE 0
  OBVIOUS
<1>8. PICK inserted \in {0, 1} : inserted = IF rows[n].shown THEN 0 ELSE 1
  OBVIOUS
<1>9. PICK b \in {0, 1} : b = IF source = "remote" THEN 1 ELSE inserted
  OBVIOUS
<1>10. Absorbed(rs, lost, b)
  <2> SUFFICES ASSUME NEW page \in Nat, NEW e \in Nat, NEW got \in Seq(Ids), NEW taken \in Nat,
                      NEW most \in Nat, NEW bound \in Nat,
                      FitsIn(rows, history.stable, most, bound, At(page, rows), e, got, taken)
               PROVE  FitsIn(rs, history.stable \cap ShownIn(rs), most + lost, bound + b,
                             At(page, rs), e, got, taken)
    BY DEF Absorbed
  <2>1. PICK q \in 0..Len(rows) : q = At(page, rows)
    BY <1>4, AtType
  <2>2. q = At(page, rs)
    BY <1>6, <2>1 DEF At
  <2>3. FitsIn(rows, history.stable, most, bound, q, e, got, taken)
    BY <2>1
  <2>4. FitsIn(rs, history.stable \cap ShownIn(rs), most + lost, bound + inserted, q, e, got, taken)
    BY <1>4, <1>5, <1>7, <1>8, <2>3, UpdateFits
  <2>5. CASE b = inserted
    BY <2>2, <2>4, <2>5
  <2>6. CASE b = 1 /\ inserted = 0
    <3>1. q \in Nat /\ most + lost \in Nat /\ bound + inserted = bound
      BY <1>4, <2>6
    <3>2. history.stable \cap ShownIn(rs) \subseteq Ids
      BY <1>6, ShownType
    <3>3. FitsIn(rs, history.stable \cap ShownIn(rs), most + lost, bound, q, e, got, taken)
      BY <2>4, <3>1
    <3>4. FitsIn(rs, history.stable \cap ShownIn(rs), most + lost, bound + 1, q, e, got, taken)
      BY <1>4, <1>6, <3>1, <3>2, <3>3, FitsMore
    <3> QED
      BY <2>2, <2>6, <3>4
  <2> QED
    BY <1>9, <2>5, <2>6
<1>11. Changed(rs, lost, inserted)
  BY <1>1, <1>3, <1>7, <1>8
<1> QED
  BY <1>6, <1>9, <1>10, <1>11, ChangeKeeps

LEMMA DeleteKeeps == ASSUME IInv, Delete PROVE IInv'
<1>1. PICK n \in DOMAIN rows : Changed(RemoveAt(rows, n), 1, 0)
  BY DEF Delete
<1>2. Standing
  BY InvStanding
<1>3. PICK rs : rs = RemoveAt(rows, n)
  OBVIOUS
<1>4. rows \in Collections /\ history.stable \subseteq ShownIn(rows) /\ Losses \in Nat /\ Bound \in Nat
  BY <1>2 DEF Standing
<1>5. Removed(rows, rs, n)
  BY <1>3, <1>4, RemoveRows
<1>6. rs \in Collections
  BY <1>5 DEF Removed
<1>7. PICK b \in {0, 1} : b = IF source = "remote" THEN 1 ELSE 0
  OBVIOUS
<1>8. Absorbed(rs, 1, b)
  <2> SUFFICES ASSUME NEW page \in Nat, NEW e \in Nat, NEW got \in Seq(Ids), NEW taken \in Nat,
                      NEW most \in Nat, NEW bound \in Nat,
                      source = "local" => page = 0,
                      FitsIn(rows, history.stable, most, bound, At(page, rows), e, got, taken)
               PROVE  FitsIn(rs, history.stable \cap ShownIn(rs), most + 1, bound + b,
                             At(page, rs), e, got, taken)
    BY DEF Absorbed
  <2>1. PICK len \in Nat : len = Len(rows) /\ n \in 1..len
    BY <1>4, RowFields
  <2>2. Len(rs) = len - 1 /\ len - 1 \in Nat
    BY <1>5, <2>1 DEF Removed
  <2>3. PICK q \in 0..Len(rows) : q = At(page, rows)
    BY <1>4, AtType
  <2>4. PICK p \in Nat : p = At(page, rs)
    BY <2>2 DEF At
  <2>5. (p = q /\ q < Len(rows)) \/ (p = Len(rows) - 1 /\ q = Len(rows))
    BY <2>1, <2>2, <2>3, <2>4 DEF At
  <2>6. b = 1 \/ (b = 0 /\ q = 0)
    <3>1. page = 0 => q = 0
      BY <2>1, <2>3 DEF At
    <3> QED
      BY <1>2, <1>7, <3>1 DEF Standing
  <2>7. FitsIn(rows, history.stable, most, bound, q, e, got, taken)
    BY <2>3
  <2>8. b \in Nat
    OBVIOUS
  <2>9. FitsIn(rs, history.stable \cap ShownIn(rs), most + 1, bound + b, p, e, got, taken)
    BY <1>4, <1>5, <2>5, <2>6, <2>7, <2>8, RemoveFits
  <2> QED
    BY <2>4, <2>9
<1>9. Changed(rs, 1, 0)
  BY <1>1, <1>3
<1> QED
  BY <1>6, <1>7, <1>8, <1>9, ChangeKeeps

-----------------------------------------------------------------------------
(* The theorems.                                                           *)

LEMMA InitInvariant == ASSUME Init PROVE IInv
<1>1. /\ source \in {"local", "remote"} /\ list = NoList
      /\ history = [stable |-> ShownIn(rows), lost |-> 0, inserted |-> 0, changes |-> 0,
                    unsaved |-> 0]
  BY DEF Init
<1>2. PICK size \in 0..MaxRows : \E shown \in [1..size -> BOOLEAN] :
        rows = [n \in 1..size |-> [id |-> n, shown |-> shown[n]]]
  BY DEF Init
<1>3. PICK shown \in [1..size -> BOOLEAN] :
        rows = [n \in 1..size |-> [id |-> n, shown |-> shown[n]]]
  BY <1>2
<1>4. PICK limit \in Limits :
        limit > 0 /\ walk = [limit |-> limit, offset |-> 0, got |-> << >>, over |-> FALSE]
  BY DEF Init
<1>5. rows \in Collections
  <2>1. size \in Nat
    BY <1>2, ListsAssumption
  <2>2. \A n \in 1..size : [id |-> n, shown |-> shown[n]] \in Rows
    <3> SUFFICES ASSUME NEW n \in 1..size PROVE [id |-> n, shown |-> shown[n]] \in Rows
      OBVIOUS
    <3>1. n \in Ids /\ shown[n] \in BOOLEAN
      BY <1>2, <2>1, ListsAssumption DEF Ids
    <3> QED
      BY <3>1 DEF Rows
  <2>3. rows \in Seq(Rows)
    BY <1>3, <2>1, <2>2
  <2>4. Distinct(rows)
    BY <1>3 DEF Distinct
  <2> QED
    BY <2>3, <2>4 DEF Collections
<1>6. TypeOK
  <2>1. ShownIn(rows) \subseteq Ids /\ 0 \in 0..MaxChanges /\ limit \in Nat \ {0}
    BY <1>4, <1>5, ShownType, ListsAssumption
  <2>2. history \in [stable: SUBSET Ids, lost: Nat, inserted: Nat, changes: 0..MaxChanges, unsaved: Nat]
    BY <1>1, <2>1
  <2>3. walk \in [limit: Nat \ {0}, offset: Nat, got: Seq(Ids), over: BOOLEAN]
    BY <1>4, <2>1
  <2>4. rows \in Seq(Rows) /\ IsInjective([n \in DOMAIN rows |-> rows[n].id])
    BY <1>5, CollectionType
  <2> QED
    BY <1>1, <2>2, <2>3, <2>4 DEF TypeOK, Lists
<1>7. walk.got = << >> /\ walk.offset = Len(walk.got) /\ ~walk.over /\ Len(walk.got) = 0
  BY <1>4
<1>8. /\ history.stable = ShownIn(rows) /\ history.lost = 0 /\ history.inserted = 0 /\ history.changes = 0
      /\ Bound = 0 /\ Losses = 0
  BY <1>1 DEF Bound, Losses
<1>9. ToSet(<< >>) = {}
  BY DEF ToSet
<1>10. Cardinality({}) = 0
  BY FS_EmptySet
<1>11. Missing(rows, ShownIn(rows), 0, 0, << >>) = {}
  <2> SUFFICES ASSUME NEW x \in Within(rows, 0, 0), x \in ShownIn(rows) PROVE FALSE
    BY DEF Missing
  <2>1. PICK m \in DOMAIN rows : x = rows[m].id /\ (m <= 0 \/ Rank(rows, m) <= Rank(rows, 0) + 0)
    BY DEF Within
  <2>2. PICK n \in DOMAIN rows : x = rows[n].id /\ rows[n].shown
    BY DEF ShownIn
  <2>3. m = n /\ n \in 1..Len(rows) /\ Len(rows) \in Nat
    BY <1>5, <2>1, <2>2, RowFields DEF Distinct
  <2>4. Rank(rows, 0) < Rank(rows, n) /\ Rank(rows, n) \in Nat
    <3>1. 0 \in Nat /\ n \in Nat /\ 0 < n
      BY <2>3
    <3>2. Rank(rows, 0) < Rank(rows, n)
      BY <2>2, <3>1, RankGrows
    <3> QED
      BY <3>1, <3>2, RankType
  <2>5. Rank(rows, 0) = 0
    BY RankZero
  <2> QED
    BY <2>1, <2>3, <2>4, <2>5
<1>12. Coming(rows, 0, 0, << >>) = {}
  BY <1>9 DEF Coming
<1>13. Missed(rows, ShownIn(rows), 0, 0, << >>) = 0 /\ Again(rows, 0, 0, << >>) = 0
  <2>1. Missed(rows, ShownIn(rows), 0, 0, << >>) = 0
    BY <1>10, <1>11 DEF Missed
  <2>2. Len(<< >>) = 0
    OBVIOUS
  <2>3. Repeated(<< >>) = 0
    <3>1. Cardinality(ToSet(<< >>)) = 0
      BY <1>9, <1>10
    <3> QED
      BY <2>2, <3>1 DEF Repeated
  <2>4. Cardinality(Coming(rows, 0, 0, << >>)) = 0
    BY <1>10, <1>12
  <2> QED
    BY <2>1, <2>3, <2>4 DEF Again
<1>14. Paged(walk.got, 0)
  <2>1. FitsIn(rows, ShownIn(rows), 0 + 0, 0 + 0, 0, 0, << >>, 0)
    BY <1>13, RankZero DEF FitsIn
  <2> QED
    BY <1>7, <1>8, <2>1 DEF Paged, Fits
<1> QED
  BY <1>1, <1>6, <1>7, <1>8, <1>14 DEF IInv

LEMMA NextInvariant == ASSUME IInv, [Next]_vars PROVE IInv'
<1>1. CASE UNCHANGED vars
  <2>1. UNCHANGED <<source, rows, walk, history>> /\ list' = list
    BY <1>1 DEF vars
  <2>2. CASE list = NoList
    BY <2>1, <2>2, ListStep
  <2>3. CASE list # NoList
    <3>1. PICK l \in Records : l = list
      BY <2>3, InvStanding
    <3>2. l = list' /\ (source = "local" => l.page = 0) /\ ListInv(l, Position(l))
      BY <2>1, <2>3, <3>1 DEF IInv
    <3> QED
      BY <2>1, <3>2, ListStep
  <2> QED
    BY <2>2, <2>3
<1>2. CASE Next
  BY <1>2, AskKeeps, ListLocalKeeps, ListRemotePageKeeps, ListFailsKeeps, ReceiveKeeps,
     CreateKeeps, UpdateKeeps, DeleteKeeps DEF Next
<1> QED
  BY <1>1, <1>2

\* The invariant of the loops and of the walk between them.
THEOREM Invariant == Spec => []IInv
BY InitInvariant, NextInvariant, PTL DEF Spec

\* The collection, the LIST and the walk always have their types, no two objects of
\* the collection have one id, and no LIST skips more than its offset.
THEOREM TypeCorrect == Spec => []TypeOK
<1>1. IInv => TypeOK
  BY DEF IInv
<1> QED
  BY <1>1, Invariant, PTL

\* A LIST during which nobody changes the collection answers with exactly the
\* objects from its offset to its limit of those that the caller may see and that
\* it could save, for every collection, limit, offset and page size, from the local
\* table and from the remote server, whichever saves fail: dropping, skipping and
\* stopping fit together across the pages.
THEOREM AnswersAreWindows == Spec => []AnswerIsAWindow
<1>1. IInv => AnswerIsAWindow
  <2> SUFFICES ASSUME IInv, list # NoList, list.stage = "answered", list.quiet
               PROVE  list.result = Window(Without(list.unsaved), list.limit, list.offset)
    BY DEF AnswerIsAWindow
  <2>1. QuietInv(list, Position(list))
    BY DEF IInv, ListInv
  <2> QED
    BY <2>1 DEF QuietInv
<1> QED
  BY <1>1, Invariant, PTL

\* A client that has walked through the pages, however many changes others make
\* between and during its requests, and whichever objects its answers lack because
\* they could not be saved, misses of the objects that it could see all the time no
\* more than there were removals, hidings and failed saves.
THEOREM MissesHaveCause == Spec => []MissesAreExplained
<1>1. ASSUME IInv PROVE MissesAreExplained
  <2>1. Losses \in Nat /\ Losses + 0 = history.lost + history.unsaved
    BY <1>1 DEF IInv, TypeOK, Losses
  <2> QED
    BY <1>1, <2>1 DEF IInv, Complete, MissesAreExplained
<1> QED
  BY <1>1, Invariant, PTL

\* At any time of its walk the client has got an object again no more often than
\* objects became visible or came back (local answers), or than the collection
\* changed and objects could not be saved (remote answers).
THEOREM RepeatsHaveCause == Spec => []RepeatsAreExplained
<1>1. ASSUME IInv PROVE RepeatsAreExplained
  <2>1. Standing
    BY <1>1, InvStanding
  <2>2. walk.got \in Seq(Ids) /\ rows \in Collections /\ Bound \in Nat /\ Paged(walk.got, 0)
    BY <2>1 DEF Standing
  <2>3. PICK taken \in Nat : taken = Len(walk.got)
    BY <2>2, LenProperties
  <2>4. Again(rows, 0, taken, walk.got) <= Bound
    BY <2>2, <2>3 DEF Paged, Fits, FitsIn
  <2>5. Cardinality(Coming(rows, 0, taken, walk.got)) \in Nat /\ Repeated(walk.got) \in Int
    <3>1. {} \subseteq Ids
      OBVIOUS
    <3>2. Cardinality(Coming(rows, 0, taken, walk.got)) \in Nat
      BY <2>2, <3>1, Sizes
    <3> QED
      BY <2>2, <3>2, ToSetType
  <2>6. Repeated(walk.got) <= Bound
    BY <2>2, <2>4, <2>5 DEF Again
  <2> QED
    BY <2>6 DEF RepeatsAreExplained, Repeated, Bound
<1> QED
  BY <1>1, Invariant, PTL
=============================================================================
