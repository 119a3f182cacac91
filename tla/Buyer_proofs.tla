---------------------------- MODULE Buyer_proofs -----------------------------
(***************************************************************************)
(* Theorems about what a buyer is shown: the pages of the table of lots    *)
(* (LotPages), for any number of readers, requests, lots and tenants, and  *)
(* the bargaining of negotiator_node (OfferFlow), for any number of        *)
(* offers, any prices and any suggestions of the LLM.                      *)
(***************************************************************************)
EXTENDS LotPages, OfferFlow, FiniteSetTheorems, SequenceTheorems, TLAPS

(***************************************************************************)
(* Pages.                                                                  *)
(***************************************************************************)
\* A last page that is not full is a page.
LEMMA LastPage ==
    ASSUME NEW t \in Nat
    PROVE  /\ PagesOf(t) \in Nat \ {0}
           /\ t > 0 => PagesOf(t) <= t
           /\ \A n \in Nat : n >= PagesOf(t) => n * PageSize >= t
<1>1. PageSize \in Nat \ {0}
  BY PagesAssumption
<1>2. CASE t = 0
  BY <1>1, <1>2 DEF PagesOf
<1>3. CASE t > 0
  <2> DEFINE d == (t + PageSize - 1) \div PageSize
  <2>1. /\ d \in Nat /\ d * PageSize <= t + PageSize - 1
        /\ t + PageSize - 1 < (d + 1) * PageSize
    BY <1>1, <1>3
  <2>2. PagesOf(t) = d
    BY <1>3 DEF PagesOf
  <2> HIDE DEF d
  <2>3. d * PageSize >= t
    BY <1>1, <2>1
  <2>4. d > 0
    BY <1>1, <1>3, <2>1, <2>3
  <2>5. d <= t
    <3>1. SUFFICES ASSUME d >= t + 1 PROVE FALSE
      BY <2>1
    <3>2. d * PageSize >= (t + 1) * PageSize
      BY <1>1, <2>1, <3>1
    <3>3. t * PageSize >= t
      BY <1>1
    <3> QED
      BY <1>1, <2>1, <3>2, <3>3
  <2>6. ASSUME NEW n \in Nat, n >= d PROVE n * PageSize >= t
    <3>1. n * PageSize >= d * PageSize
      BY <1>1, <2>1, <2>6
    <3> QED
      BY <1>1, <2>1, <2>3, <3>1
  <2> QED
    BY <2>1, <2>2, <2>4, <2>5, <2>6
<1> QED
  BY <1>2, <1>3

\* What the first n pages show of a table.
Upto(s, n) == SubSeq(s, 1, IF n * PageSize < Len(s) THEN n * PageSize ELSE Len(s))

\* A page more.
LEMMA OnePageMore ==
    ASSUME NEW S, NEW s \in Seq(S), NEW n \in Nat \ {0}
    PROVE  Upto(s, n - 1) \o Slice(s, n) = Upto(s, n)
<1> DEFINE from == (n - 1) * PageSize
           to == IF n * PageSize < Len(s) THEN n * PageSize ELSE Len(s)
<1>1. /\ from \in Nat /\ Len(s) \in Nat /\ from + PageSize = n * PageSize
      /\ n * PageSize \in Nat /\ PageSize \in Nat \ {0}
  BY PagesAssumption
<1>2. Slice(s, n) = SubSeq(s, from + 1, to)
  BY <1>1 DEF Slice, Offset
<1>3. CASE from < Len(s)
  <2>1. Upto(s, n - 1) = SubSeq(s, 1, from)
    BY <1>3 DEF Upto
  <2> HIDE DEF from
  <2>2. from \in 0..Len(s) /\ to \in from..Len(s)
    BY <1>1, <1>3
  <2> HIDE DEF to
  <2>3. SubSeq(s, 1, from) \o SubSeq(s, from + 1, to) = SubSeq(s, 1, to)
    BY <1>1, <2>2, ConcatAdjacentSubSeq
  <2> QED
    BY <1>2, <2>1, <2>3 DEF to, Upto
<1>4. CASE from >= Len(s)
  <2>1. Upto(s, n - 1) = s
    BY <1>1, <1>4, SubSeqFull DEF Upto
  <2>2. n * PageSize >= Len(s) /\ to = Len(s)
    BY <1>1, <1>4
  <2>3. Upto(s, n) = s
    BY <1>1, <2>2, SubSeqFull DEF Upto
  <2> HIDE DEF from, to
  <2>4. Slice(s, n) = <<>>
    BY <1>1, <1>2, <1>4, <2>2, SubSeqEmpty
  <2> QED
    BY <2>1, <2>3, <2>4, ConcatEmptySeq
<1> QED
  BY <1>1, <1>3, <1>4

\* The first page comes after none, and the last ends the table.
LEMMA AllPages ==
    ASSUME NEW S, NEW s \in Seq(S)
    PROVE  /\ Upto(s, 0) = <<>>
           /\ \A n \in Nat : n >= PagesOf(Len(s)) => Upto(s, n) = s
<1>1. Len(s) \in Nat /\ PageSize \in Nat \ {0}
  BY PagesAssumption
<1>2. Upto(s, 0) = <<>>
  <2>1. Upto(s, 0) = SubSeq(s, 1, 0)
    BY <1>1 DEF Upto
  <2> QED
    BY <2>1, SubSeqEmpty
<1>3. ASSUME NEW n \in Nat, n >= PagesOf(Len(s)) PROVE Upto(s, n) = s
  <2>1. n * PageSize >= Len(s) /\ n * PageSize \in Nat
    BY <1>1, <1>3, LastPage
  <2> QED
    BY <1>1, <2>1, SubSeqFull DEF Upto
<1> QED
  BY <1>2, <1>3

-----------------------------------------------------------------------------
(***************************************************************************)
(* The list, the newest first.                                             *)
(***************************************************************************)
\* Those of a set of lots that are newer than one.
Above(M, x) == {y \in M : y > x}

\* As many are newer than one as come before it, and the list has each once.
LEMMA Ranks ==
    ASSUME NEW M \in SUBSET Nat, IsFiniteSet(M)
    PROVE  /\ Cardinality(M) \in Nat
           /\ \A x \in M : Cardinality(Above(M, x)) \in 0..Cardinality(M) - 1
           /\ \A x, y \in M : Cardinality(Above(M, x)) = Cardinality(Above(M, y)) => x = y
           /\ \A j \in 1..Cardinality(M) : \E x \in M : Cardinality(Above(M, x)) = j - 1
<1> DEFINE N == Cardinality(M)
           rank == [x \in M |-> Cardinality(Above(M, x))]
<1>1. N \in Nat
  BY FS_CardinalityType
<1>2. ASSUME NEW x \in M
      PROVE  IsFiniteSet(Above(M, x)) /\ Cardinality(Above(M, x)) \in 0..N - 1
  <2>1. IsFiniteSet(M \ {x}) /\ Cardinality(M \ {x}) = N - 1
    BY FS_RemoveElement
  <2>2. Above(M, x) \subseteq M \ {x}
    BY DEF Above
  <2>3. /\ IsFiniteSet(Above(M, x)) /\ Cardinality(Above(M, x)) <= N - 1
        /\ Cardinality(Above(M, x)) \in Nat
    BY <2>1, <2>2, FS_Subset, FS_CardinalityType
  <2> QED
    BY <1>1, <2>3
<1>3. ASSUME NEW x \in M, NEW y \in M, x < y
      PROVE  Cardinality(Above(M, x)) # Cardinality(Above(M, y))
  <2>1. Above(M, y) \subseteq Above(M, x) /\ y \in Above(M, x) /\ y \notin Above(M, y)
    <3>1. x \in Nat /\ y \in Nat
      OBVIOUS
    <3>2. ASSUME NEW z \in M, z > y PROVE z > x
      <4>1. z \in Nat
        OBVIOUS
      <4> QED
        BY <1>3, <3>1, <3>2, <4>1
    <3>3. Above(M, y) \subseteq Above(M, x)
      BY <3>2 DEF Above
    <3>4. y \in Above(M, x) /\ y \notin Above(M, y)
      BY <1>3, <3>1 DEF Above
    <3> QED
      BY <3>3, <3>4
  <2>2. Above(M, y) # Above(M, x)
    BY <2>1
  <2> QED
    BY <1>2, <2>1, <2>2, FS_Subset
<1>4. \A x, y \in M : Cardinality(Above(M, x)) = Cardinality(Above(M, y)) => x = y
  <2> SUFFICES ASSUME NEW x \in M, NEW y \in M,
                      Cardinality(Above(M, x)) = Cardinality(Above(M, y)), x # y
               PROVE  FALSE
    OBVIOUS
  <2>1. x < y \/ y < x
    OBVIOUS
  <2> QED
    BY <1>3, <2>1
<1>5. rank \in Injection(M, 0..N - 1)
  BY <1>2, <1>4 DEF Injection, IsInjective
<1>6. IsFiniteSet(0..N - 1) /\ Cardinality(0..N - 1) = N
  <2>1. 0 \in Int /\ N - 1 \in Int
    BY <1>1
  <2> HIDE DEF N
  <2>2. /\ IsFiniteSet(0..N - 1)
        /\ Cardinality(0..N - 1) = IF 0 > N - 1 THEN 0 ELSE N - 1 - 0 + 1
    BY <2>1, FS_Interval
  <2> QED
    BY <1>1, <2>2
<1>7. rank \in Surjection(M, 0..N - 1)
  BY <1>5, <1>6, FS_Injection
<1>8. ASSUME NEW j \in 1..N PROVE \E x \in M : Cardinality(Above(M, x)) = j - 1
  <2>1. j - 1 \in 0..N - 1
    BY <1>1
  <2> QED
    BY <1>7, <2>1 DEF Surjection
<1> QED
  BY <1>1, <1>2, <1>4, <1>8

\* What a reader may see is in the table.
LEMMA Matched ==
    ASSUME PagesTypeOK, NEW r \in Readers, NEW f \in Filters
    PROVE  /\ Matching(r, f) \subseteq DOMAIN table /\ DOMAIN table \subseteq Ids
           /\ IsFiniteSet(Matching(r, f))
           /\ Cardinality(Matching(r, f)) \in 0..MaxLots
<1>1. Len(table) \in 0..MaxLots /\ DOMAIN table = 1..Len(table) /\ MaxLots \in Nat
  BY PagesAssumption DEF PagesTypeOK
<1>2. Matching(r, f) \subseteq 1..Len(table)
  BY <1>1 DEF Matching
<1>3. IsFiniteSet(1..Len(table)) /\ Cardinality(1..Len(table)) = Len(table)
  <2>1. 1 \in Int /\ Len(table) \in Int /\ Len(table) \in Nat
    BY <1>1
  <2>2. Cardinality(1..Len(table)) = IF 1 > Len(table) THEN 0 ELSE Len(table) - 1 + 1
    BY <2>1, FS_Interval
  <2>3. IsFiniteSet(1..Len(table))
    BY <2>1, FS_Interval
  <2> QED
    BY <2>1, <2>2, <2>3
<1>4. /\ IsFiniteSet(Matching(r, f)) /\ Cardinality(Matching(r, f)) \in Nat
      /\ Cardinality(Matching(r, f)) <= Len(table)
  BY <1>2, <1>3, FS_Subset, FS_CardinalityType
<1> QED
  BY <1>1, <1>2, <1>4 DEF Ids

\* The list has the lots of the filter, each where as many come before it as are
\* newer.
LEMMA Listed ==
    ASSUME PagesTypeOK, NEW r \in Readers, NEW f \in Filters
    PROVE  /\ NewestFirst(r, f) \in Seq(Matching(r, f))
           /\ NewestFirst(r, f) \in Seq(Ids)
           /\ Len(NewestFirst(r, f)) = Cardinality(Matching(r, f))
           /\ \A x \in Matching(r, f) :
                 /\ Cardinality(Newer(r, f, x)) \in 0..Len(NewestFirst(r, f)) - 1
                 /\ NewestFirst(r, f)[Cardinality(Newer(r, f, x)) + 1] = x
<1> DEFINE M == Matching(r, f)
           N == Cardinality(M)
           L == NewestFirst(r, f)
<1>1. M \in SUBSET Nat /\ IsFiniteSet(M) /\ M \subseteq Ids
  BY Matched DEF Ids
<1>2. \A x : Newer(r, f, x) = Above(M, x)
  BY DEF Newer, Above
<1> HIDE DEF M
<1>3. /\ N \in Nat
      /\ \A x \in M : Cardinality(Above(M, x)) \in 0..N - 1
      /\ \A x, y \in M : Cardinality(Above(M, x)) = Cardinality(Above(M, y)) => x = y
      /\ \A j \in 1..N : \E x \in M : Cardinality(Above(M, x)) = j - 1
  BY <1>1, Ranks
<1> HIDE DEF N
<1>4. L = [j \in 1..N |-> CHOOSE x \in M : Cardinality(Above(M, x)) = j - 1]
  BY <1>2 DEF NewestFirst, M, N
<1>5. ASSUME NEW j \in 1..N PROVE L[j] \in M /\ Cardinality(Above(M, L[j])) = j - 1
  <2>1. \E x \in M : Cardinality(Above(M, x)) = j - 1
    BY <1>3
  <2>2. L[j] = CHOOSE x \in M : Cardinality(Above(M, x)) = j - 1
    BY <1>4
  <2> QED
    BY <2>1, <2>2
<1>6. L \in [1..N -> M]
  BY <1>4, <1>5
<1>7. L \in Seq(M) /\ Len(L) = N
  BY <1>3, <1>6
<1>8. L \in Seq(Ids)
  BY <1>1, <1>7, SeqMonotonic
<1>9. ASSUME NEW x \in M
      PROVE  /\ Cardinality(Above(M, x)) \in 0..N - 1
             /\ L[Cardinality(Above(M, x)) + 1] = x
  <2>1. Cardinality(Above(M, x)) \in 0..N - 1
    BY <1>3
  <2>2. Cardinality(Above(M, x)) + 1 \in 1..N
    BY <1>3, <2>1
  <2>3. Cardinality(Above(M, L[Cardinality(Above(M, x)) + 1])) = Cardinality(Above(M, x))
    BY <1>5, <2>1, <2>2
  <2> QED
    BY <1>3, <1>5, <2>1, <2>2, <2>3
<1> QED
  BY <1>2, <1>7, <1>8, <1>9 DEF M, N

\* A page has lots of the list, those that come after the pages before it.
LEMMA PageOf ==
    ASSUME NEW S, NEW s \in Seq(S), NEW n \in Nat \ {0}
    PROVE  /\ Slice(s, n) \in Seq(S)
           /\ \A k \in 1..Len(s) : (n - 1) * PageSize < k /\ k <= n * PageSize =>
                 s[k] \in ToSet(Slice(s, n))
<1> DEFINE from == (n - 1) * PageSize
           to == IF n * PageSize < Len(s) THEN n * PageSize ELSE Len(s)
           p == SubSeq(s, from + 1, to)
<1>1. /\ from \in Nat /\ Len(s) \in Nat /\ from + PageSize = n * PageSize
      /\ n * PageSize \in Nat /\ PageSize \in Nat \ {0}
  BY PagesAssumption
<1>2. Slice(s, n) = p
  BY <1>1 DEF Slice, Offset
<1>3. to \in Nat /\ to <= Len(s)
  BY <1>1
<1>4. from + 1 \in Int /\ to \in Int /\ \A j \in from + 1..to : s[j] \in S
  BY <1>1, <1>3
<1> HIDE DEF from, to
<1>5. /\ p \in Seq(S)
      /\ Len(p) = IF from + 1 <= to THEN to - (from + 1) + 1 ELSE 0
      /\ \A j \in 1..to - (from + 1) + 1 : p[j] = s[from + 1 + j - 1]
  BY <1>4, SubSeqProperties
<1>6. ASSUME NEW k \in 1..Len(s), from < k, k <= n * PageSize
      PROVE  s[k] \in ToSet(p)
  <2>1. k <= to
    BY <1>1, <1>6 DEF to
  <2> DEFINE j == k - from
  <2>2. j \in 1..to - (from + 1) + 1 /\ from + 1 + j - 1 = k /\ from + 1 <= to
    BY <1>1, <1>3, <1>6, <2>1
  <2>3. Len(p) = to - (from + 1) + 1
    BY <1>5, <2>2
  <2> HIDE DEF j, p
  <2>4. p[j] = s[k]
    <3>1. p[j] = s[from + 1 + j - 1]
      BY <1>5, <2>2
    <3> QED
      BY <2>2, <3>1
  <2>5. j \in DOMAIN p
    BY <1>5, <2>2, <2>3
  <2> QED
    BY <2>4, <2>5 DEF ToSet
<1> QED
  BY <1>2, <1>5, <1>6 DEF from

-----------------------------------------------------------------------------
(***************************************************************************)
(* Types, and whose lots are shown.                                        *)
(***************************************************************************)
\* A request in use is some reader's.
Used ==
    \A q \in Queries :
        /\ query[q].at = "unused" => query[q] = Unused
        /\ query[q].at # "unused" => query[q].by \in Readers

\* What lists and pages show a reader may see.
Tenants ==
    \A r \in Readers :
        /\ ToSet(view[r].ids) \subseteq Matching(r, Absent)
        /\ \A q \in Queries : query[q].by = r => ToSet(query[q].ids) \subseteq Matching(r, Absent)

TenantsInv == PagesTypeOK /\ Used /\ Tenants

\* A request that is not in use is nobody's.
LEMMA UnusedIsQuery ==
    /\ Unused \in Query
    /\ Unused.by = Absent /\ Unused.at = "unused" /\ Unused.ids = <<>>
<1>1. 1 \in Numbers /\ 0 \in 0..MaxLots /\ Absent \in Filters
  BY PagesAssumption DEF Numbers
<1> QED
  BY <1>1 DEF Unused, Query

\* A walk that is over is a walk.
LEMMA NoWalkIsWalk == NoWalk \in Walk
  BY DEF NoWalk, Walk

\* A walk that no longer stands still is one.
LEMMA UnsettledIsWalk ==
    ASSUME walk \in [Readers -> Walk]
    PROVE  /\ Unsettled \in [Readers -> Walk]
           /\ \A r \in Readers :
                 /\ ~ Unsettled[r].still
                 /\ Unsettled[r].shown = walk[r].shown /\ Unsettled[r].before = walk[r].before
                 /\ Unsettled[r].slipped = walk[r].slipped
                 /\ Unsettled[r].orderly = walk[r].orderly
<1>1. ASSUME NEW r \in Readers
      PROVE  LET w == [walk[r] EXCEPT !.still = FALSE]
             IN  /\ w \in Walk /\ ~ w.still /\ w.shown = walk[r].shown
                 /\ w.before = walk[r].before /\ w.slipped = walk[r].slipped
                 /\ w.orderly = walk[r].orderly
  <2>1. walk[r] \in Walk
    OBVIOUS
  <2> QED
    BY <2>1 DEF Walk
<1> QED
  BY <1>1 DEF Unsettled

\* Counting gives the request its total.
LEMMA CountMakes ==
    ASSUME PagesTypeOK, Used, NEW q \in Queries, Count(q)
    PROVE  LET r == query[q].by
               n == Cardinality(Matching(r, query[q].filter))
           IN  /\ query[q].at = "count" /\ r \in Readers
               /\ query' \in [Queries -> Query]
               /\ query'[q].at = "list" /\ query'[q].total = n /\ query'[q].by = r
               /\ query'[q].page = query[q].page /\ query'[q].filter = query[q].filter
               /\ query'[q].ids = query[q].ids
               /\ \A p \in Queries \ {q} : query'[p] = query[p]
               /\ UNCHANGED <<table, updates, who, page, filter, view, walk>>
<1>1. query[q].at = "count" /\ query[q].by \in Readers /\ query[q] \in Query
  BY DEF Count, Used, PagesTypeOK
<1>2. query[q].filter \in Filters
  BY <1>1 DEF Query
<1>3. Cardinality(Matching(query[q].by, query[q].filter)) \in 0..MaxLots
  BY <1>1, <1>2, Matched
<1> DEFINE n == Cardinality(Matching(query[q].by, query[q].filter))
           b == [query[q] EXCEPT !.at = "list", !.total = n]
<1>4. query' = [query EXCEPT ![q] = b] /\ query \in [Queries -> Query]
  BY DEF Count, PagesTypeOK
<1>5. UNCHANGED <<table, updates, who, page, filter, view, walk>>
  BY DEF Count, tableVars
<1> HIDE DEF n
<1>6. /\ b \in Query /\ b.at = "list" /\ b.total = n /\ b.by = query[q].by
      /\ b.page = query[q].page /\ b.filter = query[q].filter /\ b.ids = query[q].ids
  <2>1. n \in 0..MaxLots
    BY <1>3 DEF n
  <2> QED
    BY <1>1, <2>1 DEF Query
<1> HIDE DEF b
<1> QED
  BY <1>1, <1>4, <1>5, <1>6 DEF n

\* Reading gives it the lots of its page, and may show the walk that one has
\* slipped in between.
LEMMA ListMakes ==
    ASSUME PagesTypeOK, Used, NEW q \in Queries, List(q)
    PROVE  LET r == query[q].by
               found == NewestFirst(r, query[q].filter)
               slips == walk[r].slipped \/ (walk[r].orderly /\ Len(found) > query[q].total)
           IN  /\ query[q].at = "list" /\ r \in Readers
               /\ query' \in [Queries -> Query]
               /\ query'[q].at = "answer" /\ query'[q].ids = Slice(found, query[q].page)
               /\ query'[q].by = r /\ query'[q].total = query[q].total
               /\ query'[q].page = query[q].page /\ query'[q].filter = query[q].filter
               /\ \A p \in Queries \ {q} : query'[p] = query[p]
               /\ walk' \in [Readers -> Walk]
               /\ \A s \in Readers \ {r} : walk'[s] = walk[s]
               /\ walk'[r].slipped = slips /\ walk'[r].orderly = walk[r].orderly
               /\ walk'[r].shown = walk[r].shown /\ walk'[r].before = walk[r].before
               /\ walk'[r].still = walk[r].still
               /\ UNCHANGED <<table, updates, who, page, filter, view>>
<1> DEFINE r == query[q].by
           found == NewestFirst(r, query[q].filter)
           ids == Slice(found, query[q].page)
           slips == walk[r].slipped \/ (walk[r].orderly /\ Len(found) > query[q].total)
           b == [query[q] EXCEPT !.at = "answer", !.ids = ids]
           w == [walk[r] EXCEPT !.slipped = slips]
<1>1. query[q].at = "list" /\ r \in Readers /\ query[q] \in Query
  BY DEF List, Used, PagesTypeOK
<1>2. query[q].filter \in Filters /\ query[q].page \in Nat \ {0}
  BY <1>1, PagesAssumption DEF Query, Numbers
<1>3. found \in Seq(Ids)
  BY <1>1, <1>2, Listed
<1>4. query' = [query EXCEPT ![q] = b] /\ query \in [Queries -> Query]
  BY DEF List, PagesTypeOK
<1>5. walk' = [walk EXCEPT ![r] = w] /\ walk \in [Readers -> Walk]
  BY DEF List, PagesTypeOK
<1>6. UNCHANGED <<table, updates, who, page, filter, view>>
  BY DEF List, tableVars
<1> HIDE DEF found
<1>7. ids \in Seq(Ids)
  BY <1>2, <1>3, PageOf
<1>8. slips \in BOOLEAN
  <2>1. walk[r] \in Walk
    BY <1>1, <1>5
  <2> QED
    BY <2>1 DEF Walk
<1> HIDE DEF slips, ids
<1>9. /\ b \in Query /\ b.at = "answer" /\ b.ids = ids /\ b.by = r
       /\ b.page = query[q].page /\ b.filter = query[q].filter /\ b.total = query[q].total
  BY <1>1, <1>7 DEF Query
<1>10. /\ w \in Walk /\ w.slipped = slips /\ w.orderly = walk[r].orderly
       /\ w.shown = walk[r].shown /\ w.before = walk[r].before /\ w.still = walk[r].still
  <2>1. walk[r] \in Walk
    BY <1>1, <1>5
  <2> QED
    BY <1>8, <2>1 DEF Walk
<1> HIDE DEF b, w
<1> QED
  BY <1>1, <1>4, <1>5, <1>6, <1>9, <1>10 DEF found, slips, ids

\* Its answer becomes the view of who asked, and lengthens his walk.
LEMMA ShowMakes ==
    ASSUME PagesTypeOK, Used, NEW q \in Queries, Show(q)
    PROVE  LET r == query[q].by
               a == query[q]
               shown == IF walk[r].orderly THEN walk[r].shown \o a.ids ELSE walk[r].shown
           IN  /\ a.at = "answer" /\ r \in Readers
               /\ query' = [query EXCEPT ![q] = Unused] /\ query' \in [Queries -> Query]
               /\ view' \in [Readers -> View]
               /\ view'[r].ids = a.ids /\ view'[r].total = a.total
               /\ view'[r].pages = PagesOf(a.total)
               /\ \A s \in Readers \ {r} : view'[s] = view[s]
               /\ walk' \in [Readers -> Walk]
               /\ \A s \in Readers \ {r} : walk'[s] = walk[s]
               /\ walk'[r].shown = shown
               /\ walk'[r].orderly = walk[r].orderly /\ walk'[r].before = walk[r].before
               /\ walk'[r].still = walk[r].still /\ walk'[r].slipped = walk[r].slipped
               /\ UNCHANGED <<table, updates, who, page, filter>>
<1> DEFINE a == query[q]
           r == a.by
           shown == IF walk[r].orderly THEN walk[r].shown \o a.ids ELSE walk[r].shown
           v == [ids |-> a.ids, total |-> a.total, pages |-> PagesOf(a.total)]
           w == [walk[r] EXCEPT !.shown = shown]
<1>1. a.at = "answer" /\ r \in Readers /\ a \in Query
  BY DEF Show, Used, PagesTypeOK
<1>2. query' = [query EXCEPT ![q] = Unused] /\ query \in [Queries -> Query]
  BY DEF Show, PagesTypeOK
<1>3. view' = [view EXCEPT ![r] = v] /\ view \in [Readers -> View]
  BY DEF Show, PagesTypeOK
<1>4. walk' = [walk EXCEPT ![r] = w] /\ walk \in [Readers -> Walk]
  BY DEF Show, PagesTypeOK
<1>5. UNCHANGED <<table, updates, who, page, filter>>
  BY DEF Show, tableVars
<1>6. a.total \in 0..MaxLots /\ a.ids \in Seq(Ids)
  BY <1>1 DEF Query
<1>7. PagesOf(a.total) \in Numbers
  <2>1. a.total \in Nat /\ MaxLots \in Nat /\ a.total <= MaxLots
    BY <1>6, PagesAssumption
  <2>2. PagesOf(a.total) \in Nat \ {0} /\ (a.total > 0 => PagesOf(a.total) <= a.total)
    BY <2>1, LastPage
  <2>3. a.total = 0 => PagesOf(a.total) = 1
    BY DEF PagesOf
  <2> QED
    BY <2>1, <2>2, <2>3 DEF Numbers
<1>8. v \in View
  BY <1>6, <1>7 DEF View
<1>9. walk[r] \in Walk
  BY <1>1, <1>4
<1>10. shown \in Seq(Ids)
  <2>1. walk[r].shown \in Seq(Ids)
    BY <1>9 DEF Walk
  <2> QED
    BY <1>6, <2>1, ConcatProperties
<1> HIDE DEF shown
<1>11. /\ w \in Walk /\ w.shown = shown /\ w.orderly = walk[r].orderly
       /\ w.before = walk[r].before /\ w.still = walk[r].still /\ w.slipped = walk[r].slipped
  BY <1>9, <1>10 DEF Walk
<1>12. v.ids = a.ids /\ v.total = a.total /\ v.pages = PagesOf(a.total)
  OBVIOUS
<1> HIDE DEF v, w
<1> QED
  BY <1>1, <1>2, <1>3, <1>4, <1>5, <1>8, <1>11, <1>12, UnusedIsQuery DEF shown

\* Asking takes a request that is not in use.
LEMMA AskMakes ==
    ASSUME PagesTypeOK, NEW r \in Readers, NEW n \in Numbers, NEW f \in Filters, AskFor(r, n, f)
    PROVE  /\ page' = [page EXCEPT ![r] = n] /\ page' \in [Readers -> Numbers]
           /\ filter' = [filter EXCEPT ![r] = f] /\ filter' \in [Readers -> Filters]
           /\ query' \in [Queries -> Query]
           /\ \E q \in Queries :
                 /\ query[q].at = "unused"
                 /\ query'[q].at = "count" /\ query'[q].by = r
                 /\ query'[q].page = n /\ query'[q].filter = f /\ query'[q].ids = <<>>
                 /\ \A p \in Queries \ {q} : query'[p] = query[p]
           /\ UNCHANGED <<table, updates, who, view>>
<1> DEFINE a == [Unused EXCEPT !.at = "count", !.by = r, !.page = n, !.filter = f]
<1>1. /\ a \in Query
      /\ a.at = "count" /\ a.by = r /\ a.page = n /\ a.filter = f /\ a.ids = <<>>
  BY UnusedIsQuery DEF Query, Unused
<1>2. PICK q \in Queries : query[q].at = "unused" /\ query' = [query EXCEPT ![q] = a]
  BY DEF AskFor
<1>3. /\ page' = [page EXCEPT ![r] = n] /\ filter' = [filter EXCEPT ![r] = f]
      /\ UNCHANGED <<table, updates, who, view>>
  BY DEF AskFor, tableVars
<1> HIDE DEF a
<1> QED
  BY <1>1, <1>2, <1>3 DEF PagesTypeOK

\* Each way to ask gives a page and a filter there are.
LEMMA Asks ==
    ASSUME PagesTypeOK, NEW r \in Readers, Forward(r) \/ Back(r)
    PROVE  \E n \in Numbers :
              /\ AskFor(r, n, filter[r]) /\ n \in {page[r] - 1, page[r] + 1}
              /\ Forward(r) => n = page[r] + 1
<1>1. page[r] \in Numbers /\ view[r].pages \in Numbers
  BY DEF PagesTypeOK, View
<1>2. MaxLots \in Nat /\ page[r] \in Nat /\ view[r].pages \in Nat /\ view[r].pages <= MaxLots + 1
  BY <1>1, PagesAssumption DEF Numbers
<1>3. CASE Forward(r)
  BY <1>2, <1>3 DEF Forward, Numbers
<1>4. CASE Back(r) /\ ~ Forward(r)
  <2>1. page[r] - 1 \in Numbers
    BY <1>1, <1>2, <1>4 DEF Back, Numbers
  <2> QED
    BY <1>4, <2>1 DEF Back
<1> QED
  BY <1>3, <1>4

\* Every step keeps the types.
LEMMA PagesTypeStep == ASSUME PagesTypeOK, Used, [PagesNext]_pagesVars PROVE PagesTypeOK' /\ Used'
<1> USE PagesAssumption
<1> DEFINE Typed == PagesTypeOK' /\ Used'
<1> SUFFICES Typed
  OBVIOUS
<1>1. ASSUME NEW c \in Customers, Added(c) PROVE Typed
  <2>1. /\ Len(table) < MaxLots /\ table' = Append(table, [customer |-> c, status |-> "draft"])
        /\ walk' = Unsettled /\ UNCHANGED <<updates, who, page, filter, view, query>>
    BY <1>1 DEF Added
  <2>2. table' \in Seq(TableRow) /\ Len(table') <= MaxLots
    <3>1. [customer |-> c, status |-> "draft"] \in TableRow
      BY DEF TableRow
    <3>2. table \in Seq(TableRow) /\ MaxLots \in Nat
      BY DEF PagesTypeOK
    <3> QED
      BY <2>1, <3>1, <3>2
  <2>3. walk' \in [Readers -> Walk]
    BY <2>1, UnsettledIsWalk DEF PagesTypeOK
  <2> QED
    BY <2>1, <2>2, <2>3 DEF PagesTypeOK, Used
<1>2. ASSUME NEW x \in DOMAIN table, NEW s \in Statuses, UpdateStatus(x, s) PROVE Typed
  <2>1. /\ updates < MaxUpdates /\ updates' = updates + 1
        /\ table' = [table EXCEPT ![x].status = s]
        /\ walk' = Unsettled /\ UNCHANGED <<who, page, filter, view, query>>
    BY <1>2 DEF UpdateStatus
  <2>2. table' \in Seq(TableRow) /\ Len(table') <= MaxLots
    <3>1. table \in Seq(TableRow) /\ x \in 1..Len(table) /\ Len(table) <= MaxLots
      BY DEF PagesTypeOK
    <3>2. [table[x] EXCEPT !.status = s] \in TableRow
      <4>1. table[x] \in TableRow
        BY <3>1, ElementOfSeq
      <4> QED
        BY <4>1 DEF TableRow
    <3>3. table' = [table EXCEPT ![x] = [table[x] EXCEPT !.status = s]]
      BY <2>1
    <3> QED
      BY <3>1, <3>2, <3>3, ExceptSeq
  <2>3. walk' \in [Readers -> Walk]
    BY <2>1, UnsettledIsWalk DEF PagesTypeOK
  <2>4. updates' \in 0..MaxUpdates
    BY <2>1 DEF PagesTypeOK
  <2> QED
    BY <2>1, <2>2, <2>3, <2>4 DEF PagesTypeOK, Used
<1>3. ASSUME NEW q \in Queries, Count(q) PROVE Typed
  BY <1>3, CountMakes DEF PagesTypeOK, Used
<1>4. ASSUME NEW q \in Queries, List(q) PROVE Typed
  BY <1>4, ListMakes DEF PagesTypeOK, Used
<1>5. ASSUME NEW q \in Queries, Show(q) PROVE Typed
  BY <1>5, ShowMakes, UnusedIsQuery DEF PagesTypeOK, Used
<1>6. ASSUME NEW q \in Queries, NoAnswer(q) PROVE Typed
  BY <1>6, UnusedIsQuery, NoWalkIsWalk DEF NoAnswer, tableVars, PagesTypeOK, Used
<1>7. ASSUME NEW r \in Readers, NEW n \in Numbers, NEW f \in Filters, AskFor(r, n, f),
             walk' \in [Readers -> Walk]
      PROVE  Typed
  <2>1. /\ page' \in [Readers -> Numbers] /\ filter' \in [Readers -> Filters]
        /\ query' \in [Queries -> Query] /\ UNCHANGED <<table, updates, who, view>>
    BY <1>7, AskMakes
  <2>2. PICK q \in Queries : /\ query'[q].at = "count" /\ query'[q].by = r
                            /\ \A p \in Queries \ {q} : query'[p] = query[p]
    BY <1>7, AskMakes
  <2>3. Used'
    BY <2>2 DEF Used
  <2> QED
    BY <1>7, <2>1, <2>3 DEF PagesTypeOK
<1>8. ASSUME NEW r \in Readers, NEW f \in Filters, Choose(r, f) PROVE Typed
  <2> DEFINE w == [NoWalk EXCEPT !.before = Matching(r, f), !.still = TRUE, !.orderly = TRUE]
  <2>1. w \in Walk
    BY NoWalkIsWalk, Matched DEF Walk
  <2> HIDE DEF w
  <2>2. AskFor(r, 1, f) /\ walk' = [walk EXCEPT ![r] = IF Pending(r) THEN NoWalk ELSE w]
    BY <1>8 DEF Choose, w
  <2>3. 1 \in Numbers /\ walk' \in [Readers -> Walk]
    BY <2>1, <2>2, NoWalkIsWalk DEF PagesTypeOK, Numbers
  <2> QED
    BY <1>7, <2>2, <2>3
<1>9. ASSUME NEW r \in Readers, Forward(r) \/ Back(r) PROVE Typed
  <2>1. PICK n \in Numbers : AskFor(r, n, filter[r])
    BY <1>9, Asks
  <2>2. filter[r] \in Filters /\ walk' \in [Readers -> Walk]
    BY <1>9, NoWalkIsWalk DEF Forward, Back, PagesTypeOK
  <2> QED
    BY <1>7, <2>1, <2>2
<1>10. CASE UNCHANGED pagesVars
  BY <1>10 DEF pagesVars, tableVars, PagesTypeOK, Used
<1> HIDE DEF Typed
<1>11. ASSUME NEW r \in Readers, NEW c \in Customers, NewLot(r, c) PROVE Typed
  <2>1. CustomerFor(r, c) \in Customers
    BY DEF CustomerFor, PagesTypeOK
  <2> QED
    BY <1>1, <1>11, <2>1 DEF NewLot
<1>12. ASSUME NEW c \in Customers, ImportExcel(c) PROVE Typed
  BY <1>1, <1>12 DEF ImportExcel
<1>13. CASE \E r \in Readers, c \in Customers : NewLot(r, c)
  BY <1>11, <1>13
<1>14. CASE \E c \in Customers : ImportExcel(c)
  BY <1>12, <1>14
<1>15. CASE \E x \in DOMAIN table, s \in Statuses : UpdateStatus(x, s)
  BY <1>2, <1>15
<1>16. CASE \E q \in Queries : Count(q) \/ List(q) \/ Show(q) \/ NoAnswer(q)
  BY <1>3, <1>4, <1>5, <1>6, <1>16
<1>17. CASE \E r \in Readers, f \in Filters : Choose(r, f)
  BY <1>8, <1>17
<1>18. CASE \E r \in Readers : Forward(r) \/ Back(r)
  BY <1>9, <1>18
<1> QED
  BY <1>10, <1>13, <1>14, <1>15, <1>16, <1>17, <1>18 DEF PagesNext

\* A lot is made or its status changes: every row stays, with its customer.
RowsChange ==
    /\ walk' = Unsettled
    /\ UNCHANGED <<who, page, filter, view, query>>
    /\ DOMAIN table \subseteq DOMAIN table'
    /\ \A x \in DOMAIN table : table'[x].customer = table[x].customer

\* Every step is the table's, one of a request, or asks.
LEMMA PagesSteps ==
    ASSUME PagesTypeOK, [PagesNext]_pagesVars
    PROVE  \/ RowsChange
           \/ \E q \in Queries : Count(q) \/ List(q) \/ Show(q) \/ NoAnswer(q)
           \/ \E r \in Readers, f \in Filters : Choose(r, f)
           \/ \E r \in Readers : Forward(r) \/ Back(r)
           \/ UNCHANGED pagesVars
<1> SUFFICES ASSUME PagesNext
             PROVE  \/ RowsChange
                    \/ \E q \in Queries : Count(q) \/ List(q) \/ Show(q) \/ NoAnswer(q)
                    \/ \E r \in Readers, f \in Filters : Choose(r, f)
                    \/ \E r \in Readers : Forward(r) \/ Back(r)
  OBVIOUS
<1>1. ASSUME NEW c, Added(c) PROVE RowsChange
  <2>1. /\ table' = Append(table, [customer |-> c, status |-> "draft"])
        /\ walk' = Unsettled /\ UNCHANGED <<who, page, filter, view, query>>
    BY <1>1 DEF Added
  <2>2. table \in Seq(TableRow)
    BY DEF PagesTypeOK
  <2>3. DOMAIN table \subseteq DOMAIN table' /\ \A x \in DOMAIN table : table'[x] = table[x]
    BY <2>1, <2>2
  <2> QED
    BY <2>1, <2>3 DEF RowsChange
<1>2. ASSUME NEW x \in DOMAIN table, NEW s \in Statuses, UpdateStatus(x, s) PROVE RowsChange
  <2>1. /\ table' = [table EXCEPT ![x].status = s]
        /\ walk' = Unsettled /\ UNCHANGED <<who, page, filter, view, query>>
    BY <1>2 DEF UpdateStatus
  <2>2. table \in Seq(TableRow)
    BY DEF PagesTypeOK
  <2>3. table[x] \in TableRow
    BY <2>2, ElementOfSeq
  <2>4. [table[x] EXCEPT !.status = s].customer = table[x].customer
    BY <2>3 DEF TableRow
  <2>5. table' = [table EXCEPT ![x] = [table[x] EXCEPT !.status = s]]
    BY <2>1
  <2>6. /\ DOMAIN table \subseteq DOMAIN table'
        /\ \A y \in DOMAIN table : table'[y].customer = table[y].customer
    BY <2>4, <2>5
  <2> QED
    BY <2>1, <2>6 DEF RowsChange
<1>3. CASE \E r \in Readers, c \in Customers : NewLot(r, c)
  BY <1>1, <1>3 DEF NewLot
<1>4. CASE \E c \in Customers : ImportExcel(c)
  BY <1>1, <1>4 DEF ImportExcel
<1>5. CASE \E x \in DOMAIN table, s \in Statuses : UpdateStatus(x, s)
  BY <1>2, <1>5
<1> QED
  BY <1>3, <1>4, <1>5 DEF PagesNext

\* What a reader may see stays there for him to see.
LEMMA StillMatches ==
    ASSUME RowsChange, NEW r \in Readers
    PROVE  Matching(r, Absent) \subseteq Matching(r, Absent)'
  BY DEF RowsChange, Matching, Matches

\* Nothing but the table's steps changes what matches.
LEMMA SameMatches ==
    ASSUME UNCHANGED <<table, who>>
    PROVE  \A r, f : /\ Matching(r, f)' = Matching(r, f)
                     /\ NewestFirst(r, f)' = NewestFirst(r, f)
                     /\ \A x : Newer(r, f, x)' = Newer(r, f, x)
  BY DEF Matching, Matches, NewestFirst, Newer

\* The filter leaves lots out, and a page has lots of the list.
LEMMA PageMatches ==
    ASSUME PagesTypeOK, NEW r \in Readers, NEW f \in Filters, NEW n \in Nat \ {0}
    PROVE  ToSet(Slice(NewestFirst(r, f), n)) \subseteq Matching(r, Absent)
<1>1. Slice(NewestFirst(r, f), n) \in Seq(Matching(r, f))
  BY Listed, PageOf
<1>2. Matching(r, f) \subseteq Matching(r, Absent)
  BY DEF Matching, Matches
<1> QED
  BY <1>1, <1>2 DEF ToSet

\* Whatever a list or a page shows its reader may see.
LEMMA TenantsStep == ASSUME TenantsInv, [PagesNext]_pagesVars PROVE Tenants'
<1> SUFFICES ASSUME NEW r \in Readers
             PROVE  /\ ToSet(view'[r].ids) \subseteq Matching(r, Absent)'
                    /\ \A q \in Queries : query'[q].by = r =>
                          ToSet(query'[q].ids) \subseteq Matching(r, Absent)'
  BY DEF Tenants
<1>1. PagesTypeOK /\ Used /\ r # Absent
  BY PagesAssumption DEF TenantsInv
<1>2. /\ ToSet(view[r].ids) \subseteq Matching(r, Absent)
      /\ \A q \in Queries : query[q].by = r => ToSet(query[q].ids) \subseteq Matching(r, Absent)
  BY DEF TenantsInv, Tenants
<1>3. CASE RowsChange
  BY <1>2, <1>3, StillMatches DEF RowsChange
<1>4. ASSUME UNCHANGED <<table, who>> PROVE Matching(r, Absent)' = Matching(r, Absent)
  BY <1>4, SameMatches
<1>5. ASSUME NEW q \in Queries, Count(q)
      PROVE  /\ UNCHANGED <<table, who, view>> /\ query'[q].by = query[q].by
             /\ query'[q].ids = query[q].ids
             /\ \A p \in Queries \ {q} : query'[p] = query[p]
  BY <1>1, <1>5, CountMakes
<1>6. CASE \E q \in Queries : Count(q)
  BY <1>2, <1>4, <1>5, <1>6
<1>7. ASSUME NEW q \in Queries, List(q)
      PROVE  /\ UNCHANGED <<table, who, view>> /\ query'[q].by = query[q].by
             /\ query'[q].by = r => ToSet(query'[q].ids) \subseteq Matching(r, Absent)
             /\ \A p \in Queries \ {q} : query'[p] = query[p]
  <2>1. /\ UNCHANGED <<table, who, view>> /\ query'[q].by = query[q].by
        /\ query'[q].ids = Slice(NewestFirst(query[q].by, query[q].filter), query[q].page)
        /\ \A p \in Queries \ {q} : query'[p] = query[p]
    BY <1>1, <1>7, ListMakes
  <2>2. query[q].filter \in Filters /\ query[q].page \in Nat \ {0}
    BY <1>1, PagesAssumption DEF PagesTypeOK, Query, Numbers
  <2> QED
    BY <1>1, <2>1, <2>2, PageMatches
<1>8. CASE \E q \in Queries : List(q)
  BY <1>2, <1>4, <1>7, <1>8
<1>9. ASSUME NEW q \in Queries, Show(q)
      PROVE  /\ UNCHANGED <<table, who>> /\ query'[q].by # r
             /\ \A p \in Queries \ {q} : query'[p] = query[p]
             /\ view'[r] = view[r] \/ (query[q].by = r /\ view'[r].ids = query[q].ids)
  BY <1>1, <1>9, ShowMakes, UnusedIsQuery DEF PagesTypeOK
<1>10. CASE \E q \in Queries : Show(q)
  BY <1>2, <1>4, <1>9, <1>10
<1>11. CASE \E q \in Queries : NoAnswer(q)
  BY <1>1, <1>2, <1>4, <1>11, UnusedIsQuery DEF NoAnswer, tableVars, PagesTypeOK
<1>12. ASSUME NEW s \in Readers, NEW n \in Numbers, NEW f \in Filters, AskFor(s, n, f)
       PROVE  /\ UNCHANGED <<table, who, view>>
              /\ \E q \in Queries : query'[q].ids = <<>> /\ \A p \in Queries \ {q} : query'[p] = query[p]
  BY <1>1, <1>12, AskMakes
<1>13. ASSUME NEW s \in Readers, NEW n \in Numbers, NEW f \in Filters, AskFor(s, n, f)
       PROVE  /\ ToSet(view'[r].ids) \subseteq Matching(r, Absent)'
              /\ \A q \in Queries : query'[q].by = r =>
                          ToSet(query'[q].ids) \subseteq Matching(r, Absent)'
  <2>1. PICK q \in Queries : query'[q].ids = <<>> /\ \A p \in Queries \ {q} : query'[p] = query[p]
    BY <1>12, <1>13
  <2>2. ToSet(<<>>) = {}
    BY DEF ToSet
  <2> QED
    BY <1>2, <1>4, <1>12, <1>13, <2>1, <2>2
<1>14. CASE \E s \in Readers, f \in Filters : Choose(s, f)
  <2>1. 1 \in Numbers
    BY PagesAssumption DEF Numbers
  <2> QED
    BY <1>13, <1>14, <2>1 DEF Choose
<1>15. CASE \E s \in Readers : Forward(s) \/ Back(s)
  <2>1. PICK s \in Readers : Forward(s) \/ Back(s)
    BY <1>15
  <2>2. PICK n \in Numbers : AskFor(s, n, filter[s])
    BY <1>1, <2>1, Asks
  <2>3. filter[s] \in Filters
    BY <1>1 DEF PagesTypeOK
  <2> QED
    BY <1>13, <2>2, <2>3
<1>16. CASE UNCHANGED pagesVars
  BY <1>2, <1>4, <1>16 DEF pagesVars, tableVars
<1> QED
  BY <1>1, <1>3, <1>6, <1>8, <1>10, <1>11, <1>14, <1>15, <1>16, PagesSteps

\* At the start nothing is asked or shown.
LEMMA TenantsStart == ASSUME PagesInit PROVE TenantsInv
<1>1. 1 \in Numbers /\ 0 \in 0..MaxLots /\ 0 \in 0..MaxUpdates /\ Absent \in Filters
  BY PagesAssumption DEF Numbers
<1>2. [ids |-> <<>>, total |-> 0, pages |-> 1] \in View
  BY <1>1 DEF View
<1>3. table \in Seq(TableRow) /\ Len(table) <= MaxLots
  BY PagesAssumption DEF PagesInit
<1> DEFINE v == [ids |-> <<>>, total |-> 0, pages |-> 1]
<1>4. v \in View
  BY <1>2
<1>5. PagesTypeOK
  <2>1. view = [r \in Readers |-> v]
    BY DEF PagesInit
  <2> HIDE DEF v
  <2>2. view \in [Readers -> View]
    BY <1>4, <2>1
  <2>3. query \in [Queries -> Query] /\ walk \in [Readers -> Walk]
    BY UnusedIsQuery, NoWalkIsWalk DEF PagesInit
  <2>4. page \in [Readers -> Numbers] /\ filter \in [Readers -> Filters]
    BY <1>1 DEF PagesInit
  <2>5. updates \in 0..MaxUpdates /\ who \in [Readers -> Customers \cup {Absent}]
    BY <1>1 DEF PagesInit
  <2> QED
    BY <1>3, <2>2, <2>3, <2>4, <2>5 DEF PagesTypeOK
<1>6. Used
  <2>1. \A q \in Queries : query[q] = Unused
    BY DEF PagesInit
  <2> QED
    BY <2>1, UnusedIsQuery DEF Used
<1>7. ToSet(<<>>) = {}
  BY DEF ToSet
<1>8. Tenants
  BY <1>7, UnusedIsQuery DEF PagesInit, Tenants
<1> QED
  BY <1>5, <1>6, <1>8 DEF TenantsInv

\* Inductive.
LEMMA TenantsHold == PagesSpec => []TenantsInv
<1>1. ASSUME TenantsInv, [PagesNext]_pagesVars PROVE TenantsInv'
  BY <1>1, TenantsStep, PagesTypeStep DEF TenantsInv
<1> QED
  BY <1>1, TenantsStart, PTL DEF PagesSpec

\* The table of lots, its requests and its walks keep their types.
THEOREM PagesTypeCorrect == PagesSpec => []PagesTypeOK
  BY TenantsHold, PTL DEF TenantsInv

\* Creating, listing and opening a lot agree on whose it is.
THEOREM OneTenant == PagesSpec => TenantsAgree
<1> DEFINE Agrees ==
       \A r \in Readers :
          /\ (\E named \in Customers : NewLot(r, named)) =>
                Matches(r, Absent, Len(table))' /\ Accessible(r, Len(table))'
          /\ \A x \in ToSet(view'[r].ids) : Accessible(r, x)'
<1>1. ASSUME TenantsInv, TenantsInv', [PagesNext]_pagesVars PROVE Agrees
  <2>1. ASSUME NEW r \in Readers, NEW named \in Customers, NewLot(r, named)
        PROVE  Matches(r, Absent, Len(table))' /\ Accessible(r, Len(table))'
    <3>1. /\ table' = Append(table, [customer |-> CustomerFor(r, named), status |-> "draft"])
          /\ who' = who
      BY <2>1 DEF NewLot, Added
    <3>2. table \in Seq(TableRow)
      BY <1>1 DEF TenantsInv, PagesTypeOK
    <3>3. table'[Len(table')] = [customer |-> CustomerFor(r, named), status |-> "draft"]
      BY <3>1, <3>2
    <3>4. table'[Len(table')].customer = CustomerFor(r, named)
      BY <3>3
    <3>5. who'[r] = Absent \/ table'[Len(table')].customer = who'[r]
      BY <3>1, <3>4 DEF CustomerFor
    <3> QED
      BY <3>5 DEF Matches, Accessible
  <2>2. ASSUME NEW r \in Readers, NEW x \in ToSet(view'[r].ids) PROVE Accessible(r, x)'
    <3>1. x \in Matching(r, Absent)'
      BY <1>1, <2>2 DEF TenantsInv, Tenants
    <3> QED
      BY <3>1 DEF Matching, Matches, Accessible
  <2> QED
    BY <2>1, <2>2
<1>2. TenantsInv /\ TenantsInv' /\ [PagesNext]_pagesVars => [Agrees]_pagesVars
  BY <1>1
<1> QED
  BY <1>2, TenantsHold, PTL DEF PagesSpec, TenantsAgree

-----------------------------------------------------------------------------
(***************************************************************************)
(* A reader's way through the pages.                                       *)
(***************************************************************************)
\* A lot is on the first n pages of all lots.
On(r, x, n) == Cardinality(Newer(r, Absent, x)) < n * PageSize

\* A reader who goes forward has one request at a time ...
Alone(r) == \A p, q \in Queries : query[p].by = r /\ query[q].by = r => p = q

\* ... for the page he has chosen.
Asked(r) ==
    \A q \in Queries : query[q].by = r => query[q].page = page[r] /\ query[q].filter = filter[r]

\* As long as the table stands still he has seen the pages so far, and his
\* request brings the next.
Stands(r) ==
    LET all == NewestFirst(r, filter[r])
    IN  walk[r].still =>
          /\ ~Pending(r) => /\ walk[r].shown = Upto(all, page[r])
                            /\ view[r].total = Len(all) /\ view[r].pages = PagesOf(Len(all))
          /\ \A q \in Queries : query[q].by = r =>
                /\ walk[r].shown = Upto(all, page[r] - 1)
                /\ query[q].at \in {"list", "answer"} => query[q].total = Len(all)
                /\ query[q].at = "answer" => query[q].ids = Slice(all, page[r])

\* Of the lots that were there when he began he has seen, or is about to see,
\* those on the pages so far, and on the last page all.
Misses(r) ==
    LET before == walk[r].before
        shown == ToSet(walk[r].shown)
    IN  filter[r] = Absent =>
          /\ before \subseteq Matching(r, Absent)
          /\ ~Pending(r) => /\ \A x \in before : On(r, x, page[r]) => x \in shown
                            /\ page[r] >= view[r].pages /\ ~walk[r].slipped => before \subseteq shown
          /\ \A q \in Queries : query[q].by = r =>
                /\ \A x \in before : On(r, x, page[r] - 1) => x \in shown
                /\ query[q].at = "answer" =>
                     /\ \A x \in before : On(r, x, page[r]) => x \in shown \cup ToSet(query[q].ids)
                     /\ page[r] >= PagesOf(query[q].total) /\ ~walk[r].slipped =>
                           before \subseteq shown \cup ToSet(query[q].ids)

Goes(r) == Alone(r) /\ Asked(r) /\ Stands(r) /\ Misses(r)

Orderly == \A r \in Readers : walk[r].orderly => Goes(r)

\* A lot that comes later puts no lot further to the front.
LEMMA NoFurther ==
    ASSUME PagesTypeOK, PagesTypeOK', RowsChange, NEW r \in Readers, NEW x
    PROVE  /\ Cardinality(Newer(r, Absent, x)) <= Cardinality(Newer(r, Absent, x)')
           /\ Cardinality(Newer(r, Absent, x)) \in Nat /\ Cardinality(Newer(r, Absent, x)') \in Nat
<1>1. Absent \in Filters
  BY PagesAssumption
<1>2. Newer(r, Absent, x) \subseteq Newer(r, Absent, x)'
  BY StillMatches DEF Newer
<1>3. IsFiniteSet(Matching(r, Absent)) /\ IsFiniteSet(Matching(r, Absent)')
  <2>1. IsFiniteSet(Matching(r, Absent))
    BY <1>1, Matched
  <2>2. IsFiniteSet(1..Len(table)')
    <3>1. 1 \in Int /\ Len(table)' \in Int
      BY DEF PagesTypeOK
    <3> QED
      BY <3>1, FS_Interval
  <2>3. Matching(r, Absent)' \subseteq 1..Len(table)'
    BY DEF Matching, PagesTypeOK
  <2> QED
    BY <2>1, <2>2, <2>3, FS_Subset
<1>4. IsFiniteSet(Newer(r, Absent, x)')
  <2>1. Newer(r, Absent, x)' \subseteq Matching(r, Absent)'
    BY DEF Newer
  <2> QED
    BY <1>3, <2>1, FS_Subset
<1> QED
  BY <1>2, <1>4, FS_Subset, FS_CardinalityType

\* A walk goes on while rows change.
LEMMA GoesOnRows ==
    ASSUME PagesTypeOK, PagesTypeOK', RowsChange, NEW r \in Readers, Goes(r)
    PROVE  Goes(r)'
<1>1. UNCHANGED <<who, page, filter, view, query>>
  BY DEF RowsChange
<1>2. /\ ~ walk'[r].still
      /\ walk'[r].shown = walk[r].shown /\ walk'[r].before = walk[r].before
      /\ walk'[r].slipped = walk[r].slipped
  BY UnsettledIsWalk DEF RowsChange, PagesTypeOK
<1>3. Alone(r)' /\ Asked(r)' /\ Stands(r)' /\ Pending(r)' = Pending(r)
  BY <1>1, <1>2 DEF Goes, Alone, Asked, Stands, Pending
<1>4. page[r] \in Nat \ {0}
  BY PagesAssumption DEF PagesTypeOK, Numbers
<1>5. \A x : /\ On(r, x, page[r])' => On(r, x, page[r])
             /\ On(r, x, page[r] - 1)' => On(r, x, page[r] - 1)
  <2> SUFFICES ASSUME NEW x
               PROVE  /\ On(r, x, page[r])' => On(r, x, page[r])
                      /\ On(r, x, page[r] - 1)' => On(r, x, page[r] - 1)
    OBVIOUS
  <2> DEFINE c == Cardinality(Newer(r, Absent, x))
             d == Cardinality(Newer(r, Absent, x)')
  <2>1. c \in Nat /\ d \in Nat /\ c <= d
    BY NoFurther
  <2>2. /\ On(r, x, page[r])' <=> d < page[r] * PageSize
        /\ On(r, x, page[r] - 1)' <=> d < (page[r] - 1) * PageSize
        /\ On(r, x, page[r]) <=> c < page[r] * PageSize
        /\ On(r, x, page[r] - 1) <=> c < (page[r] - 1) * PageSize
    BY <1>1, PagesAssumption DEF On
  <2> HIDE DEF c, d
  <2>3. page[r] * PageSize \in Nat /\ (page[r] - 1) * PageSize \in Nat
    BY <1>4, PagesAssumption
  <2> QED
    BY <2>1, <2>2, <2>3
<1>6. Matching(r, Absent) \subseteq Matching(r, Absent)'
  BY StillMatches
<1>7. Misses(r)'
  BY <1>1, <1>2, <1>3, <1>5, <1>6 DEF Goes, Misses
<1> QED
  BY <1>3, <1>7 DEF Goes

\* The same table, the same list.
LEMMA SameList ==
    ASSUME UNCHANGED <<table, who>>, NEW r \in Readers, filter'[r] = filter[r]
    PROVE  /\ NewestFirst(r, filter[r])' = NewestFirst(r, filter[r])
           /\ Matching(r, Absent)' = Matching(r, Absent)
           /\ page'[r] = page[r] => \A x : /\ On(r, x, page[r])' <=> On(r, x, page[r])
                                           /\ On(r, x, page[r] - 1)' <=> On(r, x, page[r] - 1)
<1>1. \A x : Newer(r, Absent, x)' = Newer(r, Absent, x)
  BY DEF Newer, Matching, Matches
<1> QED
  BY <1>1 DEF NewestFirst, Newer, Matching, Matches, On

\* What the walk of a reader looks at, his own requests, view and choice.
Untouched(r) ==
    /\ UNCHANGED <<table, who>>
    /\ walk'[r] = walk[r] /\ view'[r] = view[r] /\ page'[r] = page[r] /\ filter'[r] = filter[r]
    /\ \A q \in Queries : query[q].by = r \/ query'[q].by = r => query'[q] = query[q]

\* A walk goes on while others do something.
LEMMA GoesOnUntouched ==
    ASSUME NEW r \in Readers, Untouched(r), Goes(r)
    PROVE  Goes(r)'
<1>1. \A q \in Queries : /\ query'[q].by = r <=> query[q].by = r
                         /\ query[q].by = r => query'[q] = query[q]
  BY DEF Untouched
<1>2. /\ NewestFirst(r, filter[r])' = NewestFirst(r, filter[r])
      /\ Matching(r, Absent)' = Matching(r, Absent)
  BY SameList DEF Untouched
<1>3. \A x : /\ On(r, x, page[r])' <=> On(r, x, page[r])
             /\ On(r, x, page[r] - 1)' <=> On(r, x, page[r] - 1)
  BY SameList DEF Untouched
<1>4. Pending(r)' <=> Pending(r)
  BY <1>1 DEF Pending
<1>5. Alone(r)'
  BY <1>1 DEF Goes, Alone
<1>6. Asked(r)'
  BY <1>1 DEF Goes, Asked, Untouched
<1>7. Stands(r)'
  BY <1>1, <1>2, <1>4 DEF Goes, Stands, Untouched, Upto, Slice, Offset, PagesOf
<1>8. Misses(r)'
  BY <1>1, <1>2, <1>3, <1>4 DEF Goes, Misses, Untouched
<1> QED
  BY <1>5, <1>6, <1>7, <1>8 DEF Goes

\* What a walk and the one request of its reader know of the list.
LEMMA Locals ==
    ASSUME TenantsInv, NEW r \in Readers
    PROVE  /\ page[r] \in Nat \ {0} /\ filter[r] \in Filters
           /\ NewestFirst(r, filter[r]) \in Seq(Ids)
           /\ Len(NewestFirst(r, filter[r])) = Cardinality(Matching(r, filter[r]))
           /\ Len(NewestFirst(r, filter[r])) \in Nat
           /\ walk[r].shown \in Seq(Ids)
           /\ \A q \in Queries : /\ query[q].ids \in Seq(Ids) /\ query[q].total \in Nat
                                 /\ query[q].page \in Nat \ {0} /\ query[q].filter \in Filters
                                 /\ PagesOf(query[q].total) \in Nat
<1>1. PagesTypeOK /\ page[r] \in Numbers /\ filter[r] \in Filters /\ walk[r] \in Walk
  BY DEF TenantsInv, PagesTypeOK
<1>2. /\ NewestFirst(r, filter[r]) \in Seq(Ids)
      /\ Len(NewestFirst(r, filter[r])) = Cardinality(Matching(r, filter[r]))
  BY <1>1, Listed
<1>3. \A q \in Queries : query[q] \in Query
  BY <1>1 DEF PagesTypeOK
<1>4. \A q \in Queries : /\ query[q].ids \in Seq(Ids) /\ query[q].total \in Nat
                         /\ query[q].page \in Nat \ {0} /\ query[q].filter \in Filters
  BY <1>3, PagesAssumption DEF Query, Numbers
<1>5. \A q \in Queries : PagesOf(query[q].total) \in Nat
  BY <1>4, LastPage
<1>6. page[r] \in Nat \ {0} /\ walk[r].shown \in Seq(Ids)
  BY <1>1, PagesAssumption DEF Numbers, Walk
<1> QED
  BY <1>1, <1>2, <1>4, <1>5, <1>6

\* Counting.
LEMMA GoesOnCount ==
    ASSUME TenantsInv, NEW q \in Queries, Count(q),
           NEW r \in Readers, walk'[r].orderly, walk[r].orderly => Goes(r)
    PROVE  Goes(r)'
<1>1. PagesTypeOK /\ Used
  BY DEF TenantsInv
<1>2. /\ query[q].at = "count" /\ query'[q].at = "list"
      /\ query'[q].total = Cardinality(Matching(query[q].by, query[q].filter))
      /\ query'[q].by = query[q].by /\ query'[q].page = query[q].page
      /\ query'[q].filter = query[q].filter
      /\ \A p \in Queries \ {q} : query'[p] = query[p]
      /\ UNCHANGED <<table, who, page, filter, view, walk>>
  BY <1>1, CountMakes
<1>3. Goes(r)
  BY <1>2
<1>4. CASE query[q].by # r
  <2>1. Untouched(r)
    BY <1>2, <1>4 DEF Untouched
  <2> QED
    BY <1>3, <2>1, GoesOnUntouched
<1>5. CASE query[q].by = r
  <2>1. \A p \in Queries : /\ query'[p].by = r <=> p = q
                           /\ query[p].by = r => p = q
    BY <1>2, <1>3, <1>5 DEF Goes, Alone
  <2>2. Pending(r) /\ Pending(r)'
    BY <1>2, <1>5 DEF Pending
  <2>3. query[q].filter = filter[r] /\ query[q].page = page[r]
    BY <1>3, <1>5 DEF Goes, Asked
  <2>4. /\ NewestFirst(r, filter[r])' = NewestFirst(r, filter[r])
        /\ Matching(r, Absent)' = Matching(r, Absent)
    BY <1>2, SameList
  <2>5. \A x : /\ On(r, x, page[r])' <=> On(r, x, page[r])
               /\ On(r, x, page[r] - 1)' <=> On(r, x, page[r] - 1)
    BY <1>2, SameList
  <2>6. Alone(r)' /\ Asked(r)'
    BY <1>2, <2>1, <2>3 DEF Alone, Asked
  <2>7. Stands(r)'
    <3>1. query'[q].total = Len(NewestFirst(r, filter[r]))
      BY <1>2, <1>5, <2>3, Locals
    <3> QED
      BY <1>2, <1>3, <1>5, <2>1, <2>2, <2>4, <3>1 DEF Goes, Stands, Upto
  <2>8. Misses(r)'
    BY <1>2, <1>3, <1>5, <2>1, <2>2, <2>4, <2>5 DEF Goes, Misses
  <2> QED
    BY <2>6, <2>7, <2>8 DEF Goes
<1> QED
  BY <1>4, <1>5

\* A lot of the list that is on a page is in it.
LEMMA OnThePage ==
    ASSUME TenantsInv, NEW r \in Readers, NEW n \in Nat \ {0},
           NEW x \in Matching(r, Absent), On(r, x, n), ~ On(r, x, n - 1)
    PROVE  x \in ToSet(Slice(NewestFirst(r, Absent), n))
<1> DEFINE all == NewestFirst(r, Absent)
           c == Cardinality(Newer(r, Absent, x))
<1>1. all \in Seq(Ids) /\ c \in 0..Len(all) - 1 /\ all[c + 1] = x
  BY Listed, PagesAssumption DEF TenantsInv
<1>2. c < n * PageSize /\ ~ (c < (n - 1) * PageSize)
  BY DEF On
<1> HIDE DEF all, c
<1>3. n * PageSize \in Nat /\ (n - 1) * PageSize \in Nat /\ Len(all) \in Nat
  BY <1>1, PagesAssumption
<1>4. c + 1 \in 1..Len(all) /\ (n - 1) * PageSize < c + 1 /\ c + 1 <= n * PageSize
  BY <1>1, <1>2, <1>3
<1>5. all[c + 1] \in ToSet(Slice(all, n))
  BY <1>1, <1>4, PageOf
<1> QED
  BY <1>1, <1>5 DEF all

\* On the last page all have been on a page.
LEMMA AllOnPages ==
    ASSUME TenantsInv, NEW r \in Readers, NEW x \in Matching(r, Absent),
           NEW t \in Nat, Len(NewestFirst(r, Absent)) <= t, NEW n \in Nat, n >= PagesOf(t)
    PROVE  On(r, x, n)
<1> DEFINE all == NewestFirst(r, Absent)
           c == Cardinality(Newer(r, Absent, x))
<1>1. all \in Seq(Ids) /\ c \in 0..Len(all) - 1
  BY Listed, PagesAssumption DEF TenantsInv
<1>2. n * PageSize >= t /\ n * PageSize \in Nat
  BY LastPage, PagesAssumption
<1>3. Len(all) <= t
  OBVIOUS
<1> HIDE DEF all, c
<1>4. c < n * PageSize
  BY <1>1, <1>2, <1>3
<1> QED
  BY <1>4 DEF On, c

\* Reading the page.
LEMMA GoesOnList ==
    ASSUME TenantsInv, NEW q \in Queries, List(q),
           NEW r \in Readers, walk'[r].orderly, walk[r].orderly => Goes(r)
    PROVE  Goes(r)'
<1>1. PagesTypeOK /\ Used
  BY DEF TenantsInv
<1> DEFINE b == query[q].by
<1>2. /\ query[q].at = "list" /\ query'[q].at = "answer"
      /\ query'[q].ids = Slice(NewestFirst(b, query[q].filter), query[q].page)
      /\ query'[q].by = b /\ query'[q].page = query[q].page
      /\ query'[q].filter = query[q].filter /\ query'[q].total = query[q].total
      /\ \A p \in Queries \ {q} : query'[p] = query[p]
      /\ UNCHANGED <<table, who, page, filter, view>>
      /\ \A s \in Readers \ {b} : walk'[s] = walk[s]
  BY <1>1, ListMakes
<1>3. /\ walk'[b].orderly = walk[b].orderly /\ walk'[b].shown = walk[b].shown
      /\ walk'[b].before = walk[b].before /\ walk'[b].still = walk[b].still
      /\ walk'[b].slipped = (walk[b].slipped \/ (walk[b].orderly
                               /\ Len(NewestFirst(b, query[q].filter)) > query[q].total))
  BY <1>1, ListMakes
<1>4. Goes(r) /\ walk[r].orderly
  BY <1>2, <1>3
<1>5. CASE b # r
  <2>1. Untouched(r)
    BY <1>2, <1>5 DEF Untouched
  <2> QED
    BY <1>4, <2>1, GoesOnUntouched
<1>6. CASE b = r
  <2>1. \A p \in Queries : /\ query'[p].by = r <=> p = q
                           /\ query[p].by = r => p = q
    BY <1>2, <1>4, <1>6 DEF Goes, Alone
  <2>2. Pending(r) /\ Pending(r)'
    BY <1>2, <1>6 DEF Pending
  <2>3. query[q].filter = filter[r] /\ query[q].page = page[r]
    BY <1>4, <1>6 DEF Goes, Asked
  <2>4. /\ NewestFirst(r, filter[r])' = NewestFirst(r, filter[r])
        /\ Matching(r, Absent)' = Matching(r, Absent)
        /\ \A x : /\ On(r, x, page[r])' <=> On(r, x, page[r])
                  /\ On(r, x, page[r] - 1)' <=> On(r, x, page[r] - 1)
    BY <1>2, SameList
  <2>5. Alone(r)' /\ Asked(r)'
    BY <1>2, <2>1, <2>3 DEF Alone, Asked
  <2>6. Stands(r)'
    BY <1>2, <1>3, <1>4, <1>6, <2>1, <2>2, <2>3, <2>4 DEF Goes, Stands, Upto, Slice, Offset
  <2>7. ASSUME filter[r] = Absent, NEW x \in walk[r].before
        PROVE  /\ On(r, x, page[r] - 1) => x \in ToSet(walk[r].shown)
               /\ On(r, x, page[r]) => x \in ToSet(walk[r].shown) \cup ToSet(query'[q].ids)
               /\ page[r] >= PagesOf(query[q].total) /\ ~walk'[r].slipped => On(r, x, page[r])
    <3>1. x \in Matching(r, Absent) /\ (On(r, x, page[r] - 1) => x \in ToSet(walk[r].shown))
      BY <1>4, <1>6, <2>7 DEF Goes, Misses
    <3>2. query'[q].ids = Slice(NewestFirst(r, Absent), page[r])
      BY <1>2, <1>6, <2>3, <2>7
    <3>3. page[r] \in Nat \ {0} /\ query[q].total \in Nat /\ Len(NewestFirst(r, Absent)) \in Nat
      BY <2>7, Locals
    <3>4. ASSUME page[r] >= PagesOf(query[q].total), ~walk'[r].slipped PROVE On(r, x, page[r])
      <4>1. ~ (Len(NewestFirst(r, Absent)) > query[q].total)
        BY <1>3, <1>4, <1>6, <2>3, <2>7, <3>4
      <4> QED
        BY <3>1, <3>3, <3>4, <4>1, AllOnPages
    <3> QED
      BY <3>1, <3>2, <3>3, <3>4, OnThePage
  <2>8. Misses(r)'
    <3> SUFFICES ASSUME filter[r] = Absent PROVE Misses(r)'
      BY <1>2 DEF Misses
    <3>1. walk[r].before \subseteq Matching(r, Absent)
      BY <1>4 DEF Goes, Misses
    <3> QED
      BY <1>2, <1>3, <1>6, <2>1, <2>2, <2>4, <2>7, <3>1 DEF Misses
  <2> QED
    BY <2>5, <2>6, <2>8 DEF Goes
<1> QED
  BY <1>5, <1>6

\* Showing it.
LEMMA GoesOnShow ==
    ASSUME TenantsInv, NEW q \in Queries, Show(q),
           NEW r \in Readers, walk'[r].orderly, walk[r].orderly => Goes(r)
    PROVE  Goes(r)'
<1>1. PagesTypeOK /\ Used
  BY DEF TenantsInv
<1> DEFINE b == query[q].by
<1>2. /\ query[q].at = "answer" /\ b \in Readers
      /\ query'[q] = Unused /\ \A p \in Queries \ {q} : query'[p] = query[p]
      /\ \A s \in Readers \ {b} : walk'[s] = walk[s] /\ view'[s] = view[s]
      /\ UNCHANGED <<table, who, page, filter>>
  BY <1>1, ShowMakes DEF PagesTypeOK
<1>3. /\ view'[b].total = query[q].total /\ view'[b].pages = PagesOf(query[q].total)
      /\ walk'[b].shown = IF walk[b].orderly THEN walk[b].shown \o query[q].ids ELSE walk[b].shown
      /\ walk'[b].orderly = walk[b].orderly /\ walk'[b].before = walk[b].before
      /\ walk'[b].still = walk[b].still /\ walk'[b].slipped = walk[b].slipped
  BY <1>1, ShowMakes
<1>4. Goes(r) /\ walk[r].orderly
  BY <1>2, <1>3
<1>5. Unused.by # r /\ Unused.at = "unused"
  BY UnusedIsQuery, PagesAssumption
<1>6. CASE b # r
  <2>1. Untouched(r)
    BY <1>2, <1>5, <1>6 DEF Untouched
  <2> QED
    BY <1>4, <2>1, GoesOnUntouched
<1>7. CASE b = r
  <2>1. \A p \in Queries : query'[p].by # r
    BY <1>2, <1>4, <1>5, <1>7 DEF Goes, Alone
  <2>2. ~Pending(r)'
    BY <2>1 DEF Pending
  <2>3. query[q].filter = filter[r] /\ query[q].page = page[r]
    BY <1>4, <1>7 DEF Goes, Asked
  <2>4. /\ NewestFirst(r, filter[r])' = NewestFirst(r, filter[r])
        /\ Matching(r, Absent)' = Matching(r, Absent)
        /\ \A x : /\ On(r, x, page[r])' <=> On(r, x, page[r])
                  /\ On(r, x, page[r] - 1)' <=> On(r, x, page[r] - 1)
    BY <1>2, SameList
  <2>5. Alone(r)' /\ Asked(r)'
    BY <2>1 DEF Alone, Asked
  <2>6. walk'[r].shown = walk[r].shown \o query[q].ids
    BY <1>3, <1>4, <1>7
  <2>7. Stands(r)'
    <3> DEFINE all == NewestFirst(r, filter[r])
    <3>1. SUFFICES ASSUME walk[r].still
                   PROVE  /\ walk'[r].shown = Upto(all, page[r])
                          /\ view'[r].total = Len(all) /\ view'[r].pages = PagesOf(Len(all))
      BY <1>2, <1>3, <1>7, <2>1, <2>4 DEF Stands, Upto, PagesOf
    <3>2. /\ walk[r].shown = Upto(all, page[r] - 1) /\ query[q].total = Len(all)
          /\ query[q].ids = Slice(all, page[r])
      BY <1>2, <1>4, <1>7, <3>1 DEF Goes, Stands
    <3>3. Upto(all, page[r] - 1) \o Slice(all, page[r]) = Upto(all, page[r])
      BY Locals, OnePageMore
    <3> QED
      BY <1>3, <1>7, <2>6, <3>2, <3>3
  <2>8. Misses(r)'
    <3> SUFFICES ASSUME filter[r] = Absent PROVE Misses(r)'
      BY <1>2 DEF Misses
    <3>1. ToSet(walk'[r].shown) = ToSet(walk[r].shown) \cup ToSet(query[q].ids)
      <4>1. walk[r].shown \in Seq(Ids) /\ query[q].ids \in Seq(Ids)
        BY Locals
      <4>2. Range(walk[r].shown \o query[q].ids) = Range(walk[r].shown) \cup Range(query[q].ids)
        BY <4>1, RangeConcatenation
      <4> QED
        BY <2>6, <4>2 DEF ToSet, Range
    <3>2. /\ walk[r].before \subseteq Matching(r, Absent)
          /\ \A x \in walk[r].before :
                On(r, x, page[r]) => x \in ToSet(walk[r].shown) \cup ToSet(query[q].ids)
          /\ page[r] >= PagesOf(query[q].total) /\ ~walk[r].slipped =>
                walk[r].before \subseteq ToSet(walk[r].shown) \cup ToSet(query[q].ids)
      BY <1>2, <1>4, <1>7 DEF Goes, Misses
    <3> QED
      BY <1>2, <1>3, <1>7, <2>1, <2>4, <3>1, <3>2 DEF Misses
  <2> QED
    BY <2>5, <2>7, <2>8 DEF Goes
<1> QED
  BY <1>6, <1>7

\* An answer that does not come ends the walk of who asked.
LEMMA GoesOnNoAnswer ==
    ASSUME TenantsInv, NEW q \in Queries, NoAnswer(q),
           NEW r \in Readers, walk'[r].orderly, walk[r].orderly => Goes(r)
    PROVE  Goes(r)'
<1>1. /\ query' = [query EXCEPT ![q] = Unused] /\ walk' = [walk EXCEPT ![query[q].by] = NoWalk]
      /\ UNCHANGED <<table, who, page, filter, view>>
  BY DEF NoAnswer, tableVars
<1>2. query[q].by # r
  BY <1>1 DEF NoWalk, TenantsInv, PagesTypeOK
<1>3. Unused.by # r
  BY UnusedIsQuery, PagesAssumption
<1>4. Untouched(r) /\ Goes(r)
  BY <1>1, <1>2, <1>3 DEF Untouched, TenantsInv, PagesTypeOK
<1> QED
  BY <1>4, GoesOnUntouched

\* Who asks has one request more, for what he has chosen; the others do not
\* notice.
LEMMA AskMakesOne ==
    ASSUME TenantsInv, NEW s \in Readers, NEW n \in Numbers, NEW f \in Filters, AskFor(s, n, f),
           \A r \in Readers \ {s} : walk'[r] = walk[r]
    PROVE  /\ \A r \in Readers \ {s} : Untouched(r)
           /\ page'[s] = n /\ filter'[s] = f /\ Pending(s)'
           /\ \A q \in Queries : query'[q].by = s =>
                 \/ query'[q].at = "count" /\ query'[q].page = n /\ query'[q].filter = f
                 \/ Pending(s)
           /\ ~Pending(s) => Alone(s)'
           /\ UNCHANGED <<table, who, view>>
<1>1. PagesTypeOK /\ Used
  BY DEF TenantsInv
<1>2. /\ page' = [page EXCEPT ![s] = n] /\ filter' = [filter EXCEPT ![s] = f]
      /\ UNCHANGED <<table, who, view>>
  BY <1>1, AskMakes
<1>3. PICK q \in Queries : /\ query[q].at = "unused" /\ query'[q].at = "count" /\ query'[q].by = s
                           /\ query'[q].page = n /\ query'[q].filter = f
                           /\ \A p \in Queries \ {q} : query'[p] = query[p]
  BY <1>1, AskMakes
<1>4. \A r \in Readers : query[q].by # r
  BY <1>1, <1>3, UnusedIsQuery, PagesAssumption DEF Used
<1>5. page'[s] = n /\ filter'[s] = f /\ Pending(s)'
  BY <1>1, <1>2, <1>3 DEF PagesTypeOK, Pending
<1>6. \A r \in Readers \ {s} : Untouched(r)
  BY <1>1, <1>2, <1>3, <1>4 DEF Untouched, PagesTypeOK
<1>7. ~Pending(s) => \A p \in Queries : query'[p].by = s => p = q
  BY <1>3 DEF Pending
<1>8. ~Pending(s) => Alone(s)'
  BY <1>7 DEF Alone
<1> QED
  BY <1>2, <1>3, <1>5, <1>6, <1>7, <1>8

\* Opening the page or choosing a status: from the start.
LEMMA GoesOnChoose ==
    ASSUME TenantsInv, NEW s \in Readers, NEW f \in Filters, Choose(s, f),
           NEW r \in Readers, walk'[r].orderly, walk[r].orderly => Goes(r)
    PROVE  Goes(r)'
<1> DEFINE w == [NoWalk EXCEPT !.before = Matching(s, f), !.still = TRUE, !.orderly = TRUE]
<1>1. /\ w.before = Matching(s, f) /\ w.shown = <<>>
  BY DEF NoWalk
<1> HIDE DEF w
<1>2. AskFor(s, 1, f) /\ walk' = [walk EXCEPT ![s] = IF Pending(s) THEN NoWalk ELSE w]
  BY DEF Choose, w
<1>3. walk \in [Readers -> Walk] /\ 1 \in Numbers
  BY PagesAssumption DEF TenantsInv, PagesTypeOK, Numbers
<1>4. \A t \in Readers \ {s} : walk'[t] = walk[t]
  BY <1>2, <1>3
<1>5. CASE r # s
  <2>1. Untouched(r) /\ Goes(r)
    BY <1>2, <1>3, <1>4, <1>5, AskMakesOne
  <2> QED
    BY <2>1, GoesOnUntouched
<1>6. CASE r = s
  <2>1. ~Pending(r) /\ walk'[r] = w
    BY <1>2, <1>3, <1>6 DEF NoWalk
  <2>2. /\ page'[r] = 1 /\ filter'[r] = f /\ Pending(r)' /\ Alone(r)'
        /\ \A q \in Queries : query'[q].by = r =>
              query'[q].at = "count" /\ query'[q].page = 1 /\ query'[q].filter = f
        /\ UNCHANGED <<table, who, view>>
    BY <1>2, <1>3, <1>4, <1>6, <2>1, AskMakesOne
  <2>3. Asked(r)'
    BY <2>2 DEF Asked
  <2>4. Matching(r, f)' = Matching(r, f) /\ NewestFirst(r, filter[r])' = NewestFirst(r, f)
    BY <2>2 DEF Matching, Matches, NewestFirst, Newer
  <2>5. Stands(r)'
    <3>1. Upto(NewestFirst(r, f), 0) = <<>>
      BY <1>6, Listed, AllPages DEF TenantsInv
    <3>2. page'[r] - 1 = 0
      BY <2>2
    <3> QED
      BY <1>1, <2>1, <2>2, <2>4, <3>1, <3>2 DEF Stands, Upto
  <2>6. \A x : ~ On(r, x, page[r] - 1)' \/ ~ (x \in Matching(r, Absent))
    <3> SUFFICES ASSUME NEW x \in Matching(r, Absent) PROVE ~ On(r, x, page[r] - 1)'
      OBVIOUS
    <3>1. Newer(r, Absent, x)' = Newer(r, Absent, x)
      BY <2>2 DEF Newer, Matching, Matches
    <3>2. Cardinality(Newer(r, Absent, x)) \in Nat
      <4>1. Cardinality(Newer(r, Absent, x)) \in 0..Len(NewestFirst(r, Absent)) - 1
        BY Listed, PagesAssumption DEF TenantsInv
      <4> QED
        BY <4>1
    <3>3. (page'[r] - 1) * PageSize = 0
      BY <2>2, PagesAssumption
    <3> QED
      BY <3>1, <3>2, <3>3 DEF On
  <2>7. Misses(r)'
    <3> SUFFICES ASSUME f = Absent PROVE Misses(r)'
      BY <2>2 DEF Misses
    <3> QED
      BY <1>1, <1>6, <2>1, <2>2, <2>4, <2>6 DEF Misses
  <2> QED
    BY <2>2, <2>3, <2>5, <2>7 DEF Goes
<1> QED
  BY <1>5, <1>6

\* On to the next page, or back.
LEMMA GoesOnTurn ==
    ASSUME TenantsInv, NEW s \in Readers, Forward(s) \/ Back(s),
           NEW r \in Readers, walk'[r].orderly, walk[r].orderly => Goes(r)
    PROVE  Goes(r)'
<1>1. PICK n \in Numbers : AskFor(s, n, filter[s]) /\ (Forward(s) => n = page[s] + 1)
  BY Asks DEF TenantsInv
<1>2. /\ walk \in [Readers -> Walk] /\ filter[s] \in Filters
  BY DEF TenantsInv, PagesTypeOK
<1>3. \A t \in Readers \ {s} : walk'[t] = walk[t]
  BY <1>2 DEF Forward, Back
<1>4. CASE r # s
  <2>1. Untouched(r) /\ Goes(r)
    BY <1>1, <1>2, <1>3, <1>4, AskMakesOne
  <2> QED
    BY <2>1, GoesOnUntouched
<1>5. CASE r = s
  <2>1. Forward(r) /\ ~Pending(r) /\ walk'[r] = walk[r] /\ Goes(r)
    BY <1>2, <1>5 DEF Forward, Back, NoWalk
  <2>2. /\ page'[r] = page[r] + 1 /\ filter'[r] = filter[r] /\ Pending(r)' /\ Alone(r)'
        /\ \A q \in Queries : query'[q].by = r =>
              query'[q].at = "count" /\ query'[q].page = page'[r] /\ query'[q].filter = filter[r]
        /\ UNCHANGED <<table, who, view>>
    BY <1>1, <1>2, <1>3, <1>5, <2>1, AskMakesOne
  <2>3. Asked(r)'
    BY <2>2 DEF Asked
  <2>4. /\ NewestFirst(r, filter[r])' = NewestFirst(r, filter[r])
        /\ Matching(r, Absent)' = Matching(r, Absent)
    BY <2>2, SameList
  <2>5. page'[r] - 1 = page[r]
    BY <2>2, Locals
  <2>6. Stands(r)'
    BY <2>1, <2>2, <2>4, <2>5 DEF Goes, Stands, Upto
  <2>7. \A x : On(r, x, page[r] - 1)' <=> On(r, x, page[r])
    BY <2>2, <2>5 DEF On, Newer, Matching, Matches
  <2>8. Misses(r)'
    BY <2>1, <2>2, <2>4, <2>7 DEF Goes, Misses
  <2> QED
    BY <2>2, <2>3, <2>6, <2>8 DEF Goes
<1> QED
  BY <1>4, <1>5

\* Inductive.
LEMMA OrderlyHolds == PagesSpec => [](TenantsInv /\ Orderly)
<1>1. ASSUME PagesInit PROVE Orderly
  BY <1>1 DEF PagesInit, Orderly, NoWalk
<1>2. ASSUME TenantsInv, TenantsInv', Orderly, [PagesNext]_pagesVars PROVE Orderly'
  <2> SUFFICES ASSUME NEW r \in Readers, walk'[r].orderly PROVE Goes(r)'
    BY DEF Orderly
  <2>1. walk[r].orderly => Goes(r)
    BY <1>2 DEF Orderly
  <2>2. CASE RowsChange
    <3>1. walk'[r].orderly = walk[r].orderly
      BY <1>2, <2>2, UnsettledIsWalk DEF RowsChange, TenantsInv, PagesTypeOK
    <3> QED
      BY <1>2, <2>1, <2>2, <3>1, GoesOnRows DEF TenantsInv
  <2>3. CASE \E q \in Queries : Count(q) \/ List(q) \/ Show(q) \/ NoAnswer(q)
    BY <1>2, <2>1, <2>3, GoesOnCount, GoesOnList, GoesOnShow, GoesOnNoAnswer
  <2>4. CASE \E s \in Readers, f \in Filters : Choose(s, f)
    BY <1>2, <2>1, <2>4, GoesOnChoose
  <2>5. CASE \E s \in Readers : Forward(s) \/ Back(s)
    BY <1>2, <2>1, <2>5, GoesOnTurn
  <2>6. CASE UNCHANGED pagesVars
    <3>1. Untouched(r)
      BY <2>6 DEF pagesVars, tableVars, Untouched
    <3> QED
      BY <2>1, <2>6, <3>1, GoesOnUntouched DEF pagesVars
  <2> QED
    BY <1>2, <2>2, <2>3, <2>4, <2>5, <2>6, PagesSteps DEF TenantsInv
<1> QED
  BY <1>1, <1>2, TenantsHold, PTL DEF PagesSpec

\* Who goes through the pages sees every lot once if the table stands still, and
\* misses none that was there if lots are only created.
THEOREM NoLotMissed == PagesSpec => []WalkShowsAll
<1>1. ASSUME TenantsInv, Orderly PROVE WalkShowsAll
  <2> SUFFICES ASSUME NEW r \in Readers, Walked(r)
               PROVE  /\ walk[r].still => /\ walk[r].shown = NewestFirst(r, filter[r])
                                          /\ view[r].total = Len(walk[r].shown)
                      /\ filter[r] = Absent /\ ~walk[r].slipped =>
                            walk[r].before \subseteq ToSet(walk[r].shown)
    BY DEF WalkShowsAll
  <2>1. Goes(r) /\ ~Pending(r) /\ page[r] >= view[r].pages
    BY <1>1 DEF Orderly, Walked
  <2>2. ASSUME walk[r].still
        PROVE  walk[r].shown = NewestFirst(r, filter[r]) /\ view[r].total = Len(walk[r].shown)
    <3> DEFINE all == NewestFirst(r, filter[r])
    <3>1. /\ walk[r].shown = Upto(all, page[r]) /\ view[r].total = Len(all)
          /\ view[r].pages = PagesOf(Len(all))
      BY <2>1, <2>2 DEF Goes, Stands
    <3>2. all \in Seq(Ids) /\ page[r] \in Nat
      BY <1>1, Locals
    <3> HIDE DEF all
    <3>3. Upto(all, page[r]) = all
      BY <2>1, <3>1, <3>2, AllPages
    <3> QED
      BY <3>1, <3>3 DEF all
  <2>3. ASSUME filter[r] = Absent, ~walk[r].slipped
        PROVE  walk[r].before \subseteq ToSet(walk[r].shown)
    BY <2>1, <2>3 DEF Goes, Misses
  <2> QED
    BY <2>2, <2>3
<1> QED
  BY <1>1, OrderlyHolds, PTL

-----------------------------------------------------------------------------
(***************************************************************************)
(* The bargaining.                                                         *)
(***************************************************************************)

\* A set of numbers has a least one, and Min is it: the sets 0..x are finite,
\* and among finite sets there is one that has no smaller beside it.
LEMMA MinIsLeast ==
    ASSUME NEW T, T \subseteq Nat, T # {}
    PROVE  Min(T) \in T /\ \A y \in T : Min(T) <= y
<1> DEFINE U == {0..x : x \in T}
<1>1. U \subseteq FiniteSubsetsOf(Nat) /\ U # {}
  <2>1. \A x \in T : IsFiniteSet(0..x) /\ 0..x \in SUBSET Nat
    BY FS_Interval
  <2> QED
    BY <2>1 DEF FiniteSubsetsOf
<1>2. PICK u \in U : \A v \in U : ~ (<<v, u>> \in StrictSubsetOrdering(Nat))
  <2> HIDE DEF U
  <2> QED
    BY <1>1, FS_StrictSubsetOrderingWellFounded, WFMin
<1>3. PICK x \in T : u = 0..x
  OBVIOUS
<1>4. ASSUME NEW y \in T, y < x PROVE FALSE
  <2>1. 0..y \subseteq 0..x /\ 0..y # 0..x /\ 0..y \in SUBSET Nat /\ 0..x \in SUBSET Nat
    <3>1. x \in 0..x /\ x \notin 0..y
      BY <1>4
    <3> QED
      BY <1>4, <3>1
  <2>2. <<0..y, 0..x>> \in StrictSubsetOrdering(Nat)
    BY <2>1 DEF StrictSubsetOrdering
  <2> QED
    BY <1>2, <1>3, <2>2
<1>5. \A y \in T : x <= y
  BY <1>4
<1> QED
  BY <1>5 DEF Min

(***************************************************************************)
(* Bargaining.                                                             *)
(***************************************************************************)

\* The lists grow together; an answer the loop has yet to reach is as parsed.
BargainTypes ==
    /\ node \in {"bargain", "verify", "report", "done"}
    /\ i \in Nat \ {0}
    /\ Answers \subseteq Nat \ {0}
    /\ parsed \in [Answers -> Nat]
    /\ offer \in [Answers -> Nat]
    /\ skipped \subseteq Answers
    /\ rounds \in [Answers -> Round \cup {Nothing}]
    /\ node = "bargain" =>
          \A a \in Answers : a >= i => rounds[a] = Nothing /\ offer[a] = parsed[a] /\ a \notin skipped

\* What an answer went through shows in its round: it began with the parsed
\* price, ended with the offer, lost at most the clamp, and was not competitive.
RoundSound(a) ==
    /\ rounds[a].initial = parsed[a]
    /\ rounds[a].final = offer[a]
    /\ rounds[a].final <= rounds[a].initial
    /\ 200 * rounds[a].final >= 176 * rounds[a].initial - 100
    /\ ~ (100 * parsed[a] <= 105 * MinTotal)

Bargained ==
    \A a \in Answers :
        /\ rounds[a] # Nothing => RoundSound(a)
        /\ rounds[a] = Nothing => offer[a] = parsed[a]
        /\ a \in skipped => rounds[a] = Nothing /\ 100 * parsed[a] <= 105 * MinTotal

BargainInv == BargainTypes /\ Bargained

\* A clamped discount, rounded either way at a tie, takes at most 12% and half a
\* kopeck, and adds nothing.
LEMMA DiscountBounds ==
    ASSUME NEW old \in Nat, NEW d \in Int, Clamp(d) # 0,
           NEW new \in Nearest(old * (100 - Clamp(d)), 100)
    PROVE  new \in Nat /\ new <= old /\ 200 * new >= 176 * old - 100
<1> DEFINE c == Clamp(d)
           num == old * (100 - c)
<1>1. c \in 1..12
  BY DEF Clamp
<1> HIDE DEF c
<1>2. num \in Int /\ 88 * old <= num /\ num <= 99 * old
  <2>1. \/ c = 1 \/ c = 2 \/ c = 3 \/ c = 4 \/ c = 5 \/ c = 6
        \/ c = 7 \/ c = 8 \/ c = 9 \/ c = 10 \/ c = 11 \/ c = 12
    BY <1>1
  <2> QED
    BY <2>1
<1>3. new \in Int /\ 2 * (new * 100 - num) \in -100..100
  <2>1. num \div 100 \in Int
    BY <1>2
  <2> QED
    BY <2>1 DEF Nearest, c
<1> HIDE DEF num
<1> QED
  BY <1>2, <1>3

\* A step that leaves the offers, their rounds and those spared alone.
LEMMA UntouchedStep ==
    ASSUME BargainInv, UNCHANGED <<parsed, offer, skipped, rounds>>,
           i' \in Nat \ {0}, i' >= i \/ node' # "bargain",
           node' \in {"bargain", "verify", "report", "done"},
           node' = "bargain" => node = "bargain"
    PROVE  BargainInv'
<1>1. Answers' = Answers /\ MinTotal' = MinTotal
  BY DEF Answers, MinTotal
<1>2. BargainTypes'
  <2>1. \A a \in Answers : a \in Nat
    BY DEF BargainInv, BargainTypes
  <2> QED
    BY <1>1, <2>1 DEF BargainInv, BargainTypes
<1>3. Bargained'
  BY <1>1 DEF BargainInv, Bargained, RoundSound
<1> QED
  BY <1>2, <1>3 DEF BargainInv

\* Every step keeps the account.
LEMMA BargainStep == ASSUME BargainInv, [FlowNext]_flowVars PROVE BargainInv'
<1>0. /\ i \in Nat \ {0} /\ Answers \subseteq Nat
      /\ node \in {"bargain", "verify", "report", "done"}
      /\ offer \in [Answers -> Nat] /\ parsed \in [Answers -> Nat]
      /\ rounds \in [Answers -> Round \cup {Nothing}] /\ skipped \subseteq Answers
  BY DEF BargainInv, BargainTypes
<1>a. node = "bargain" =>
          \A a \in Answers : a >= i => rounds[a] = Nothing /\ offer[a] = parsed[a] /\ a \notin skipped
  BY DEF BargainInv, BargainTypes
<1>b. ASSUME NEW a \in Answers
      PROVE  /\ rounds[a] # Nothing => RoundSound(a)
             /\ rounds[a] = Nothing => offer[a] = parsed[a]
             /\ a \in skipped => rounds[a] = Nothing /\ 100 * parsed[a] <= 105 * MinTotal
  BY DEF BargainInv, Bargained
<1>1. CASE NoBargaining
  BY <1>0, <1>1, UntouchedStep DEF NoBargaining
<1>2. CASE SkipCompetitive
  <2>1. /\ i \in Answers /\ node = "bargain" /\ node' = node /\ i' = i + 1
        /\ skipped' = skipped \cup {i}
        /\ UNCHANGED <<parsed, offer, rounds>>
        /\ 100 * offer[i] <= 105 * MinTotal
    BY <1>2 DEF SkipCompetitive, Competitive
  <2>2. Answers' = Answers /\ MinTotal' = MinTotal
    BY <2>1 DEF Answers, MinTotal
  <2>3. BargainTypes'
    <3>1. \A a \in Answers : a >= i + 1 =>
              rounds[a] = Nothing /\ offer[a] = parsed[a] /\ a \notin skipped \cup {i}
      BY <1>0, <1>a, <2>1
    <3> QED
      BY <1>0, <2>1, <2>2, <3>1 DEF BargainTypes, BargainInv
  <2>4. rounds[i] = Nothing /\ offer[i] = parsed[i]
    BY <1>0, <1>a, <2>1
  <2>5. Bargained'
    BY <1>b, <2>1, <2>2, <2>4 DEF Bargained, RoundSound
  <2> QED
    BY <2>3, <2>5 DEF BargainInv
<1>3. CASE BargainingDone
  BY <1>0, <1>3, UntouchedStep DEF BargainingDone
<1>4. ASSUME NEW d \in Discounts \cup {5}, NoDiscount(d) PROVE BargainInv'
  BY <1>0, <1>4, UntouchedStep DEF NoDiscount
<1>5. ASSUME NEW d \in Discounts \cup {5}, Discount(d) PROVE BargainInv'
  <2>1. PICK new \in Nearest(offer[i] * (100 - Clamp(d)), 100) :
            /\ rounds' = [rounds EXCEPT ![i] = RoundRow(offer[i], new)]
            /\ offer' = [offer EXCEPT ![i] = new]
    BY <1>5 DEF Discount
  <2>2. /\ d \in Int /\ Clamp(d) # 0 /\ i \in Answers /\ node = "bargain" /\ node' = node /\ i' = i + 1
        /\ UNCHANGED <<parsed, skipped>>
        /\ ~ (100 * offer[i] <= 105 * MinTotal)
    BY <1>5, AnswersAssumption DEF Discount, Competitive
  <2>3. new \in Nat /\ new <= offer[i] /\ 200 * new >= 176 * offer[i] - 100 /\ offer[i] \in Nat
    BY <1>0, <2>1, <2>2, DiscountBounds
  <2>4. RoundRow(offer[i], new) \in Round /\ RoundRow(offer[i], new).initial = offer[i]
        /\ RoundRow(offer[i], new).final = new
    BY <2>3 DEF RoundRow, Round
  <2>5. Answers' = Answers /\ MinTotal' = MinTotal
    BY <2>2 DEF Answers, MinTotal
  <2>6. BargainTypes'
    <3>1. offer' \in [Answers -> Nat] /\ rounds' \in [Answers -> Round \cup {Nothing}]
      BY <1>0, <2>1, <2>3, <2>4
    <3>2. \A a \in Answers : a >= i + 1 =>
              rounds'[a] = Nothing /\ offer'[a] = parsed[a] /\ a \notin skipped
      <4>1. \A a \in Answers : a # i => rounds'[a] = rounds[a] /\ offer'[a] = offer[a]
        BY <1>0, <2>1
      <4>2. \A a \in Answers : a >= i + 1 => a # i /\ a >= i
        BY <1>0
      <4> QED
        BY <1>a, <2>2, <4>1, <4>2
    <3> QED
      BY <1>0, <2>2, <2>5, <3>1, <3>2 DEF BargainTypes, BargainInv
  <2>7. offer[i] = parsed[i] /\ i \notin skipped
    BY <1>0, <1>a, <2>2
  <2>8. ASSUME NEW a \in Answers
        PROVE  /\ (rounds[a] # Nothing => RoundSound(a))'
               /\ (rounds[a] = Nothing => offer[a] = parsed[a])'
               /\ (a \in skipped => rounds[a] = Nothing /\ 100 * parsed[a] <= 105 * MinTotal)'
    <3>1. CASE a = i
      <4>1. rounds'[a] = RoundRow(offer[i], new) /\ offer'[a] = new /\ parsed'[a] = parsed[i]
            /\ a \notin skipped'
        BY <1>0, <2>1, <2>2, <2>7, <3>1
      <4>2. RoundSound(a)'
        BY <2>2, <2>3, <2>4, <2>5, <2>7, <4>1 DEF RoundSound
      <4>3. (rounds[a] = Nothing => offer[a] = parsed[a])'
        <5>1. rounds'[a] # Nothing
          BY <2>4, <4>1, NothingAssumption DEF Round
        <5> QED
          BY <5>1
      <4> QED
        BY <4>1, <4>2, <4>3
    <3>2. CASE a # i
      <4>1. rounds'[a] = rounds[a] /\ offer'[a] = offer[a] /\ parsed'[a] = parsed[a]
            /\ skipped' = skipped
        BY <1>0, <2>1, <2>2, <3>2
      <4> QED
        BY <1>b, <2>5, <4>1 DEF RoundSound
    <3> QED
      BY <3>1, <3>2
  <2>9. Bargained'
    BY <2>5, <2>8 DEF Bargained
  <2> QED
    BY <2>6, <2>9 DEF BargainInv
<1>6. ASSUME NEW c \in Scores \cup {Nothing}, Check(c) PROVE BargainInv'
  BY <1>0, <1>6, UntouchedStep DEF Check
<1>7. CASE VerifyingDone
  BY <1>0, <1>7, UntouchedStep DEF VerifyingDone
<1>8. CASE BuildReport
  BY <1>0, <1>8, UntouchedStep DEF BuildReport
<1>9. CASE UNCHANGED flowVars
  BY <1>0, <1>9, UntouchedStep DEF flowVars
<1> QED
  BY <1>1, <1>2, <1>3, <1>4, <1>5, <1>6, <1>7, <1>8, <1>9 DEF FlowNext

\* Before the first answer.
LEMMA BargainInit == ASSUME FlowInit PROVE BargainInv
<1>1. PICK n \in 0..MaxOffers : parsed \in [1..n -> Prices]
  BY DEF FlowInit
<1>2. Answers = 1..n
  BY <1>1 DEF Answers
<1>3. parsed \in [Answers -> Nat] /\ Answers \subseteq Nat \ {0}
  <2>1. \A a \in 1..n : parsed[a] \in Nat
    BY <1>1, PricesAssumption
  <2>2. parsed = [a \in 1..n |-> parsed[a]]
    BY <1>1
  <2> QED
    BY <1>2, <2>1, <2>2
<1>4. /\ node = "bargain" /\ i = 1 /\ offer = parsed /\ skipped = {}
      /\ rounds = [a \in Answers |-> Nothing]
  BY DEF FlowInit
<1> QED
  BY <1>3, <1>4 DEF BargainInv, BargainTypes, Bargained

\* The invariant holds of every run.
LEMMA BargainInvHolds == FlowSpec => []BargainInv
  BY BargainInit, BargainStep, PTL DEF FlowSpec

\* Whatever the LLM suggests, a round takes at most 12% off and adds nothing
\* (the clamp of negotiator_node).
THEOREM FloorIsKept == FlowSpec => []FloorKept
<1>1. BargainInv => FloorKept
  BY DEF BargainInv, Bargained, RoundSound, FloorKept
<1> QED
  BY <1>1, BargainInvHolds, PTL

\* Nobody is asked for a discount while a dearer offer is spared (min_total of
\* negotiator_node, taken once).
THEOREM DearerIsNotSpared == FlowSpec => []DearerNotSpared
<1>1. BargainInv => DearerNotSpared
  <2> SUFFICES ASSUME BargainInv, NEW a \in Answers, NEW b \in Answers, a \in skipped,
                      parsed[b] <= parsed[a], rounds[b] # Nothing
               PROVE  FALSE
    BY DEF DearerNotSpared
  <2>1. 100 * parsed[a] <= 105 * MinTotal /\ ~ (100 * parsed[b] <= 105 * MinTotal)
    BY DEF BargainInv, Bargained, RoundSound
  <2>2. parsed \in [Answers -> Nat]
    BY DEF BargainInv, BargainTypes
  <2>3. MinTotal \in Nat
    <3>1. {parsed[x] : x \in Answers} \subseteq Nat /\ {parsed[x] : x \in Answers} # {}
      BY <2>2
    <3> HIDE DEF Answers
    <3> QED
      BY <3>1, MinIsLeast DEF MinTotal
  <2> QED
    BY <2>1, <2>2, <2>3
<1> QED
  BY <1>1, BargainInvHolds, PTL

(***************************************************************************)
(* Ranking.                                                                *)
(***************************************************************************)

\* What the sort needs of the answers.
Comparable(n) ==
    /\ Answers = 1..n
    /\ score \in [Answers -> Int]
    /\ offer \in [Answers -> Nat]

\* Those before one answer are among those before a later one.
LEMMA PlacesIncrease ==
    ASSUME NEW n \in Nat, Comparable(n), NEW a \in Answers, NEW b \in Answers, Before(a, b)
    PROVE  Place(a) < Place(b)
<1> DEFINE Sa == {c \in Answers : Before(c, a)}
           Sb == {c \in Answers : Before(c, b)}
<1>1. Sa \subseteq Sb
  <2> SUFFICES ASSUME NEW c \in Answers, Before(c, a) PROVE Before(c, b)
    OBVIOUS
  <2> QED
    BY DEF Before, Comparable
<1>2. a \in Sb /\ a \notin Sa
  BY DEF Before, Comparable
<1>3. IsFiniteSet(Sb)
  <2>1. IsFiniteSet(Answers)
    BY FS_Interval DEF Comparable
  <2> QED
    BY <2>1, FS_Subset
<1> HIDE DEF Sa, Sb
<1>4. IsFiniteSet(Sa) /\ Cardinality(Sa) <= Cardinality(Sb) /\ Cardinality(Sa) # Cardinality(Sb)
  BY <1>1, <1>2, <1>3, FS_Subset
<1>5. Cardinality(Sa) \in Nat /\ Cardinality(Sb) \in Nat
  BY <1>3, <1>4, FS_CardinalityType
<1> QED
  BY <1>4, <1>5 DEF Place, Sa, Sb

\* Of two answers one stands before the other, the position in the list deciding
\* at a tie.
LEMMA OrderIsTotal ==
    ASSUME NEW n \in Nat, Comparable(n), NEW a \in Answers, NEW b \in Answers, a # b
    PROVE  Before(a, b) \/ Before(b, a)
  BY DEF Before, Comparable

\* Every place from 0 on is taken by one answer.
LEMMA PlacesAreTaken ==
    ASSUME NEW n \in Nat, Comparable(n)
    PROVE  /\ \A a \in Answers : Place(a) \in 0..n - 1
           /\ \A a, b \in Answers : Place(a) = Place(b) => a = b
           /\ \A k \in Answers : \E a \in Answers : Place(a) = k - 1
<1>0. Answers = 1..n /\ IsFiniteSet(Answers) /\ Cardinality(Answers) = n
  BY FS_Interval DEF Comparable
<1>1. ASSUME NEW a \in Answers PROVE Place(a) \in 0..n - 1
  <2> DEFINE S == {b \in Answers : Before(b, a)}
  <2>1. S \subseteq Answers /\ a \notin S
    BY DEF Before, Comparable
  <2> HIDE DEF S
  <2>2. IsFiniteSet(S) /\ Cardinality(S) <= n /\ Cardinality(S) # n
    BY <1>0, <2>1, FS_Subset
  <2>3. Cardinality(S) \in Nat
    BY <2>2, FS_CardinalityType
  <2> QED
    BY <2>2, <2>3 DEF Place, S
<1>2. ASSUME NEW a \in Answers, NEW b \in Answers, Place(a) = Place(b) PROVE a = b
  BY <1>1, <1>2, PlacesIncrease, OrderIsTotal
<1>3. \A k \in Answers : \E a \in Answers : Place(a) = k - 1
  <2> DEFINE f == [a \in Answers |-> Place(a)]
             P == 0..n - 1
  <2>1. f \in [Answers -> P]
    BY <1>1
  <2>2. f \in Injection(Answers, P)
    BY <1>2, <2>1 DEF Injection, IsInjective
  <2>3. IsFiniteSet(P) /\ Cardinality(P) = n
    BY FS_Interval
  <2>4. f \in Surjection(Answers, P)
    <3> HIDE DEF f, P
    <3> QED
      BY <1>0, <2>2, <2>3, FS_Injection
  <2>5. \A p \in P : \E a \in Answers : f[a] = p
    BY <2>4 DEF Surjection
  <2>6. \A k \in Answers : k - 1 \in P
    BY <1>0
  <2> QED
    BY <2>5, <2>6
<1> QED
  BY <1>1, <1>2, <1>3

\* So the list is ranked: every answer once, none before one that beats it.
LEMMA RankedIsSorted ==
    ASSUME NEW n \in Nat, Comparable(n)
    PROVE  /\ Ranked \in [Answers -> Answers]
           /\ \A k, l \in Answers : k < l => Before(Ranked[k], Ranked[l])
           /\ \A k, l \in Answers : Ranked[k] = Ranked[l] => k = l
           /\ \A a \in Answers : \E k \in Answers : Ranked[k] = a
<1>0. Answers = 1..n
  BY DEF Comparable
<1>1. ASSUME NEW k \in Answers PROVE Ranked[k] \in Answers /\ Place(Ranked[k]) = k - 1
  BY PlacesAreTaken DEF Ranked
<1>2. Ranked \in [Answers -> Answers]
  BY <1>1 DEF Ranked
<1>3. ASSUME NEW k \in Answers, NEW l \in Answers, k < l PROVE Before(Ranked[k], Ranked[l])
  <2>1. Place(Ranked[k]) < Place(Ranked[l]) /\ Ranked[k] # Ranked[l]
    BY <1>0, <1>1, <1>3
  <2>2. ~ (Place(Ranked[l]) < Place(Ranked[k]))
    BY <1>0, <1>1, <1>3
  <2> QED
    BY <1>1, <2>1, <2>2, OrderIsTotal, PlacesIncrease
<1>4. \A k, l \in Answers : Ranked[k] = Ranked[l] => k = l
  BY <1>0, <1>1
<1>5. ASSUME NEW a \in Answers PROVE \E k \in Answers : Ranked[k] = a
  <2>1. Place(a) \in 0..n - 1
    BY PlacesAreTaken
  <2>2. Place(a) + 1 \in Answers /\ Place(Ranked[Place(a) + 1]) = Place(a)
    BY <1>0, <1>1, <2>1
  <2>3. Ranked[Place(a) + 1] = a
    BY <1>1, <2>2, PlacesAreTaken
  <2> QED
    BY <2>2, <2>3
<1> QED
  BY <1>2, <1>3, <1>4, <1>5

\* The cut keeps the first of them.
LEMMA TopIsCut ==
    ASSUME NEW n \in Nat, Comparable(n)
    PROVE  \E m \in Nat :
              /\ m <= n /\ (m = ShownOffers \/ m = n)
              /\ Top \in [1..m -> Answers]
              /\ \A k \in 1..m : Top[k] = Ranked[k]
<1>0. Answers = 1..n /\ Ranked \in [1..n -> Answers]
  BY RankedIsSorted DEF Comparable
<1>1. Len(Ranked) = n
  BY <1>0
<1> DEFINE m == Min({ShownOffers, n})
<1>2. m \in {ShownOffers, n} /\ m <= n
  <2>1. {ShownOffers, n} \subseteq Nat /\ {ShownOffers, n} # {}
    BY BoundsAssumption
  <2> QED
    BY <2>1, MinIsLeast
<1>3. m \in Nat
  BY <1>2, BoundsAssumption
<1> HIDE DEF m
<1>4. Top = SubSeq(Ranked, 1, m)
  BY <1>1 DEF Top, m
<1>5. \A k \in 1..m : Ranked[k] \in Answers
  BY <1>0, <1>2, <1>3
<1>6. Top \in Seq(Answers) /\ Len(Top) = m /\ \A k \in 1..m : Top[k] = Ranked[k]
  <2>1. SubSeq(Ranked, 1, m) \in Seq(Answers)
        /\ Len(SubSeq(Ranked, 1, m)) = (IF 1 <= m THEN m - 1 + 1 ELSE 0)
        /\ \A k \in 1..m - 1 + 1 : SubSeq(Ranked, 1, m)[k] = Ranked[1 + k - 1]
    BY <1>3, <1>5, SubSeqProperties
  <2> QED
    BY <1>3, <1>4, <2>1
<1>7. Top \in [1..m -> Answers]
  BY <1>3, <1>6
<1>8. m <= n /\ (m = ShownOffers \/ m = n)
  BY <1>2
<1> QED
  BY <1>3, <1>6, <1>7, <1>8, Zenon

(***************************************************************************)
(* Verification and the report.                                            *)
(***************************************************************************)

\* The report as reporter_node builds it of the list it is given.
Built ==
    [top |-> [k \in DOMAIN Top |->
                 [who |-> Top[k], total |-> offer[Top[k]], score |-> score[Top[k]]]],
     savings |-> Savings(IF Top = <<>> THEN 0 ELSE offer[Top[1]])]

\* Answers the loop of verifier_node has passed have the score of their answer;
\* nothing changes once the report is there.
Scored ==
    /\ \E n \in Nat : Answers = 1..n /\ i \in 1..n + 1
    /\ score \in [Answers -> Int]
    /\ answered \in [Answers -> Scores \cup {Nothing}]
    /\ node = "verify" => \A a \in Answers : a < i => score[a] = ScoreOf(answered[a])
    /\ node \in {"report", "done"} => \A a \in Answers : score[a] = ScoreOf(answered[a])
    /\ report # Nothing => node = "done" /\ report = Built

\* Every step keeps it.
LEMMA ScoredStep == ASSUME BargainInv, Scored, [FlowNext]_flowVars PROVE Scored'
<1>0. PICK n \in Nat : Answers = 1..n /\ i \in 1..n + 1
  BY DEF Scored
<1>a. /\ score \in [Answers -> Int]
      /\ answered \in [Answers -> Scores \cup {Nothing}]
      /\ node = "verify" => \A a \in Answers : a < i => score[a] = ScoreOf(answered[a])
      /\ node \in {"report", "done"} => \A a \in Answers : score[a] = ScoreOf(answered[a])
      /\ report # Nothing => node = "done" /\ report = Built
  BY DEF Scored
<1>b. ASSUME node = "bargain", parsed' = parsed, i' \in 1..n + 1, UNCHANGED <<answered, score, report>>,
             node' = "bargain" \/ (node' = "verify" /\ i' = 1)
      PROVE  Scored'
  <2>1. Answers' = 1..n /\ report = Nothing
    BY <1>0, <1>a, <1>b DEF Answers
  <2> QED
    BY <1>0, <1>a, <1>b, <2>1 DEF Scored
<1>1. CASE NoBargaining
  BY <1>0, <1>1, <1>b DEF NoBargaining
<1>2. CASE SkipCompetitive
  BY <1>0, <1>2, <1>b DEF SkipCompetitive
<1>3. CASE BargainingDone
  BY <1>0, <1>3, <1>b DEF BargainingDone
<1>4. ASSUME NEW d \in Discounts \cup {5}, NoDiscount(d) PROVE Scored'
  BY <1>0, <1>4, <1>b DEF NoDiscount
<1>5. ASSUME NEW d \in Discounts \cup {5}, Discount(d) PROVE Scored'
  BY <1>0, <1>5, <1>b DEF Discount
<1>6. ASSUME NEW c \in Scores \cup {Nothing}, Check(c) PROVE Scored'
  <2>1. Answers' = 1..n /\ report' = Nothing /\ i' \in 1..n + 1 /\ node = "verify" /\ node' = "verify"
        /\ i \in Answers /\ i' = i + 1
        /\ answered' = [answered EXCEPT ![i] = c] /\ score' = [score EXCEPT ![i] = ScoreOf(c)]
    BY <1>0, <1>6, <1>a DEF Check, Answers
  <2>2. ScoreOf(c) \in Int
    BY AnswersAssumption DEF ScoreOf
  <2>3. score' \in [Answers -> Int] /\ answered' \in [Answers -> Scores \cup {Nothing}]
    BY <1>a, <2>1, <2>2
  <2>4. ASSUME NEW a \in Answers, a < i + 1 PROVE score'[a] = ScoreOf(answered'[a])
    <3>1. CASE a = i
      BY <1>a, <2>1, <3>1
    <3>2. CASE a # i
      BY <1>0, <1>a, <2>1, <2>4, <3>2
    <3> QED
      BY <3>1, <3>2
  <2> QED
    BY <1>0, <2>1, <2>3, <2>4 DEF Scored
<1>7. CASE VerifyingDone
  <2>1. Answers' = 1..n /\ i' = i /\ report' = report /\ node' = "report"
        /\ UNCHANGED <<score, answered>> /\ report = Nothing
    BY <1>0, <1>7, <1>a DEF VerifyingDone, Answers
  <2>2. \A a \in Answers : a < i
    BY <1>0, <1>7 DEF VerifyingDone
  <2>3. node = "verify"
    BY <1>7 DEF VerifyingDone
  <2> QED
    BY <1>0, <1>a, <2>1, <2>2, <2>3 DEF Scored
<1>8. CASE BuildReport
  <2>1. /\ Answers' = Answers /\ UNCHANGED <<i, offer, score, answered, typical, parsed>>
        /\ node' = "done" /\ node = "report"
    BY <1>8 DEF BuildReport, Answers
  <2>2. report' = Built
    BY <1>8 DEF BuildReport, Built
  <2>3. Built' = Built
    BY <2>1 DEF Built, Top, Ranked, Place, Before, Savings, Answers
  <2> QED
    BY <1>0, <1>a, <2>1, <2>2, <2>3 DEF Scored
<1>9. CASE UNCHANGED flowVars
  <2>1. /\ Answers' = Answers /\ UNCHANGED <<i, offer, score, answered, typical, parsed, node, report>>
    BY <1>9 DEF flowVars, Answers
  <2>2. Built' = Built
    BY <2>1 DEF Built, Top, Ranked, Place, Before, Savings, Answers
  <2> QED
    BY <1>0, <1>a, <2>1, <2>2 DEF Scored
<1> QED
  BY <1>1, <1>2, <1>3, <1>4, <1>5, <1>6, <1>7, <1>8, <1>9 DEF FlowNext

\* Before the first answer.
LEMMA ScoredInit == ASSUME FlowInit PROVE Scored
<1>1. PICK n \in 0..MaxOffers : parsed \in [1..n -> Prices]
  BY DEF FlowInit
<1>2. Answers = 1..n /\ n \in Nat
  BY <1>1, BoundsAssumption DEF Answers
<1>3. /\ node = "bargain" /\ i = 1 /\ report = Nothing
      /\ score = [a \in Answers |-> 0] /\ answered = [a \in Answers |-> Nothing]
  BY DEF FlowInit
<1>4. \E k \in Nat : Answers = 1..k /\ i \in 1..k + 1
  BY <1>2, <1>3
<1> QED
  BY <1>3, <1>4 DEF Scored

FlowInv == BargainInv /\ Scored

\* Both hold of every run.
LEMMA FlowInvHolds == FlowSpec => []FlowInv
<1>1. FlowInit => FlowInv
  BY BargainInit, ScoredInit DEF FlowInv
<1>2. FlowInv /\ [FlowNext]_flowVars => FlowInv'
  BY BargainStep, ScoredStep DEF FlowInv
<1> QED
  BY <1>1, <1>2, PTL DEF FlowSpec

\* What the report shows, in terms of the ranked list.
LEMMA ReportShows ==
    ASSUME FlowInv, report # Nothing
    PROVE  \E n, m \in Nat :
              /\ Comparable(n)
              /\ m <= n /\ (m = ShownOffers \/ m = n)
              /\ DOMAIN report.top = 1..m /\ Len(report.top) = m
              /\ \A k \in 1..m : /\ report.top[k].who = Ranked[k] /\ Ranked[k] \in Answers
                                 /\ report.top[k].total = offer[Ranked[k]]
<1>1. PICK n \in Nat : Comparable(n)
  BY DEF FlowInv, Scored, BargainInv, BargainTypes, Comparable
<1>2. PICK m \in Nat : /\ m <= n /\ (m = ShownOffers \/ m = n)
                       /\ Top \in [1..m -> Answers]
                       /\ \A k \in 1..m : Top[k] = Ranked[k]
  BY <1>1, TopIsCut
<1>3. report.top = [k \in 1..m |-> [who |-> Top[k], total |-> offer[Top[k]], score |-> score[Top[k]]]]
  BY <1>2 DEF FlowInv, Scored, Built
<1>4. DOMAIN report.top = 1..m /\ Len(report.top) = m
  BY <1>3
<1>5. ASSUME NEW k \in 1..m
      PROVE  /\ report.top[k].who = Ranked[k] /\ Ranked[k] \in Answers
             /\ report.top[k].total = offer[Ranked[k]]
  BY <1>2, <1>3
<1> QED
  BY <1>1, <1>2, <1>4, <1>5

\* The total of a report row, the negotiation's rounds and the stored offer agree
\* (negotiator_node copies the offer before it changes the total).
THEOREM PricesAreTraceable == FlowSpec => []PricesTraceable
<1>1. FlowInv => PricesTraceable
  <2> SUFFICES ASSUME FlowInv PROVE PricesTraceable
    OBVIOUS
  <2>1. \A a \in Answers : rounds[a] # Nothing => rounds[a].initial = parsed[a]
    BY DEF FlowInv, BargainInv, Bargained, RoundSound
  <2>2. \A a \in Answers : offer[a] = (IF rounds[a] = Nothing THEN parsed[a] ELSE rounds[a].final)
    BY DEF FlowInv, BargainInv, Bargained, RoundSound
  <2>3. ASSUME report # Nothing, NEW k \in DOMAIN report.top
        PROVE  report.top[k].who \in Answers /\ report.top[k].total = offer[report.top[k].who]
    BY <2>3, ReportShows
  <2> QED
    BY <2>1, <2>2, <2>3 DEF PricesTraceable
<1> QED
  BY <1>1, FlowInvHolds, PTL

\* The report leaves out no offer that beats one it shows, shows none twice, and
\* keeps the order the verifier's LLM gave (the sort and the cut of
\* reporter_node, the default of verifier_node).
THEOREM TopIsTheBest == FlowSpec => []TopIsBest
<1>1. ASSUME FlowInv, report # Nothing
      PROVE  LET shown == {report.top[k].who : k \in DOMAIN report.top}
                 given(k) == answered[report.top[k].who]
             IN  /\ Cardinality(shown) = Len(report.top)
                 /\ Len(report.top) = ShownOffers \/ shown = Answers
                 /\ \A a \in shown, b \in Answers \ shown :
                       \/ score[a] > score[b]
                       \/ score[a] = score[b] /\ offer[a] <= offer[b]
                 /\ \A k, l \in DOMAIN report.top :
                       k < l /\ {given(k), given(l)} \cap {Nothing, 0} = {} => given(k) >= given(l)
  <2> DEFINE shown == {report.top[k].who : k \in DOMAIN report.top}
             given(k) == answered[report.top[k].who]
  <2>1. PICK n, m \in Nat :
              /\ Comparable(n)
              /\ m <= n /\ (m = ShownOffers \/ m = n)
              /\ DOMAIN report.top = 1..m /\ Len(report.top) = m
              /\ \A k \in 1..m : /\ report.top[k].who = Ranked[k] /\ Ranked[k] \in Answers
                                 /\ report.top[k].total = offer[Ranked[k]]
    BY <1>1, ReportShows
  <2>2. Answers = 1..n /\ score \in [Answers -> Int] /\ offer \in [Answers -> Nat]
    BY <2>1 DEF Comparable
  <2>3. /\ Ranked \in [Answers -> Answers]
        /\ \A k, l \in Answers : k < l => Before(Ranked[k], Ranked[l])
        /\ \A k, l \in Answers : Ranked[k] = Ranked[l] => k = l
        /\ \A a \in Answers : \E k \in Answers : Ranked[k] = a
    BY <2>1, RankedIsSorted
  <2>4. shown = {Ranked[k] : k \in 1..m} /\ 1..m \subseteq Answers
    <3>1. \A k \in 1..m : report.top[k].who = Ranked[k]
      BY <2>1
    <3>2. \A x : x \in shown <=> \E k \in 1..m : x = Ranked[k]
      BY <2>1, <3>1
    <3>3. shown = {Ranked[k] : k \in 1..m}
      <4> HIDE DEF shown
      <4> QED
        BY <3>2
    <3>4. 1..m \subseteq Answers
      BY <2>1, <2>2
    <3> QED
      BY <3>3, <3>4
  <2>5. Cardinality(shown) = m
    <3> DEFINE f == [k \in 1..m |-> Ranked[k]]
    <3>1. f \in Injection(1..m, shown) /\ f \in Surjection(1..m, shown)
      BY <2>3, <2>4 DEF Injection, Surjection, IsInjective
    <3>2. IsFiniteSet(1..m) /\ Cardinality(1..m) = m
      BY FS_Interval
    <3> HIDE DEF f, shown
    <3> QED
      BY <3>1, <3>2, FS_Surjection
  <2>6. m = n => shown = Answers
    <3> HIDE DEF shown
    <3>1. {Ranked[k] : k \in Answers} = Answers
      BY <2>3
    <3> QED
      BY <2>2, <2>4, <3>1
  <2>7. ASSUME NEW a \in shown, NEW b \in Answers \ shown
        PROVE  score[a] > score[b] \/ (score[a] = score[b] /\ offer[a] <= offer[b])
    <3>1. PICK k \in 1..m : a = Ranked[k]
      BY <2>4
    <3>2. PICK l \in Answers : b = Ranked[l]
      BY <2>3
    <3>3. k < l /\ k \in Answers
      <4>1. l \notin 1..m
        BY <2>4, <3>2
      <4>2. n \in Nat /\ m \in Nat
        OBVIOUS
      <4> QED
        BY <2>2, <2>4, <3>1, <4>1, <4>2
    <3>4. Before(a, b) /\ a \in Answers
      BY <2>3, <3>1, <3>2, <3>3
    <3> QED
      BY <2>2, <3>4 DEF Before
  <2>8. ASSUME NEW k \in DOMAIN report.top, NEW l \in DOMAIN report.top, k < l,
               {given(k), given(l)} \cap {Nothing, 0} = {}
        PROVE  given(k) >= given(l)
    <3>1. Before(Ranked[k], Ranked[l]) /\ Ranked[k] \in Answers /\ Ranked[l] \in Answers
      BY <2>1, <2>3, <2>4, <2>8
    <3>2. score[Ranked[k]] >= score[Ranked[l]]
      BY <2>2, <3>1 DEF Before
    <3>3. score[Ranked[k]] = ScoreOf(given(k)) /\ score[Ranked[l]] = ScoreOf(given(l))
      BY <1>1, <2>1, <2>8, <3>1 DEF FlowInv, Scored
    <3>4. ASSUME NEW x, NEW y, {x, y} \cap {Nothing, 0} = {}
          PROVE  ScoreOf(x) = x /\ ScoreOf(y) = y
      BY <3>4 DEF ScoreOf
    <3>5. score[Ranked[k]] = given(k) /\ score[Ranked[l]] = given(l)
      <4> HIDE DEF given
      <4> QED
        BY <2>8, <3>3, <3>4
    <3> QED
      BY <3>2, <3>5
  <2> QED
    BY <2>1, <2>5, <2>6, <2>7, <2>8
<1>2. FlowInv => TopIsBest
  BY <1>1 DEF TopIsBest
<1> QED
  BY <1>2, FlowInvHolds, PTL

\* What the account says nothing of: the list, the typical total, the scores.
MoneyTypes ==
    /\ parsed \in UNION {[1..n -> Prices] : n \in 0..MaxOffers}
    /\ typical \in Typicals
    /\ score \in [Answers -> Int]

\* No step changes the list, and a score is one, whatever the verifier's LLM says.
LEMMA MoneyTypesStep == ASSUME MoneyTypes, [FlowNext]_flowVars PROVE MoneyTypes'
<1>1. parsed' = parsed /\ typical' = typical /\ Answers' = Answers
  BY DEF FlowNext, flowVars, NoBargaining, SkipCompetitive, BargainingDone, NoDiscount, Discount, Check,
         VerifyingDone, BuildReport, Answers
<1>2. score' = score \/ \E c \in Scores \cup {Nothing} : score' = [score EXCEPT ![i] = ScoreOf(c)]
  BY DEF FlowNext, flowVars, NoBargaining, SkipCompetitive, BargainingDone, NoDiscount, Discount, Check,
         VerifyingDone, BuildReport
<1>3. \A c \in Scores \cup {Nothing} : ScoreOf(c) \in Int
  BY AnswersAssumption DEF ScoreOf
<1> QED
  BY <1>1, <1>2, <1>3 DEF MoneyTypes

\* A report is made of the offers that are shown.
LEMMA BuiltIsReport == ASSUME FlowInv, MoneyTypes PROVE Built \in Report
<1>1. PICK n \in 0..MaxOffers : parsed \in [1..n -> Prices]
  BY DEF MoneyTypes
<1>2. Answers = 1..n /\ n \in Nat /\ offer \in [Answers -> Nat] /\ score \in [Answers -> Int]
  BY <1>1, BoundsAssumption DEF Answers, FlowInv, BargainInv, BargainTypes, MoneyTypes
<1>3. Comparable(n)
  <2>1. score \in [Answers -> Int]
    BY DEF FlowInv, Scored
  <2> QED
    BY <1>2, <2>1 DEF Comparable
<1>4. PICK m \in Nat : Top \in [1..m -> Answers]
  BY <1>2, <1>3, TopIsCut
<1> DEFINE row(k) == [who |-> Top[k], total |-> offer[Top[k]], score |-> score[Top[k]]]
           shown == [k \in DOMAIN Top |-> row(k)]
           best == IF Top = <<>> THEN 0 ELSE offer[Top[1]]
<1>5. ASSUME NEW k \in 1..m PROVE row(k) \in Row
  <2>1. Top[k] \in 1..MaxOffers /\ offer[Top[k]] \in Nat /\ score[Top[k]] \in Int
    BY <1>2, <1>4, BoundsAssumption
  <2> QED
    BY <2>1 DEF Row
<1>6. shown \in [1..m -> Row]
  <2> HIDE DEF row
  <2> QED
    BY <1>4, <1>5
<1>7. shown \in Seq(Row)
  <2> HIDE DEF shown
  <2> QED
    BY <1>6
<1>8. best \in Nat
  <2>1. Top # <<>> => Top[1] \in Answers
    <3>1. m = 0 => Top = <<>>
      BY <1>4
    <3> QED
      BY <1>4, <3>1
  <2> QED
    BY <1>2, <2>1
<1>9. Savings(best) \in Nat
  <2>1. typical \in Nat
    BY PricesAssumption DEF MoneyTypes
  <2> HIDE DEF best
  <2> QED
    BY <1>8, <2>1 DEF Savings
<1> HIDE DEF shown, best
<1>10. [top |-> shown, savings |-> Savings(best)] \in Report
  BY <1>7, <1>9 DEF Report
<1> QED
  BY <1>10 DEF Built, shown, best

\* Offers, rounds, scores and the report keep their types for any number of
\* answers (negotiator_node, verifier_node and reporter_node).
THEOREM OfferTypeCorrect == FlowSpec => []FlowTypeOK
<1>1. FlowInit => MoneyTypes
  <2> SUFFICES ASSUME FlowInit PROVE score \in [Answers -> Int]
    BY DEF FlowInit, MoneyTypes
  <2>1. score = [a \in Answers |-> 0] /\ 0 \in Int
    BY DEF FlowInit
  <2> QED
    BY <2>1
<1>2. MoneyTypes /\ [FlowNext]_flowVars => MoneyTypes'
  BY MoneyTypesStep
<1>3. ASSUME FlowInv, MoneyTypes PROVE FlowTypeOK
  <2>1. report = Nothing \/ report \in Report
    BY <1>3, BuiltIsReport DEF FlowInv, Scored
  <2>2. i \in 1..MaxOffers + 1
    <3>1. PICK n \in 0..MaxOffers : parsed \in [1..n -> Prices]
      BY <1>3 DEF MoneyTypes
    <3>2. Answers = 1..n /\ n \in Nat
      BY <3>1, BoundsAssumption DEF Answers
    <3>3. PICK k \in Nat : Answers = 1..k /\ i \in 1..k + 1
      BY <1>3 DEF FlowInv, Scored
    <3>4. k <= n
      BY <3>2, <3>3
    <3> QED
      BY <3>3, <3>4, BoundsAssumption
  <2> QED
    BY <1>3, <2>1, <2>2 DEF FlowTypeOK, FlowInv, BargainInv, BargainTypes, Scored, MoneyTypes
<1> QED
  BY <1>1, <1>2, <1>3, FlowInvHolds, PTL DEF FlowSpec

=============================================================================
