-------------------------- MODULE MailIngest_proofs --------------------------
(***************************************************************************)
(* Theorems of MailIngest: its types, that a row belongs to the lot its    *)
(* mail names, and that overlapping pollers store a mail a bounded number  *)
(* of times.                                                               *)
(***************************************************************************)
EXTENDS MailIngest, FiniteSetTheorems, TLAPS

\* A uid at work has arrived.
AtWork == \A p \in Pollers : pc[p] \in {"insert", "flag"} => at[p] \in Arrived

\* The types of inbox, expunged, seen, uids and at grow with the mails that
\* have arrived.
LEMMA Arrivals ==
    ASSUME IngestTypeOK
    PROVE  /\ inbox \in Seq(Mails) /\ Len(inbox) \in 0..MaxMails
           /\ Arrived = 1..Len(inbox) /\ Arrived \subseteq Uids
<1>1. PICK n \in 0..MaxMails : inbox \in [1..n -> Mails]
  BY DEF IngestTypeOK
<1>2. MaxMails \in Nat
  BY BoundsAssumption
<1>3. n \in Nat /\ n <= MaxMails
  BY <1>1, <1>2
<1>4. inbox \in Seq(Mails) /\ Len(inbox) = n
  BY <1>1, <1>3
<1> QED
  BY <1>1, <1>2, <1>3, <1>4 DEF Arrived, Uids

\* What a mail is taken for is a lot, an id of none, or nothing.
LEMMA MeantTypes ==
    ASSUME NEW mail \in Mails, NEW lot \in Meant(mail), lot # Unknown
    PROVE  lot \in Lots \cup {NoLot}
  BY MailsAssumption DEF Meant

\* One row more keeps the type of the rows.
LEMMA WithRowTypes ==
    ASSUME rows \in [Uids -> Seq(Lots \cup {NoLot})], NEW u \in Uids, NEW lot \in Lots \cup {NoLot}
    PROVE  WithRow(u, lot) \in [Uids -> Seq(Lots \cup {NoLot})]
<1>1. Append(rows[u], lot) \in Seq(Lots \cup {NoLot})
  OBVIOUS
<1> QED
  BY <1>1 DEF WithRow

\* Every step keeps the types.
LEMMA TypeStep == ASSUME IngestTypeOK, AtWork, [IngestNext]_ingestVars PROVE IngestTypeOK' /\ AtWork'
<1> USE BoundsAssumption DEF IngestTypeOK, AtWork
<1>0. Arrived \subseteq Uids /\ \A u \in Arrived : inbox[u] \in Mails
  BY Arrivals
<1>1. CASE Arrive
  <2>1. PICK m \in Mails : Len(inbox) < MaxMails /\ inbox' = Append(inbox, m)
    BY <1>1 DEF Arrive
  <2>2. /\ Len(inbox) + 1 \in 0..MaxMails
        /\ inbox' \in [1..Len(inbox) + 1 -> Mails]
    <3>1. /\ Len(inbox) \in Nat /\ MaxMails \in Nat /\ inbox \in Seq(Mails)
          /\ Len(inbox) + 1 <= MaxMails
      BY <2>1, Arrivals
    <3>2. inbox' \in Seq(Mails) /\ Len(inbox') = Len(inbox) + 1
      BY <2>1, <3>1
    <3> QED
      BY <3>1, <3>2
  <2>3. Arrived \subseteq Arrived'
    BY <2>2, Arrivals DEF Arrived
  <2>4. UNCHANGED <<expunged, seen, pc, uids, at, rows, offers, accidents, failed>>
    BY <1>1 DEF Arrive
  <2>5. inbox' \in UNION {[1..n -> Mails] : n \in 0..MaxMails}
    BY <2>2
  <2> HIDE DEF AtWork
  <2>6. AtWork'
    BY <2>3, <2>4 DEF AtWork
  <2> QED
    BY <2>3, <2>4, <2>5, <2>6
<1>2. ASSUME NEW u \in Arrived, Expunge(u) PROVE IngestTypeOK' /\ AtWork'
  BY <1>2 DEF Expunge, Arrived
<1>3. ASSUME NEW u \in Arrived, EmailIn(u) PROVE IngestTypeOK' /\ AtWork'
  <2>1. PICK lot \in Meant(inbox[u]) : Offered(u) /\ lot \in Lots /\ rows' = WithRow(u, lot)
    BY <1>3 DEF EmailIn
  <2>2. rows' \in [Uids -> Seq(Lots \cup {NoLot})]
    BY <1>0, <2>1, WithRowTypes
  <2>3. offers[u] \in 0..MaxOffers /\ MaxOffers \in Nat
    BY <1>0
  <2>4. /\ offers' \in [Uids -> 0..MaxOffers]
        /\ seen' \subseteq Arrived'
        /\ UNCHANGED <<inbox, expunged, pc, uids, at, accidents, failed>>
    BY <1>0, <2>1, <2>3 DEF Offered, Arrived
  <2> QED
    BY <2>2, <2>4 DEF Arrived
<1>4. ASSUME NEW u \in Arrived, EmailInRefused(u) PROVE IngestTypeOK' /\ AtWork'
  <2>1. offers[u] \in 0..MaxOffers /\ MaxOffers \in Nat
    BY <1>0
  <2> QED
    BY <1>0, <1>4, <2>1 DEF EmailInRefused, Offered, Arrived
<1>5. ASSUME NEW p \in Pollers, Search(p) PROVE IngestTypeOK' /\ AtWork'
  BY <1>5 DEF Search, Arrived
<1>6. ASSUME NEW p \in Pollers, Fetch(p) PROVE IngestTypeOK' /\ AtWork'
  <2>1. PICK u \in uids[p] :
           /\ uids' = [uids EXCEPT ![p] = @ \ {u}]
           /\ IF u \in expunged THEN UNCHANGED <<pc, at, seen>>
              ELSE /\ pc' = [pc EXCEPT ![p] = "insert"]
                   /\ at' = [at EXCEPT ![p] = u]
                   /\ seen' = SeenAfterFetch(u)
    BY <1>6 DEF Fetch
  <2>2. UNCHANGED <<inbox, expunged, rows, offers, accidents, failed>>
    BY <1>6 DEF Fetch
  <2>3. u \in Arrived /\ uids[p] \ {u} \in SUBSET Arrived
    BY <2>1
  <2>4. CASE u \in expunged
    BY <2>1, <2>2, <2>3, <2>4 DEF Arrived
  <2>5. CASE u \notin expunged
    BY <2>1, <2>2, <2>3, <2>5 DEF SeenAfterFetch, Arrived
  <2> QED
    BY <2>4, <2>5
<1>7. ASSUME NEW p \in Pollers, Insert(p) PROVE IngestTypeOK' /\ AtWork'
  <2>1. PICK lot \in Meant(inbox[at[p]]) :
           References(lot) /\ rows' = IF Keeps(lot) THEN WithRow(at[p], lot) ELSE rows
    BY <1>7 DEF Insert
  <2>2. pc[p] = "insert" /\ at[p] \in Arrived
    BY <1>7 DEF Insert
  <2>3. lot \in Lots \cup {NoLot}
    BY <1>0, <2>1, <2>2, MeantTypes DEF References
  <2>4. rows' \in [Uids -> Seq(Lots \cup {NoLot})]
    BY <1>0, <2>1, <2>2, <2>3, WithRowTypes
  <2> QED
    BY <1>7, <2>2, <2>4 DEF Insert, Arrived
<1>8. ASSUME NEW p \in Pollers, Abort(p), accidents' \in 0..MaxAccidents
      PROVE  IngestTypeOK' /\ AtWork'
  BY <1>8 DEF Abort, Arrived
<1>9. ASSUME NEW p \in Pollers, InsertRefused(p) \/ Accident(p) PROVE IngestTypeOK' /\ AtWork'
  <2>1. accidents \in 0..MaxAccidents /\ MaxAccidents \in Nat
    OBVIOUS
  <2>2. Abort(p) /\ accidents' \in 0..MaxAccidents
    BY <1>9, <2>1 DEF InsertRefused, Accident
  <2> QED
    BY <1>8, <2>2
<1>10. ASSUME NEW p \in Pollers, Flag(p) \/ Logout(p) PROVE IngestTypeOK' /\ AtWork'
  BY <1>10 DEF Flag, Logout, Arrived
<1>11. CASE UNCHANGED ingestVars
  BY <1>11 DEF ingestVars, Arrived
<1> HIDE DEF IngestTypeOK, AtWork
<1> QED
  BY <1>1, <1>2, <1>3, <1>4, <1>5, <1>6, <1>7, <1>9, <1>10, <1>11 DEF IngestNext, Poll

\* And at the start.
LEMMA TypeInit == IngestInit => IngestTypeOK /\ AtWork
<1> SUFFICES ASSUME IngestInit PROVE IngestTypeOK /\ AtWork
  OBVIOUS
<1>1. inbox \in [1..0 -> Mails] /\ 0 \in 0..MaxMails
  BY BoundsAssumption DEF IngestInit
<1> QED
  BY <1>1, BoundsAssumption DEF IngestInit, IngestTypeOK, AtWork

\* Inductive.
LEMMA TypeHolds == IngestSpec => [](IngestTypeOK /\ AtWork)
  BY TypeInit, TypeStep, PTL DEF IngestSpec

\* The types of the poller, the webhook and the mailbox.
THEOREM MailTypeCorrect == IngestSpec => []IngestTypeOK
  BY TypeHolds, PTL

-----------------------------------------------------------------------------
(***************************************************************************)
(* Rows and the lots of their mails.                                       *)
(***************************************************************************)

\* No row comes before its mail, and a mail keeps what it says.
Routed ==
    \A u \in Uids :
        /\ u \notin Arrived => rows[u] = <<>>
        /\ u \in Arrived => \A i \in DOMAIN rows[u] : rows[u][i] \in Meant(inbox[u])

\* Either way in adds a row for a lot its mail can be taken for.
LEMMA RoutedRow ==
    ASSUME IngestTypeOK, Routed, NEW u \in Arrived, NEW lot \in Meant(inbox[u]), lot \in Lots \cup {NoLot},
           rows' = WithRow(u, lot), inbox' = inbox
    PROVE  Routed'
<1>1. rows \in [Uids -> Seq(Lots \cup {NoLot})] /\ u \in Uids
  BY Arrivals DEF IngestTypeOK
<1> DEFINE longer == Append(rows[u], lot)
<1>2. /\ DOMAIN longer = DOMAIN rows[u] \cup {Len(rows[u]) + 1}
      /\ \A i \in DOMAIN rows[u] : longer[i] = rows[u][i]
      /\ longer[Len(rows[u]) + 1] = lot
  BY <1>1
<1>3. rows'[u] = longer /\ \A v \in Uids \ {u} : rows'[v] = rows[v]
  BY <1>1 DEF WithRow
<1> HIDE DEF longer
<1>4. \A i \in DOMAIN rows'[u] : rows'[u][i] \in Meant(inbox[u])
  BY <1>1, <1>2, <1>3 DEF Routed
<1> QED
  BY <1>3, <1>4 DEF Routed, Arrived

\* Every step keeps rows at their lots.
LEMMA RoutedStep == ASSUME IngestTypeOK, AtWork, Routed, [IngestNext]_ingestVars PROVE Routed'
<1>0. \A u \in Arrived : inbox[u] \in Mails
  BY Arrivals
<1>1. CASE Arrive
  <2>1. PICK m \in Mails : Len(inbox) < MaxMails /\ inbox' = Append(inbox, m)
    BY <1>1 DEF Arrive
  <2>2. /\ Arrived' = Arrived \cup {Len(inbox) + 1}
        /\ Len(inbox) + 1 \notin Arrived
        /\ \A u \in Arrived : inbox'[u] = inbox[u]
    BY <2>1, Arrivals DEF Arrived
  <2>3. rows' = rows
    BY <1>1 DEF Arrive
  <2>4. ASSUME NEW u \in Uids, u \in Arrived', NEW i \in DOMAIN rows'[u]
        PROVE  rows'[u][i] \in Meant(inbox'[u])
    <3>1. u \in Arrived
      BY <2>2, <2>3, <2>4 DEF Routed
    <3> QED
      BY <2>2, <2>3, <2>4, <3>1 DEF Routed
  <2>5. \A u \in Uids : u \notin Arrived' => rows'[u] = <<>>
    BY <2>2, <2>3 DEF Routed
  <2> QED
    BY <2>4, <2>5 DEF Routed
<1>2. ASSUME NEW u \in Arrived, EmailIn(u) PROVE Routed'
  BY <1>2, RoutedRow DEF EmailIn, Offered
<1>3. ASSUME NEW p \in Pollers, Insert(p) PROVE Routed'
  <2>1. PICK lot \in Meant(inbox[at[p]]) :
           References(lot) /\ rows' = IF Keeps(lot) THEN WithRow(at[p], lot) ELSE rows
    BY <1>3 DEF Insert
  <2>2. at[p] \in Arrived /\ inbox' = inbox
    BY <1>3 DEF Insert, AtWork
  <2>3. lot \in Lots \cup {NoLot}
    BY <1>0, <2>1, <2>2, MeantTypes DEF References
  <2> QED
    BY <2>1, <2>2, <2>3, RoutedRow DEF Keeps
<1>4. CASE \/ \E u \in Arrived : Expunge(u) \/ EmailInRefused(u)
           \/ \E p \in Pollers : Search(p) \/ Fetch(p) \/ InsertRefused(p) \/ Flag(p) \/ Logout(p)
                                 \/ Accident(p)
           \/ UNCHANGED ingestVars
  <2>1. UNCHANGED <<inbox, rows>>
    BY <1>4 DEF Expunge, EmailInRefused, Offered, Search, Fetch, InsertRefused, Flag, Logout,
       Accident, Abort, ingestVars
  <2> QED
    BY <2>1 DEF Routed, Arrived
<1> QED
  BY <1>1, <1>2, <1>3, <1>4 DEF IngestNext, Poll

\* A row belongs to the lot its mail names, the address before the subject, for
\* any mails, any number of pollers and any use of the webhook.
THEOREM RowsRouted == IngestSpec => []RoutedAsNamed
<1>1. IngestInit => Routed
  BY DEF IngestInit, Routed
<1>2. IngestTypeOK /\ Routed => RoutedAsNamed
  <2> SUFFICES ASSUME IngestTypeOK, Routed, NEW u \in Arrived, NEW i \in DOMAIN rows[u]
               PROVE  LET lot == rows[u][i]
                      IN  \/ lot = inbox[u].address /\ lot # NoLot
                          \/ inbox[u].address = NoLot /\ lot \in inbox[u].subject
                          \/ inbox[u].address = NoLot /\ inbox[u].subject = {} /\ lot = NoLot
    BY DEF RoutedAsNamed
  <2>1. rows[u][i] \in Meant(inbox[u])
    BY Arrivals DEF Routed
  <2> QED
    BY <2>1 DEF Meant
<1> QED
  BY <1>1, <1>2, RoutedStep, TypeHolds, PTL DEF IngestSpec

-----------------------------------------------------------------------------
(***************************************************************************)
(* Rows and the pollers that may still add one.                            *)
(***************************************************************************)

\* Pollers that will fetch the mail, or have fetched it and not stored it.
Pending(u) == {p \in Pollers : u \in uids[p] \/ (pc[p] = "insert" /\ at[p] = u)}

\* What a poller is about to store it has fetched, and will not fetch again.
Fetched == \A p \in Pollers : pc[p] = "insert" => at[p] \in seen \ uids[p]

\* A mail that no poller has fetched has the rows of the webhook only, and each
\* row of a poller is paid for by one that no longer has the mail before it.
Bounded ==
    \A u \in Uids :
        /\ u \notin seen => Len(rows[u]) <= offers[u]
        /\ Len(rows[u]) + Cardinality(Pending(u)) <= Cardinality(Pollers) + offers[u]

\* They are at most as many as there are pollers.
LEMMA PendingIsFinite ==
    ASSUME NEW u
    PROVE  /\ IsFiniteSet(Pending(u))
           /\ Cardinality(Pending(u)) \in Nat /\ Cardinality(Pollers) \in Nat
           /\ Cardinality(Pending(u)) <= Cardinality(Pollers)
<1>1. IsFiniteSet(Pollers) /\ Pending(u) \subseteq Pollers
  BY BoundsAssumption DEF Pending
<1> QED
  BY <1>1, FS_Subset, FS_CardinalityType

\* A step after which no poller more has a mail before it, and no mail has more
\* rows than offers to the webhook have paid for, keeps the bound.
LEMMA BoundKept ==
    ASSUME IngestTypeOK, IngestTypeOK', Bounded, seen \subseteq seen',
           \A u \in Uids : Pending(u)' \subseteq Pending(u),
           \A u \in Uids : Len(rows'[u]) + offers[u] <= Len(rows[u]) + offers'[u]
    PROVE  Bounded'
<1> SUFFICES ASSUME NEW u \in Uids
             PROVE  /\ u \notin seen' => Len(rows'[u]) <= offers'[u]
                    /\ Len(rows'[u]) + Cardinality(Pending(u)')
                         <= Cardinality(Pollers) + offers'[u]
  BY DEF Bounded
<1>1. /\ Len(rows[u]) \in Nat /\ Len(rows'[u]) \in Nat
      /\ offers[u] \in Nat /\ offers'[u] \in Nat
  BY BoundsAssumption DEF IngestTypeOK
<1>2. IsFiniteSet(Pending(u)) /\ Cardinality(Pending(u)) \in Nat /\ Cardinality(Pollers) \in Nat
  BY PendingIsFinite
<1>3. Cardinality(Pending(u)') \in Nat /\ Cardinality(Pending(u)') <= Cardinality(Pending(u))
  BY <1>2, FS_Subset, FS_CardinalityType
<1>4. /\ u \notin seen => Len(rows[u]) <= offers[u]
      /\ Len(rows[u]) + Cardinality(Pending(u)) <= Cardinality(Pollers) + offers[u]
      /\ Len(rows'[u]) + offers[u] <= Len(rows[u]) + offers'[u]
  BY DEF Bounded
<1>5. u \notin seen' => u \notin seen
  OBVIOUS
<1>6. u \notin seen => Len(rows'[u]) <= offers'[u]
  BY <1>1, <1>4
<1>7. Len(rows'[u]) + Cardinality(Pending(u)') <= Cardinality(Pollers) + offers'[u]
  <2>1. ASSUME NEW a \in Nat, NEW b \in Nat, NEW c \in Nat, NEW d \in Nat,
               NEW e \in Nat, NEW f \in Nat, NEW g \in Nat,
               a + c <= f + d, b + d <= a + e, g <= c
        PROVE  b + g <= f + e
    BY <2>1
  <2> QED
    BY <1>1, <1>2, <1>3, <1>4, <2>1
<1> QED
  BY <1>5, <1>6, <1>7

\* Inductive.
BoundInv == IngestTypeOK /\ AtWork /\ Fetched /\ Bounded

\* Every step keeps the bound.
LEMMA BoundStep == ASSUME BoundInv, [IngestNext]_ingestVars PROVE Fetched' /\ Bounded'
<1> USE DEF BoundInv
<1>0. /\ IngestTypeOK' /\ AtWork'
      /\ pc \in [Pollers -> {"idle", "loop", "insert", "flag"}]
      /\ uids \in [Pollers -> SUBSET Arrived]
      /\ at \in [Pollers -> Arrived \cup {0}]
      /\ Arrived \subseteq Uids
      /\ \A u \in Uids : Len(rows[u]) \in Nat /\ offers[u] \in Nat
  BY TypeStep, Arrivals, BoundsAssumption DEF IngestTypeOK
<1>1. CASE \/ Arrive
           \/ \E u \in Arrived : Expunge(u)
           \/ UNCHANGED ingestVars
  <2>1. UNCHANGED <<seen, pc, uids, at, rows, offers>>
    BY <1>1 DEF Arrive, Expunge, ingestVars
  <2> QED
    BY <2>1 DEF Fetched, Bounded, Pending
<1>2. ASSUME NEW u \in Arrived, EmailIn(u) \/ EmailInRefused(u) PROVE Fetched' /\ Bounded'
  <2>1. /\ seen \subseteq seen' /\ UNCHANGED <<pc, uids, at>>
        /\ offers' = [offers EXCEPT ![u] = @ + 1]
    BY <1>2 DEF EmailIn, EmailInRefused, Offered
  <2>2. rows' = rows \/ \E lot \in Lots : rows' = WithRow(u, lot)
    BY <1>2 DEF EmailIn, EmailInRefused
  <2>3. \A v \in Uids : Len(rows'[v]) + offers[v] <= Len(rows[v]) + offers'[v]
    <3>1. \A v \in Uids : offers'[v] = offers[v] + (IF v = u THEN 1 ELSE 0)
      BY <1>0, <2>1 DEF IngestTypeOK
    <3>2. CASE rows' = rows
      BY <1>0, <3>1, <3>2
    <3>3. ASSUME NEW lot \in Lots, rows' = WithRow(u, lot)
          PROVE  \A v \in Uids : Len(rows'[v]) = Len(rows[v]) + (IF v = u THEN 1 ELSE 0)
      <4>1. rows \in [Uids -> Seq(Lots \cup {NoLot})]
        BY DEF IngestTypeOK
      <4>2. Len(Append(rows[u], lot)) = Len(rows[u]) + 1
        BY <1>0, <4>1
      <4> QED
        BY <1>0, <3>3, <4>1, <4>2 DEF WithRow
    <3>4. CASE \E lot \in Lots : rows' = WithRow(u, lot)
      <4>1. \A v \in Uids : Len(rows'[v]) = Len(rows[v]) + (IF v = u THEN 1 ELSE 0)
        BY <3>3, <3>4
      <4> QED
        <5> SUFFICES ASSUME NEW v \in Uids
                     PROVE  Len(rows'[v]) + offers[v] <= Len(rows[v]) + offers'[v]
          OBVIOUS
        <5>1. Len(rows[v]) \in Nat /\ offers[v] \in Nat
          BY <1>0
        <5>2. PICK n \in {0, 1} : offers'[v] = offers[v] + n /\ Len(rows'[v]) = Len(rows[v]) + n
          BY <3>1, <4>1
        <5> QED
          BY <5>1, <5>2
    <3> QED
      BY <2>2, <3>2, <3>4
  <2>4. \A v \in Uids : Pending(v)' \subseteq Pending(v)
    BY <2>1 DEF Pending
  <2> QED
    BY <1>0, <2>1, <2>3, <2>4, BoundKept DEF Fetched
<1>3. ASSUME NEW p \in Pollers, Search(p) PROVE Fetched' /\ Bounded'
  <2>1. /\ pc[p] = "idle"
        /\ uids' = [uids EXCEPT ![p] = Arrived \ (seen \cup expunged)]
        /\ pc' = [pc EXCEPT ![p] = "loop"]
        /\ UNCHANGED <<seen, at, rows, offers>>
    BY <1>3 DEF Search
  <2>2. Fetched'
    BY <1>0, <2>1 DEF Fetched
  <2>3. ASSUME NEW u \in Uids
        PROVE  /\ u \notin seen' => Len(rows'[u]) <= offers'[u]
               /\ Len(rows'[u]) + Cardinality(Pending(u)') <= Cardinality(Pollers) + offers'[u]
    <3>1. CASE u \in seen
      <4>1. Pending(u)' \subseteq Pending(u)
        BY <1>0, <2>1, <3>1 DEF Pending
      <4>2. /\ IsFiniteSet(Pending(u)) /\ Cardinality(Pending(u)) \in Nat
            /\ Cardinality(Pollers) \in Nat
        BY PendingIsFinite
      <4>3. Cardinality(Pending(u)') \in Nat /\ Cardinality(Pending(u)') <= Cardinality(Pending(u))
        BY <4>1, <4>2, FS_Subset, FS_CardinalityType
      <4> QED
        BY <1>0, <2>1, <3>1, <4>2, <4>3 DEF Bounded
    <3>2. CASE u \notin seen
      <4>1. /\ Cardinality(Pending(u)') \in Nat /\ Cardinality(Pollers) \in Nat
            /\ Cardinality(Pending(u)') <= Cardinality(Pollers)
        <5>1. IsFiniteSet(Pollers) /\ Pending(u)' \subseteq Pollers
          BY BoundsAssumption DEF Pending
        <5> QED
          BY <5>1, FS_Subset, FS_CardinalityType
      <4>2. Len(rows[u]) <= offers[u]
        BY <3>2 DEF Bounded
      <4> QED
        BY <1>0, <2>1, <4>1, <4>2
    <3> QED
      BY <3>1, <3>2
  <2> QED
    BY <2>2, <2>3 DEF Bounded
<1>4. ASSUME NEW p \in Pollers, Fetch(p) PROVE Fetched' /\ Bounded'
  <2>1. PICK u \in uids[p] :
           /\ uids' = [uids EXCEPT ![p] = @ \ {u}]
           /\ IF u \in expunged THEN UNCHANGED <<pc, at, seen>>
              ELSE /\ pc' = [pc EXCEPT ![p] = "insert"]
                   /\ at' = [at EXCEPT ![p] = u]
                   /\ seen' = SeenAfterFetch(u)
    BY <1>4 DEF Fetch
  <2>2. pc[p] = "loop" /\ UNCHANGED <<rows, offers>>
    BY <1>4 DEF Fetch
  <2>3. seen \subseteq seen' /\ Fetched'
    BY <1>0, <2>1, <2>2 DEF SeenAfterFetch, Fetched
  <2>4. \A v \in Uids : Pending(v)' \subseteq Pending(v)
    BY <1>0, <2>1, <2>2 DEF Pending
  <2>5. \A v \in Uids : Len(rows'[v]) + offers[v] <= Len(rows[v]) + offers'[v]
    BY <1>0, <2>2
  <2> QED
    BY <1>0, <2>3, <2>4, <2>5, BoundKept
<1>5. ASSUME NEW p \in Pollers, Insert(p) PROVE Fetched' /\ Bounded'
  <2> DEFINE u == at[p]
  <2>1. /\ pc[p] = "insert" /\ u \in seen /\ u \notin uids[p] /\ u \in Arrived /\ u \in Uids
        /\ pc' = [pc EXCEPT ![p] = "flag"]
        /\ UNCHANGED <<seen, uids, at, offers>>
    BY <1>0, <1>5 DEF Insert, Fetched, AtWork
  <2>2. PICK lot \in Meant(inbox[u]) :
           References(lot) /\ rows' = WithRow(u, lot)
    BY <1>5 DEF Insert, Keeps
  <2> HIDE DEF u
  <2>3. lot \in Lots \cup {NoLot}
    BY <2>1, <2>2, Arrivals, MeantTypes DEF References
  <2>4. /\ Len(rows'[u]) = Len(rows[u]) + 1
        /\ \A v \in Uids \ {u} : rows'[v] = rows[v]
    <3>1. rows \in [Uids -> Seq(Lots \cup {NoLot})]
      BY DEF IngestTypeOK
    <3>2. Len(Append(rows[u], lot)) = Len(rows[u]) + 1
      BY <2>1, <2>3, <3>1
    <3> QED
      BY <2>1, <2>2, <3>1, <3>2 DEF WithRow
  <2>5. Fetched'
    BY <1>0, <2>1 DEF Fetched
  <2>6. ASSUME NEW v \in Uids
        PROVE  /\ v \notin seen' => Len(rows'[v]) <= offers'[v]
               /\ Len(rows'[v]) + Cardinality(Pending(v)') <= Cardinality(Pollers) + offers'[v]
    <3>1. /\ IsFiniteSet(Pending(v)) /\ Cardinality(Pending(v)) \in Nat
          /\ Cardinality(Pollers) \in Nat
      BY PendingIsFinite
    <3>2. CASE v = u
      <4>1. p \in Pending(v) /\ Pending(v)' = Pending(v) \ {p}
        BY <1>0, <2>1, <3>2 DEF Pending, u
      <4>2. Cardinality(Pending(v)') = Cardinality(Pending(v)) - 1
        BY <3>1, <4>1, FS_RemoveElement
      <4> QED
        BY <1>0, <2>1, <2>4, <3>1, <3>2, <4>2 DEF Bounded
    <3>3. CASE v # u
      <4>1. Pending(v)' = Pending(v)
        BY <1>0, <2>1, <3>3 DEF Pending, u
      <4> QED
        BY <1>0, <2>1, <2>4, <3>3, <4>1 DEF Bounded
    <3> QED
      BY <3>2, <3>3
  <2> QED
    BY <2>5, <2>6 DEF Bounded
<1>6. ASSUME NEW p \in Pollers, InsertRefused(p) \/ Accident(p) \/ Flag(p) \/ Logout(p)
      PROVE  Fetched' /\ Bounded'
  <2>1. /\ seen \subseteq seen' /\ UNCHANGED <<rows, offers>>
        /\ \E where \in {"idle", "loop"} : pc' = [pc EXCEPT ![p] = where]
        /\ uids' = uids \/ uids' = [uids EXCEPT ![p] = {}]
        /\ at' = at \/ at' = [at EXCEPT ![p] = 0]
    BY <1>6 DEF InsertRefused, Accident, Abort, Flag, Logout
  <2>2. /\ pc'[p] # "insert" /\ uids'[p] \subseteq uids[p]
        /\ \A q \in Pollers \ {p} : pc'[q] = pc[q] /\ uids'[q] = uids[q] /\ at'[q] = at[q]
    BY <1>0, <2>1
  <2>3. Fetched'
    BY <2>1, <2>2 DEF Fetched
  <2>4. \A v \in Uids : Pending(v)' \subseteq Pending(v)
    BY <2>2 DEF Pending
  <2>5. \A v \in Uids : Len(rows'[v]) + offers[v] <= Len(rows[v]) + offers'[v]
    BY <1>0, <2>1
  <2> QED
    BY <1>0, <2>1, <2>3, <2>4, <2>5, BoundKept
<1> QED
  BY <1>1, <1>2, <1>3, <1>4, <1>5, <1>6 DEF IngestNext, Poll

\* Overlapping pollers store a mail at most once each, and the webhook once per
\* post, for any number of pollers, mails, posts and lost connections.
THEOREM MailStoredBoundedly == IngestSpec => []RowsBounded
<1>1. IngestInit => BoundInv
  <2> SUFFICES ASSUME IngestInit PROVE BoundInv
    OBVIOUS
  <2>1. Fetched
    BY DEF IngestInit, Fetched
  <2>2. ASSUME NEW u \in Uids
        PROVE  /\ u \notin seen => Len(rows[u]) <= offers[u]
               /\ Len(rows[u]) + Cardinality(Pending(u)) <= Cardinality(Pollers) + offers[u]
    <3>1. Len(rows[u]) = 0 /\ offers[u] = 0
      BY DEF IngestInit
    <3> QED
      BY <3>1, PendingIsFinite
  <2> QED
    BY <2>1, <2>2, TypeInit DEF BoundInv, Bounded
<1>2. BoundInv /\ [IngestNext]_ingestVars => BoundInv'
  BY BoundStep, TypeStep DEF BoundInv
<1>3. BoundInv => RowsBounded
  <2> SUFFICES ASSUME BoundInv, NEW u \in Uids
               PROVE  Len(rows[u]) <= Cardinality(Pollers) + offers[u]
    BY DEF RowsBounded
  <2>1. Len(rows[u]) \in Nat /\ offers[u] \in Nat
    BY BoundsAssumption DEF BoundInv, IngestTypeOK
  <2> QED
    BY <2>1, PendingIsFinite DEF BoundInv, Bounded
<1> QED
  BY <1>1, <1>2, <1>3, PTL DEF IngestSpec

=============================================================================
