------------------------------- MODULE LotPages -------------------------------
(***************************************************************************)
(* The table of lots as its readers see it: the page "Lots" of the browser *)
(* (frontend/src/pages/Lots.tsx) asks list_lots for one page at a time,    *)
(* while lots are created, imported and decided (api/routes/lots.py,       *)
(* LotRepo, the tenant of Principal in api/auth.py).                       *)
(*                                                                         *)
(* A lot is known by its place in the order of creation; created_at is     *)
(* taken to be different for each.  list_lots counts and reads in two      *)
(* queries, each of which sees what was committed before it.  The policies *)
(* of alembic/ are left out: the application creates its tables itself.    *)
(***************************************************************************)
EXTENDS Naturals, Sequences, SequencesExt, FiniteSets

CONSTANTS
    Readers,     \* users with the page open
    Customers,   \* tenants
    Statuses,    \* of lots; "draft" among them
    Filters,     \* statuses a reader may choose, Absent for all
    MaxQueries,  \* bound: requests for a page at one time
    MaxLots,     \* bound: lots
    MaxUpdates,  \* bound: changes of a status
    PageSize,    \* lots on a page
    Absent       \* None of the code

ASSUME PagesAssumption ==
    /\ "draft" \in Statuses
    /\ Absent \notin Customers \cup Statuses \cup Readers
    /\ Absent \in Filters /\ Filters \subseteq Statuses \cup {Absent}
    /\ {MaxLots, MaxUpdates, MaxQueries} \subseteq Nat
    /\ PageSize \in Nat \ {0}

VARIABLES
    table,     \* rows of lots
    updates,
    who,      \* customer of each reader's principal, or Absent: sees everything
    page,     \* page and filter each reader has chosen ...
    filter,
    view,     \* ... and what the last answer said
    query,    \* the requests
    walk      \* each reader's way from page 1 on (history)

tableVars == <<table, updates>>
pagesVars == <<tableVars, who, page, filter, view, query, walk>>

Ids == 1..MaxLots
Queries == 1..MaxQueries
Numbers == 1..MaxLots + 1
TableRow == [customer : Customers, status : Statuses]
View == [ids : Seq(Ids), total : 0..MaxLots, pages : Numbers]

\* Which page of what it asks; the number it counted, the lots it read.
Query == [at : {"unused", "count", "list", "answer"}, by : Readers \cup {Absent},
          page : Numbers, filter : Filters, total : 0..MaxLots, ids : Seq(Ids)]

\* The lots the pages showed one after the other; those there at its start;
\* whether the table stood still; whether one came between count and list;
\* whether each page was asked for after the one before had been shown.
Walk == [shown : Seq(Ids), before : SUBSET Ids, still : BOOLEAN, slipped : BOOLEAN,
         orderly : BOOLEAN]

PagesTypeOK ==
    /\ table \in Seq(TableRow) /\ Len(table) <= MaxLots
    /\ updates \in 0..MaxUpdates
    /\ who \in [Readers -> Customers \cup {Absent}]
    /\ page \in [Readers -> Numbers]
    /\ filter \in [Readers -> Filters]
    /\ view \in [Readers -> View]
    /\ query \in [Queries -> Query]
    /\ walk \in [Readers -> Walk]

-----------------------------------------------------------------------------
(***************************************************************************)
(* What a principal sees.                                                  *)
(***************************************************************************)
\* The WHERE of LotRepo.count and LotRepo.list: filter_customer_id, status.
Matches(r, f, x) ==
    /\ who[r] = Absent \/ table[x].customer = who[r]
    /\ f = Absent \/ table[x].status = f

Matching(r, f) == {x \in DOMAIN table : Matches(r, f, x)}

Newer(r, f, x) == {y \in Matching(r, f) : y > x}

\* ORDER BY created_at DESC: before a lot come those that are newer.
NewestFirst(r, f) ==
    [i \in 1..Cardinality(Matching(r, f)) |->
        CHOOSE x \in Matching(r, f) : Cardinality(Newer(r, f, x)) = i - 1]

\* (page - 1) * page_size
Offset(n) == (n - 1) * PageSize

\* LIMIT and OFFSET
Slice(s, n) ==
    LET from == Offset(n)
    IN  SubSeq(s, from + 1, IF from + PageSize < Len(s) THEN from + PageSize ELSE Len(s))

\* Mutant: a last page that is not full is not counted.
PagesFull(total) == IF total < PageSize THEN 1 ELSE total \div PageSize

\* (total + page_size - 1) // page_size
PagesOf(total) == IF total = 0 THEN 1 ELSE (total + PageSize - 1) \div PageSize

\* _check_lot_access of get_lot, approve_lot and export_report_xlsx.
Accessible(r, x) == who[r] = Absent \/ table[x].customer = who[r]

-----------------------------------------------------------------------------
(***************************************************************************)
(* The table.                                                             *)
(***************************************************************************)
\* A walk that is over, or has not begun.
NoWalk == [shown |-> <<>>, before |-> {}, still |-> FALSE, slipped |-> FALSE, orderly |-> FALSE]

Unsettled == [r \in Readers |-> [walk[r] EXCEPT !.still = FALSE]]

Added(customer) ==
    /\ Len(table) < MaxLots
    /\ table' = Append(table, [customer |-> customer, status |-> "draft"])
    /\ walk' = Unsettled
    /\ UNCHANGED <<updates, who, page, filter, view, query>>

\* Mutant: the customer_name of the request decides.
CustomerNamed(r, named) == named

\* A user with a customer creates for it, whatever the request names; an admin
\* creates for the customer named, his own being one of them.
CustomerFor(r, named) == IF who[r] # Absent THEN who[r] ELSE named

NewLot(r, named) == Added(CustomerFor(r, named))

\* import_excel knows no principal: a file with a row below the heading makes
\* a lot of the customer named; one too large, broken or empty leaves nothing.
ImportExcel(named) == Added(named)

\* LotRepo.update_status by a run, a decision or the webhook.
UpdateStatus(x, status) ==
    /\ updates < MaxUpdates
    /\ updates' = updates + 1
    /\ table[x].status # status
    /\ table' = [table EXCEPT ![x].status = status]
    /\ walk' = Unsettled
    /\ UNCHANGED <<who, page, filter, view, query>>

-----------------------------------------------------------------------------
(***************************************************************************)
(* list_lots.                                                              *)
(***************************************************************************)
Count(q) ==
    /\ query[q].at = "count"
    /\ LET a == query[q]
       IN  query' = [query EXCEPT ![q] = [@ EXCEPT !.at = "list",
                                                   !.total = Cardinality(Matching(a.by, a.filter))]]
    /\ UNCHANGED <<tableVars, who, page, filter, view, walk>>

List(q) ==
    /\ query[q].at = "list"
    /\ LET a == query[q]
           found == NewestFirst(a.by, a.filter)
       IN  /\ query' = [query EXCEPT ![q] = [@ EXCEPT !.at = "answer", !.ids = Slice(found, a.page)]]
           /\ walk' = [walk EXCEPT ![a.by].slipped = @ \/ (walk[a.by].orderly /\ Len(found) > a.total)]
    /\ UNCHANGED <<tableVars, who, page, filter, view>>

-----------------------------------------------------------------------------
(***************************************************************************)
(* The page "Lots".                                                        *)
(***************************************************************************)
Unused == [at |-> "unused", by |-> Absent, page |-> 1, filter |-> Absent, total |-> 0, ids |-> <<>>]

Pending(r) == \E q \in Queries : query[q].by = r

\* useEffect([page, statusFilter]): nothing asked before is called off.
AskFor(r, n, f) ==
    /\ page' = [page EXCEPT ![r] = n]
    /\ filter' = [filter EXCEPT ![r] = f]
    /\ \E q \in Queries :
          /\ query[q].at = "unused"
          /\ \A p \in 1..q - 1 : query[p].at # "unused"
          /\ query' = [query EXCEPT ![q] = [Unused EXCEPT !.at = "count", !.by = r,
                                                          !.page = n, !.filter = f]]
    /\ UNCHANGED <<tableVars, who, view>>

\* The page is opened, or a status chosen: from page 1.
Choose(r, f) ==
    /\ AskFor(r, 1, f)
    /\ walk' = [walk EXCEPT ![r] =
                    IF Pending(r) THEN NoWalk
                    ELSE [NoWalk EXCEPT !.before = Matching(r, f), !.still = TRUE,
                                        !.orderly = TRUE]]

Forward(r) ==
    /\ page[r] < view[r].pages
    /\ AskFor(r, page[r] + 1, filter[r])
    /\ walk' = [walk EXCEPT ![r] = IF Pending(r) THEN NoWalk ELSE @]

Back(r) ==
    /\ page[r] > 1
    /\ AskFor(r, page[r] - 1, filter[r])
    /\ walk' = [walk EXCEPT ![r] = NoWalk]

\* setLots, setTotal, setPages: whichever answer comes last stays.
Show(q) ==
    /\ query[q].at = "answer"
    /\ LET a == query[q]
       IN  /\ view' = [view EXCEPT ![a.by] = [ids |-> a.ids, total |-> a.total,
                                              pages |-> PagesOf(a.total)]]
           /\ walk' = [walk EXCEPT ![a.by].shown = IF walk[a.by].orderly THEN @ \o a.ids ELSE @]
    /\ query' = [query EXCEPT ![q] = Unused]
    /\ UNCHANGED <<tableVars, who, page, filter>>

\* .catch(() => {}): the page before stays in view.
NoAnswer(q) ==
    /\ query[q].at \in {"count", "list", "answer"}
    /\ query' = [query EXCEPT ![q] = Unused]
    /\ walk' = [walk EXCEPT ![query[q].by] = NoWalk]
    /\ UNCHANGED <<tableVars, who, page, filter, view>>

-----------------------------------------------------------------------------
PagesInit ==
    /\ table = <<>>
    /\ updates = 0
    /\ who \in [Readers -> Customers \cup {Absent}]
    /\ page = [r \in Readers |-> 1]
    /\ filter = [r \in Readers |-> Absent]
    /\ view = [r \in Readers |-> [ids |-> <<>>, total |-> 0, pages |-> 1]]
    /\ query = [q \in Queries |-> Unused]
    /\ walk = [r \in Readers |-> NoWalk]

PagesNext ==
    \/ \E r \in Readers, c \in Customers : NewLot(r, c)
    \/ \E c \in Customers : ImportExcel(c)
    \/ \E x \in DOMAIN table, s \in Statuses : UpdateStatus(x, s)
    \/ \E q \in Queries : Count(q) \/ List(q) \/ Show(q) \/ NoAnswer(q)
    \/ \E r \in Readers, f \in Filters : Choose(r, f)
    \/ \E r \in Readers : Forward(r) \/ Back(r)

PagesSpec == PagesInit /\ [][PagesNext]_pagesVars

-----------------------------------------------------------------------------
(***************************************************************************)
(* What must hold.                                                         *)
(***************************************************************************)
\* The reader has gone on from page 1 as far as the last answer let him.
Walked(r) == walk[r].orderly /\ ~Pending(r) /\ page[r] >= view[r].pages

\* Who goes through the pages of a table that stands still sees every lot of
\* the filter once, the newest first, and as many as the page announces.  Who
\* goes through all statuses while lots are created misses none that was there
\* when he began, though he may see one twice: unless one was created between
\* the count and the list of the same request, which can leave off a page.
WalkShowsAll ==
    \A r \in Readers : Walked(r) =>
        /\ walk[r].still => /\ walk[r].shown = NewestFirst(r, filter[r])
                            /\ view[r].total = Len(walk[r].shown)
        /\ filter[r] = Absent /\ ~walk[r].slipped => walk[r].before \subseteq ToSet(walk[r].shown)

\* Creating, listing and opening a lot agree on whose it is: a reader may open
\* every lot his table shows, and will find every lot he creates in it, whatever
\* customer his request names (api/auth.py:48-56, lots.py:56-63, lots.py:119-126).
TenantsAgree ==
    [][\A r \in Readers :
          /\ (\E named \in Customers : NewLot(r, named)) =>
                Matches(r, Absent, Len(table))' /\ Accessible(r, Len(table))'
          /\ \A x \in ToSet(view'[r].ids) : Accessible(r, x)']_pagesVars

=============================================================================
