------------------------------ MODULE Catalogue -------------------------------
(***************************************************************************)
(* What an API process does before it serves: it seeds the reference items,*)
(* the suppliers and the purchases, and indexes items and suppliers in     *)
(* Qdrant, or in its own memory while Qdrant does not answer (lifespan of  *)
(* api/main.py, db/seed.py, vector/), and what the planner's search then   *)
(* finds (agents/tools/nsi_search.py).                                     *)
(*                                                                         *)
(* A start is one process from its lifespan on; several run at once, one   *)
(* uvicorn worker each, and a restart is a new start.  Every read and      *)
(* every commit is one step.  A row is known by the start that added it.   *)
(***************************************************************************)
EXTENDS Naturals, FiniteSets

CONSTANTS
    MaxStarts,     \* bound: processes started
    MaxAtOnce,     \* bound: of them starting at one time
    Items,         \* bound: lines of nsi_sample.csv, 1..Items
    MaxAccidents,  \* bound: times Qdrant goes or comes back, errors of the database
    None

ASSUME CatalogueAssumption ==
    /\ MaxStarts \in Nat /\ MaxAtOnce \in Nat /\ Items \in Nat \ {0} /\ MaxAccidents \in Nat

VARIABLES
    start,      \* each start: where it is, and its locals
    customers,  \* rows named "SIBUR Demo", each by its start
    items,      \* rows of nsi_items
    suppliers,  \* the supplier of the file, by the start that added it
    purchases,  \* starts that added the purchases
    qdrant,     \* points of each collection, or None: not created
    answers,    \* Qdrant answers
    memory,     \* _inmem of each start
    settled,    \* the catalogue was complete, and nobody seeding, when the
                \* start began (history)
    accidents

dbVars == <<customers, items, suppliers, purchases>>
indexVars == <<qdrant, answers, memory>>
history == <<settled, accidents>>
catalogueVars == <<start, dbVars, indexVars, history>>

Starts == 1..MaxStarts
Collections == {"nsi", "suppliers"}
Item == [by : Starts, cust : Starts, line : 1..Items]
Supplier == [by : Starts]
Points == SUBSET (Item \cup Supplier)

ASSUME NoneIsNoPoints == \A s \in Points : s # None

Seeding == {"customer", "newCustomer", "items", "suppliers", "addSuppliers", "purchases"}
Indexing == {"ensure", "create", "list", "upsert"}
Starting == Seeding \cup Indexing

\* The customer it seeds for, the line it looks up next, the lines it found
\* missing; the collection it fills, those it found absent, the rows it read.
Start ==
    [at : Starting \cup {"off", "serving"},
     cust : Starts \cup {None}, next : 1..Items + 1, missing : SUBSET (1..Items),
     coll : Collections, absent : SUBSET Collections, found : Points]

Idle(at) ==
    [at |-> at, cust |-> None, next |-> 1, missing |-> {},
     coll |-> "nsi", absent |-> {}, found |-> {}]

CatalogueTypeOK ==
    /\ start \in [Starts -> Start]
    /\ customers \subseteq Starts
    /\ items \subseteq Item
    /\ suppliers \subseteq Supplier
    /\ purchases \subseteq Starts
    /\ qdrant \in [Collections -> Points \cup {None}]
    /\ answers \in BOOLEAN
    /\ memory \in [Starts -> [Collections -> Points]]
    /\ settled \in [Starts -> BOOLEAN]
    /\ accidents \in 0..MaxAccidents

CatalogueInit ==
    /\ start = [r \in Starts |-> Idle("off")]
    /\ customers = {}
    /\ items = {}
    /\ suppliers = {}
    /\ purchases = {}
    /\ qdrant = [c \in Collections |-> None]
    /\ answers \in BOOLEAN
    /\ memory = [r \in Starts |-> [c \in Collections |-> {}]]
    /\ settled = [r \in Starts |-> FALSE]
    /\ accidents = 0

-----------------------------------------------------------------------------
(***************************************************************************)
(* seed_all.                                                               *)
(***************************************************************************)
At(r, from) == start[r].at = from

Becomes(r, s) == start' = [start EXCEPT ![r] = s]

Goes(r, from, to) == At(r, from) /\ Becomes(r, [start[r] EXCEPT !.at = to])

\* lifespan goes on without seeds and index.
AfterError(r) == Idle("serving")

Complete ==
    /\ customers # {}
    /\ \A c \in customers, k \in 1..Items : \E x \in items : x.cust = c /\ x.line = k

Begin(r) ==
    /\ \A q \in 1..r - 1 : ~At(q, "off")
    /\ Cardinality({q \in Starts : start[q].at \in Starting}) < MaxAtOnce
    /\ Goes(r, "off", "customer")
    /\ settled' = [settled EXCEPT ![r] =
                      Complete /\ \A q \in Starts : start[q].at \notin Seeding]
    /\ UNCHANGED <<dbVars, indexVars, accidents>>

\* Any of the rows with the name.
FindCustomer(r) ==
    /\ \/ \E c \in customers :
             /\ At(r, "customer")
             /\ Becomes(r, [start[r] EXCEPT !.at = "items", !.cust = c])
       \/ customers = {} /\ Goes(r, "customer", "newCustomer")
    /\ UNCHANGED <<dbVars, indexVars, history>>

AddCustomer(r) ==
    /\ At(r, "newCustomer")
    /\ Becomes(r, [start[r] EXCEPT !.at = "items", !.cust = r])
    /\ customers' = customers \cup {r}
    /\ UNCHANGED <<items, suppliers, purchases, indexVars, history>>

\* Mutant: the line is looked up among all rows this start added.
StoredOwn(r, k) == \E x \in items : x.by = r /\ x.line = k

\* The customer has the line already.
Stored(r, k) == \E x \in items : x.cust = start[r].cust /\ x.line = k

LookUpItem(r) ==
    LET k == start[r].next
    IN  /\ At(r, "items") /\ k <= Items
        /\ Becomes(r, [start[r] EXCEPT !.next = k + 1,
                                       !.missing = IF Stored(r, k) THEN @ ELSE @ \cup {k}])
        /\ UNCHANGED <<dbVars, indexVars, history>>

CommitItems(r) ==
    /\ start[r].next > Items
    /\ At(r, "items")
    /\ Becomes(r, Idle("suppliers"))
    /\ items' = items \cup [by : {r}, cust : {start[r].cust}, line : start[r].missing]
    /\ UNCHANGED <<customers, suppliers, purchases, indexVars, history>>

LookUpSuppliers(r) ==
    /\ Goes(r, "suppliers", IF suppliers = {} THEN "addSuppliers" ELSE "purchases")
    /\ UNCHANGED <<dbVars, indexVars, history>>

\* suppliers.inn is unique: the second of two commits raises.
AddSuppliers(r) ==
    /\ At(r, "addSuppliers")
    /\ IF suppliers = {}
       THEN Becomes(r, Idle("purchases")) /\ suppliers' = {[by |-> r]}
       ELSE Becomes(r, AfterError(r)) /\ UNCHANGED suppliers
    /\ UNCHANGED <<customers, items, purchases, indexVars, history>>

\* Nothing is looked up: every start adds the whole file.
AddPurchases(r) ==
    /\ Goes(r, "purchases", "ensure")
    /\ purchases' = purchases \cup {r}
    /\ UNCHANGED <<customers, items, suppliers, indexVars, history>>

-----------------------------------------------------------------------------
(***************************************************************************)
(* reindex_nsi, then reindex_suppliers.  Each call asks anew whether Qdrant*)
(* answers.                                                                *)
(***************************************************************************)
Missing == {c \in Collections : answers /\ qdrant[c] = None}

EnsureCollections(r) ==
    /\ At(r, "ensure")
    /\ Becomes(r, [start[r] EXCEPT !.absent = Missing,
                                   !.at = IF Missing = {} THEN "list" ELSE "create"])
    /\ UNCHANGED <<dbVars, indexVars, history>>

\* The items' collection first.  It is an error if the collection is there by
\* now, or Qdrant is not.
CreateCollection(r) ==
    LET c == IF "nsi" \in start[r].absent THEN "nsi" ELSE "suppliers"
        left == start[r].absent \ {c}
    IN  /\ At(r, "create")
        /\ IF answers /\ qdrant[c] = None
           THEN /\ Becomes(r, [start[r] EXCEPT !.absent = left,
                                               !.at = IF left = {} THEN "list" ELSE @])
                /\ qdrant' = [qdrant EXCEPT ![c] = {}]
           ELSE Becomes(r, AfterError(r)) /\ UNCHANGED qdrant
        /\ UNCHANGED <<dbVars, answers, memory, history>>

\* The suppliers come after the items.
AfterIndex(r) ==
    IF start[r].coll = "nsi" THEN [Idle("ensure") EXCEPT !.coll = "suppliers"]
    ELSE Idle("serving")

\* Every row of the table, whoever added it.
AllRows(c) == IF c = "nsi" THEN items ELSE suppliers

\* Mutant: a start indexes what it added.
RowsAdded(r) == {x \in AllRows(start[r].coll) : x.by = r}

Rows(r) == AllRows(start[r].coll)

ListRows(r) ==
    /\ At(r, "list")
    /\ Becomes(r, IF Rows(r) = {} THEN AfterIndex(r)
                  ELSE [start[r] EXCEPT !.at = "upsert", !.found = Rows(r)])
    /\ UNCHANGED <<dbVars, indexVars, history>>

\* Points with known ids are replaced.
UpsertPoints(r) ==
    LET c == start[r].coll
    IN  /\ At(r, "upsert")
        /\ \/ /\ answers /\ qdrant[c] # None
              /\ Becomes(r, AfterIndex(r))
              /\ qdrant' = [qdrant EXCEPT ![c] = @ \cup start[r].found]
              /\ UNCHANGED memory
           \/ /\ answers /\ qdrant[c] = None
              /\ Becomes(r, AfterError(r))
              /\ UNCHANGED <<qdrant, memory>>
           \/ /\ ~answers
              /\ Becomes(r, AfterIndex(r))
              /\ memory' = [memory EXCEPT ![r][c] = @ \cup start[r].found]
              /\ UNCHANGED qdrant
        /\ UNCHANGED <<dbVars, answers, history>>

-----------------------------------------------------------------------------
Accident == accidents < MaxAccidents /\ accidents' = accidents + 1

\* Any await of the start may raise.
Fails(r) ==
    /\ Accident
    /\ start[r].at \in Starting
    /\ Becomes(r, AfterError(r))
    /\ UNCHANGED <<dbVars, indexVars, settled>>

Flip ==
    /\ Accident
    /\ answers' = ~answers
    /\ UNCHANGED <<start, dbVars, qdrant, memory, settled>>

Advance(r) ==
    \/ FindCustomer(r)
    \/ AddCustomer(r)
    \/ LookUpItem(r)
    \/ CommitItems(r)
    \/ LookUpSuppliers(r)
    \/ AddSuppliers(r)
    \/ AddPurchases(r)
    \/ EnsureCollections(r)
    \/ CreateCollection(r)
    \/ ListRows(r)
    \/ UpsertPoints(r)

CatalogueNext ==
    \/ \E r \in Starts : Begin(r) \/ Advance(r) \/ Fails(r)
    \/ Flip

CatalogueSpec == CatalogueInit /\ [][CatalogueNext]_catalogueVars

-----------------------------------------------------------------------------
(***************************************************************************)
(* search and nsi_search: None when Qdrant raises for want of a collection.*)
(***************************************************************************)
Scrolled(r, c) == IF answers THEN qdrant[c] ELSE memory[r][c]

\* The tenant's own items, or everybody's when it has none.
NsiSearch(r, c) ==
    LET all == Scrolled(r, "nsi")
        own == {x \in all : x.cust = c}
    IN  IF all = None THEN None ELSE IF own = {} THEN all ELSE own

-----------------------------------------------------------------------------
(***************************************************************************)
(* What must hold.                                                         *)
(***************************************************************************)
\* A restart that finds the catalogue complete and nobody seeding adds no
\* customer and no item, whatever starts beside it later.  (Purchases it adds
\* again: seed.py:95-122.)
RestartAddsNothing ==
    \A r \in Starts : settled[r] =>
        /\ r \notin customers
        /\ \A x \in items : x.by # r

\* "So that the planner can match items" (main.py): while nothing fails, the
\* losers of the races skip their index, and yet every process finds the items
\* of every customer once all have started.
PlannerCanMatch ==
    accidents = 0 /\ answers /\ Complete /\ (\A r \in Starts : start[r].at \notin Starting)
        => \A r \in Starts, c \in customers :
              At(r, "serving") => NsiSearch(r, c) # None /\ \E x \in NsiSearch(r, c) : x.cust = c

=============================================================================
