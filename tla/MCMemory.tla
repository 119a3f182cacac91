---------------------------- MODULE MCMemory --------------------------------
(***************************************************************************)
(* For TLC: what a process of the API and a tab of the browser keep in     *)
(* memory.  Catalogue, LlmRouter, CircuitBreaker, BrowserSession and       *)
(* LotPages share no state, so each moves while the others rest.           *)
(***************************************************************************)
EXTENDS Catalogue, LlmRouter, CircuitBreaker, BrowserSession, LotPages

CONSTANTS t1, t2

VARIABLE which

Found(k, t) == [kind |-> k, text |-> t]

\* One number; two addresses.
SomePrompts == {<<Found("INN", t1)>>, <<Found("EMAIL", t1), Found("EMAIL", t2)>>}

memoryVars == <<catalogueVars, vars, breakerVars, sessionVars, pagesVars, which>>

\* What does not move starts one way; of two customers, any stands for both.
MemoryInit ==
    /\ CatalogueInit
    /\ Init
    /\ BreakerInit
    /\ SessionInit
    /\ PagesInit
    /\ which \in {"catalogue", "router", "breaker", "tab", "table"}
    /\ which # "catalogue" => answers
    /\ which # "router" => (\A r \in Roles : conf[r] = "fake") /\ installed = Providers
    /\ which # "tab" => dev
    /\ \A r \in Readers : who[r] \in IF which = "table" THEN {Absent, "acme"} ELSE {Absent}

Moves(w, A) == which = w /\ A /\ UNCHANGED which

MemoryNext ==
    \/ Moves("catalogue", CatalogueNext) /\ UNCHANGED <<vars, breakerVars, sessionVars, pagesVars>>
    \/ Moves("router", Next) /\ UNCHANGED <<catalogueVars, breakerVars, sessionVars, pagesVars>>
    \/ Moves("breaker", BreakerNext) /\ UNCHANGED <<catalogueVars, vars, sessionVars, pagesVars>>
    \/ Moves("tab", SessionNext) /\ UNCHANGED <<catalogueVars, vars, breakerVars, pagesVars>>
    \/ Moves("table", PagesNext) /\ UNCHANGED <<catalogueVars, vars, breakerVars, sessionVars>>

MemorySpec == MemoryInit /\ [][MemoryNext]_memoryVars

=============================================================================
