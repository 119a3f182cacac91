---------------------------- MODULE LotLifecycle ----------------------------
(***************************************************************************)
(* The life of a lot as the code leads it: it moves forward along one      *)
(* chain of statuses, a lot the planner hands to a human moves no further  *)
(* on its own, and the decision comes last, over a report that is there.   *)
(* LotPipeline with one undisturbed run implements it.                     *)
(*                                                                         *)
(* The documents (docs/architecture.md:47-55, METHODOLOGY.md 6.4) draw it  *)
(* otherwise.  Their chain is DocumentedChain, without the shortcuts; and  *)
(* they escalate on a verifier's low confidence, a regulatory violation    *)
(* and a budget exceeded by 15%, where the code only ever lets the planner *)
(* hand a lot over.                                                        *)
(***************************************************************************)

VARIABLES
    stage,      \* the lot's status
    flagged,    \* a human was asked for
    reported    \* the report is in the row

lifecycleVars == <<stage, flagged, reported>>

\* The chain of docs/architecture.md:47-50, up to the decision.
DocumentedChain ==
    {<<"draft", "planned">>, <<"planned", "sourcing">>, <<"sourcing", "rfq_sent">>,
     <<"rfq_sent", "responses_collected">>, <<"responses_collected", "negotiating">>,
     <<"negotiating", "verified">>, <<"verified", "report_ready">>}

\* What the code saves beside it: the communicator has the answers before
\* anything is saved (demo mode), the negotiator does not wait for them
\* (production), or the regulatory filter keeps it from bargaining.
Shortcuts ==
    {<<"sourcing", "responses_collected">>, <<"rfq_sent", "negotiating">>,
     <<"responses_collected", "verified">>}

\* The links of a run: no run saves both rfq_sent and responses_collected.
Chain == (DocumentedChain \cup Shortcuts) \ {<<"rfq_sent", "responses_collected">>}

LifecycleInit ==
    /\ stage = "absent"
    /\ flagged = FALSE
    /\ reported = FALSE

Open ==
    /\ stage = "absent"
    /\ stage' = "draft"
    /\ UNCHANGED <<flagged, reported>>

Advance ==
    /\ ~ flagged
    /\ <<stage, stage'>> \in Chain
    /\ UNCHANGED <<flagged, reported>>

\* The planner, and nobody after it, hands the lot to a human.
HandOver ==
    /\ stage = "draft"
    /\ stage' \in {"planned", "escalated"}
    /\ flagged' = TRUE
    /\ UNCHANGED reported

Publish ==
    /\ stage = "report_ready"
    /\ reported' = TRUE
    /\ UNCHANGED <<stage, flagged>>

Decide ==
    /\ stage = "report_ready"
    /\ reported
    /\ stage' \in {"approved", "rejected"}
    /\ UNCHANGED <<flagged, reported>>

LifecycleNext == Open \/ Advance \/ HandOver \/ Publish \/ Decide

LifecycleSpec == LifecycleInit /\ [][LifecycleNext]_lifecycleVars
=============================================================================
