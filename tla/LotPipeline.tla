----------------------------- MODULE LotPipeline -----------------------------
(***************************************************************************)
(* One procurement lot and everything that writes to it: the agent graph   *)
(* planner -> sourcer -> communicator -> negotiator -> verifier ->         *)
(* reporter (agents/), the helper that saves the state after every node    *)
(* (agents/graph.py), and the HTTP handlers that create, approve and       *)
(* reject the lot (api/routes/lots.py).                                    *)
(*                                                                         *)
(* A run is one execution of run_lot for this lot: the API's background    *)
(* task, a Celery delivery or retry, or scripts/replay_lot.py.  Nothing in *)
(* the code keeps two runs of a lot apart, so the runs interleave at       *)
(* every commit, every e-mail and every LLM answer.  A run keeps its       *)
(* LotState in memory (mem); only rows survive it.  Lots share nothing     *)
(* here, so one lot is modelled.                                           *)
(***************************************************************************)
EXTENDS Naturals, FiniteSets

CONSTANTS
    Runs,               \* executions of run_lot, each started at most once
    Suppliers,          \* suppliers the sourcer may return
    Categories,         \* categories the planner's LLM may answer
    AllowedCategories,  \* settings.regulatory_allowed_categories
    Totals,             \* estimated totals of a lot
    MaxUnregulated,     \* settings.regulatory_max_unregulated_amount_rub
    BuyerLimit,         \* approval_limit_rub of the buyer
    ResponsePercent,    \* share of the suppliers that answer in DEMO_MODE, 66
    DemoModes,          \* values settings.demo_mode may have
    None                \* Python's None

ASSUME TotalsAssumption == /\ Totals \subseteq Nat
                           /\ MaxUnregulated \in Nat
                           /\ BuyerLimit \in Nat
                           /\ ResponsePercent \in 0..100
ASSUME DemoModesAssumption == DemoModes \subseteq BOOLEAN
ASSUME NoneAssumption == /\ None \notin Runs \cup Suppliers \cup Categories
                         /\ None \notin Nat
                         /\ None \notin [by : Runs, top : SUBSET Suppliers]

VARIABLES
    demo,       \* settings.demo_mode, read when the processes start
    lot,        \* the row of table lots
    cleared,    \* a buyer's approval passed the limit check, not yet written
    pc,         \* where each run stands
    mem,        \* each run's LotState
    mail,       \* <<run, supplier>>: an RFQ left for the supplier
    rfqRows,    \* table rfq_emails: <<run, supplier, direction>>
    negRows,    \* table negotiations: <<run, supplier>>
    verRows,    \* table verifications: <<run, supplier>>
    audit,      \* table audit_log: <<run, step_name, supplier or None>>
    notified    \* runs that called notify_escalation

\* The run in a row is history: the tables hold the lot's id only.
rows == <<mail, rfqRows, negRows, verRows, audit>>
vars == <<demo, lot, cleared, pc, mem, rows, notified>>

Phases == {"pre_nmck", "post_tender_published", "unregulated"}

LotStatus ==
    {"draft", "planned", "sourcing", "rfq_sent", "responses_collected",
     "negotiating", "verified", "report_ready", "approved", "rejected",
     "escalated"}

Reports == [by : Runs, top : SUBSET Suppliers]

\* Points of a run at which another process may act.
PC ==
    {"idle", "planner", "notify", "sourcer", "communicator", "recordRfq",
     "collect", "negotiator", "bargain", "auditRound", "verifier",
     "auditCheck", "reporter", "persist", "finalize", "setReport",
     "finished", "stopped"}

Nodes == {"planner", "sourcer", "communicator", "negotiator", "verifier", "reporter"}

Steps ==
    {"no_candidates", "map_to_nsi", "rank_suppliers", "send_rfq",
     "collect_responses", "regulatory_block", "skip_competitive",
     "llm_no_discount", "llm_round_1", "round_summary", "check_offer",
     "build_report"}

\* The columns some property tells apart; chosen_supplier_id, closed_at,
\* parsed_items and escalation_reason are written beside them and left out.
LotRow ==
    [status : LotStatus \cup {"absent"}, phase : Phases, human : BOOLEAN,
     category : Categories \cup {None}, total : Totals \cup {0, None},
     report : Reports \cup {None}]

\* What a run holds: LotState (agents/state.py), the node that returned last,
\* and the loop in progress (suppliers left, the one at work, failed sends).
LotState ==
    [status : LotStatus, node : Nodes \cup {None}, human : BOOLEAN,
     category : Categories \cup {None}, total : Totals \cup {0, None},
     suppliers : SUBSET Suppliers, unsent : SUBSET Suppliers,
     responses : SUBSET Suppliers, rivals : SUBSET Suppliers,
     verified : SUBSET Suppliers, report : Reports \cup {None},
     todo : SUBSET Suppliers, cur : Suppliers \cup {None}]

DraftState ==
    [status |-> "draft", node |-> None, human |-> FALSE, category |-> None,
     total |-> None, suppliers |-> {}, unsent |-> {}, responses |-> {},
     rivals |-> {}, verified |-> {}, report |-> None, todo |-> {}, cur |-> None]

TypeOK ==
    /\ demo \in BOOLEAN
    /\ lot \in LotRow
    /\ cleared \in BOOLEAN
    /\ pc \in [Runs -> PC]
    /\ mem \in [Runs -> LotState]
    /\ mail \subseteq Runs \X Suppliers
    /\ rfqRows \subseteq Runs \X Suppliers \X {"out", "in"}
    /\ negRows \subseteq Runs \X Suppliers
    /\ verRows \subseteq Runs \X Suppliers
    /\ audit \subseteq Runs \X Steps \X (Suppliers \cup {None})
    /\ notified \subseteq Runs

Init ==
    /\ demo \in DemoModes
    /\ lot = [status |-> "absent", phase |-> "pre_nmck", human |-> FALSE,
              category |-> None, total |-> None, report |-> None]
    /\ cleared = FALSE
    /\ pc = [r \in Runs |-> "idle"]
    /\ mem = [r \in Runs |-> DraftState]
    /\ mail = {}
    /\ rfqRows = {}
    /\ negRows = {}
    /\ verRows = {}
    /\ audit = {}
    /\ notified = {}

-----------------------------------------------------------------------------
(***************************************************************************)
(* Helpers.                                                                *)
(***************************************************************************)
Active(r) == pc[r] \notin {"idle", "finished", "stopped"}

GoTo(r, l) == pc' = [pc EXCEPT ![r] = l]

\* write_audit: the row is committed before the call returns.
Audit(r, step, s) == audit' = audit \cup {<<r, step, s>>}

\* A node returns: the caller merges `status` and saves the lot next.
Return(r, node, status) ==
    /\ GoTo(r, "persist")
    /\ mem' = [mem EXCEPT ![r].node = node, ![r].status = status]

\* lot.get("total_estimated_rub") or 0
OrZero(t) == IF t = None THEN 0 ELSE t

\* The regulatory filter's check: may the agents bargain over this lot?
Allowed(phase, category, total) ==
    /\ phase # "post_tender_published"
    /\ category \in AllowedCategories
    /\ ~ (phase = "unregulated" /\ OrZero(total) > MaxUnregulated)

\* Mutant: the estimate does not reach the filter.
MayBargainAnySum(r) == Allowed(lot.phase, mem[r].category, None)

\* reg_check(state): the phase the run was started with, the planner's answers.
MayBargain(r) == Allowed(lot.phase, mem[r].category, mem[r].total)

\* max(1, int(n * 0.66)) of a list of n suppliers
Responding(n) ==
    LET share == (ResponsePercent * n) \div 100
    IN  IF n = 0 THEN 0 ELSE IF share = 0 THEN 1 ELSE share

TopRfq == 6
TopOffers == 3
SmallerOf(a, b) == IF a < b THEN a ELSE b

\* Mutant: the status is asked, which is "planned" when the LLM wants a human.
EscalateByStatus(m) == m.status = "escalated"

\* add_conditional_edges("planner", _should_escalate, ...)
ShouldEscalate(m) == m.human

\* Mutant: only a planner without candidates tells the operators.
AfterPlannerQuiet(human) == "persist"

\* The planner announces a lot it hands to a human before it returns.
AfterPlanner(human) == IF human THEN "notify" ELSE "persist"

\* Mutant: an edge from the negotiator to the reporter.
SuccessorUnverified(m) ==
    CASE m.node = "planner"      -> IF m.human THEN "finalize" ELSE "sourcer"
      [] m.node = "sourcer"      -> "communicator"
      [] m.node = "communicator" -> "negotiator"
      [] m.node = "negotiator"   -> "reporter"
      [] OTHER                   -> "finalize"

\* The edges of the graph: what runs after the node that returned last.
Successor(m) ==
    CASE m.node = "planner"      -> IF ShouldEscalate(m) THEN "finalize" ELSE "sourcer"
      [] m.node = "sourcer"      -> "communicator"
      [] m.node = "communicator" -> "negotiator"
      [] m.node = "negotiator"   -> "verifier"
      [] m.node = "verifier"     -> "reporter"
      [] OTHER                   -> "finalize"

\* The list the next node's loop goes over.
LoopList(m) ==
    CASE m.node = "sourcer"    -> m.suppliers
      [] m.node = "negotiator" -> m.responses
      [] OTHER                 -> {}

\* Mutant: the node's name for the status.
SavedLotByNode(m) == [lot EXCEPT !.status = m.node]

\* The UPDATE of _persist_status; a total the run does not know is left alone.
SavedLot(m) ==
    [lot EXCEPT !.status = m.status, !.human = m.human, !.category = m.category,
                !.total = IF m.total = None THEN @ ELSE m.total]

-----------------------------------------------------------------------------
(***************************************************************************)
(* HTTP handlers of lots.py.                                               *)
(***************************************************************************)

\* create_lot: the row is committed, then the background task is scheduled
\* with the phase and an in-memory state of its own.
CreateLot(r, phase, total) ==
    /\ lot.status = "absent"
    /\ pc[r] = "idle"
    /\ lot' = [lot EXCEPT !.status = "draft", !.phase = phase, !.total = total]
    /\ GoTo(r, "planner")
    /\ UNCHANGED <<demo, cleared, mem, rows, notified>>

Decided(verdict) == [lot EXCEPT !.status = verdict]

\* approve_lot by anyone without a limit: no look at the lot's status.
Approve ==
    /\ lot.status # "absent"
    /\ lot' = Decided("approved")
    /\ UNCHANGED <<demo, cleared, pc, mem, rows, notified>>

\* approve_lot by a buyer: the limit is compared with the lot read first ...
BuyerCheck ==
    /\ lot.status # "absent"
    /\ lot.total # None => lot.total <= BuyerLimit
    /\ ~ cleared
    /\ cleared' = TRUE
    /\ UNCHANGED <<demo, lot, pc, mem, rows, notified>>

\* ... and the approval is written later, over whatever the row holds then.
BuyerApprove ==
    /\ cleared
    /\ cleared' = FALSE
    /\ lot' = Decided("approved")
    /\ UNCHANGED <<demo, pc, mem, rows, notified>>

\* reject_lot: any status may be rejected.
Reject ==
    /\ lot.status # "absent"
    /\ lot' = Decided("rejected")
    /\ UNCHANGED <<demo, cleared, pc, mem, rows, notified>>

-----------------------------------------------------------------------------
(***************************************************************************)
(* Runs: start, the nodes in the order of the graph, and the end.          *)
(***************************************************************************)

\* _run of tasks/lot_pipeline.py and scripts/replay_lot.py: a fresh "draft"
\* state is built for any lot that exists, whatever its status is.
StartRun(r) ==
    /\ lot.status # "absent"
    /\ pc[r] = "idle"
    /\ GoTo(r, "planner")
    /\ UNCHANGED <<demo, lot, cleared, mem, rows, notified>>

\* planner_node, no phrase matched the catalogue: escalate without an LLM call.
PlannerNoCandidates(r) ==
    /\ pc[r] = "planner"
    /\ Audit(r, "no_candidates", None)
    /\ GoTo(r, "notify")
    /\ mem' = [mem EXCEPT ![r].node = "planner", ![r].status = "escalated",
                          ![r].human = TRUE]
    /\ UNCHANGED <<demo, lot, cleared, mail, rfqRows, negRows, verRows, notified>>

\* planner_node with the LLM's answer: category, total and whether a human is
\* needed are the model's choice; the total is a number, 0 when no price is known.
Planner(r, category, total, human) ==
    /\ pc[r] = "planner"
    /\ Audit(r, "map_to_nsi", None)
    /\ GoTo(r, AfterPlanner(human))
    /\ mem' = [mem EXCEPT ![r].node = "planner", ![r].status = "planned",
                          ![r].human = human, ![r].category = category,
                          ![r].total = total]
    /\ UNCHANGED <<demo, lot, cleared, mail, rfqRows, negRows, verRows, notified>>

\* notify_escalation never raises; the planner then returns.
Notify(r) ==
    /\ pc[r] = "notify"
    /\ notified' = notified \cup {r}
    /\ GoTo(r, "persist")
    /\ UNCHANGED <<demo, lot, cleared, mem, rows>>

\* sourcer_node: at most six suppliers, as ranked by the LLM.
Sourcer(r, S) ==
    /\ pc[r] = "sourcer"
    /\ Cardinality(S) <= TopRfq
    /\ Audit(r, "rank_suppliers", None)
    /\ GoTo(r, "persist")
    /\ mem' = [mem EXCEPT ![r].node = "sourcer", ![r].status = "sourcing",
                          ![r].suppliers = S]
    /\ UNCHANGED <<demo, lot, cleared, mail, rfqRows, negRows, verRows, notified>>

\* communicator_node: send_rfq_email returned, the message has left ...
SendRfq(r, s) ==
    /\ pc[r] = "communicator"
    /\ s \in mem[r].todo
    /\ mail' = mail \cup {<<r, s>>}
    /\ GoTo(r, "recordRfq")
    /\ mem' = [mem EXCEPT ![r].cur = s, ![r].todo = @ \ {s}]
    /\ UNCHANGED <<demo, lot, cleared, rfqRows, negRows, verRows, audit, notified>>

\* ... or it raised (the recipient's rate limit): an error record, no row.
SendRfqFails(r, s) ==
    /\ pc[r] = "communicator"
    /\ s \in mem[r].todo
    /\ mem' = [mem EXCEPT ![r].unsent = @ \cup {s}, ![r].todo = @ \ {s}]
    /\ UNCHANGED <<demo, lot, cleared, pc, rows, notified>>

\* RfqEmailRepo.create(direction="out") commits ...
RecordRfq(r) ==
    /\ pc[r] = "recordRfq"
    /\ rfqRows' = rfqRows \cup {<<r, mem[r].cur, "out">>}
    /\ GoTo(r, "communicator")
    /\ UNCHANGED <<demo, lot, cleared, mem, mail, negRows, verRows, audit, notified>>

\* ... or raises: the loop's except swallows it and the mail stays unrecorded.
RecordRfqFails(r) ==
    /\ pc[r] = "recordRfq"
    /\ GoTo(r, "communicator")
    /\ UNCHANGED <<demo, lot, cleared, mem, rows, notified>>

\* Mutant: production waits for an answer to reach the state.
SendDoneWaits(r) == FALSE

\* All sent, production: nobody has answered yet and the graph goes on.
SendDone(r) ==
    /\ pc[r] = "communicator"
    /\ mem[r].todo = {}
    /\ ~ demo
    /\ Audit(r, "send_rfq", None)
    /\ Return(r, "communicator", "rfq_sent")
    /\ UNCHANGED <<demo, lot, cleared, mail, rfqRows, negRows, verRows, notified>>

\* All sent, DEMO_MODE: a share of the list answers.
SendDoneDemo(r, S) ==
    /\ pc[r] = "communicator"
    /\ mem[r].todo = {}
    /\ demo
    /\ S \subseteq mem[r].suppliers
    /\ Cardinality(S) = Responding(Cardinality(mem[r].suppliers))
    /\ Audit(r, "send_rfq", None)
    /\ GoTo(r, "collect")
    /\ mem' = [mem EXCEPT ![r].responses = S, ![r].todo = S]
    /\ UNCHANGED <<demo, lot, cleared, mail, rfqRows, negRows, verRows, notified>>

\* A synthetic answer is stored as an incoming e-mail.
Collect(r, s) ==
    /\ pc[r] = "collect"
    /\ s \in mem[r].todo \ mem[r].unsent
    /\ rfqRows' = rfqRows \cup {<<r, s, "in">>}
    /\ mem' = [mem EXCEPT ![r].todo = @ \ {s}]
    /\ UNCHANGED <<demo, lot, cleared, pc, mail, negRows, verRows, audit, notified>>

\* Mutant: the failure is swallowed and the answer kept.
CollectSwallows(r, s) ==
    /\ pc[r] = "collect"
    /\ s \in mem[r].todo \cap mem[r].unsent
    /\ mem' = [mem EXCEPT ![r].todo = @ \ {s}]
    /\ UNCHANGED <<demo, lot, cleared, pc, rows, notified>>

\* r["message_id"] of an error record is a KeyError: the run dies here.
CollectKeyError(r, s) ==
    /\ pc[r] = "collect"
    /\ s \in mem[r].todo \cap mem[r].unsent
    /\ GoTo(r, "stopped")
    /\ UNCHANGED <<demo, lot, cleared, mem, rows, notified>>

CollectDone(r) ==
    /\ pc[r] = "collect"
    /\ mem[r].todo = {}
    /\ Audit(r, "collect_responses", None)
    /\ Return(r, "communicator", "responses_collected")
    /\ UNCHANGED <<demo, lot, cleared, mail, rfqRows, negRows, verRows, notified>>

\* negotiator_node without answers returns at once, unaudited.
NegotiateNothing(r) ==
    /\ pc[r] = "negotiator"
    /\ mem[r].responses = {}
    /\ Return(r, "negotiator", "negotiating")
    /\ UNCHANGED <<demo, lot, cleared, rows, notified>>

\* The regulatory filter forbids bargaining.
NegotiateBlocked(r) ==
    /\ pc[r] = "negotiator"
    /\ mem[r].responses # {}
    /\ ~ MayBargain(r)
    /\ Audit(r, "regulatory_block", None)
    /\ Return(r, "negotiator", "responses_collected")
    /\ UNCHANGED <<demo, lot, cleared, mail, rfqRows, negRows, verRows, notified>>

\* The filter allows it; the rivals are the offers above 1.05 of the lowest,
\* never all of them.
NegotiateOpen(r, S) ==
    /\ pc[r] = "negotiator"
    /\ mem[r].responses # {}
    /\ MayBargain(r)
    /\ S \subseteq mem[r].responses
    /\ S # mem[r].responses
    /\ GoTo(r, "bargain")
    /\ mem' = [mem EXCEPT ![r].rivals = S, ![r].todo = mem[r].responses]
    /\ UNCHANGED <<demo, lot, cleared, rows, notified>>

\* An offer near the lowest, or one the LLM asks no discount of, is only audited.
BargainSkip(r, s) ==
    /\ pc[r] = "bargain"
    /\ s \in mem[r].todo
    /\ \/ /\ s \notin mem[r].rivals
          /\ Audit(r, "skip_competitive", s)
       \/ /\ s \in mem[r].rivals
          /\ Audit(r, "llm_no_discount", s)
    /\ mem' = [mem EXCEPT ![r].todo = @ \ {s}]
    /\ UNCHANGED <<demo, lot, cleared, pc, mail, rfqRows, negRows, verRows, notified>>

\* A discount (the LLM's, or 5% when the call fails): NegotiationRepo.create ...
BargainRound(r, s) ==
    /\ pc[r] = "bargain"
    /\ s \in mem[r].todo \cap mem[r].rivals
    /\ negRows' = negRows \cup {<<r, s>>}
    /\ GoTo(r, "auditRound")
    /\ mem' = [mem EXCEPT ![r].cur = s, ![r].todo = @ \ {s}]
    /\ UNCHANGED <<demo, lot, cleared, mail, rfqRows, verRows, audit, notified>>

\* Mutant: the round is left to the summary's audit row.
AuditRoundLeft(r) ==
    /\ pc[r] = "auditRound"
    /\ GoTo(r, "bargain")
    /\ UNCHANGED <<demo, lot, cleared, mem, rows, notified>>

\* ... then its audit row, in a transaction of its own.
AuditRound(r) ==
    /\ pc[r] = "auditRound"
    /\ Audit(r, "llm_round_1", mem[r].cur)
    /\ GoTo(r, "bargain")
    /\ UNCHANGED <<demo, lot, cleared, mem, mail, rfqRows, negRows, verRows, notified>>

BargainDone(r) ==
    /\ pc[r] = "bargain"
    /\ mem[r].todo = {}
    /\ Audit(r, "round_summary", None)
    /\ Return(r, "negotiator", "negotiating")
    /\ UNCHANGED <<demo, lot, cleared, mail, rfqRows, negRows, verRows, notified>>

\* verifier_node: one record per answer, VerificationRepo.create ...
Verify(r, s) ==
    /\ pc[r] = "verifier"
    /\ s \in mem[r].todo
    /\ verRows' = verRows \cup {<<r, s>>}
    /\ GoTo(r, "auditCheck")
    /\ mem' = [mem EXCEPT ![r].cur = s, ![r].todo = @ \ {s},
                          ![r].verified = @ \cup {s}]
    /\ UNCHANGED <<demo, lot, cleared, mail, rfqRows, negRows, audit, notified>>

\* ... then its audit row.
AuditCheck(r) ==
    /\ pc[r] = "auditCheck"
    /\ Audit(r, "check_offer", mem[r].cur)
    /\ GoTo(r, "verifier")
    /\ UNCHANGED <<demo, lot, cleared, mem, mail, rfqRows, negRows, verRows, notified>>

VerifyDone(r) ==
    /\ pc[r] = "verifier"
    /\ mem[r].todo = {}
    /\ Return(r, "verifier", "verified")
    /\ UNCHANGED <<demo, lot, cleared, rows, notified>>

\* reporter_node: the best three of the verified offers; audited before the
\* caller can store anything.
Reporter(r, S) ==
    /\ pc[r] = "reporter"
    /\ S \subseteq mem[r].verified
    /\ Cardinality(S) = SmallerOf(TopOffers, Cardinality(mem[r].verified))
    /\ Audit(r, "build_report", None)
    /\ GoTo(r, "persist")
    /\ mem' = [mem EXCEPT ![r].node = "reporter", ![r].status = "report_ready",
                          ![r].report = [by |-> r, top |-> S]]
    /\ UNCHANGED <<demo, lot, cleared, mail, rfqRows, negRows, verRows, notified>>

\* _persist_status after a node, then the graph's next node.
Persist(r) ==
    /\ pc[r] = "persist"
    /\ lot' = SavedLot(mem[r])
    /\ GoTo(r, Successor(mem[r]))
    /\ mem' = [mem EXCEPT ![r].todo = LoopList(mem[r])]
    /\ UNCHANGED <<demo, cleared, rows, notified>>

\* _persist_status(finalize=True): the same UPDATE again ...
Finalize(r) ==
    /\ pc[r] = "finalize"
    /\ lot' = SavedLot(mem[r])
    /\ GoTo(r, IF mem[r].report = None THEN "finished" ELSE "setReport")
    /\ UNCHANGED <<demo, cleared, mem, rows, notified>>

\* ... and, in a second transaction, set_report.
SetReport(r) ==
    /\ pc[r] = "setReport"
    /\ lot' = [lot EXCEPT !.status = "report_ready", !.report = mem[r].report]
    /\ GoTo(r, "finished")
    /\ UNCHANGED <<demo, cleared, mem, rows, notified>>

\* An exception nothing catches, or the death of the process, at any await:
\* the in-memory state is gone and the lot keeps what was committed.
Stop(r) ==
    /\ Active(r)
    /\ GoTo(r, "stopped")
    /\ UNCHANGED <<demo, lot, cleared, mem, rows, notified>>

-----------------------------------------------------------------------------
Review == Approve \/ BuyerCheck \/ BuyerApprove \/ Reject

\* What the event loop drives forward once the run is started.
RunStep(r) ==
    \/ PlannerNoCandidates(r)
    \/ \E c \in Categories \cup {None}, t \in Totals \cup {0}, h \in BOOLEAN :
          Planner(r, c, t, h)
    \/ Notify(r)
    \/ \E S \in SUBSET Suppliers :
          Sourcer(r, S) \/ SendDoneDemo(r, S) \/ NegotiateOpen(r, S) \/ Reporter(r, S)
    \/ \E s \in Suppliers :
          \/ SendRfq(r, s) \/ SendRfqFails(r, s)
          \/ Collect(r, s) \/ CollectKeyError(r, s)
          \/ BargainSkip(r, s) \/ BargainRound(r, s) \/ Verify(r, s)
    \/ RecordRfq(r) \/ RecordRfqFails(r) \/ SendDone(r) \/ CollectDone(r)
    \/ NegotiateNothing(r) \/ NegotiateBlocked(r)
    \/ AuditRound(r) \/ BargainDone(r)
    \/ AuditCheck(r) \/ VerifyDone(r)
    \/ Persist(r) \/ Finalize(r) \/ SetReport(r)

Pipeline ==
    \/ \E r \in Runs, p \in Phases, t \in Totals \cup {None} : CreateLot(r, p, t)
    \/ \E r \in Runs : StartRun(r) \/ RunStep(r) \/ Stop(r)

Next == Pipeline \/ Review

Spec == Init /\ [][Next]_vars

\* asyncio resumes every coroutine that is ready and every await of a node ends:
\* HTTP, SMTP and database calls have timeouts or raise.
FairSpec == Spec /\ \A r \in Runs : WF_vars(RunStep(r))

-----------------------------------------------------------------------------
(***************************************************************************)
(* Properties.                                                             *)
(***************************************************************************)

\* A run whose planner asked for a human never writes to a supplier, however
\* other runs of the lot and the reviewers interleave with it (graph.py sends
\* such a run to END).
HumanGate == \A m \in mail : ~ mem[m[1]].human

\* Every negotiation row was written by a run that bargained lawfully: the lot
\* is not on a trading platform, its category is whitelisted, and an unregulated
\* lot is under the threshold (regulatory_filter.check, consulted once before a
\* loop of many commits; the row itself claims allowed_by_filter=True).
RegulatoryGate ==
    \A n \in negRows : Allowed(lot.phase, mem[n[1]].category, mem[n[1]].total)

\* A report in the lot row can be traced: the run that wrote it left a
\* build_report audit row, and for each offered supplier the answer, the
\* verification and its audit row, all by that same run, whatever crashed or
\* ran beside it (verifier_node, reporter_node, set_report).
ReportBacked ==
    lot.report # None =>
        /\ <<lot.report.by, "build_report", None>> \in audit
        /\ \A s \in lot.report.top :
              /\ <<lot.report.by, s, "in">> \in rfqRows
              /\ <<lot.report.by, s>> \in verRows
              /\ <<lot.report.by, "check_offer", s>> \in audit

\* The audit trail lags behind the tables by one row at most: a negotiation or
\* verification without its audit row is the one its run is about to audit, or
\* the one at which that run died (write_audit follows each create in a
\* transaction of its own).
AuditLagsByOne ==
    /\ \A n \in negRows :
          \/ <<n[1], "llm_round_1", n[2]>> \in audit
          \/ pc[n[1]] \in {"auditRound", "stopped"} /\ mem[n[1]].cur = n[2]
    /\ \A v \in verRows :
          \/ <<v[1], "check_offer", v[2]>> \in audit
          \/ pc[v[1]] \in {"auditCheck", "stopped"} /\ mem[v[1]].cur = v[2]

\* A lot that asks for a human was announced: some run that asked for one wrote
\* the planner's audit row and called notify_escalation before the flag reached
\* the row (planner_node, _persist_status).
HumanFlagAnnounced ==
    lot.human =>
        \E r \in notified :
            /\ mem[r].human
            /\ \E step \in {"no_candidates", "map_to_nsi"} : <<r, step, None>> \in audit

\* A run that is not killed reaches its end, and its last save leaves the lot
\* with its report or, at the human gate, with the operators told: no node
\* waits for an event that may not come.
RunEnds ==
    \A r \in Runs :
        pc[r] = "planner" ~>
            \/ pc[r] = "stopped"
            \/ pc[r] = "finished" /\ (r \in notified \/ lot.report # None)

(***************************************************************************)
(* What the documents say, and the code does not do.                       *)
(***************************************************************************)

\* docs/architecture.md:48-49 ends a lot's life at approved/rejected; a run
\* still going, or a replay, writes its own status over the decision.
DecisionIsFinal ==
    [][lot.status \in {"approved", "rejected"} =>
           lot'.status \in {"approved", "rejected"}]_vars

-----------------------------------------------------------------------------
(***************************************************************************)
(* One run, and reviewers who wait for it as the web page makes them: the  *)
(* approve button is there once the status is report_ready                 *)
(* (frontend/src/pages/LotDetail.tsx), and the run has stored its report.  *)
(***************************************************************************)
Quiet ==
    /\ lot.status = "report_ready"
    /\ \A r \in Runs : pc[r] = "finished"

PatientNext == Pipeline \/ (Quiet /\ Review)

PatientFairness == \A r \in Runs : WF_vars(RunStep(r))

PatientSpec == Init /\ [][PatientNext]_vars /\ PatientFairness

Lifecycle == INSTANCE LotLifecycle WITH
    stage <- lot.status, flagged <- lot.human, reported <- lot.report # None

\* One undisturbed run and patient reviewers implement LotLifecycle: the statuses
\* follow its chain, a lot at the human gate stays there, and the decision comes
\* after the report (run_lot, _persist_status, approve_lot).  The documents draw
\* another chain, see FollowsDocument.
ImplementsLifecycle == Lifecycle!LifecycleSpec

\* docs/architecture.md:47-52 and METHODOLOGY.md 6.4: each status is followed by
\* the next of the chain, or by escalated.  In production the communicator
\* returns without answers, and a lot goes from rfq_sent to negotiating
\* (communicator.py:172-178, negotiator.py:22-24).
FollowsDocument ==
    [][lot'.status # lot.status =>
         \/ <<lot.status, lot'.status>> \in Lifecycle!DocumentedChain
         \/ lot.status = "absent"
         \/ lot'.status = "escalated"
         \/ lot.status = "report_ready" /\ lot'.status \in {"approved", "rejected"}]_vars

=============================================================================
