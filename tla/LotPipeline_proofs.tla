------------------------- MODULE LotPipeline_proofs -------------------------
(***************************************************************************)
(* Proofs about LotPipeline, for any number of runs, suppliers, categories *)
(* and totals.                                                             *)
(*                                                                         *)
(* Every invariant is first strengthened until each step preserves it.     *)
(* The strengthenings say where a run stands when it holds a certain       *)
(* value; they are proved one action at a time, since any of the actions   *)
(* may be the step, taken by the run in question or by another one.        *)
(***************************************************************************)
EXTENDS LotPipeline, TLAPS

(***************************************************************************)
(* Types.                                                                  *)
(***************************************************************************)

\* A run that has sent a message knows to whom.
AtWork == \A r \in Runs : pc[r] = "recordRfq" => mem[r].cur \in Suppliers

TypeInv == TypeOK /\ AtWork

\* The type invariant survives every step of every run and handler.
LEMMA TypeStep == TypeInv /\ [Next]_vars => TypeOK'
<1> SUFFICES ASSUME TypeOK, AtWork, [Next]_vars
             PROVE  TypeOK'
  BY DEF TypeInv
<1>1. ASSUME NEW r \in Runs, NEW p \in Phases,
             NEW t \in Totals \cup {None}, CreateLot(r, p, t)
      PROVE  TypeOK'
  BY <1>1 DEF TypeOK, CreateLot, GoTo, rows, PC, LotRow, LotStatus
<1>2. ASSUME NEW r \in Runs, StartRun(r)
      PROVE  TypeOK'
  BY <1>2 DEF TypeOK, StartRun, GoTo, rows, PC
<1>3. ASSUME NEW r \in Runs, Stop(r)
      PROVE  TypeOK'
  BY <1>3 DEF TypeOK, Stop, GoTo, rows, PC
<1>4. ASSUME NEW r \in Runs, PlannerNoCandidates(r)
      PROVE  TypeOK'
  <2> DEFINE m == [mem[r] EXCEPT !.node = "planner", !.status = "escalated", !.human = TRUE]
  <2>1. mem[r] \in LotState
    BY <1>4 DEF TypeOK
  <2>2. m \in LotState
    BY <2>1 DEF LotState, LotStatus, Nodes
  <2>3. mem' \in [Runs -> LotState]
    BY <1>4, <2>2 DEF TypeOK, PlannerNoCandidates
  <2>4. QED
    BY <1>4, <2>3 DEF TypeOK, PlannerNoCandidates, GoTo, Audit, rows, PC,
     Steps
<1>5. ASSUME NEW r \in Runs, NEW c \in Categories \cup {None},
             NEW t \in Totals \cup {0}, NEW h \in BOOLEAN, Planner(r, c, t, h)
      PROVE  TypeOK'
  <2> DEFINE m == [mem[r] EXCEPT !.node = "planner", !.status = "planned", !.human = h,
                                        !.category = c, !.total = t]
  <2>1. mem[r] \in LotState
    BY <1>5 DEF TypeOK
  <2>2. m \in LotState
    BY <2>1 DEF LotState, LotStatus, Nodes
  <2>3. mem' \in [Runs -> LotState]
    BY <1>5, <2>2 DEF TypeOK, Planner
  <2>4. QED
    BY <1>5, <2>3 DEF TypeOK, Planner, GoTo, Audit, rows, PC, Steps,
     AfterPlanner
<1>6. ASSUME NEW r \in Runs, Notify(r)
      PROVE  TypeOK'
  BY <1>6 DEF TypeOK, Notify, GoTo, rows, PC
<1>7. ASSUME NEW r \in Runs, NEW S \in SUBSET Suppliers, Sourcer(r, S)
      PROVE  TypeOK'
  <2> DEFINE m == [mem[r] EXCEPT !.node = "sourcer", !.status = "sourcing", !.suppliers = S]
  <2>1. mem[r] \in LotState
    BY <1>7 DEF TypeOK
  <2>2. m \in LotState
    BY <2>1 DEF LotState, LotStatus, Nodes
  <2>3. mem' \in [Runs -> LotState]
    BY <1>7, <2>2 DEF TypeOK, Sourcer
  <2>4. QED
    BY <1>7, <2>3 DEF TypeOK, Sourcer, GoTo, Audit, rows, PC, Steps
<1>8. ASSUME NEW r \in Runs, NEW S \in SUBSET Suppliers, SendDoneDemo(r,
             S)
      PROVE  TypeOK'
  <2> DEFINE m == [mem[r] EXCEPT !.responses = S, !.todo = S]
  <2>1. mem[r] \in LotState
    BY <1>8 DEF TypeOK
  <2>2. m \in LotState
    BY <2>1 DEF LotState
  <2>3. mem' \in [Runs -> LotState]
    BY <1>8, <2>2 DEF TypeOK, SendDoneDemo
  <2>4. QED
    BY <1>8, <2>3 DEF TypeOK, SendDoneDemo, GoTo, Audit, rows, PC, Steps
<1>9. ASSUME NEW r \in Runs, NEW S \in SUBSET Suppliers,
             NegotiateOpen(r, S)
      PROVE  TypeOK'
  <2> DEFINE m == [mem[r] EXCEPT !.rivals = S, !.todo = mem[r].responses]
  <2>1. mem[r] \in LotState
    BY <1>9 DEF TypeOK
  <2>2. m \in LotState
    BY <2>1 DEF LotState
  <2>3. mem' \in [Runs -> LotState]
    BY <1>9, <2>2 DEF TypeOK, NegotiateOpen
  <2>4. QED
    BY <1>9, <2>3 DEF TypeOK, NegotiateOpen, GoTo, rows, PC
<1>10. ASSUME NEW r \in Runs, NEW S \in SUBSET Suppliers, Reporter(r, S)
      PROVE  TypeOK'
  <2> DEFINE m == [mem[r] EXCEPT !.node = "reporter", !.status = "report_ready",
                                        !.report = [by |-> r, top |-> S]]
  <2>1. mem[r] \in LotState
    BY <1>10 DEF TypeOK
  <2>2. m \in LotState
    BY <2>1 DEF LotState, LotStatus, Nodes, Reports
  <2>3. mem' \in [Runs -> LotState]
    BY <1>10, <2>2 DEF TypeOK, Reporter
  <2>4. QED
    BY <1>10, <2>3 DEF TypeOK, Reporter, GoTo, Audit, rows, PC, Steps
<1>11. ASSUME NEW r \in Runs, NEW s \in Suppliers, SendRfq(r, s)
      PROVE  TypeOK'
  <2> DEFINE m == [mem[r] EXCEPT !.cur = s, !.todo = @ \ {s}]
  <2>1. mem[r] \in LotState
    BY <1>11 DEF TypeOK
  <2>2. m \in LotState
    BY <2>1 DEF LotState
  <2>3. mem' \in [Runs -> LotState]
    BY <1>11, <2>2 DEF TypeOK, SendRfq
  <2>4. QED
    BY <1>11, <2>3 DEF TypeOK, SendRfq, GoTo, rows, PC
<1>12. ASSUME NEW r \in Runs, NEW s \in Suppliers, SendRfqFails(r, s)
      PROVE  TypeOK'
  <2> DEFINE m == [mem[r] EXCEPT !.unsent = @ \cup {s}, !.todo = @ \ {s}]
  <2>1. mem[r] \in LotState
    BY <1>12 DEF TypeOK
  <2>2. m \in LotState
    BY <2>1 DEF LotState
  <2>3. mem' \in [Runs -> LotState]
    BY <1>12, <2>2 DEF TypeOK, SendRfqFails
  <2>4. QED
    BY <1>12, <2>3 DEF TypeOK, SendRfqFails, rows
<1>13. ASSUME NEW r \in Runs, NEW s \in Suppliers, Collect(r, s)
      PROVE  TypeOK'
  <2> DEFINE m == [mem[r] EXCEPT !.todo = @ \ {s}]
  <2>1. mem[r] \in LotState
    BY <1>13 DEF TypeOK
  <2>2. m \in LotState
    BY <2>1 DEF LotState
  <2>3. mem' \in [Runs -> LotState]
    BY <1>13, <2>2 DEF TypeOK, Collect
  <2>4. QED
    BY <1>13, <2>3 DEF TypeOK, Collect, rows
<1>14. ASSUME NEW r \in Runs, NEW s \in Suppliers, CollectKeyError(r, s)
      PROVE  TypeOK'
  BY <1>14 DEF TypeOK, CollectKeyError, GoTo, rows, PC
<1>15. ASSUME NEW r \in Runs, NEW s \in Suppliers, BargainSkip(r, s)
      PROVE  TypeOK'
  <2> DEFINE m == [mem[r] EXCEPT !.todo = @ \ {s}]
  <2>1. mem[r] \in LotState
    BY <1>15 DEF TypeOK
  <2>2. m \in LotState
    BY <2>1 DEF LotState
  <2>3. mem' \in [Runs -> LotState]
    BY <1>15, <2>2 DEF TypeOK, BargainSkip
  <2>4. QED
    BY <1>15, <2>3 DEF TypeOK, BargainSkip, Audit, rows, Steps
<1>16. ASSUME NEW r \in Runs, NEW s \in Suppliers, BargainRound(r, s)
      PROVE  TypeOK'
  <2> DEFINE m == [mem[r] EXCEPT !.cur = s, !.todo = @ \ {s}]
  <2>1. mem[r] \in LotState
    BY <1>16 DEF TypeOK
  <2>2. m \in LotState
    BY <2>1 DEF LotState
  <2>3. mem' \in [Runs -> LotState]
    BY <1>16, <2>2 DEF TypeOK, BargainRound
  <2>4. QED
    BY <1>16, <2>3 DEF TypeOK, BargainRound, GoTo, rows, PC
<1>17. ASSUME NEW r \in Runs, NEW s \in Suppliers, Verify(r, s)
      PROVE  TypeOK'
  <2> DEFINE m == [mem[r] EXCEPT !.cur = s, !.todo = @ \ {s},
                                        !.verified = @ \cup {s}]
  <2>1. mem[r] \in LotState
    BY <1>17 DEF TypeOK
  <2>2. m \in LotState
    BY <2>1 DEF LotState
  <2>3. mem' \in [Runs -> LotState]
    BY <1>17, <2>2 DEF TypeOK, Verify
  <2>4. QED
    BY <1>17, <2>3 DEF TypeOK, Verify, GoTo, rows, PC
<1>18. ASSUME NEW r \in Runs, RecordRfq(r)
      PROVE  TypeOK'
  <2>1. mem[r].cur \in Suppliers
    BY <1>18 DEF AtWork, RecordRfq
  <2>2. QED
    BY <1>18, <2>1 DEF TypeOK, RecordRfq, GoTo, rows, PC
<1>19. ASSUME NEW r \in Runs, RecordRfqFails(r)
      PROVE  TypeOK'
  BY <1>19 DEF TypeOK, RecordRfqFails, GoTo, rows, PC
<1>20. ASSUME NEW r \in Runs, SendDone(r)
      PROVE  TypeOK'
  <2> DEFINE m == [mem[r] EXCEPT !.node = "communicator", !.status = "rfq_sent"]
  <2>1. mem[r] \in LotState
    BY <1>20 DEF TypeOK
  <2>2. m \in LotState
    BY <2>1 DEF LotState, LotStatus, Nodes
  <2>3. mem' \in [Runs -> LotState]
    BY <1>20, <2>2 DEF TypeOK, SendDone, Return
  <2>4. QED
    BY <1>20, <2>3 DEF TypeOK, SendDone, Return, GoTo, Audit, rows, PC, Steps
<1>21. ASSUME NEW r \in Runs, CollectDone(r)
      PROVE  TypeOK'
  <2> DEFINE m == [mem[r] EXCEPT !.node = "communicator", !.status = "responses_collected"]
  <2>1. mem[r] \in LotState
    BY <1>21 DEF TypeOK
  <2>2. m \in LotState
    BY <2>1 DEF LotState, LotStatus, Nodes
  <2>3. mem' \in [Runs -> LotState]
    BY <1>21, <2>2 DEF TypeOK, CollectDone, Return
  <2>4. QED
    BY <1>21, <2>3 DEF TypeOK, CollectDone, Return, GoTo, Audit, rows, PC,
     Steps
<1>22. ASSUME NEW r \in Runs, NegotiateNothing(r)
      PROVE  TypeOK'
  <2> DEFINE m == [mem[r] EXCEPT !.node = "negotiator", !.status = "negotiating"]
  <2>1. mem[r] \in LotState
    BY <1>22 DEF TypeOK
  <2>2. m \in LotState
    BY <2>1 DEF LotState, LotStatus, Nodes
  <2>3. mem' \in [Runs -> LotState]
    BY <1>22, <2>2 DEF TypeOK, NegotiateNothing, Return
  <2>4. QED
    BY <1>22, <2>3 DEF TypeOK, NegotiateNothing, Return, GoTo, rows, PC
<1>23. ASSUME NEW r \in Runs, NegotiateBlocked(r)
      PROVE  TypeOK'
  <2> DEFINE m == [mem[r] EXCEPT !.node = "negotiator", !.status = "responses_collected"]
  <2>1. mem[r] \in LotState
    BY <1>23 DEF TypeOK
  <2>2. m \in LotState
    BY <2>1 DEF LotState, LotStatus, Nodes
  <2>3. mem' \in [Runs -> LotState]
    BY <1>23, <2>2 DEF TypeOK, NegotiateBlocked, Return
  <2>4. QED
    BY <1>23, <2>3 DEF TypeOK, NegotiateBlocked, Return, GoTo, Audit, rows,
     PC, Steps
<1>24. ASSUME NEW r \in Runs, AuditRound(r)
      PROVE  TypeOK'
  <2>1. mem[r].cur \in Suppliers \cup {None}
    BY <1>24 DEF TypeOK, LotState
  <2>2. QED
    BY <1>24, <2>1 DEF TypeOK, AuditRound, GoTo, Audit, rows, PC, Steps
<1>25. ASSUME NEW r \in Runs, BargainDone(r)
      PROVE  TypeOK'
  <2> DEFINE m == [mem[r] EXCEPT !.node = "negotiator", !.status = "negotiating"]
  <2>1. mem[r] \in LotState
    BY <1>25 DEF TypeOK
  <2>2. m \in LotState
    BY <2>1 DEF LotState, LotStatus, Nodes
  <2>3. mem' \in [Runs -> LotState]
    BY <1>25, <2>2 DEF TypeOK, BargainDone, Return
  <2>4. QED
    BY <1>25, <2>3 DEF TypeOK, BargainDone, Return, GoTo, Audit, rows, PC,
     Steps
<1>26. ASSUME NEW r \in Runs, AuditCheck(r)
      PROVE  TypeOK'
  <2>1. mem[r].cur \in Suppliers \cup {None}
    BY <1>26 DEF TypeOK, LotState
  <2>2. QED
    BY <1>26, <2>1 DEF TypeOK, AuditCheck, GoTo, Audit, rows, PC, Steps
<1>27. ASSUME NEW r \in Runs, VerifyDone(r)
      PROVE  TypeOK'
  <2> DEFINE m == [mem[r] EXCEPT !.node = "verifier", !.status = "verified"]
  <2>1. mem[r] \in LotState
    BY <1>27 DEF TypeOK
  <2>2. m \in LotState
    BY <2>1 DEF LotState, LotStatus, Nodes
  <2>3. mem' \in [Runs -> LotState]
    BY <1>27, <2>2 DEF TypeOK, VerifyDone, Return
  <2>4. QED
    BY <1>27, <2>3 DEF TypeOK, VerifyDone, Return, GoTo, rows, PC
<1>28. ASSUME NEW r \in Runs, Persist(r)
      PROVE  TypeOK'
  <2> DEFINE m == [mem[r] EXCEPT !.todo = LoopList(mem[r])]
  <2>1. mem[r] \in LotState
    BY <1>28 DEF TypeOK
  <2>2. m \in LotState
    BY <2>1 DEF LotState, LoopList
  <2>3. mem' \in [Runs -> LotState]
    BY <1>28, <2>2 DEF TypeOK, Persist
  <2>4. lot' \in LotRow
    BY <1>28, <2>1 DEF TypeOK, Persist, SavedLot, LotRow, LotState
  <2>5. QED
    BY <1>28, <2>3, <2>4 DEF TypeOK, Persist, GoTo, rows, PC, Successor,
     ShouldEscalate
<1>29. ASSUME NEW r \in Runs, Finalize(r)
      PROVE  TypeOK'
  BY <1>29 DEF TypeOK, Finalize, GoTo, rows, PC, LotRow, LotStatus, LotState,
     SavedLot
<1>30. ASSUME NEW r \in Runs, SetReport(r)
      PROVE  TypeOK'
  BY <1>30 DEF TypeOK, SetReport, GoTo, rows, PC, LotRow, LotStatus, LotState
<1>31. ASSUME Approve
      PROVE  TypeOK'
  BY <1>31 DEF TypeOK, Approve, rows, LotRow, LotStatus, Decided
<1>32. ASSUME BuyerCheck
      PROVE  TypeOK'
  BY <1>32 DEF TypeOK, BuyerCheck, rows
<1>33. ASSUME BuyerApprove
      PROVE  TypeOK'
  BY <1>33 DEF TypeOK, BuyerApprove, rows, LotRow, LotStatus, Decided
<1>34. ASSUME Reject
      PROVE  TypeOK'
  BY <1>34 DEF TypeOK, Reject, rows, LotRow, LotStatus, Decided
<1>35. CASE UNCHANGED vars
  BY <1>35 DEF TypeOK, vars, rows
<1>36. QED
  BY <1>1, <1>2, <1>3, <1>4, <1>5, <1>6, <1>7, <1>8, <1>9, <1>10, <1>11,
     <1>12, <1>13, <1>14, <1>15, <1>16, <1>17, <1>18, <1>19, <1>20, <1>21,
     <1>22, <1>23, <1>24, <1>25, <1>26, <1>27, <1>28, <1>29, <1>30, <1>31,
     <1>32, <1>33, <1>34, <1>35
  DEF Next, Pipeline, RunStep, Review

\* A run reaches "recordRfq" through SendRfq only, which sets the supplier.
LEMMA AtWorkStep == TypeInv /\ [Next]_vars => AtWork'
<1> SUFFICES ASSUME TypeOK, AtWork, [Next]_vars
             PROVE  AtWork'
  BY DEF TypeInv
<1>1. ASSUME NEW r \in Runs, NEW p \in Phases,
             NEW t \in Totals \cup {None}, CreateLot(r, p, t)
      PROVE  AtWork'
  BY <1>1 DEF TypeOK, AtWork, CreateLot, GoTo, rows
<1>2. ASSUME NEW r \in Runs, StartRun(r)
      PROVE  AtWork'
  BY <1>2 DEF TypeOK, AtWork, StartRun, GoTo, rows
<1>3. ASSUME NEW r \in Runs, Stop(r)
      PROVE  AtWork'
  BY <1>3 DEF TypeOK, AtWork, Stop, GoTo, rows, Active
<1>4. ASSUME NEW r \in Runs, PlannerNoCandidates(r)
      PROVE  AtWork'
  BY <1>4 DEF TypeOK, AtWork, PlannerNoCandidates, GoTo, Audit, rows, LotState
<1>5. ASSUME NEW r \in Runs, NEW c \in Categories \cup {None},
             NEW t \in Totals \cup {0}, NEW h \in BOOLEAN, Planner(r, c, t, h)
      PROVE  AtWork'
  BY <1>5 DEF TypeOK, AtWork, Planner, GoTo, Audit, rows, AfterPlanner,
     LotState
<1>6. ASSUME NEW r \in Runs, Notify(r)
      PROVE  AtWork'
  BY <1>6 DEF TypeOK, AtWork, Notify, GoTo, rows
<1>7. ASSUME NEW r \in Runs, NEW S \in SUBSET Suppliers, Sourcer(r, S)
      PROVE  AtWork'
  BY <1>7 DEF TypeOK, AtWork, Sourcer, GoTo, Audit, rows, LotState
<1>8. ASSUME NEW r \in Runs, NEW S \in SUBSET Suppliers, SendDoneDemo(r,
             S)
      PROVE  AtWork'
  BY <1>8 DEF TypeOK, AtWork, SendDoneDemo, GoTo, Audit, rows, LotState
<1>9. ASSUME NEW r \in Runs, NEW S \in SUBSET Suppliers,
             NegotiateOpen(r, S)
      PROVE  AtWork'
  BY <1>9 DEF TypeOK, AtWork, NegotiateOpen, GoTo, rows, LotState
<1>10. ASSUME NEW r \in Runs, NEW S \in SUBSET Suppliers, Reporter(r, S)
      PROVE  AtWork'
  BY <1>10 DEF TypeOK, AtWork, Reporter, GoTo, Audit, rows, LotState
<1>11. ASSUME NEW r \in Runs, NEW s \in Suppliers, SendRfq(r, s)
      PROVE  AtWork'
  BY <1>11 DEF TypeOK, AtWork, SendRfq, GoTo, rows, LotState
<1>12. ASSUME NEW r \in Runs, NEW s \in Suppliers, SendRfqFails(r, s)
      PROVE  AtWork'
  BY <1>12 DEF TypeOK, AtWork, SendRfqFails, rows, LotState
<1>13. ASSUME NEW r \in Runs, NEW s \in Suppliers, Collect(r, s)
      PROVE  AtWork'
  BY <1>13 DEF TypeOK, AtWork, Collect, rows, LotState
<1>14. ASSUME NEW r \in Runs, NEW s \in Suppliers, CollectKeyError(r, s)
      PROVE  AtWork'
  BY <1>14 DEF TypeOK, AtWork, CollectKeyError, GoTo, rows
<1>15. ASSUME NEW r \in Runs, NEW s \in Suppliers, BargainSkip(r, s)
      PROVE  AtWork'
  BY <1>15 DEF TypeOK, AtWork, BargainSkip, Audit, rows, LotState
<1>16. ASSUME NEW r \in Runs, NEW s \in Suppliers, BargainRound(r, s)
      PROVE  AtWork'
  BY <1>16 DEF TypeOK, AtWork, BargainRound, GoTo, rows, LotState
<1>17. ASSUME NEW r \in Runs, NEW s \in Suppliers, Verify(r, s)
      PROVE  AtWork'
  BY <1>17 DEF TypeOK, AtWork, Verify, GoTo, rows, LotState
<1>18. ASSUME NEW r \in Runs, RecordRfq(r)
      PROVE  AtWork'
  BY <1>18 DEF TypeOK, AtWork, RecordRfq, GoTo, rows
<1>19. ASSUME NEW r \in Runs, RecordRfqFails(r)
      PROVE  AtWork'
  BY <1>19 DEF TypeOK, AtWork, RecordRfqFails, GoTo, rows
<1>20. ASSUME NEW r \in Runs, SendDone(r)
      PROVE  AtWork'
  BY <1>20 DEF TypeOK, AtWork, SendDone, Return, GoTo, Audit, rows, LotState
<1>21. ASSUME NEW r \in Runs, CollectDone(r)
      PROVE  AtWork'
  BY <1>21 DEF TypeOK, AtWork, CollectDone, Return, GoTo, Audit, rows,
     LotState
<1>22. ASSUME NEW r \in Runs, NegotiateNothing(r)
      PROVE  AtWork'
  BY <1>22 DEF TypeOK, AtWork, NegotiateNothing, Return, GoTo, rows, LotState
<1>23. ASSUME NEW r \in Runs, NegotiateBlocked(r)
      PROVE  AtWork'
  BY <1>23 DEF TypeOK, AtWork, NegotiateBlocked, Return, GoTo, Audit, rows,
     LotState
<1>24. ASSUME NEW r \in Runs, AuditRound(r)
      PROVE  AtWork'
  BY <1>24 DEF TypeOK, AtWork, AuditRound, GoTo, Audit, rows
<1>25. ASSUME NEW r \in Runs, BargainDone(r)
      PROVE  AtWork'
  BY <1>25 DEF TypeOK, AtWork, BargainDone, Return, GoTo, Audit, rows,
     LotState
<1>26. ASSUME NEW r \in Runs, AuditCheck(r)
      PROVE  AtWork'
  BY <1>26 DEF TypeOK, AtWork, AuditCheck, GoTo, Audit, rows
<1>27. ASSUME NEW r \in Runs, VerifyDone(r)
      PROVE  AtWork'
  BY <1>27 DEF TypeOK, AtWork, VerifyDone, Return, GoTo, rows, LotState
<1>28. ASSUME NEW r \in Runs, Persist(r)
      PROVE  AtWork'
  BY <1>28 DEF TypeOK, AtWork, Persist, GoTo, rows, Successor, ShouldEscalate,
     LotState
<1>29. ASSUME NEW r \in Runs, Finalize(r)
      PROVE  AtWork'
  BY <1>29 DEF TypeOK, AtWork, Finalize, GoTo, rows, LotState
<1>30. ASSUME NEW r \in Runs, SetReport(r)
      PROVE  AtWork'
  BY <1>30 DEF TypeOK, AtWork, SetReport, GoTo, rows, LotState
<1>31. ASSUME Approve
      PROVE  AtWork'
  BY <1>31 DEF TypeOK, AtWork, Approve, rows
<1>32. ASSUME BuyerCheck
      PROVE  AtWork'
  BY <1>32 DEF TypeOK, AtWork, BuyerCheck, rows
<1>33. ASSUME BuyerApprove
      PROVE  AtWork'
  BY <1>33 DEF TypeOK, AtWork, BuyerApprove, rows
<1>34. ASSUME Reject
      PROVE  AtWork'
  BY <1>34 DEF TypeOK, AtWork, Reject, rows
<1>35. CASE UNCHANGED vars
  BY <1>35 DEF AtWork, vars, rows
<1>36. QED
  BY <1>1, <1>2, <1>3, <1>4, <1>5, <1>6, <1>7, <1>8, <1>9, <1>10, <1>11,
     <1>12, <1>13, <1>14, <1>15, <1>16, <1>17, <1>18, <1>19, <1>20, <1>21,
     <1>22, <1>23, <1>24, <1>25, <1>26, <1>27, <1>28, <1>29, <1>30, <1>31,
     <1>32, <1>33, <1>34, <1>35
  DEF Next, Pipeline, RunStep, Review

\* The strengthened types hold from the start on, and every step keeps them.
LEMMA TypeInvariant == Spec => []TypeInv
<1>1. Init => TypeInv
  <2> SUFFICES ASSUME Init
               PROVE  TypeInv
    OBVIOUS
  <2>1. demo \in BOOLEAN
    BY DemoModesAssumption DEF Init
  <2>2. lot \in LotRow
    BY DEF Init, LotRow, Phases
  <2>3. DraftState \in LotState
    BY DEF DraftState, LotState, LotStatus
  <2>4. mem \in [Runs -> LotState]
    BY <2>3 DEF Init
  <2>5. AtWork
    BY DEF Init, AtWork
  <2>6. QED
    BY <2>1, <2>2, <2>4, <2>5 DEF Init, TypeInv, TypeOK, PC
<1>2. TypeInv /\ [Next]_vars => TypeInv'
  BY TypeStep, AtWorkStep DEF TypeInv
<1>3. QED
  BY <1>1, <1>2, PTL DEF Spec

\* Rows and in-memory states keep their types through any interleaving of runs,
\* crashes and reviewers.
THEOREM TypeCorrect == Spec => []TypeOK
<1>1. TypeInv => TypeOK
  BY DEF TypeInv
<1>2. QED
  BY <1>1, TypeInvariant, PTL

-----------------------------------------------------------------------------
(***************************************************************************)
(* The human gate.                                                         *)
(***************************************************************************)

\* A run that has not planned has written to nobody.
NothingSent ==
    \A r \in Runs, s \in Suppliers :
        pc[r] \in {"idle", "planner"} => <<r, s>> \notin mail

\* A run that asks for a human is on its way from the planner to the end.
GateClosed ==
    \A r \in Runs :
        /\ mem[r].human =>
              \/ pc[r] \in {"notify", "finalize", "setReport", "finished", "stopped"}
              \/ pc[r] = "persist" /\ mem[r].node = "planner"
        /\ pc[r] = "notify" => mem[r].node = "planner"

GateInv == NothingSent /\ GateClosed /\ HumanGate

\* A run that asks for a human turns to the gate and sends nothing, whatever the
\* others do meanwhile.
LEMMA GateStep == TypeOK /\ GateInv /\ [Next]_vars => GateInv'
<1> SUFFICES ASSUME TypeOK, GateInv, [Next]_vars
             PROVE  GateInv'
  OBVIOUS
<1>1. ASSUME NEW r \in Runs, NEW p \in Phases,
             NEW t \in Totals \cup {None}, CreateLot(r, p, t)
      PROVE  GateInv'
  BY <1>1 DEF TypeOK, GateInv, NothingSent, GateClosed, HumanGate, CreateLot,
     GoTo, rows
<1>2. ASSUME NEW r \in Runs, StartRun(r)
      PROVE  GateInv'
  BY <1>2 DEF TypeOK, GateInv, NothingSent, GateClosed, HumanGate, StartRun,
     GoTo, rows
<1>3. ASSUME NEW r \in Runs, Stop(r)
      PROVE  GateInv'
  BY <1>3 DEF TypeOK, GateInv, NothingSent, GateClosed, HumanGate, Stop, GoTo,
     rows, Active
<1>4. ASSUME NEW r \in Runs, PlannerNoCandidates(r)
      PROVE  GateInv'
  BY <1>4 DEF TypeOK, GateInv, NothingSent, GateClosed, HumanGate,
     PlannerNoCandidates, GoTo, Audit, rows, LotState
<1>5. ASSUME NEW r \in Runs, NEW c \in Categories \cup {None},
             NEW t \in Totals \cup {0}, NEW h \in BOOLEAN, Planner(r, c, t, h)
      PROVE  GateInv'
  BY <1>5 DEF TypeOK, GateInv, NothingSent, GateClosed, HumanGate, Planner,
     GoTo, Audit, rows, AfterPlanner, LotState
<1>6. ASSUME NEW r \in Runs, Notify(r)
      PROVE  GateInv'
  BY <1>6 DEF TypeOK, GateInv, NothingSent, GateClosed, HumanGate, Notify,
     GoTo, rows
<1>7. ASSUME NEW r \in Runs, NEW S \in SUBSET Suppliers, Sourcer(r, S)
      PROVE  GateInv'
  BY <1>7 DEF TypeOK, GateInv, NothingSent, GateClosed, HumanGate, Sourcer,
     GoTo, Audit, rows, LotState
<1>8. ASSUME NEW r \in Runs, NEW S \in SUBSET Suppliers, SendDoneDemo(r,
             S)
      PROVE  GateInv'
  BY <1>8 DEF TypeOK, GateInv, NothingSent, GateClosed, HumanGate,
     SendDoneDemo, GoTo, Audit, rows, LotState
<1>9. ASSUME NEW r \in Runs, NEW S \in SUBSET Suppliers,
             NegotiateOpen(r, S)
      PROVE  GateInv'
  BY <1>9 DEF TypeOK, GateInv, NothingSent, GateClosed, HumanGate,
     NegotiateOpen, GoTo, rows, LotState
<1>10. ASSUME NEW r \in Runs, NEW S \in SUBSET Suppliers, Reporter(r, S)
      PROVE  GateInv'
  BY <1>10 DEF TypeOK, GateInv, NothingSent, GateClosed, HumanGate, Reporter,
     GoTo, Audit, rows, LotState
<1>11. ASSUME NEW r \in Runs, NEW s \in Suppliers, SendRfq(r, s)
      PROVE  GateInv'
  BY <1>11 DEF TypeOK, GateInv, NothingSent, GateClosed, HumanGate, SendRfq,
     GoTo, rows, LotState
<1>12. ASSUME NEW r \in Runs, NEW s \in Suppliers, SendRfqFails(r, s)
      PROVE  GateInv'
  BY <1>12 DEF TypeOK, GateInv, NothingSent, GateClosed, HumanGate,
     SendRfqFails, rows, LotState
<1>13. ASSUME NEW r \in Runs, NEW s \in Suppliers, Collect(r, s)
      PROVE  GateInv'
  BY <1>13 DEF TypeOK, GateInv, NothingSent, GateClosed, HumanGate, Collect,
     rows, LotState
<1>14. ASSUME NEW r \in Runs, NEW s \in Suppliers, CollectKeyError(r, s)
      PROVE  GateInv'
  BY <1>14 DEF TypeOK, GateInv, NothingSent, GateClosed, HumanGate,
     CollectKeyError, GoTo, rows
<1>15. ASSUME NEW r \in Runs, NEW s \in Suppliers, BargainSkip(r, s)
      PROVE  GateInv'
  BY <1>15 DEF TypeOK, GateInv, NothingSent, GateClosed, HumanGate,
     BargainSkip, Audit, rows, LotState
<1>16. ASSUME NEW r \in Runs, NEW s \in Suppliers, BargainRound(r, s)
      PROVE  GateInv'
  BY <1>16 DEF TypeOK, GateInv, NothingSent, GateClosed, HumanGate,
     BargainRound, GoTo, rows, LotState
<1>17. ASSUME NEW r \in Runs, NEW s \in Suppliers, Verify(r, s)
      PROVE  GateInv'
  BY <1>17 DEF TypeOK, GateInv, NothingSent, GateClosed, HumanGate, Verify,
     GoTo, rows, LotState
<1>18. ASSUME NEW r \in Runs, RecordRfq(r)
      PROVE  GateInv'
  BY <1>18 DEF TypeOK, GateInv, NothingSent, GateClosed, HumanGate, RecordRfq,
     GoTo, rows
<1>19. ASSUME NEW r \in Runs, RecordRfqFails(r)
      PROVE  GateInv'
  BY <1>19 DEF TypeOK, GateInv, NothingSent, GateClosed, HumanGate,
     RecordRfqFails, GoTo, rows
<1>20. ASSUME NEW r \in Runs, SendDone(r)
      PROVE  GateInv'
  BY <1>20 DEF TypeOK, GateInv, NothingSent, GateClosed, HumanGate, SendDone,
     Return, GoTo, Audit, rows, LotState
<1>21. ASSUME NEW r \in Runs, CollectDone(r)
      PROVE  GateInv'
  BY <1>21 DEF TypeOK, GateInv, NothingSent, GateClosed, HumanGate,
     CollectDone, Return, GoTo, Audit, rows, LotState
<1>22. ASSUME NEW r \in Runs, NegotiateNothing(r)
      PROVE  GateInv'
  BY <1>22 DEF TypeOK, GateInv, NothingSent, GateClosed, HumanGate,
     NegotiateNothing, Return, GoTo, rows, LotState
<1>23. ASSUME NEW r \in Runs, NegotiateBlocked(r)
      PROVE  GateInv'
  BY <1>23 DEF TypeOK, GateInv, NothingSent, GateClosed, HumanGate,
     NegotiateBlocked, Return, GoTo, Audit, rows, LotState
<1>24. ASSUME NEW r \in Runs, AuditRound(r)
      PROVE  GateInv'
  BY <1>24 DEF TypeOK, GateInv, NothingSent, GateClosed, HumanGate,
     AuditRound, GoTo, Audit, rows
<1>25. ASSUME NEW r \in Runs, BargainDone(r)
      PROVE  GateInv'
  BY <1>25 DEF TypeOK, GateInv, NothingSent, GateClosed, HumanGate,
     BargainDone, Return, GoTo, Audit, rows, LotState
<1>26. ASSUME NEW r \in Runs, AuditCheck(r)
      PROVE  GateInv'
  BY <1>26 DEF TypeOK, GateInv, NothingSent, GateClosed, HumanGate,
     AuditCheck, GoTo, Audit, rows
<1>27. ASSUME NEW r \in Runs, VerifyDone(r)
      PROVE  GateInv'
  BY <1>27 DEF TypeOK, GateInv, NothingSent, GateClosed, HumanGate,
     VerifyDone, Return, GoTo, rows, LotState
<1>28. ASSUME NEW r \in Runs, Persist(r)
      PROVE  GateInv'
  BY <1>28 DEF TypeOK, GateInv, NothingSent, GateClosed, HumanGate, Persist,
     GoTo, rows, Successor, ShouldEscalate, LotState
<1>29. ASSUME NEW r \in Runs, Finalize(r)
      PROVE  GateInv'
  BY <1>29 DEF TypeOK, GateInv, NothingSent, GateClosed, HumanGate, Finalize,
     GoTo, rows, LotState
<1>30. ASSUME NEW r \in Runs, SetReport(r)
      PROVE  GateInv'
  BY <1>30 DEF TypeOK, GateInv, NothingSent, GateClosed, HumanGate, SetReport,
     GoTo, rows, LotState
<1>31. ASSUME Approve
      PROVE  GateInv'
  BY <1>31 DEF TypeOK, GateInv, NothingSent, GateClosed, HumanGate, Approve,
     rows
<1>32. ASSUME BuyerCheck
      PROVE  GateInv'
  BY <1>32 DEF TypeOK, GateInv, NothingSent, GateClosed, HumanGate,
     BuyerCheck, rows
<1>33. ASSUME BuyerApprove
      PROVE  GateInv'
  BY <1>33 DEF TypeOK, GateInv, NothingSent, GateClosed, HumanGate,
     BuyerApprove, rows
<1>34. ASSUME Reject
      PROVE  GateInv'
  BY <1>34 DEF TypeOK, GateInv, NothingSent, GateClosed, HumanGate, Reject,
     rows
<1>35. CASE UNCHANGED vars
  BY <1>35 DEF GateInv, NothingSent, GateClosed, HumanGate, vars, rows
<1>36. QED
  BY <1>1, <1>2, <1>3, <1>4, <1>5, <1>6, <1>7, <1>8, <1>9, <1>10, <1>11,
     <1>12, <1>13, <1>14, <1>15, <1>16, <1>17, <1>18, <1>19, <1>20, <1>21,
     <1>22, <1>23, <1>24, <1>25, <1>26, <1>27, <1>28, <1>29, <1>30, <1>31,
     <1>32, <1>33, <1>34, <1>35
  DEF Next, Pipeline, RunStep, Review

\* However many runs and reviewers interleave, no supplier hears from a run
\* that asked for a human.
THEOREM HumanGateHolds == Spec => []HumanGate
<1>1. Init => GateInv
  BY DEF Init, GateInv, NothingSent, GateClosed, HumanGate, DraftState
<1>2. TypeOK /\ GateInv /\ [Next]_vars => GateInv'
  BY GateStep
<1>3. GateInv => HumanGate
  BY DEF GateInv
<1>4. QED
  BY <1>1, <1>2, <1>3, TypeCorrect, PTL DEF Spec

-----------------------------------------------------------------------------
(***************************************************************************)
(* The regulatory gate.                                                    *)
(***************************************************************************)

\* The phase is set before any run starts, and never again.
NotStarted == lot.status = "absent" => \A r \in Runs : pc[r] = "idle"

\* A run that has not planned has bargained with nobody.
NothingBargained ==
    \A r \in Runs, s \in Suppliers :
        pc[r] \in {"idle", "planner"} => <<r, s>> \notin negRows

\* What the filter allowed at the start of the loop it still allows in it.
Lawful == \A r \in Runs : pc[r] \in {"bargain", "auditRound"} => MayBargain(r)

RegulatoryInv == NotStarted /\ NothingBargained /\ Lawful /\ RegulatoryGate

\* The answer of the filter is carried through the rounds it was asked for.
LEMMA RegulatoryStep == TypeOK /\ RegulatoryInv /\ [Next]_vars => RegulatoryInv'
<1> SUFFICES ASSUME TypeOK, RegulatoryInv, [Next]_vars
             PROVE  RegulatoryInv'
  OBVIOUS
<1>1. ASSUME NEW r \in Runs, NEW p \in Phases,
             NEW t \in Totals \cup {None}, CreateLot(r, p, t)
      PROVE  RegulatoryInv'
  BY <1>1 DEF TypeOK, RegulatoryInv, NotStarted, NothingBargained, Lawful,
     RegulatoryGate, MayBargain, CreateLot, GoTo, rows, LotRow
<1>2. ASSUME NEW r \in Runs, StartRun(r)
      PROVE  RegulatoryInv'
  BY <1>2 DEF TypeOK, RegulatoryInv, NotStarted, NothingBargained, Lawful,
     RegulatoryGate, MayBargain, StartRun, GoTo, rows
<1>3. ASSUME NEW r \in Runs, Stop(r)
      PROVE  RegulatoryInv'
  BY <1>3 DEF TypeOK, RegulatoryInv, NotStarted, NothingBargained, Lawful,
     RegulatoryGate, MayBargain, Stop, GoTo, rows, Active
<1>4. ASSUME NEW r \in Runs, PlannerNoCandidates(r)
      PROVE  RegulatoryInv'
  BY <1>4 DEF TypeOK, RegulatoryInv, NotStarted, NothingBargained, Lawful,
     RegulatoryGate, MayBargain, PlannerNoCandidates, GoTo, Audit, rows,
     LotState
<1>5. ASSUME NEW r \in Runs, NEW c \in Categories \cup {None},
             NEW t \in Totals \cup {0}, NEW h \in BOOLEAN, Planner(r, c, t, h)
      PROVE  RegulatoryInv'
  BY <1>5 DEF TypeOK, RegulatoryInv, NotStarted, NothingBargained, Lawful,
     RegulatoryGate, MayBargain, Planner, GoTo, Audit, rows, AfterPlanner,
     LotState
<1>6. ASSUME NEW r \in Runs, Notify(r)
      PROVE  RegulatoryInv'
  BY <1>6 DEF TypeOK, RegulatoryInv, NotStarted, NothingBargained, Lawful,
     RegulatoryGate, MayBargain, Notify, GoTo, rows
<1>7. ASSUME NEW r \in Runs, NEW S \in SUBSET Suppliers, Sourcer(r, S)
      PROVE  RegulatoryInv'
  BY <1>7 DEF TypeOK, RegulatoryInv, NotStarted, NothingBargained, Lawful,
     RegulatoryGate, MayBargain, Sourcer, GoTo, Audit, rows, LotState
<1>8. ASSUME NEW r \in Runs, NEW S \in SUBSET Suppliers, SendDoneDemo(r,
             S)
      PROVE  RegulatoryInv'
  BY <1>8 DEF TypeOK, RegulatoryInv, NotStarted, NothingBargained, Lawful,
     RegulatoryGate, MayBargain, SendDoneDemo, GoTo, Audit, rows, LotState
<1>9. ASSUME NEW r \in Runs, NEW S \in SUBSET Suppliers,
             NegotiateOpen(r, S)
      PROVE  RegulatoryInv'
  BY <1>9 DEF TypeOK, RegulatoryInv, NotStarted, NothingBargained, Lawful,
     RegulatoryGate, MayBargain, NegotiateOpen, GoTo, rows, LotState
<1>10. ASSUME NEW r \in Runs, NEW S \in SUBSET Suppliers, Reporter(r, S)
      PROVE  RegulatoryInv'
  BY <1>10 DEF TypeOK, RegulatoryInv, NotStarted, NothingBargained, Lawful,
     RegulatoryGate, MayBargain, Reporter, GoTo, Audit, rows, LotState
<1>11. ASSUME NEW r \in Runs, NEW s \in Suppliers, SendRfq(r, s)
      PROVE  RegulatoryInv'
  BY <1>11 DEF TypeOK, RegulatoryInv, NotStarted, NothingBargained, Lawful,
     RegulatoryGate, MayBargain, SendRfq, GoTo, rows, LotState
<1>12. ASSUME NEW r \in Runs, NEW s \in Suppliers, SendRfqFails(r, s)
      PROVE  RegulatoryInv'
  BY <1>12 DEF TypeOK, RegulatoryInv, NotStarted, NothingBargained, Lawful,
     RegulatoryGate, MayBargain, SendRfqFails, rows, LotState
<1>13. ASSUME NEW r \in Runs, NEW s \in Suppliers, Collect(r, s)
      PROVE  RegulatoryInv'
  BY <1>13 DEF TypeOK, RegulatoryInv, NotStarted, NothingBargained, Lawful,
     RegulatoryGate, MayBargain, Collect, rows, LotState
<1>14. ASSUME NEW r \in Runs, NEW s \in Suppliers, CollectKeyError(r, s)
      PROVE  RegulatoryInv'
  BY <1>14 DEF TypeOK, RegulatoryInv, NotStarted, NothingBargained, Lawful,
     RegulatoryGate, MayBargain, CollectKeyError, GoTo, rows
<1>15. ASSUME NEW r \in Runs, NEW s \in Suppliers, BargainSkip(r, s)
      PROVE  RegulatoryInv'
  BY <1>15 DEF TypeOK, RegulatoryInv, NotStarted, NothingBargained, Lawful,
     RegulatoryGate, MayBargain, BargainSkip, Audit, rows, LotState
<1>16. ASSUME NEW r \in Runs, NEW s \in Suppliers, BargainRound(r, s)
      PROVE  RegulatoryInv'
  BY <1>16 DEF TypeOK, RegulatoryInv, NotStarted, NothingBargained, Lawful,
     RegulatoryGate, MayBargain, BargainRound, GoTo, rows, LotState
<1>17. ASSUME NEW r \in Runs, NEW s \in Suppliers, Verify(r, s)
      PROVE  RegulatoryInv'
  BY <1>17 DEF TypeOK, RegulatoryInv, NotStarted, NothingBargained, Lawful,
     RegulatoryGate, MayBargain, Verify, GoTo, rows, LotState
<1>18. ASSUME NEW r \in Runs, RecordRfq(r)
      PROVE  RegulatoryInv'
  BY <1>18 DEF TypeOK, RegulatoryInv, NotStarted, NothingBargained, Lawful,
     RegulatoryGate, MayBargain, RecordRfq, GoTo, rows
<1>19. ASSUME NEW r \in Runs, RecordRfqFails(r)
      PROVE  RegulatoryInv'
  BY <1>19 DEF TypeOK, RegulatoryInv, NotStarted, NothingBargained, Lawful,
     RegulatoryGate, MayBargain, RecordRfqFails, GoTo, rows
<1>20. ASSUME NEW r \in Runs, SendDone(r)
      PROVE  RegulatoryInv'
  BY <1>20 DEF TypeOK, RegulatoryInv, NotStarted, NothingBargained, Lawful,
     RegulatoryGate, MayBargain, SendDone, Return, GoTo, Audit, rows, LotState
<1>21. ASSUME NEW r \in Runs, CollectDone(r)
      PROVE  RegulatoryInv'
  BY <1>21 DEF TypeOK, RegulatoryInv, NotStarted, NothingBargained, Lawful,
     RegulatoryGate, MayBargain, CollectDone, Return, GoTo, Audit, rows,
     LotState
<1>22. ASSUME NEW r \in Runs, NegotiateNothing(r)
      PROVE  RegulatoryInv'
  BY <1>22 DEF TypeOK, RegulatoryInv, NotStarted, NothingBargained, Lawful,
     RegulatoryGate, MayBargain, NegotiateNothing, Return, GoTo, rows,
     LotState
<1>23. ASSUME NEW r \in Runs, NegotiateBlocked(r)
      PROVE  RegulatoryInv'
  BY <1>23 DEF TypeOK, RegulatoryInv, NotStarted, NothingBargained, Lawful,
     RegulatoryGate, MayBargain, NegotiateBlocked, Return, GoTo, Audit, rows,
     LotState
<1>24. ASSUME NEW r \in Runs, AuditRound(r)
      PROVE  RegulatoryInv'
  BY <1>24 DEF TypeOK, RegulatoryInv, NotStarted, NothingBargained, Lawful,
     RegulatoryGate, MayBargain, AuditRound, GoTo, Audit, rows
<1>25. ASSUME NEW r \in Runs, BargainDone(r)
      PROVE  RegulatoryInv'
  BY <1>25 DEF TypeOK, RegulatoryInv, NotStarted, NothingBargained, Lawful,
     RegulatoryGate, MayBargain, BargainDone, Return, GoTo, Audit, rows,
     LotState
<1>26. ASSUME NEW r \in Runs, AuditCheck(r)
      PROVE  RegulatoryInv'
  BY <1>26 DEF TypeOK, RegulatoryInv, NotStarted, NothingBargained, Lawful,
     RegulatoryGate, MayBargain, AuditCheck, GoTo, Audit, rows
<1>27. ASSUME NEW r \in Runs, VerifyDone(r)
      PROVE  RegulatoryInv'
  BY <1>27 DEF TypeOK, RegulatoryInv, NotStarted, NothingBargained, Lawful,
     RegulatoryGate, MayBargain, VerifyDone, Return, GoTo, rows, LotState
<1>28. ASSUME NEW r \in Runs, Persist(r)
      PROVE  RegulatoryInv'
  BY <1>28 DEF TypeOK, RegulatoryInv, NotStarted, NothingBargained, Lawful,
     RegulatoryGate, MayBargain, Persist, GoTo, rows, LotRow, SavedLot,
     LotStatus, Successor, ShouldEscalate, LotState
<1>29. ASSUME NEW r \in Runs, Finalize(r)
      PROVE  RegulatoryInv'
  BY <1>29 DEF TypeOK, RegulatoryInv, NotStarted, NothingBargained, Lawful,
     RegulatoryGate, MayBargain, Finalize, GoTo, rows, LotRow, SavedLot,
     LotStatus, LotState
<1>30. ASSUME NEW r \in Runs, SetReport(r)
      PROVE  RegulatoryInv'
  BY <1>30 DEF TypeOK, RegulatoryInv, NotStarted, NothingBargained, Lawful,
     RegulatoryGate, MayBargain, SetReport, GoTo, rows, LotRow, LotState
<1>31. ASSUME Approve
      PROVE  RegulatoryInv'
  BY <1>31 DEF TypeOK, RegulatoryInv, NotStarted, NothingBargained, Lawful,
     RegulatoryGate, MayBargain, Approve, rows, LotRow, Decided
<1>32. ASSUME BuyerCheck
      PROVE  RegulatoryInv'
  BY <1>32 DEF TypeOK, RegulatoryInv, NotStarted, NothingBargained, Lawful,
     RegulatoryGate, MayBargain, BuyerCheck, rows
<1>33. ASSUME BuyerApprove
      PROVE  RegulatoryInv'
  BY <1>33 DEF TypeOK, RegulatoryInv, NotStarted, NothingBargained, Lawful,
     RegulatoryGate, MayBargain, BuyerApprove, rows, LotRow, Decided
<1>34. ASSUME Reject
      PROVE  RegulatoryInv'
  BY <1>34 DEF TypeOK, RegulatoryInv, NotStarted, NothingBargained, Lawful,
     RegulatoryGate, MayBargain, Reject, rows, LotRow, Decided
<1>35. CASE UNCHANGED vars
  BY <1>35 DEF RegulatoryInv, NotStarted, NothingBargained, Lawful,
     RegulatoryGate, MayBargain, vars, rows
<1>36. QED
  BY <1>1, <1>2, <1>3, <1>4, <1>5, <1>6, <1>7, <1>8, <1>9, <1>10, <1>11,
     <1>12, <1>13, <1>14, <1>15, <1>16, <1>17, <1>18, <1>19, <1>20, <1>21,
     <1>22, <1>23, <1>24, <1>25, <1>26, <1>27, <1>28, <1>29, <1>30, <1>31,
     <1>32, <1>33, <1>34, <1>35
  DEF Next, Pipeline, RunStep, Review

\* Every negotiation row is lawful at every moment, whatever other runs write
\* to the lot while its run bargains.
THEOREM RegulatoryGateHolds == Spec => []RegulatoryGate
<1>1. Init => RegulatoryInv
  BY DEF Init, RegulatoryInv, NotStarted, NothingBargained, Lawful, RegulatoryGate
<1>2. TypeOK /\ RegulatoryInv /\ [Next]_vars => RegulatoryInv'
  BY RegulatoryStep
<1>3. RegulatoryInv => RegulatoryGate
  BY DEF RegulatoryInv
<1>4. QED
  BY <1>1, <1>2, <1>3, TypeCorrect, PTL DEF Spec

-----------------------------------------------------------------------------
(***************************************************************************)
(* The audit trail.                                                        *)
(***************************************************************************)

\* A step that saves leaves its audit to the next step of the same run, which
\* writes it or dies there.
LEMMA AuditStep == TypeOK /\ AuditLagsByOne /\ [Next]_vars => AuditLagsByOne'
<1> SUFFICES ASSUME TypeOK, AuditLagsByOne, [Next]_vars
             PROVE  AuditLagsByOne'
  OBVIOUS
<1>1. ASSUME NEW r \in Runs, NEW p \in Phases,
             NEW t \in Totals \cup {None}, CreateLot(r, p, t)
      PROVE  AuditLagsByOne'
  BY <1>1 DEF TypeOK, AuditLagsByOne, CreateLot, GoTo, rows
<1>2. ASSUME NEW r \in Runs, StartRun(r)
      PROVE  AuditLagsByOne'
  BY <1>2 DEF TypeOK, AuditLagsByOne, StartRun, GoTo, rows
<1>3. ASSUME NEW r \in Runs, Stop(r)
      PROVE  AuditLagsByOne'
  BY <1>3 DEF TypeOK, AuditLagsByOne, Stop, GoTo, rows, Active
<1>4. ASSUME NEW r \in Runs, PlannerNoCandidates(r)
      PROVE  AuditLagsByOne'
  BY <1>4 DEF TypeOK, AuditLagsByOne, PlannerNoCandidates, GoTo, Audit, rows,
     LotState
<1>5. ASSUME NEW r \in Runs, NEW c \in Categories \cup {None},
             NEW t \in Totals \cup {0}, NEW h \in BOOLEAN, Planner(r, c, t, h)
      PROVE  AuditLagsByOne'
  BY <1>5 DEF TypeOK, AuditLagsByOne, Planner, GoTo, Audit, rows,
     AfterPlanner, LotState
<1>6. ASSUME NEW r \in Runs, Notify(r)
      PROVE  AuditLagsByOne'
  BY <1>6 DEF TypeOK, AuditLagsByOne, Notify, GoTo, rows
<1>7. ASSUME NEW r \in Runs, NEW S \in SUBSET Suppliers, Sourcer(r, S)
      PROVE  AuditLagsByOne'
  BY <1>7 DEF TypeOK, AuditLagsByOne, Sourcer, GoTo, Audit, rows, LotState
<1>8. ASSUME NEW r \in Runs, NEW S \in SUBSET Suppliers, SendDoneDemo(r,
             S)
      PROVE  AuditLagsByOne'
  BY <1>8 DEF TypeOK, AuditLagsByOne, SendDoneDemo, GoTo, Audit, rows,
     LotState
<1>9. ASSUME NEW r \in Runs, NEW S \in SUBSET Suppliers,
             NegotiateOpen(r, S)
      PROVE  AuditLagsByOne'
  BY <1>9 DEF TypeOK, AuditLagsByOne, NegotiateOpen, GoTo, rows, LotState
<1>10. ASSUME NEW r \in Runs, NEW S \in SUBSET Suppliers, Reporter(r, S)
      PROVE  AuditLagsByOne'
  BY <1>10 DEF TypeOK, AuditLagsByOne, Reporter, GoTo, Audit, rows, LotState
<1>11. ASSUME NEW r \in Runs, NEW s \in Suppliers, SendRfq(r, s)
      PROVE  AuditLagsByOne'
  BY <1>11 DEF TypeOK, AuditLagsByOne, SendRfq, GoTo, rows, LotState
<1>12. ASSUME NEW r \in Runs, NEW s \in Suppliers, SendRfqFails(r, s)
      PROVE  AuditLagsByOne'
  BY <1>12 DEF TypeOK, AuditLagsByOne, SendRfqFails, rows, LotState
<1>13. ASSUME NEW r \in Runs, NEW s \in Suppliers, Collect(r, s)
      PROVE  AuditLagsByOne'
  BY <1>13 DEF TypeOK, AuditLagsByOne, Collect, rows, LotState
<1>14. ASSUME NEW r \in Runs, NEW s \in Suppliers, CollectKeyError(r, s)
      PROVE  AuditLagsByOne'
  BY <1>14 DEF TypeOK, AuditLagsByOne, CollectKeyError, GoTo, rows
<1>15. ASSUME NEW r \in Runs, NEW s \in Suppliers, BargainSkip(r, s)
      PROVE  AuditLagsByOne'
  BY <1>15 DEF TypeOK, AuditLagsByOne, BargainSkip, Audit, rows, LotState
<1>16. ASSUME NEW r \in Runs, NEW s \in Suppliers, BargainRound(r, s)
      PROVE  AuditLagsByOne'
  BY <1>16 DEF TypeOK, AuditLagsByOne, BargainRound, GoTo, rows, LotState
<1>17. ASSUME NEW r \in Runs, NEW s \in Suppliers, Verify(r, s)
      PROVE  AuditLagsByOne'
  BY <1>17 DEF TypeOK, AuditLagsByOne, Verify, GoTo, rows, LotState
<1>18. ASSUME NEW r \in Runs, RecordRfq(r)
      PROVE  AuditLagsByOne'
  BY <1>18 DEF TypeOK, AuditLagsByOne, RecordRfq, GoTo, rows
<1>19. ASSUME NEW r \in Runs, RecordRfqFails(r)
      PROVE  AuditLagsByOne'
  BY <1>19 DEF TypeOK, AuditLagsByOne, RecordRfqFails, GoTo, rows
<1>20. ASSUME NEW r \in Runs, SendDone(r)
      PROVE  AuditLagsByOne'
  BY <1>20 DEF TypeOK, AuditLagsByOne, SendDone, Return, GoTo, Audit, rows,
     LotState
<1>21. ASSUME NEW r \in Runs, CollectDone(r)
      PROVE  AuditLagsByOne'
  BY <1>21 DEF TypeOK, AuditLagsByOne, CollectDone, Return, GoTo, Audit, rows,
     LotState
<1>22. ASSUME NEW r \in Runs, NegotiateNothing(r)
      PROVE  AuditLagsByOne'
  BY <1>22 DEF TypeOK, AuditLagsByOne, NegotiateNothing, Return, GoTo, rows,
     LotState
<1>23. ASSUME NEW r \in Runs, NegotiateBlocked(r)
      PROVE  AuditLagsByOne'
  BY <1>23 DEF TypeOK, AuditLagsByOne, NegotiateBlocked, Return, GoTo, Audit,
     rows, LotState
<1>24. ASSUME NEW r \in Runs, AuditRound(r)
      PROVE  AuditLagsByOne'
  BY <1>24 DEF TypeOK, AuditLagsByOne, AuditRound, GoTo, Audit, rows
<1>25. ASSUME NEW r \in Runs, BargainDone(r)
      PROVE  AuditLagsByOne'
  BY <1>25 DEF TypeOK, AuditLagsByOne, BargainDone, Return, GoTo, Audit, rows,
     LotState
<1>26. ASSUME NEW r \in Runs, AuditCheck(r)
      PROVE  AuditLagsByOne'
  BY <1>26 DEF TypeOK, AuditLagsByOne, AuditCheck, GoTo, Audit, rows
<1>27. ASSUME NEW r \in Runs, VerifyDone(r)
      PROVE  AuditLagsByOne'
  BY <1>27 DEF TypeOK, AuditLagsByOne, VerifyDone, Return, GoTo, rows,
     LotState
<1>28. ASSUME NEW r \in Runs, Persist(r)
      PROVE  AuditLagsByOne'
  BY <1>28 DEF TypeOK, AuditLagsByOne, Persist, GoTo, rows, Successor,
     ShouldEscalate, LotState
<1>29. ASSUME NEW r \in Runs, Finalize(r)
      PROVE  AuditLagsByOne'
  BY <1>29 DEF TypeOK, AuditLagsByOne, Finalize, GoTo, rows, LotState
<1>30. ASSUME NEW r \in Runs, SetReport(r)
      PROVE  AuditLagsByOne'
  BY <1>30 DEF TypeOK, AuditLagsByOne, SetReport, GoTo, rows, LotState
<1>31. ASSUME Approve
      PROVE  AuditLagsByOne'
  BY <1>31 DEF TypeOK, AuditLagsByOne, Approve, rows
<1>32. ASSUME BuyerCheck
      PROVE  AuditLagsByOne'
  BY <1>32 DEF TypeOK, AuditLagsByOne, BuyerCheck, rows
<1>33. ASSUME BuyerApprove
      PROVE  AuditLagsByOne'
  BY <1>33 DEF TypeOK, AuditLagsByOne, BuyerApprove, rows
<1>34. ASSUME Reject
      PROVE  AuditLagsByOne'
  BY <1>34 DEF TypeOK, AuditLagsByOne, Reject, rows
<1>35. CASE UNCHANGED vars
  BY <1>35 DEF AuditLagsByOne, vars, rows
<1>36. QED
  BY <1>1, <1>2, <1>3, <1>4, <1>5, <1>6, <1>7, <1>8, <1>9, <1>10, <1>11,
     <1>12, <1>13, <1>14, <1>15, <1>16, <1>17, <1>18, <1>19, <1>20, <1>21,
     <1>22, <1>23, <1>24, <1>25, <1>26, <1>27, <1>28, <1>29, <1>30, <1>31,
     <1>32, <1>33, <1>34, <1>35
  DEF Next, Pipeline, RunStep, Review

\* A crash leaves at most one row of a run unaudited, for any number of
\* suppliers and runs.
THEOREM AuditTrailHolds == Spec => []AuditLagsByOne
<1>1. Init => AuditLagsByOne
  BY DEF Init, AuditLagsByOne
<1>2. QED
  BY <1>1, AuditStep, TypeCorrect, PTL DEF Spec
-----------------------------------------------------------------------------
(***************************************************************************)
(* Steps of a run, as the other runs and the tables see them.              *)
(***************************************************************************)

\* A run moves alone.
LEMMA OneRunMoves ==
    ASSUME TypeOK, NEW r \in Runs, RunStep(r), NEW q \in Runs, q # r
    PROVE  pc'[q] = pc[q] /\ mem'[q] = mem[q]
  BY DEF TypeOK, RunStep, rows, GoTo, Return,
         Planner, PlannerNoCandidates, Notify, Sourcer, SendDoneDemo, NegotiateOpen, Reporter, SendRfq,
         SendRfqFails, Collect, CollectKeyError, BargainSkip, BargainRound, Verify, RecordRfq,
         RecordRfqFails, SendDone, CollectDone, NegotiateNothing, NegotiateBlocked, AuditRound,
         BargainDone, AuditCheck, VerifyDone, Persist, Finalize, SetReport

\* What was written or told stays so.
LEMMA RowsGrow ==
    ASSUME [Next]_vars
    PROVE  /\ rfqRows \subseteq rfqRows' /\ verRows \subseteq verRows'
           /\ audit \subseteq audit' /\ notified \subseteq notified'
<1>1. ASSUME NEW r \in Runs, RunStep(r)
      PROVE  /\ rfqRows \subseteq rfqRows' /\ verRows \subseteq verRows'
             /\ audit \subseteq audit' /\ notified \subseteq notified'
  BY <1>1
     DEF RunStep, rows, Audit,
         Planner, PlannerNoCandidates, Notify, Sourcer, SendDoneDemo, NegotiateOpen, Reporter, SendRfq,
         SendRfqFails, Collect, CollectKeyError, BargainSkip, BargainRound, Verify, RecordRfq,
         RecordRfqFails, SendDone, CollectDone, NegotiateNothing, NegotiateBlocked, AuditRound,
         BargainDone, AuditCheck, VerifyDone, Persist, Finalize, SetReport
<1>2. CASE ~ \E r \in Runs : RunStep(r)
  BY <1>2 DEF Next, Pipeline, Review, CreateLot, StartRun, Stop, Approve, BuyerCheck, BuyerApprove,
              Reject, rows, vars
<1> QED
  BY <1>1, <1>2

-----------------------------------------------------------------------------
(***************************************************************************)
(* The announcement of a lot that waits for a human.                       *)
(***************************************************************************)

\* A run that asks for a human has written so, and has told the operators
\* before it comes to save the lot.
Tells(r) ==
    mem[r].human =>
        /\ \E step \in {"no_candidates", "map_to_nsi"} : <<r, step, None>> \in audit
        /\ pc[r] \in {"persist", "finalize", "setReport"} => r \in notified

\* A run tells before it saves, and goes on asking: the human gate says where a
\* run that asks may be.
LEMMA TellsStep ==
    ASSUME TypeOK, GateClosed, NEW r \in Runs, Tells(r), RunStep(r)
    PROVE  Tells(r)' /\ (mem[r].human => mem'[r].human)
<1> DEFINE Goal == Tells(r)' /\ (mem[r].human => mem'[r].human)
<1>0. mem[r] \in LotState /\ mem \in [Runs -> LotState] /\ pc \in [Runs -> PC]
  BY DEF TypeOK
<1> USE <1>0 DEF Tells, GateClosed, LotState
<1>1. ASSUME PlannerNoCandidates(r) PROVE Goal
  BY <1>1 DEF PlannerNoCandidates, GoTo, Audit, rows
<1>2. ASSUME NEW c \in Categories \cup {None}, NEW t \in Totals \cup {0}, NEW h \in BOOLEAN, Planner(r, c, t, h) PROVE Goal
  BY <1>2 DEF Planner, AfterPlanner, GoTo, Audit, rows
<1>3. ASSUME Notify(r) PROVE Goal
  BY <1>3 DEF Notify, GoTo, rows
<1>4. ASSUME NEW S \in SUBSET Suppliers, Sourcer(r, S) PROVE Goal
  BY <1>4 DEF Sourcer, GoTo, Audit, rows
<1>5. ASSUME NEW S \in SUBSET Suppliers, SendDoneDemo(r, S) PROVE Goal
  BY <1>5 DEF SendDoneDemo, GoTo, Audit, rows
<1>6. ASSUME NEW S \in SUBSET Suppliers, NegotiateOpen(r, S) PROVE Goal
  BY <1>6 DEF NegotiateOpen, GoTo, rows
<1>7. ASSUME NEW S \in SUBSET Suppliers, Reporter(r, S) PROVE Goal
  BY <1>7 DEF Reporter, GoTo, Audit, rows
<1>8. ASSUME NEW s \in Suppliers, SendRfq(r, s) PROVE Goal
  BY <1>8 DEF SendRfq, GoTo, rows
<1>9. ASSUME NEW s \in Suppliers, SendRfqFails(r, s) PROVE Goal
  BY <1>9 DEF SendRfqFails, rows
<1>10. ASSUME NEW s \in Suppliers, Collect(r, s) PROVE Goal
  BY <1>10 DEF Collect, rows
<1>11. ASSUME NEW s \in Suppliers, CollectKeyError(r, s) PROVE Goal
  BY <1>11 DEF CollectKeyError, GoTo, rows
<1>12. ASSUME NEW s \in Suppliers, BargainSkip(r, s) PROVE Goal
  BY <1>12 DEF BargainSkip, Audit, rows
<1>13. ASSUME NEW s \in Suppliers, BargainRound(r, s) PROVE Goal
  BY <1>13 DEF BargainRound, GoTo, rows
<1>14. ASSUME NEW s \in Suppliers, Verify(r, s) PROVE Goal
  BY <1>14 DEF Verify, GoTo, rows
<1>15. ASSUME RecordRfq(r) PROVE Goal
  BY <1>15 DEF RecordRfq, GoTo, rows
<1>16. ASSUME RecordRfqFails(r) PROVE Goal
  BY <1>16 DEF RecordRfqFails, GoTo, rows
<1>17. ASSUME SendDone(r) PROVE Goal
  BY <1>17 DEF SendDone, Return, GoTo, Audit, rows
<1>18. ASSUME CollectDone(r) PROVE Goal
  BY <1>18 DEF CollectDone, Return, GoTo, Audit, rows
<1>19. ASSUME NegotiateNothing(r) PROVE Goal
  BY <1>19 DEF NegotiateNothing, Return, GoTo, rows
<1>20. ASSUME NegotiateBlocked(r) PROVE Goal
  BY <1>20 DEF NegotiateBlocked, Return, GoTo, Audit, rows
<1>21. ASSUME AuditRound(r) PROVE Goal
  BY <1>21 DEF AuditRound, GoTo, Audit, rows
<1>22. ASSUME BargainDone(r) PROVE Goal
  BY <1>22 DEF BargainDone, Return, GoTo, Audit, rows
<1>23. ASSUME AuditCheck(r) PROVE Goal
  BY <1>23 DEF AuditCheck, GoTo, Audit, rows
<1>24. ASSUME VerifyDone(r) PROVE Goal
  BY <1>24 DEF VerifyDone, Return, GoTo, rows
<1>25. ASSUME Persist(r) PROVE Goal
  BY <1>25 DEF Persist, GoTo, Successor, ShouldEscalate, LoopList, SavedLot, rows
<1>26. ASSUME Finalize(r) PROVE Goal
  BY <1>26 DEF Finalize, GoTo, SavedLot, rows
<1>27. ASSUME SetReport(r) PROVE Goal
  BY <1>27 DEF SetReport, GoTo, rows
<1> HIDE DEF Tells, GateClosed, LotState
<1> QED
  BY <1>1, <1>2, <1>3, <1>4, <1>5, <1>6, <1>7, <1>8, <1>9, <1>10, <1>11, <1>12, <1>13,
     <1>14, <1>15, <1>16, <1>17, <1>18, <1>19, <1>20, <1>21, <1>22, <1>23, <1>24, <1>25,
     <1>26, <1>27 DEF RunStep

AnnouncedInv == (\A r \in Runs : Tells(r)) /\ HumanFlagAnnounced

\* Only a run that has told puts the flag into the row.
LEMMA AnnouncedStep ==
    ASSUME TypeOK, GateClosed, AnnouncedInv, [Next]_vars PROVE AnnouncedInv'
<1>0. audit \subseteq audit' /\ notified \subseteq notified'
  BY RowsGrow
<1>1. ASSUME \/ lot'.human = lot.human
             \/ \E r \in Runs : pc[r] \in {"persist", "finalize"} /\ lot'.human = mem[r].human,
             \A r \in Runs : Tells(r)' /\ (mem[r].human => mem'[r].human)
      PROVE  AnnouncedInv'
  <2>1. CASE lot'.human = lot.human
    <3>1. lot.human => \E r \in notified : /\ mem[r].human
                                           /\ \E step \in {"no_candidates", "map_to_nsi"} :
                                                 <<r, step, None>> \in audit
      BY DEF AnnouncedInv, HumanFlagAnnounced
    <3>2. notified \subseteq Runs
      BY DEF TypeOK
    <3> QED
      BY <1>0, <1>1, <2>1, <3>1, <3>2 DEF AnnouncedInv, HumanFlagAnnounced
  <2>2. ASSUME NEW r \in Runs, pc[r] \in {"persist", "finalize"}, lot'.human = mem[r].human
        PROVE  AnnouncedInv'
    <3>1. mem[r].human => /\ r \in notified'
                          /\ mem'[r].human
                          /\ \E step \in {"no_candidates", "map_to_nsi"} :
                                <<r, step, None>> \in audit'
      BY <1>0, <1>1, <2>2 DEF AnnouncedInv, Tells
    <3> QED
      BY <1>1, <2>2, <3>1 DEF AnnouncedInv, HumanFlagAnnounced
  <2> QED
    BY <1>1, <2>1, <2>2
<1>2. ASSUME NEW r \in Runs, RunStep(r) PROVE AnnouncedInv'
  <2>1. lot' = lot \/ (pc[r] \in {"persist", "finalize"} /\ lot' = SavedLot(mem[r])) \/ SetReport(r)
    BY <1>2
       DEF RunStep,
         Planner, PlannerNoCandidates, Notify, Sourcer, SendDoneDemo, NegotiateOpen, Reporter, SendRfq,
         SendRfqFails, Collect, CollectKeyError, BargainSkip, BargainRound, Verify, RecordRfq,
         RecordRfqFails, SendDone, CollectDone, NegotiateNothing, NegotiateBlocked, AuditRound,
         BargainDone, AuditCheck, VerifyDone, Persist, Finalize
  <2>2. SavedLot(mem[r]).human = mem[r].human
    BY DEF SavedLot, TypeOK, LotRow
  <2>3. SetReport(r) => lot'.human = lot.human
    BY DEF SetReport, TypeOK, LotRow
  <2>4. ASSUME NEW q \in Runs PROVE Tells(q)' /\ (mem[q].human => mem'[q].human)
    <3>1. CASE q = r
      BY <1>2, <3>1, TellsStep DEF AnnouncedInv
    <3>2. CASE q # r
      <4>1. pc'[q] = pc[q] /\ mem'[q] = mem[q]
        BY <1>2, <3>2, OneRunMoves
      <4> QED
        BY <1>0, <4>1 DEF AnnouncedInv, Tells
    <3> QED
      BY <3>1, <3>2
  <2> QED
    BY <1>1, <2>1, <2>2, <2>3, <2>4
<1>3. CASE ~ \E r \in Runs : RunStep(r)
  <2>1. mem' = mem /\ lot'.human = lot.human
    BY <1>3 DEF Next, Pipeline, Review, CreateLot, StartRun, Stop, Approve, BuyerCheck, BuyerApprove,
                Reject, Decided, vars, TypeOK, LotRow
  <2>2. \A r \in Runs : pc'[r] \in {"persist", "finalize", "setReport"} => pc'[r] = pc[r]
    BY <1>3 DEF Next, Pipeline, Review, CreateLot, StartRun, Stop, Approve, BuyerCheck, BuyerApprove,
                Reject, GoTo, vars, TypeOK
  <2>3. \A r \in Runs : Tells(r)' /\ (mem[r].human => mem'[r].human)
    BY <1>0, <2>1, <2>2 DEF AnnouncedInv, Tells
  <2> QED
    BY <1>1, <2>1, <2>3
<1> QED
  BY <1>2, <1>3

\* A lot that asks for a human was announced: notify_escalation is called before
\* the first save, in whatever order runs of the lot save.
THEOREM HumanFlagIsAnnounced == Spec => []HumanFlagAnnounced
<1>1. Init => GateInv /\ AnnouncedInv
  BY DEF Init, GateInv, NothingSent, GateClosed, HumanGate, DraftState, AnnouncedInv, Tells,
     HumanFlagAnnounced
<1>2. TypeOK /\ GateInv /\ AnnouncedInv /\ [Next]_vars => (GateInv /\ AnnouncedInv)'
  BY GateStep, AnnouncedStep DEF GateInv
<1>3. AnnouncedInv => HumanFlagAnnounced
  BY DEF AnnouncedInv
<1> QED
  BY <1>1, <1>2, <1>3, TypeCorrect, PTL DEF Spec

-----------------------------------------------------------------------------
(***************************************************************************)
(* What a report rests on.                                                 *)
(***************************************************************************)

\* The answers a run goes on with are stored, or are those it has yet to store;
\* the verifier goes over them.
Collected(r) ==
    /\ pc[r] \notin {"collect", "stopped"} =>
          \A s \in mem[r].responses : <<r, s, "in">> \in rfqRows
    /\ pc[r] = "collect" =>
          \A s \in mem[r].responses \ mem[r].todo : <<r, s, "in">> \in rfqRows
    /\ pc[r] \in {"verifier", "auditCheck"} => mem[r].todo \subseteq mem[r].responses

\* An offer that was verified has its rows, but for the audit row of the last.
Checked(r) ==
    \A s \in mem[r].verified :
        /\ <<r, s, "in">> \in rfqRows
        /\ <<r, s>> \in verRows
        /\ \/ <<r, "check_offer", s>> \in audit
           \/ pc[r] \in {"auditCheck", "stopped"} /\ mem[r].cur = s

\* Everything a report names is in the tables.
Backed(rep) ==
    /\ <<rep.by, "build_report", None>> \in audit
    /\ \A s \in rep.top :
          /\ <<rep.by, s, "in">> \in rfqRows
          /\ <<rep.by, s>> \in verRows
          /\ <<rep.by, "check_offer", s>> \in audit

Traced(r) == Collected(r) /\ Checked(r) /\ (mem[r].report # None => Backed(mem[r].report))

\* A run verifies no answer that is not stored, and reports none unverified.
LEMMA CollectedStep ==
    ASSUME TypeOK, NEW r \in Runs, Collected(r), RunStep(r) PROVE Collected(r)'
<1>0. mem[r] \in LotState /\ mem \in [Runs -> LotState] /\ pc \in [Runs -> PC]
  BY DEF TypeOK
<1> USE <1>0 DEF Collected, LotState
<1>1. ASSUME PlannerNoCandidates(r) PROVE Collected(r)'
  BY <1>1 DEF PlannerNoCandidates, GoTo, Audit, rows
<1>2. ASSUME NEW c \in Categories \cup {None}, NEW t \in Totals \cup {0}, NEW h \in BOOLEAN, Planner(r, c, t, h) PROVE Collected(r)'
  BY <1>2 DEF Planner, AfterPlanner, GoTo, Audit, rows
<1>3. ASSUME Notify(r) PROVE Collected(r)'
  BY <1>3 DEF Notify, GoTo, rows
<1>4. ASSUME NEW S \in SUBSET Suppliers, Sourcer(r, S) PROVE Collected(r)'
  BY <1>4 DEF Sourcer, GoTo, Audit, rows
<1>5. ASSUME NEW S \in SUBSET Suppliers, SendDoneDemo(r, S) PROVE Collected(r)'
  BY <1>5 DEF SendDoneDemo, GoTo, Audit, rows
<1>6. ASSUME NEW S \in SUBSET Suppliers, NegotiateOpen(r, S) PROVE Collected(r)'
  BY <1>6 DEF NegotiateOpen, GoTo, rows
<1>7. ASSUME NEW S \in SUBSET Suppliers, Reporter(r, S) PROVE Collected(r)'
  BY <1>7 DEF Reporter, GoTo, Audit, rows
<1>8. ASSUME NEW s \in Suppliers, SendRfq(r, s) PROVE Collected(r)'
  BY <1>8 DEF SendRfq, GoTo, rows
<1>9. ASSUME NEW s \in Suppliers, SendRfqFails(r, s) PROVE Collected(r)'
  BY <1>9 DEF SendRfqFails, rows
<1>10. ASSUME NEW s \in Suppliers, Collect(r, s) PROVE Collected(r)'
  BY <1>10 DEF Collect, rows
<1>11. ASSUME NEW s \in Suppliers, CollectKeyError(r, s) PROVE Collected(r)'
  BY <1>11 DEF CollectKeyError, GoTo, rows
<1>12. ASSUME NEW s \in Suppliers, BargainSkip(r, s) PROVE Collected(r)'
  BY <1>12 DEF BargainSkip, Audit, rows
<1>13. ASSUME NEW s \in Suppliers, BargainRound(r, s) PROVE Collected(r)'
  BY <1>13 DEF BargainRound, GoTo, rows
<1>14. ASSUME NEW s \in Suppliers, Verify(r, s) PROVE Collected(r)'
  BY <1>14 DEF Verify, GoTo, rows
<1>15. ASSUME RecordRfq(r) PROVE Collected(r)'
  BY <1>15 DEF RecordRfq, GoTo, rows
<1>16. ASSUME RecordRfqFails(r) PROVE Collected(r)'
  BY <1>16 DEF RecordRfqFails, GoTo, rows
<1>17. ASSUME SendDone(r) PROVE Collected(r)'
  BY <1>17 DEF SendDone, Return, GoTo, Audit, rows
<1>18. ASSUME CollectDone(r) PROVE Collected(r)'
  BY <1>18 DEF CollectDone, Return, GoTo, Audit, rows
<1>19. ASSUME NegotiateNothing(r) PROVE Collected(r)'
  BY <1>19 DEF NegotiateNothing, Return, GoTo, rows
<1>20. ASSUME NegotiateBlocked(r) PROVE Collected(r)'
  BY <1>20 DEF NegotiateBlocked, Return, GoTo, Audit, rows
<1>21. ASSUME AuditRound(r) PROVE Collected(r)'
  BY <1>21 DEF AuditRound, GoTo, Audit, rows
<1>22. ASSUME BargainDone(r) PROVE Collected(r)'
  BY <1>22 DEF BargainDone, Return, GoTo, Audit, rows
<1>23. ASSUME AuditCheck(r) PROVE Collected(r)'
  BY <1>23 DEF AuditCheck, GoTo, Audit, rows
<1>24. ASSUME VerifyDone(r) PROVE Collected(r)'
  BY <1>24 DEF VerifyDone, Return, GoTo, rows
<1>25. ASSUME Persist(r) PROVE Collected(r)'
  BY <1>25 DEF Persist, GoTo, Successor, ShouldEscalate, LoopList, SavedLot, rows
<1>26. ASSUME Finalize(r) PROVE Collected(r)'
  BY <1>26 DEF Finalize, GoTo, SavedLot, rows
<1>27. ASSUME SetReport(r) PROVE Collected(r)'
  BY <1>27 DEF SetReport, GoTo, rows
<1> HIDE DEF Collected, LotState
<1> QED
  BY <1>1, <1>2, <1>3, <1>4, <1>5, <1>6, <1>7, <1>8, <1>9, <1>10, <1>11, <1>12, <1>13,
     <1>14, <1>15, <1>16, <1>17, <1>18, <1>19, <1>20, <1>21, <1>22, <1>23, <1>24, <1>25,
     <1>26, <1>27 DEF RunStep

\* It writes the row of an offer before it takes the next.
LEMMA CheckedStep ==
    ASSUME TypeOK, NEW r \in Runs, Collected(r), Checked(r), RunStep(r) PROVE Checked(r)'
<1>0. mem[r] \in LotState /\ mem \in [Runs -> LotState] /\ pc \in [Runs -> PC]
  BY DEF TypeOK
<1> USE <1>0 DEF Checked, LotState
<1>1. ASSUME PlannerNoCandidates(r) PROVE Checked(r)'
  BY <1>1 DEF PlannerNoCandidates, GoTo, Audit, rows
<1>2. ASSUME NEW c \in Categories \cup {None}, NEW t \in Totals \cup {0}, NEW h \in BOOLEAN, Planner(r, c, t, h) PROVE Checked(r)'
  BY <1>2 DEF Planner, AfterPlanner, GoTo, Audit, rows
<1>3. ASSUME Notify(r) PROVE Checked(r)'
  BY <1>3 DEF Notify, GoTo, rows
<1>4. ASSUME NEW S \in SUBSET Suppliers, Sourcer(r, S) PROVE Checked(r)'
  BY <1>4 DEF Sourcer, GoTo, Audit, rows
<1>5. ASSUME NEW S \in SUBSET Suppliers, SendDoneDemo(r, S) PROVE Checked(r)'
  BY <1>5 DEF SendDoneDemo, GoTo, Audit, rows
<1>6. ASSUME NEW S \in SUBSET Suppliers, NegotiateOpen(r, S) PROVE Checked(r)'
  BY <1>6 DEF NegotiateOpen, GoTo, rows
<1>7. ASSUME NEW S \in SUBSET Suppliers, Reporter(r, S) PROVE Checked(r)'
  BY <1>7 DEF Reporter, GoTo, Audit, rows
<1>8. ASSUME NEW s \in Suppliers, SendRfq(r, s) PROVE Checked(r)'
  BY <1>8 DEF SendRfq, GoTo, rows
<1>9. ASSUME NEW s \in Suppliers, SendRfqFails(r, s) PROVE Checked(r)'
  BY <1>9 DEF SendRfqFails, rows
<1>10. ASSUME NEW s \in Suppliers, Collect(r, s) PROVE Checked(r)'
  BY <1>10 DEF Collect, rows
<1>11. ASSUME NEW s \in Suppliers, CollectKeyError(r, s) PROVE Checked(r)'
  BY <1>11 DEF CollectKeyError, GoTo, rows
<1>12. ASSUME NEW s \in Suppliers, BargainSkip(r, s) PROVE Checked(r)'
  BY <1>12 DEF BargainSkip, Audit, rows
<1>13. ASSUME NEW s \in Suppliers, BargainRound(r, s) PROVE Checked(r)'
  BY <1>13 DEF BargainRound, GoTo, rows
<1>14. ASSUME NEW s \in Suppliers, Verify(r, s) PROVE Checked(r)'
  BY <1>14 DEF Collected, Verify, GoTo, rows
<1>15. ASSUME RecordRfq(r) PROVE Checked(r)'
  BY <1>15 DEF RecordRfq, GoTo, rows
<1>16. ASSUME RecordRfqFails(r) PROVE Checked(r)'
  BY <1>16 DEF RecordRfqFails, GoTo, rows
<1>17. ASSUME SendDone(r) PROVE Checked(r)'
  BY <1>17 DEF SendDone, Return, GoTo, Audit, rows
<1>18. ASSUME CollectDone(r) PROVE Checked(r)'
  BY <1>18 DEF CollectDone, Return, GoTo, Audit, rows
<1>19. ASSUME NegotiateNothing(r) PROVE Checked(r)'
  BY <1>19 DEF NegotiateNothing, Return, GoTo, rows
<1>20. ASSUME NegotiateBlocked(r) PROVE Checked(r)'
  BY <1>20 DEF NegotiateBlocked, Return, GoTo, Audit, rows
<1>21. ASSUME AuditRound(r) PROVE Checked(r)'
  BY <1>21 DEF AuditRound, GoTo, Audit, rows
<1>22. ASSUME BargainDone(r) PROVE Checked(r)'
  BY <1>22 DEF BargainDone, Return, GoTo, Audit, rows
<1>23. ASSUME AuditCheck(r) PROVE Checked(r)'
  BY <1>23 DEF AuditCheck, GoTo, Audit, rows
<1>24. ASSUME VerifyDone(r) PROVE Checked(r)'
  BY <1>24 DEF VerifyDone, Return, GoTo, rows
<1>25. ASSUME Persist(r) PROVE Checked(r)'
  BY <1>25 DEF Persist, GoTo, Successor, ShouldEscalate, LoopList, SavedLot, rows
<1>26. ASSUME Finalize(r) PROVE Checked(r)'
  BY <1>26 DEF Finalize, GoTo, SavedLot, rows
<1>27. ASSUME SetReport(r) PROVE Checked(r)'
  BY <1>27 DEF SetReport, GoTo, rows
<1> HIDE DEF Checked, LotState
<1> QED
  BY <1>1, <1>2, <1>3, <1>4, <1>5, <1>6, <1>7, <1>8, <1>9, <1>10, <1>11, <1>12, <1>13,
     <1>14, <1>15, <1>16, <1>17, <1>18, <1>19, <1>20, <1>21, <1>22, <1>23, <1>24, <1>25,
     <1>26, <1>27 DEF RunStep

\* What a report names stays in the tables.
LEMMA BackedStays == ASSUME [Next]_vars, NEW rep, Backed(rep) PROVE Backed(rep)'
  BY RowsGrow DEF Backed

\* The report a run builds is backed.
LEMMA ReportMade ==
    ASSUME TypeOK, NEW r \in Runs, Traced(r), RunStep(r), NEW rep, rep = mem'[r].report, rep # None
    PROVE  rep = mem[r].report \/ Backed(rep)'
<1>1. ASSUME NEW S \in SUBSET Suppliers, Reporter(r, S) PROVE Backed(rep)'
  <2>1. /\ rep = [by |-> r, top |-> S] /\ S \subseteq mem[r].verified /\ pc[r] = "reporter"
        /\ audit' = audit \cup {<<r, "build_report", None>>}
        /\ rfqRows' = rfqRows /\ verRows' = verRows
    BY <1>1 DEF Reporter, Audit, rows, TypeOK, LotState
  <2> QED
    BY <2>1 DEF Traced, Checked, Backed
<1>2. CASE ~ \E S \in SUBSET Suppliers : Reporter(r, S)
  <2> DEFINE Same == mem'[r].report = mem[r].report
  <2>1. mem \in [Runs -> LotState] /\ mem[r] \in LotState
    BY DEF TypeOK
  <2> USE <2>1 DEF LotState
  <2>2. ASSUME NEW s \in Suppliers,
               \/ SendRfq(r, s) \/ SendRfqFails(r, s) \/ Collect(r, s) \/ CollectKeyError(r, s)
               \/ BargainSkip(r, s) \/ BargainRound(r, s) \/ Verify(r, s)
        PROVE  Same
    BY <2>2 DEF SendRfq, SendRfqFails, Collect, CollectKeyError, BargainSkip, BargainRound, Verify
  <2>3. ASSUME NEW S \in SUBSET Suppliers,
               Sourcer(r, S) \/ SendDoneDemo(r, S) \/ NegotiateOpen(r, S)
        PROVE  Same
    BY <2>3 DEF Sourcer, SendDoneDemo, NegotiateOpen
  <2>4. ASSUME NEW c \in Categories \cup {None}, NEW t \in Totals \cup {0}, NEW h \in BOOLEAN,
               PlannerNoCandidates(r) \/ Planner(r, c, t, h)
        PROVE  Same
    BY <2>4 DEF PlannerNoCandidates, Planner
  <2>5. ASSUME \/ SendDone(r) \/ CollectDone(r) \/ NegotiateNothing(r) \/ NegotiateBlocked(r)
               \/ BargainDone(r) \/ VerifyDone(r)
        PROVE  Same
    BY <2>5 DEF SendDone, CollectDone, NegotiateNothing, NegotiateBlocked, BargainDone, VerifyDone,
                Return
  <2>6. ASSUME \/ Notify(r) \/ RecordRfq(r) \/ RecordRfqFails(r) \/ AuditRound(r) \/ AuditCheck(r)
               \/ Persist(r) \/ Finalize(r) \/ SetReport(r)
        PROVE  Same
    BY <2>6 DEF Notify, RecordRfq, RecordRfqFails, AuditRound, AuditCheck, Persist, Finalize,
                SetReport
  <2> HIDE DEF Same
  <2>7. Same
    BY <1>2, <2>2, <2>3, <2>4, <2>5, <2>6 DEF RunStep
  <2> QED
    BY <2>7 DEF Same
<1> QED
  BY <1>1, <1>2

ReportInv == (\A r \in Runs : Traced(r)) /\ ReportBacked

\* Every step keeps what reports rest on.
LEMMA ReportStep == ASSUME TypeOK, ReportInv, [Next]_vars PROVE ReportInv'
<1>0. rfqRows \subseteq rfqRows' /\ verRows \subseteq verRows' /\ audit \subseteq audit'
  BY RowsGrow
<1>1. ASSUME NEW q \in Runs, mem'[q] = mem[q],
             pc'[q] = pc[q] \/ pc'[q] = "stopped" \/ (pc[q] = "idle" /\ pc'[q] = "planner")
      PROVE  Traced(q)'
  <2>1. Collected(q)'
    BY <1>0, <1>1 DEF ReportInv, Traced, Collected
  <2>2. Checked(q)'
    BY <1>0, <1>1 DEF ReportInv, Traced, Checked
  <2>3. PICK rep : rep = mem[q].report
    OBVIOUS
  <2>4. rep # None => Backed(rep)'
    BY <2>3, BackedStays DEF ReportInv, Traced
  <2> QED
    BY <1>1, <2>1, <2>2, <2>3, <2>4 DEF Traced, Backed
<1>2. ASSUME NEW rep, lot'.report = rep, rep # None => Backed(rep)
      PROVE  ReportBacked'
  BY <1>2, BackedStays DEF ReportBacked, Backed
<1>3. lot.report # None => Backed(lot.report)
  BY DEF ReportInv, ReportBacked, Backed
<1>4. ASSUME NEW r \in Runs, RunStep(r) PROVE ReportInv'
  <2>1. lot'.report = lot.report \/ lot'.report = mem[r].report
    BY <1>4
       DEF RunStep, SavedLot, TypeOK, LotRow,
         Planner, PlannerNoCandidates, Notify, Sourcer, SendDoneDemo, NegotiateOpen, Reporter, SendRfq,
         SendRfqFails, Collect, CollectKeyError, BargainSkip, BargainRound, Verify, RecordRfq,
         RecordRfqFails, SendDone, CollectDone, NegotiateNothing, NegotiateBlocked, AuditRound,
         BargainDone, AuditCheck, VerifyDone, Persist, Finalize, SetReport
  <2>2. mem[r].report # None => Backed(mem[r].report)
    BY DEF ReportInv, Traced
  <2>3. ReportBacked'
    BY <1>2, <1>3, <2>1, <2>2
  <2>4. Traced(r)'
    <3>1. PICK rep : rep = mem'[r].report
      OBVIOUS
    <3>2. rep # None => Backed(rep)'
      BY <1>4, <2>2, <3>1, ReportMade, BackedStays DEF ReportInv
    <3>3. Collected(r)' /\ Checked(r)'
      BY <1>4, CollectedStep, CheckedStep DEF ReportInv, Traced
    <3> QED
      BY <3>1, <3>2, <3>3 DEF Traced, Backed
  <2>5. \A q \in Runs \ {r} : Traced(q)'
    BY <1>1, <1>4, OneRunMoves
  <2> QED
    BY <2>3, <2>4, <2>5 DEF ReportInv
<1>5. CASE ~ \E r \in Runs : RunStep(r)
  <2>1. mem' = mem /\ lot'.report = lot.report
    BY <1>5 DEF Next, Pipeline, Review, CreateLot, StartRun, Stop, Approve, BuyerCheck, BuyerApprove,
                Reject, Decided, vars, TypeOK, LotRow
  <2>2. \A q \in Runs : pc'[q] = pc[q] \/ pc'[q] = "stopped" \/ (pc[q] = "idle" /\ pc'[q] = "planner")
    BY <1>5 DEF Next, Pipeline, Review, CreateLot, StartRun, Stop, Approve, BuyerCheck, BuyerApprove,
                Reject, GoTo, vars, TypeOK
  <2>3. \A q \in Runs : Traced(q)'
    BY <1>1, <2>1, <2>2
  <2>4. ReportBacked'
    BY <1>2, <1>3, <2>1
  <2> QED
    BY <2>3, <2>4 DEF ReportInv
<1> QED
  BY <1>4, <1>5

\* A stored report can be traced to the answers, verifications and audit rows of
\* the run that built it, whatever crashed or ran beside it.
THEOREM ReportIsBacked == Spec => []ReportBacked
<1>1. Init => ReportInv
  BY DEF Init, DraftState, ReportInv, Traced, Collected, Checked, ReportBacked
<1>2. TypeOK /\ ReportInv /\ [Next]_vars => ReportInv'
  BY ReportStep
<1>3. ReportInv => ReportBacked
  BY DEF ReportInv
<1> QED
  BY <1>1, <1>2, <1>3, TypeCorrect, PTL DEF Spec

(***************************************************************************)
(* The lifecycle.  A single run and patient reviewers are the              *)
(* only writers of the lot, so where the run stands tells what the row     *)
(* holds, and what the run is about to save is the next link of the chain. *)
(***************************************************************************)

\* Where a run stands tells the status its last save left in the row.
Stage(r) ==
    /\ pc[r] = "idle" <=> lot.status = "absent"
    /\ pc[r] \in {"planner", "notify"} => lot.status = "draft"
    /\ pc[r] = "sourcer" => lot.status = "planned"
    /\ pc[r] \in {"communicator", "recordRfq", "collect"} => lot.status = "sourcing"
    /\ pc[r] = "negotiator" => lot.status \in {"rfq_sent", "responses_collected"}
    /\ pc[r] \in {"bargain", "auditRound"} => lot.status = "responses_collected"
    /\ pc[r] \in {"verifier", "auditCheck"} =>
          lot.status \in {"negotiating", "responses_collected"}
    /\ pc[r] = "reporter" => lot.status = "verified"
    /\ pc[r] = "setReport" => lot.status = "report_ready" /\ mem[r].report # None
    /\ pc[r] = "finished" => (lot.status = "report_ready" => lot.report # None)

\* What a run that is about to save holds: the link its node adds to the chain.
Link(r) ==
    /\ pc[r] = "persist" =>
          \/ /\ mem[r].node = "planner"
             /\ lot.status = "draft"
             /\ mem[r].status = "planned" \/ (mem[r].status = "escalated" /\ mem[r].human)
          \/ /\ mem[r].node = "sourcer"
             /\ lot.status = "planned"
             /\ mem[r].status = "sourcing"
          \/ /\ mem[r].node = "communicator"
             /\ lot.status = "sourcing"
             /\ mem[r].status \in {"rfq_sent", "responses_collected"}
          \/ /\ mem[r].node = "negotiator"
             /\ \/ /\ lot.status \in {"rfq_sent", "responses_collected"}
                   /\ mem[r].status = "negotiating"
                \/ /\ lot.status = "responses_collected"
                   /\ mem[r].status = "responses_collected"
          \/ /\ mem[r].node = "verifier"
             /\ lot.status \in {"negotiating", "responses_collected"}
             /\ mem[r].status = "verified"
          \/ /\ mem[r].node = "reporter"
             /\ lot.status = "verified"
             /\ mem[r].status = "report_ready"
    /\ pc[r] = "notify" =>
          /\ mem[r].node = "planner"
          /\ mem[r].status = "planned" \/ (mem[r].status = "escalated" /\ mem[r].human)
    /\ pc[r] = "finalize" => mem[r].status = lot.status

\* A run before its planner's first save.
Fresh(r) ==
    pc[r] \in {"idle", "planner", "notify"} \/ (pc[r] = "persist" /\ mem[r].node = "planner")

\* A run whose RFQ is not out yet.
Unanswered(r) ==
    \/ Fresh(r)
    \/ pc[r] \in {"sourcer", "communicator", "recordRfq"}
    \/ pc[r] = "persist" /\ mem[r].node = "sourcer"
    \/ pc[r] = "persist" /\ mem[r].status = "rfq_sent"
    \/ pc[r] = "negotiator" /\ lot.status = "rfq_sent"

\* What the row says of a human is what the run knows since its first save, and
\* a run past the gate asks for none.
Flag(r) ==
    /\ Fresh(r) => ~ lot.human
    /\ pc[r] = "finalize" => lot.human = mem[r].human
    /\ Active(r) /\ ~ Fresh(r) /\ pc[r] \notin {"finalize", "setReport"} =>
          ~ lot.human /\ ~ mem[r].human

\* Answers come after the RFQ, the report after the reporter.
Parts(r) ==
    /\ Unanswered(r) => mem[r].responses = {}
    /\ pc[r] \notin {"setReport", "finished", "stopped"} =>
          (mem[r].report # None <=> pc[r] \in {"persist", "finalize"} /\ mem[r].status = "report_ready")

Placed(r) == Stage(r) /\ Link(r) /\ Flag(r) /\ Parts(r)

\* A step of the run keeps it in its place.
LEMMA PlacedStep ==
    ASSUME TypeOK, NEW r \in Runs, Placed(r), RunStep(r) \/ StartRun(r) \/ Stop(r)
    PROVE  Placed(r)'
<1> USE DEF Placed, Stage, Link, Fresh, Unanswered, Flag, Parts, Active, TypeOK, LotState, LotRow, Reports
<1>1. ASSUME StartRun(r)
      PROVE  Placed(r)'
  BY <1>1, NoneAssumption DEF StartRun, GoTo
<1>2. ASSUME Stop(r)
      PROVE  Placed(r)'
  BY <1>2, NoneAssumption DEF Stop, GoTo
<1>3. ASSUME PlannerNoCandidates(r)
      PROVE  Placed(r)'
  BY <1>3, NoneAssumption DEF PlannerNoCandidates, GoTo
<1>4. ASSUME NEW c \in Categories \cup {None}, NEW t \in Totals \cup {0}, NEW h \in BOOLEAN,
             Planner(r, c, t, h)
      PROVE  Placed(r)'
  BY <1>4, NoneAssumption DEF Planner, AfterPlanner, GoTo
<1>5. ASSUME Notify(r)
      PROVE  Placed(r)'
  BY <1>5, NoneAssumption DEF Notify, GoTo
<1>6. ASSUME NEW S \in SUBSET Suppliers, Sourcer(r, S)
      PROVE  Placed(r)'
  BY <1>6, NoneAssumption DEF Sourcer, GoTo
<1>7. ASSUME NEW S \in SUBSET Suppliers, SendDoneDemo(r, S)
      PROVE  Placed(r)'
  BY <1>7, NoneAssumption DEF SendDoneDemo, GoTo
<1>8. ASSUME NEW S \in SUBSET Suppliers, NegotiateOpen(r, S)
      PROVE  Placed(r)'
  BY <1>8, NoneAssumption DEF NegotiateOpen, GoTo
<1>9. ASSUME NEW S \in SUBSET Suppliers, Reporter(r, S)
      PROVE  Placed(r)'
  BY <1>9, NoneAssumption DEF Reporter, GoTo
<1>10. ASSUME NEW s \in Suppliers, SendRfq(r, s)
      PROVE  Placed(r)'
  BY <1>10, NoneAssumption DEF SendRfq, GoTo
<1>11. ASSUME NEW s \in Suppliers, SendRfqFails(r, s)
      PROVE  Placed(r)'
  BY <1>11, NoneAssumption DEF SendRfqFails
<1>12. ASSUME NEW s \in Suppliers, Collect(r, s)
      PROVE  Placed(r)'
  BY <1>12, NoneAssumption DEF Collect
<1>13. ASSUME NEW s \in Suppliers, CollectKeyError(r, s)
      PROVE  Placed(r)'
  BY <1>13, NoneAssumption DEF CollectKeyError, GoTo
<1>14. ASSUME NEW s \in Suppliers, BargainSkip(r, s)
      PROVE  Placed(r)'
  BY <1>14, NoneAssumption DEF BargainSkip
<1>15. ASSUME NEW s \in Suppliers, BargainRound(r, s)
      PROVE  Placed(r)'
  BY <1>15, NoneAssumption DEF BargainRound, GoTo
<1>16. ASSUME NEW s \in Suppliers, Verify(r, s)
      PROVE  Placed(r)'
  BY <1>16, NoneAssumption DEF Verify, GoTo
<1>17. ASSUME RecordRfq(r)
      PROVE  Placed(r)'
  BY <1>17, NoneAssumption DEF RecordRfq, GoTo
<1>18. ASSUME RecordRfqFails(r)
      PROVE  Placed(r)'
  BY <1>18, NoneAssumption DEF RecordRfqFails, GoTo
<1>19. ASSUME SendDone(r)
      PROVE  Placed(r)'
  BY <1>19, NoneAssumption DEF SendDone, Return, GoTo
<1>20. ASSUME CollectDone(r)
      PROVE  Placed(r)'
  BY <1>20, NoneAssumption DEF CollectDone, Return, GoTo
<1>21. ASSUME NegotiateNothing(r)
      PROVE  Placed(r)'
  BY <1>21, NoneAssumption DEF NegotiateNothing, Return, GoTo
<1>22. ASSUME NegotiateBlocked(r)
      PROVE  Placed(r)'
  BY <1>22, NoneAssumption DEF NegotiateBlocked, Return, GoTo
<1>23. ASSUME AuditRound(r)
      PROVE  Placed(r)'
  BY <1>23, NoneAssumption DEF AuditRound, GoTo
<1>24. ASSUME BargainDone(r)
      PROVE  Placed(r)'
  BY <1>24, NoneAssumption DEF BargainDone, Return, GoTo
<1>25. ASSUME AuditCheck(r)
      PROVE  Placed(r)'
  BY <1>25, NoneAssumption DEF AuditCheck, GoTo
<1>26. ASSUME VerifyDone(r)
      PROVE  Placed(r)'
  BY <1>26, NoneAssumption DEF VerifyDone, Return, GoTo
<1>27. ASSUME Persist(r)
      PROVE  Placed(r)'
  BY <1>27, NoneAssumption DEF Persist, SavedLot, Successor, ShouldEscalate, LoopList, GoTo
<1>28. ASSUME Finalize(r)
      PROVE  Placed(r)'
  BY <1>28, NoneAssumption DEF Finalize, SavedLot, GoTo
<1>29. ASSUME SetReport(r)
      PROVE  Placed(r)'
  BY <1>29, NoneAssumption DEF SetReport, GoTo
<1> HIDE DEF Placed, TypeOK
<1>30. QED
  BY <1>1, <1>2, <1>3, <1>4, <1>5, <1>6, <1>7, <1>8, <1>9, <1>10, <1>11,
     <1>12, <1>13, <1>14, <1>15, <1>16, <1>17, <1>18, <1>19, <1>20, <1>21,
     <1>22, <1>23, <1>24, <1>25, <1>26, <1>27, <1>28, <1>29
  DEF RunStep


\* Only a save writes the lot: with it the lot takes the next link of the chain,
\* goes to a human, gets its report, or stays what it is.
LEMMA RunRefines ==
    ASSUME TypeOK, NEW r \in Runs, Placed(r), RunStep(r)
    PROVE  [Lifecycle!LifecycleNext]_(Lifecycle!lifecycleVars)
<1> USE DEF Lifecycle!LifecycleNext, Lifecycle!lifecycleVars
<1>1. CASE Persist(r)
  <2>1. /\ lot'.status = mem[r].status
        /\ lot'.human = mem[r].human
        /\ lot'.report = lot.report
    BY <1>1 DEF Persist, SavedLot, TypeOK, LotRow
  <2>2. CASE mem[r].node = "planner"
    <3>1. lot.status = "draft" /\ ~ lot.human /\ mem[r].human \in BOOLEAN
      BY <1>1, <2>2 DEF Persist, Placed, Link, Flag, Fresh, TypeOK, LotState, LotRow
    <3>2. mem[r].status = "planned" \/ (mem[r].status = "escalated" /\ mem[r].human)
      BY <1>1, <2>2 DEF Persist, Placed, Link
    <3>3. CASE mem[r].human
      BY <2>1, <3>1, <3>2, <3>3 DEF Lifecycle!HandOver
    <3>4. CASE ~ mem[r].human
      BY <2>1, <3>1, <3>2, <3>4 DEF Lifecycle!Advance, Lifecycle!Chain, Lifecycle!DocumentedChain, Lifecycle!Shortcuts, TypeOK, LotRow
    <3> QED
      BY <3>3, <3>4
  <2>3. CASE mem[r].node # "planner"
    <3>1. ~ lot.human /\ ~ mem[r].human /\ lot.human \in BOOLEAN /\ mem[r].human \in BOOLEAN
      BY <1>1, <2>3 DEF Persist, Placed, Flag, Fresh, Active, TypeOK, LotRow, LotState
    <3>2. <<lot.status, mem[r].status>> \in Lifecycle!Chain \/ mem[r].status = lot.status
      BY <1>1, <2>3 DEF Persist, Placed, Link, Lifecycle!Chain, Lifecycle!DocumentedChain,
              Lifecycle!Shortcuts
    <3> QED
      BY <2>1, <3>1, <3>2 DEF Lifecycle!Advance
  <2> QED
    BY <2>2, <2>3
<1>2. CASE Finalize(r)
  <2>1. lot.status = mem[r].status /\ lot.human = mem[r].human
    BY <1>2 DEF Finalize, Placed, Link, Flag
  <2> QED
    BY <1>2, <2>1 DEF Finalize, SavedLot, TypeOK, LotRow
<1>3. CASE SetReport(r)
  <2>1. lot.status = "report_ready" /\ mem[r].report # None
    BY <1>3 DEF SetReport, Placed, Stage
  <2>2. lot'.status = lot.status /\ lot'.human = lot.human /\ lot'.report # None
    BY <1>3, <2>1 DEF SetReport, TypeOK, LotRow
  <2> QED
    BY <2>1, <2>2 DEF Lifecycle!Publish
<1>4. CASE lot' = lot
  BY <1>4
<1> QED
  BY <1>1, <1>2, <1>3, <1>4
  DEF RunStep, PlannerNoCandidates, Planner, Notify, Sourcer, SendDoneDemo, NegotiateOpen,
      Reporter, SendRfq, SendRfqFails, Collect, CollectKeyError, BargainSkip, BargainRound,
      Verify, RecordRfq, RecordRfqFails, SendDone, CollectDone, NegotiateNothing,
      NegotiateBlocked, AuditRound, BargainDone, AuditCheck, VerifyDone

\* A decision of a patient reviewer comes over a report and leaves the run where
\* it is; a check of the limit does not touch the lot.
LEMMA ReviewRefines ==
    ASSUME TypeOK, NEW r \in Runs, Placed(r), Quiet, Review
    PROVE  Placed(r)' /\ [Lifecycle!LifecycleNext]_(Lifecycle!lifecycleVars)
<1>1. lot.status = "report_ready" /\ pc[r] = "finished" /\ lot.report # None
  BY DEF Quiet, Placed, Stage
<1>2. pc' = pc /\ mem' = mem
  BY DEF Review, Approve, BuyerCheck, BuyerApprove, Reject
<1>3. \/ lot' = lot
      \/ /\ lot'.status \in {"approved", "rejected"}
         /\ lot'.human = lot.human
         /\ lot'.report = lot.report
  BY DEF Review, Approve, BuyerCheck, BuyerApprove, Reject, Decided, TypeOK, LotRow
<1>4. Placed(r)'
  BY <1>1, <1>2, <1>3 DEF Placed, Stage, Link, Flag, Fresh, Unanswered, Parts, Active
<1>5. [Lifecycle!LifecycleNext]_(Lifecycle!lifecycleVars)
  BY <1>1, <1>3 DEF Lifecycle!LifecycleNext, Lifecycle!lifecycleVars, Lifecycle!Decide
<1> QED
  BY <1>4, <1>5

\* One step of the run, of the handler that creates the lot or of a patient
\* reviewer keeps the run in its place and is a step of the lifecycle or a stutter.
LEMMA LifecycleStep ==
    ASSUME NEW r, Runs = {r}, TypeOK, Placed(r), [PatientNext]_vars
    PROVE  Placed(r)' /\ [Lifecycle!LifecycleNext]_(Lifecycle!lifecycleVars)
<1>1. ASSUME NEW p \in Phases, NEW t \in Totals \cup {None}, CreateLot(r, p, t)
      PROVE  Placed(r)' /\ [Lifecycle!LifecycleNext]_(Lifecycle!lifecycleVars)
  <2>1. /\ lot.status = "absent" /\ lot'.status = "draft"
        /\ lot'.human = lot.human /\ lot'.report = lot.report
        /\ pc[r] = "idle" /\ pc'[r] = "planner" /\ mem' = mem
    BY <1>1 DEF CreateLot, GoTo, TypeOK, LotRow
  <2>2. Placed(r)'
    BY <2>1 DEF Placed, Stage, Link, Flag, Fresh, Unanswered, Parts, Active
  <2>3. [Lifecycle!LifecycleNext]_(Lifecycle!lifecycleVars)
    BY <2>1 DEF Lifecycle!LifecycleNext, Lifecycle!lifecycleVars, Lifecycle!Open
  <2> QED
    BY <2>2, <2>3
<1>2. CASE RunStep(r)
  BY <1>2, PlacedStep, RunRefines
<1>3. CASE StartRun(r) \/ Stop(r)
  <2>1. lot' = lot
    BY <1>3 DEF StartRun, Stop
  <2>2. [Lifecycle!LifecycleNext]_(Lifecycle!lifecycleVars)
    BY <2>1 DEF Lifecycle!lifecycleVars
  <2> QED
    BY <1>3, <2>2, PlacedStep
<1>4. CASE Quiet /\ Review
  BY <1>4, ReviewRefines
<1>5. CASE UNCHANGED vars
  <2>1. lot' = lot /\ pc' = pc /\ mem' = mem
    BY <1>5 DEF vars
  <2>2. Placed(r)'
    BY <2>1 DEF Placed, Stage, Link, Flag, Fresh, Unanswered, Parts, Active
  <2>3. [Lifecycle!LifecycleNext]_(Lifecycle!lifecycleVars)
    BY <2>1 DEF Lifecycle!lifecycleVars
  <2> QED
    BY <2>2, <2>3
<1> QED
  BY <1>1, <1>2, <1>3, <1>4, <1>5 DEF PatientNext, Pipeline

\* One undisturbed run and patient reviewers implement LotLifecycle,
\* for any number of suppliers, categories and totals: the run's every save is a
\* link of the chain, a lot at the human gate stays there, and a decision finds
\* its report in the row.
THEOREM LifecycleHolds ==
    ASSUME NEW r, Runs = {r}
    PROVE  PatientSpec => ImplementsLifecycle
<1>1. [PatientNext]_vars => [Next]_vars
  BY DEF PatientNext, Next
<1>2. Init => Placed(r)
  BY DEF Init, DraftState, Placed, Stage, Link, Flag, Fresh, Unanswered, Parts, Active
<1>3. Init => Lifecycle!LifecycleInit
  BY DEF Init, Lifecycle!LifecycleInit
<1>4. TypeOK /\ Placed(r) /\ [PatientNext]_vars =>
          Placed(r)' /\ [Lifecycle!LifecycleNext]_(Lifecycle!lifecycleVars)
  BY LifecycleStep
<1> QED
  BY <1>1, <1>2, <1>3, <1>4, TypeCorrect, PTL
  DEF Spec, PatientSpec, ImplementsLifecycle, Lifecycle!LifecycleSpec

=============================================================================
