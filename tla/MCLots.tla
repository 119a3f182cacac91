------------------------------- MODULE MCLots ---------------------------------
(***************************************************************************)
(* For TLC: one undisturbed run of a lot, and who runs a lot again.        *)
(* LotPipeline and LotTasks share no state here, so each moves while the   *)
(* other rests.                                                            *)
(***************************************************************************)
EXTENDS LotPipeline, LotTasks

CONSTANTS r1, s1, s2, s3, w1, m1, m2

VARIABLE which

lotsVars == <<vars, tasksVars, which>>

LotsInit ==
    /\ Init
    /\ TasksInit
    /\ which \in {"run", "tasks"}
    /\ which = "tasks" => demo

RunMoves(A) == which = "run" /\ A /\ UNCHANGED <<tasksVars, which>>

TasksMove(A) == which = "tasks" /\ A /\ UNCHANGED <<vars, which>>

LotsNext == RunMoves(PatientNext) \/ TasksMove(TasksNext)

\* PatientFairness and the Fairness of LotTasks.
LotsSpec ==
    /\ LotsInit
    /\ [][LotsNext]_lotsVars
    /\ \A r \in Runs : WF_lotsVars(RunMoves(RunStep(r)))
    /\ \A p \in Processes : WF_lotsVars(TasksMove(RunSaves(p) \/ RunReturns(p)))
    /\ WF_lotsVars(TasksMove(Age))
    /\ WF_lotsVars(TasksMove(\E m \in Messages : RecoverStuck(m)))
    /\ \A m \in Messages : SF_lotsVars(TasksMove(\E w \in Workers : Deliver(w, m)))
=============================================================================
