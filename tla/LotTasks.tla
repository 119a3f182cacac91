------------------------------ MODULE LotTasks ------------------------------
(***************************************************************************)
(* Who runs a lot, and who runs it again: the background task of the API   *)
(* process, the Celery task run_lot with its retries, late acknowledgement *)
(* and redelivery, and the periodic recover_stuck_lots                     *)
(* (tasks/lot_pipeline.py, tasks/celery_app.py).                           *)
(*                                                                         *)
(* One lot.  A run is reduced to the statuses it writes: each save follows *)
(* the chain of LotLifecycle, which LotPipeline is shown to implement.     *)
(* The broker is external: a list of messages, delivered first in, first   *)
(* out, given back when the worker that holds one is lost.  That Redis     *)
(* also gives back a message held for longer than its visibility timeout   *)
(* is left out.                                                            *)
(***************************************************************************)
EXTENDS Naturals

CONSTANTS
    Workers,     \* worker processes consuming the queue "lots"
    Messages,    \* run_lot messages that may be in the broker at one time
    MaxRetries,  \* max_retries of run_lot_task
    MaxCrashes,  \* bound: processes that may die
    Api,         \* the API process that accepted the lot
    NoMessage

ASSUME RetriesAssumption == MaxRetries \in Nat /\ MaxCrashes \in Nat
ASSUME ProcessAssumption == Api \notin Workers /\ NoMessage \notin Messages

VARIABLES
    status,     \* lot.status
    stale,      \* lot.updated_at is more than 30 minutes old
    human,      \* lot.requires_human
    at,         \* status each process's run saved last, or "none"
    flagged,    \* runs whose planner asked for a human
    job,        \* message each worker holds unacknowledged
    broker,     \* where each message is
    tries,      \* request.retries of each message
    crashes,    \* processes lost so far
    gaveUp      \* a message used up its retries (history)

tasksVars == <<status, stale, human, at, flagged, job, broker, tries, crashes, gaveUp>>

Processes == Workers \cup {Api}

\* Statuses a run saves, in the order of the graph (LotLifecycle!Chain).
Life == INSTANCE LotLifecycle WITH
    stage <- status, flagged <- human, reported <- FALSE

RunStatus == {"draft", "escalated"} \cup {e[2] : e \in Life!Chain}

\* stuck_statuses of _recover_stuck
StuckStatuses == {"draft", "sourcing", "rfq_sent", "negotiating"}

\* The docstring's "intermediate status": begun, and neither reported,
\* handed to a human, nor decided.
Intermediate == RunStatus \ {"report_ready", "escalated"}

TasksTypeOK ==
    /\ status \in RunStatus \cup {"absent", "approved", "rejected", "failed"}
    /\ stale \in BOOLEAN
    /\ human \in BOOLEAN
    /\ at \in [Processes -> RunStatus \cup {"none"}]
    /\ flagged \subseteq Processes
    /\ job \in [Workers -> Messages \cup {NoMessage}]
    /\ broker \in [Messages -> {"free", "waiting", "taken"}]
    /\ tries \in [Messages -> 0..MaxRetries]
    /\ crashes \in 0..MaxCrashes
    /\ gaveUp \in BOOLEAN

TasksInit ==
    /\ status = "absent"
    /\ stale = FALSE
    /\ human = FALSE
    /\ at = [p \in Processes |-> "none"]
    /\ flagged = {}
    /\ job = [w \in Workers |-> NoMessage]
    /\ broker = [m \in Messages |-> "free"]
    /\ tries = [m \in Messages |-> 0]
    /\ crashes = 0
    /\ gaveUp = FALSE

Running == \E p \in Processes : at[p] # "none"

\* update_status: updated_at is now.
Save(s, h) == status' = s /\ human' = h /\ stale' = FALSE

\* The run of p is over, whichever way.
Over(p) == /\ at' = [at EXCEPT ![p] = "none"]
           /\ flagged' = flagged \ {p}

-----------------------------------------------------------------------------
\* create_lot: the row and a background task in the API process.
AcceptLot ==
    /\ status = "absent"
    /\ Save("draft", FALSE)
    /\ at' = [at EXCEPT ![Api] = "draft"]
    /\ UNCHANGED <<flagged, job, broker, tries, crashes, gaveUp>>

\* approve_lot, reject_lot
Decide ==
    /\ status # "absent"
    /\ \E s \in {"approved", "rejected"} : Save(s, human)
    /\ UNCHANGED <<at, flagged, job, broker, tries, crashes, gaveUp>>

\* Thirty minutes without an update, whether or not a run is alive:
\* recover_stuck_lots looks at updated_at and the status only.
Age ==
    /\ status # "absent"
    /\ ~ stale
    /\ stale' = TRUE
    /\ UNCHANGED <<status, human, at, flagged, job, broker, tries, crashes, gaveUp>>

\* A message reaches an idle worker; _run starts over from "draft".
Deliver(w, m) ==
    /\ job[w] = NoMessage
    /\ broker[m] = "waiting"
    /\ broker' = [broker EXCEPT ![m] = "taken"]
    /\ job' = [job EXCEPT ![w] = m]
    /\ at' = [at EXCEPT ![w] = "draft"]
    /\ UNCHANGED <<status, stale, human, flagged, tries, crashes, gaveUp>>

\* _persist_status after a node; the planner may ask for a human instead.
RunSaves(p) ==
    /\ at[p] # "none"
    /\ \E s \in RunStatus :
          /\ \/ <<at[p], s>> \in Life!Chain
             \/ at[p] = "draft" /\ s = "escalated"
          /\ at[p] = "planned" => p \notin flagged
          /\ flagged' \in CASE s = "escalated" -> {flagged \cup {p}}
                           [] s = "planned"   -> {flagged, flagged \cup {p}}
                           [] OTHER           -> {flagged}
          /\ Save(s, p \in flagged')
          /\ at' = [at EXCEPT ![p] = s]
    /\ UNCHANGED <<job, broker, tries, crashes, gaveUp>>

\* request.retries against max_retries
MayRetry(m) == tries[m] < MaxRetries

\* Mutant: each retry starts its count afresh.
RetriedAfresh(m) == tries

\* self.retry sends the message with one more retry on it.
Retried(m) == [tries EXCEPT ![m] = @ + 1]

\* Mutant: a task id that was tried is not sent a second time.
NeverTried(m) == broker[m] = "free" /\ tries[m] = 0

\* A message that may be sent.
Unsent(m) == broker[m] = "free"

\* The message a worker holds is acknowledged.
Acknowledge(p) ==
    IF p = Api
    THEN UNCHANGED <<job, broker>>
    ELSE /\ broker' = [broker EXCEPT ![job[p]] = "free"]
         /\ job' = [job EXCEPT ![p] = NoMessage]

\* run_lot returns: report stored, or the run ended at the human gate.
RunReturns(p) ==
    /\ \/ at[p] \in {"report_ready", "escalated"}
       \/ at[p] = "planned" /\ p \in flagged
    /\ Save(at[p], p \in flagged)
    /\ Over(p)
    /\ Acknowledge(p)
    /\ UNCHANGED <<tries, crashes, gaveUp>>

\* An exception in the background task: published, and that is all.
BackgroundFails ==
    /\ at[Api] # "none"
    /\ Over(Api)
    /\ UNCHANGED <<status, stale, human, job, broker, tries, crashes, gaveUp>>

\* An exception in the task: self.retry sends the message again, later ...
TaskRetries(w) ==
    /\ at[w] # "none"
    /\ MayRetry(job[w])
    /\ tries' = Retried(job[w])
    /\ broker' = [broker EXCEPT ![job[w]] = "waiting"]
    /\ job' = [job EXCEPT ![w] = NoMessage]
    /\ Over(w)
    /\ UNCHANGED <<status, stale, human, crashes, gaveUp>>

\* ... and after the last retry raises the exception it was given (exc=e), not
\* MaxRetriesExceededError: the handler that marks the lot does not run, and
\* the failed task is acknowledged.
TaskExhausted(w) ==
    /\ at[w] # "none"
    /\ ~ MayRetry(job[w])
    /\ gaveUp' = TRUE
    /\ Over(w)
    /\ Acknowledge(w)
    /\ UNCHANGED <<status, stale, human, tries, crashes>>

\* The API process dies: its background task is lost.
ApiCrashes ==
    /\ at[Api] # "none"
    /\ crashes < MaxCrashes
    /\ crashes' = crashes + 1
    /\ Over(Api)
    /\ UNCHANGED <<status, stale, human, job, broker, tries, gaveUp>>

\* A worker dies: acks_late and reject_on_worker_lost give the message back
\* with the retries it had.
WorkerCrashes(w) ==
    /\ at[w] # "none"
    /\ crashes < MaxCrashes
    /\ crashes' = crashes + 1
    /\ Over(w)
    /\ broker' = [broker EXCEPT ![job[w]] = "waiting"]
    /\ job' = [job EXCEPT ![w] = NoMessage]
    /\ UNCHANGED <<status, stale, human, tries, gaveUp>>

\* _recover_stuck, every ten minutes: a new message, whether or not one for
\* this lot is waiting already.
RecoverStuck(m) ==
    /\ status \in StuckStatuses
    /\ stale
    /\ Unsent(m)
    /\ broker' = [broker EXCEPT ![m] = "waiting"]
    /\ tries' = [tries EXCEPT ![m] = 0]
    /\ UNCHANGED <<status, stale, human, at, flagged, job, crashes, gaveUp>>

-----------------------------------------------------------------------------
TasksNext ==
    \/ AcceptLot \/ Decide \/ Age
    \/ \E p \in Processes : RunSaves(p) \/ RunReturns(p)
    \/ BackgroundFails \/ ApiCrashes
    \/ \E w \in Workers : TaskRetries(w) \/ TaskExhausted(w) \/ WorkerCrashes(w)
    \/ \E w \in Workers, m \in Messages : Deliver(w, m)
    \/ \E m \in Messages : RecoverStuck(m)

\* A started run goes on or raises, time passes, beat fires, and the broker's
\* list is first in, first out: every waiting message gets its turn.
Fairness ==
    /\ \A p \in Processes : WF_tasksVars(RunSaves(p) \/ RunReturns(p))
    /\ WF_tasksVars(Age)
    /\ WF_tasksVars(\E m \in Messages : RecoverStuck(m))
    /\ \A m \in Messages : SF_tasksVars(\E w \in Workers : Deliver(w, m))

TasksSpec == TasksInit /\ [][TasksNext]_tasksVars /\ Fairness

-----------------------------------------------------------------------------
\* A message in the broker is dealt with in the end, through worker losses and
\* retries: run to the end or given up (late acknowledgement).
MessageSettles == \A m \in Messages : broker[m] = "waiting" ~> broker[m] = "free"

\* A lot left in one of the statuses recover_stuck_lots looks at, with nobody
\* running it, is run again or decided by a human.
StuckIsRunAgain ==
    status \in StuckStatuses /\ ~ Running ~> Running \/ status \notin StuckStatuses

\* The docstring of _mark_failed (lot_pipeline.py:68): a lot is marked failed
\* once its retries are exhausted, unless another run or a human settles it.
GivenUpIsMarked ==
    gaveUp ~> \/ status \in {"failed", "report_ready", "approved", "rejected"}
              \/ human
              \/ Running
=============================================================================
