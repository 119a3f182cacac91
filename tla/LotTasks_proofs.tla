--------------------------- MODULE LotTasks_proofs ---------------------------
(***************************************************************************)
(* Type correctness of LotTasks for any number of workers, messages,       *)
(* retries and losses.                                                     *)
(***************************************************************************)
EXTENDS LotTasks, TLAPS

USE RetriesAssumption, ProcessAssumption

\* "none" marks a process without a run; no run saves it.
LEMMA NoneIsNoStatus == "none" \notin RunStatus /\ "draft" \in RunStatus
  BY DEF RunStatus, Life!Chain, Life!DocumentedChain, Life!Shortcuts

\* A process with a run stands at a status.
LEMMA AtStatus ==
    ASSUME TasksTypeOK, NEW p \in Processes, at[p] # "none"
    PROVE  at[p] \in RunStatus
  BY DEF TasksTypeOK

\* The end of a run keeps the types of what it touches.
LEMMA OverTypes ==
    ASSUME TasksTypeOK, NEW p \in Processes, Over(p)
    PROVE  at' \in [Processes -> RunStatus \cup {"none"}] /\ flagged' \subseteq Processes
  BY DEF TasksTypeOK, Over

\* An acknowledgement keeps the types of job and broker.
LEMMA AcknowledgeTypes ==
    ASSUME TasksTypeOK, NEW p \in Processes, Acknowledge(p)
    PROVE  job' \in [Workers -> Messages \cup {NoMessage}]
           /\ broker' \in [Messages -> {"free", "waiting", "taken"}]
  BY DEF TasksTypeOK, Acknowledge

\* What a save writes has a type, whether or not the planner asked for a human.
LEMMA SaveTypes ==
    ASSUME NEW s, NEW p, NEW S, Save(s, p \in S)
    PROVE  human' \in BOOLEAN /\ stale' \in BOOLEAN
<1>1. human' = (p \in S)
  BY Zenon DEF Save
<1>2. human' \in BOOLEAN
  BY <1>1, SMT
<1>3. stale' \in BOOLEAN
  BY Zenon DEF Save
<1> QED
  BY <1>2, <1>3

\* A step keeps every variable in its type.
LEMMA TypeStep == ASSUME TasksTypeOK, [TasksNext]_tasksVars PROVE TasksTypeOK'
<1> USE DEF TasksTypeOK, Save
<1>1. CASE AcceptLot
  BY <1>1, NoneIsNoStatus DEF AcceptLot, Processes
<1>2. CASE Decide
  BY <1>2 DEF Decide
<1>3. CASE Age
  BY <1>3 DEF Age
<1>4. ASSUME NEW p \in Processes, RunSaves(p) PROVE TasksTypeOK'
  <2>1. PICK s \in RunStatus :
            /\ flagged' \in CASE s = "escalated" -> {flagged \cup {p}}
                              [] s = "planned"   -> {flagged, flagged \cup {p}}
                              [] OTHER           -> {flagged}
            /\ Save(s, p \in flagged')
            /\ at' = [at EXCEPT ![p] = s]
    BY <1>4 DEF RunSaves
  <2>2. flagged' \subseteq Processes
    BY <2>1
  <2>3. human' \in BOOLEAN /\ stale' \in BOOLEAN
    BY <2>1, SaveTypes
  <2>4. status' \in RunStatus /\ at' \in [Processes -> RunStatus \cup {"none"}]
    BY <2>1
  <2> QED
    BY <1>4, <2>2, <2>3, <2>4 DEF RunSaves
<1>5. ASSUME NEW p \in Processes, RunReturns(p) PROVE TasksTypeOK'
  <2>1. at[p] \in RunStatus
    BY <1>5, AtStatus DEF RunReturns
  <2>2. at' \in [Processes -> RunStatus \cup {"none"}] /\ flagged' \subseteq Processes
    BY <1>5, OverTypes DEF RunReturns
  <2>3. job' \in [Workers -> Messages \cup {NoMessage}]
        /\ broker' \in [Messages -> {"free", "waiting", "taken"}]
    BY <1>5, AcknowledgeTypes DEF RunReturns
  <2>4. status' \in RunStatus
    BY <1>5, <2>1 DEF RunReturns
  <2>5. human' \in BOOLEAN /\ stale' \in BOOLEAN
    <3>1. Save(at[p], p \in flagged)
      BY <1>5 DEF RunReturns
    <3> HIDE DEF Save
    <3> QED
      BY <3>1, SaveTypes
  <2> QED
    BY <1>5, <2>2, <2>3, <2>4, <2>5 DEF RunReturns
<1>6. CASE BackgroundFails
  BY <1>6, OverTypes DEF BackgroundFails, Processes
<1>7. CASE ApiCrashes
  BY <1>7, OverTypes DEF ApiCrashes, Processes
<1>8. ASSUME NEW w \in Workers, TaskRetries(w) PROVE TasksTypeOK'
  <2>1. at' \in [Processes -> RunStatus \cup {"none"}] /\ flagged' \subseteq Processes
    BY <1>8, OverTypes DEF TaskRetries, Processes
  <2>2. tries' \in [Messages -> 0..MaxRetries]
    <3>1. CASE job[w] \in Messages
      BY <1>8, <3>1 DEF TaskRetries, Retried, MayRetry
    <3>2. CASE job[w] \notin Messages
      BY <1>8, <3>2 DEF TaskRetries, Retried
    <3> QED
      BY <3>1, <3>2
  <2> QED
    BY <1>8, <2>1, <2>2 DEF TaskRetries
<1>9. ASSUME NEW w \in Workers, TaskExhausted(w) PROVE TasksTypeOK'
  <2>1. at' \in [Processes -> RunStatus \cup {"none"}] /\ flagged' \subseteq Processes
    BY <1>9, OverTypes DEF TaskExhausted, Processes
  <2>2. job' \in [Workers -> Messages \cup {NoMessage}]
        /\ broker' \in [Messages -> {"free", "waiting", "taken"}]
    BY <1>9, AcknowledgeTypes DEF TaskExhausted, Processes
  <2> QED
    BY <1>9, <2>1, <2>2 DEF TaskExhausted
<1>10. ASSUME NEW w \in Workers, WorkerCrashes(w) PROVE TasksTypeOK'
  <2>1. at' \in [Processes -> RunStatus \cup {"none"}] /\ flagged' \subseteq Processes
    BY <1>10, OverTypes DEF WorkerCrashes, Processes
  <2>2. crashes' \in 0..MaxCrashes
    BY <1>10 DEF WorkerCrashes
  <2>3. job' \in [Workers -> Messages \cup {NoMessage}]
        /\ broker' \in [Messages -> {"free", "waiting", "taken"}]
    BY <1>10 DEF WorkerCrashes
  <2> QED
    BY <1>10, <2>1, <2>2, <2>3 DEF WorkerCrashes
<1>11. ASSUME NEW w \in Workers, NEW m \in Messages, Deliver(w, m) PROVE TasksTypeOK'
  BY <1>11, NoneIsNoStatus DEF Deliver, Processes
<1>12. ASSUME NEW m \in Messages, RecoverStuck(m) PROVE TasksTypeOK'
  <2>1. tries' \in [Messages -> 0..MaxRetries]
    BY <1>12 DEF RecoverStuck
  <2> QED
    BY <1>12, <2>1 DEF RecoverStuck
<1>13. CASE UNCHANGED tasksVars
  BY <1>13 DEF tasksVars
<1> QED
  BY <1>1, <1>2, <1>3, <1>4, <1>5, <1>6, <1>7, <1>8, <1>9, <1>10, <1>11, <1>12, <1>13 DEF TasksNext

\* Every variable keeps its type; no message is retried more often than
\* max_retries allows (run_lot_task).
THEOREM TasksTypeCorrect == TasksSpec => []TasksTypeOK
<1>1. ASSUME TasksInit PROVE TasksTypeOK
  <2>1. status \in {"absent"} /\ stale \in BOOLEAN /\ human \in BOOLEAN /\ gaveUp \in BOOLEAN
    BY <1>1 DEF TasksInit
  <2>2. at \in [Processes -> RunStatus \cup {"none"}] /\ flagged \subseteq Processes
    BY <1>1 DEF TasksInit
  <2>3. job \in [Workers -> Messages \cup {NoMessage}]
    BY <1>1 DEF TasksInit
  <2>4. broker \in [Messages -> {"free", "waiting", "taken"}]
    BY <1>1 DEF TasksInit
  <2>5. tries \in [Messages -> 0..MaxRetries] /\ crashes \in 0..MaxCrashes
    BY <1>1 DEF TasksInit
  <2> QED
    BY <2>1, <2>2, <2>3, <2>4, <2>5 DEF TasksTypeOK
<1>2. TasksTypeOK /\ [TasksNext]_tasksVars => TasksTypeOK'
  BY TypeStep
<1> QED
  BY <1>1, <1>2, PTL DEF TasksSpec

=============================================================================
