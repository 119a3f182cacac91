------------------------- MODULE EmailSender_proofs -------------------------
(***************************************************************************)
(* Theorems about EmailSender for any number of calls, processes and       *)
(* recipients and any limit.  The limit is the interesting one: the code   *)
(* counts the entries of its own list, the theorem speaks of the calls.    *)
(***************************************************************************)
EXTENDS EmailSender, FiniteSetTheorems, TLAPS

USE SendsAssumption, AddressAssumption, NumbersAssumption

(***************************************************************************)
(* Type correctness.                                                       *)
(***************************************************************************)

\* Ages grow and stop at the length of the window.
LEMMA OlderInWindow ==
    ASSUME NEW n \in 0..Window
    PROVE  Older(n) \in 0..Window /\ n <= Older(n)
  BY DEF Older

\* Whoever sleeps has an attempt left to wake for.
SleepersMayTry == \A s \in Sends : call[s] = "asleep" => MoreAttempts(s)

\* The types of the variables that the end of a call touches.
LEMMA EndsType ==
    ASSUME TypeOK, NEW s \in Sends, NEW how \in Ended, Ends(s, how)
    PROVE  /\ call' \in [Sends -> {"unused", "trying", "asleep"} \cup Ended]
           /\ attempt' \in [Sends -> 0..MaxAttempts]
           /\ pause' \in [Sends -> Nat]
<1>1. call' \in [Sends -> {"unused", "trying", "asleep"} \cup Ended]
  BY DEF TypeOK, Ends
<1>2. attempt' \in [Sends -> 0..MaxAttempts]
  BY DEF TypeOK, Ends
<1>3. pause' \in [Sends -> Nat]
  BY DEF TypeOK, Ends
<1> QED
  BY <1>1, <1>2, <1>3

\* A dump ends the call and adds to the dumps at most.
LEMMA DumpEnds ==
    ASSUME TypeOK, NEW s \in Sends, NEW error \in BOOLEAN, Dump(s, error)
    PROVE  /\ dumps' \subseteq Sends
           /\ Ends(s, "returned") \/ Ends(s, "raised")
  BY DEF TypeOK, Dump

\* A step keeps every variable in its type.
LEMMA TypeStep == ASSUME TypeOK, SleepersMayTry, [Next]_vars PROVE TypeOK'
<1> USE DEF TypeOK, Ended, Sends
<1>1. ASSUME NEW s \in Sends, NEW p \in Processes, NEW address \in Recipients \cup {None},
             Admit(s, p, address)
      PROVE  TypeOK'
  <2>1. Recipient(address) \in Recipients
    BY DEF Recipient
  <2>2. Fresh(p, Recipient(address)) \cup {s} \in SUBSET Sends
    BY <2>1 DEF Fresh
  <2>3. tracker' \in [Processes -> [Recipients -> SUBSET Sends]]
    BY <1>1, <2>1, <2>2 DEF Admit
  <2>4. host' \in [Sends -> Processes \cup {None}] /\ to' \in [Sends -> Recipients \cup {None}]
    BY <1>1, <2>1 DEF Admit, Made
  <2>5. call' \in [Sends -> {"unused", "trying", "asleep"} \cup Ended]
        /\ attempt' \in [Sends -> 0..MaxAttempts]
    BY <1>1 DEF Admit
  <2> QED
    BY <1>1, <2>3, <2>4, <2>5 DEF Admit
<1>2. ASSUME NEW s \in Sends, NEW p \in Processes, NEW address \in Recipients \cup {None},
             Refuse(s, p, address)
      PROVE  TypeOK'
  <2>1. Recipient(address) \in Recipients
    BY DEF Recipient
  <2>2. Fresh(p, Recipient(address)) \in SUBSET Sends
    BY <2>1 DEF Fresh
  <2>3. tracker' \in [Processes -> [Recipients -> SUBSET Sends]]
    BY <1>2, <2>1, <2>2 DEF Refuse
  <2>4. host' \in [Sends -> Processes \cup {None}] /\ to' \in [Sends -> Recipients \cup {None}]
    BY <1>2, <2>1 DEF Refuse, Made
  <2>5. call' \in [Sends -> {"unused", "trying", "asleep"} \cup Ended]
    BY <1>2 DEF Refuse
  <2> QED
    BY <1>2, <2>3, <2>4, <2>5 DEF Refuse
<1>3. ASSUME NEW s \in Sends, Send(s) PROVE TypeOK'
  <2>1. Ends(s, "returned")
    BY <1>3 DEF Send
  <2> QED
    BY <1>3, <2>1, EndsType DEF Send
<1>4. ASSUME NEW s \in Sends, SendFails(s) PROVE TypeOK'
  <2>1. call' \in [Sends -> {"unused", "trying", "asleep"} \cup Ended]
    BY <1>4 DEF SendFails
  <2>2. RetryDelay * attempt[s] \in Nat
    OBVIOUS
  <2>3. pause' \in [Sends -> Nat]
    BY <1>4, <2>2 DEF SendFails
  <2> QED
    BY <1>4, <2>1, <2>3 DEF SendFails, Fails
<1>5. ASSUME NEW s \in Sends, GiveUp(s) PROVE TypeOK'
  <2>1. dumps' \subseteq Sends /\ (Ends(s, "returned") \/ Ends(s, "raised"))
    BY <1>5, DumpEnds DEF GiveUp
  <2>2. /\ call' \in [Sends -> {"unused", "trying", "asleep"} \cup Ended]
        /\ attempt' \in [Sends -> 0..MaxAttempts]
        /\ pause' \in [Sends -> Nat]
    BY <2>1, EndsType
  <2> QED
    BY <1>5, <2>1, <2>2 DEF GiveUp, Fails
<1>6. ASSUME NEW s \in Sends, NoLibrary(s) PROVE TypeOK'
  <2>1. dumps' \subseteq Sends /\ (Ends(s, "returned") \/ Ends(s, "raised"))
    BY <1>6, DumpEnds DEF NoLibrary
  <2>2. /\ call' \in [Sends -> {"unused", "trying", "asleep"} \cup Ended]
        /\ attempt' \in [Sends -> 0..MaxAttempts]
        /\ pause' \in [Sends -> Nat]
    BY <2>1, EndsType
  <2> QED
    BY <1>6, <2>1, <2>2 DEF NoLibrary
<1>7. ASSUME NEW s \in Sends, Wake(s) PROVE TypeOK'
  <2>1. NextAttempt(s) \in 0..MaxAttempts
    BY <1>7 DEF Wake, SleepersMayTry, MoreAttempts, NextAttempt
  <2> QED
    BY <1>7, <2>1 DEF Wake
<1>8. ASSUME Tick PROVE TypeOK'
  <2>1. age' \in [Sends -> 0..Window]
    BY <1>8, OlderInWindow DEF Tick
  <2>2. pause' \in [Sends -> Nat]
    BY <1>8 DEF Tick
  <2> QED
    BY <1>8, <2>1, <2>2 DEF Tick
<1>9. ASSUME NEW p \in Processes, Crash(p) PROVE TypeOK'
  <2>1. call' \in [Sends -> {"unused", "trying", "asleep"} \cup Ended]
    BY <1>9 DEF Crash
  <2>2. attempt' \in [Sends -> 0..MaxAttempts] /\ pause' \in [Sends -> Nat]
    BY <1>9 DEF Crash
  <2>3. tracker' \in [Processes -> [Recipients -> SUBSET Sends]]
    BY <1>9 DEF Crash
  <2> QED
    BY <1>9, <2>1, <2>2, <2>3 DEF Crash
<1>10. CASE UNCHANGED vars
  BY <1>10 DEF vars
<1> QED
  BY <1>1, <1>2, <1>3, <1>4, <1>5, <1>6, <1>7, <1>8, <1>9, <1>10 DEF Next, Attempt

\* Only an attempt that is not the last is followed by a sleep.
LEMMA SleepStep == ASSUME TypeOK, SleepersMayTry, [Next]_vars PROVE SleepersMayTry'
<1> USE DEF TypeOK, SleepersMayTry, MoreAttempts, Sends
<1>1. ASSUME NEW s \in Sends, NEW p \in Processes, NEW address \in Recipients \cup {None},
             Admit(s, p, address) \/ Refuse(s, p, address)
      PROVE  SleepersMayTry'
  BY <1>1 DEF Admit, Refuse
<1>2. ASSUME NEW s \in Sends, Send(s) PROVE SleepersMayTry'
  BY <1>2 DEF Send, Ends
<1>3. ASSUME NEW s \in Sends, SendFails(s) PROVE SleepersMayTry'
  BY <1>3 DEF SendFails
<1>4. ASSUME NEW s \in Sends, GiveUp(s) \/ NoLibrary(s) PROVE SleepersMayTry'
  BY <1>4 DEF GiveUp, NoLibrary, Dump, Ends
<1>5. ASSUME NEW s \in Sends, Wake(s) PROVE SleepersMayTry'
  BY <1>5 DEF Wake
<1>6. CASE Tick
  BY <1>6 DEF Tick
<1>7. ASSUME NEW p \in Processes, Crash(p) PROVE SleepersMayTry'
  BY <1>7 DEF Crash, Ended
<1>8. CASE UNCHANGED vars
  BY <1>8 DEF vars
<1> QED
  BY <1>1, <1>2, <1>3, <1>4, <1>5, <1>6, <1>7, <1>8 DEF Next, Attempt

\* At the start nothing has been called.
LEMMA TypeInit == ASSUME Init PROVE TypeOK /\ SleepersMayTry
  BY DEF Init, TypeOK, SleepersMayTry, Sends, Ended

\* Every variable keeps its type; no call goes past max_retries.
THEOREM TypeCorrect == Spec => [](TypeOK /\ SleepersMayTry)
<1>1. Init => TypeOK /\ SleepersMayTry
  BY TypeInit
<1>2. TypeOK /\ SleepersMayTry /\ [Next]_vars => (TypeOK /\ SleepersMayTry)'
  BY TypeStep, SleepStep
<1> QED
  BY <1>1, <1>2, PTL DEF Spec

(***************************************************************************)
(* The limit.  WithinLimit is not inductive: the code decides by the       *)
(* length of its list, so the list has to be tied to the calls.            *)
(***************************************************************************)

\* Calls that took a slot of p for r.
Took(p, r) == {s \in Sends : call[s] \notin {"unused", "refused"} /\ host[s] = p /\ to[s] = r}

\* A window holds only calls that took a slot of it, and all of the last
\* minute's as long as the process lives.
WindowFaithful ==
    \A p \in Processes, r \in Recipients :
       /\ tracker[p][r] \subseteq Took(p, r)
       /\ p \notin dead => Recent(p, r) \subseteq tracker[p][r]

\* Calls do not come back to a window by ageing.
Ageing == \A p \in Processes, r \in Recipients : Recent(p, r)' \subseteq Recent(p, r)

\* One element adds one to a cardinality at most.
LEMMA OneMore ==
    ASSUME NEW S, NEW x, IsFiniteSet(S)
    PROVE  IsFiniteSet(S \cup {x}) /\ Cardinality(S \cup {x}) <= Cardinality(S) + 1
<1>1. Cardinality(S) \in Nat
  BY FS_CardinalityType
<1>2. IsFiniteSet(S \cup {x}) /\ Cardinality(S \cup {x}) \in {Cardinality(S), Cardinality(S) + 1}
  BY FS_AddElement
<1> QED
  BY <1>1, <1>2

\* A smaller set of recent calls is within the limit if the larger one is.
LEMMA FewerWithinLimit ==
    ASSUME WithinLimit, Ageing
    PROVE  WithinLimit'
<1> SUFFICES ASSUME NEW p \in Processes, NEW r \in Recipients
             PROVE  Cardinality(Recent(p, r)') <= Limit
  BY DEF WithinLimit
<1>1. IsFiniteSet(Sends)
  BY FS_Interval DEF Sends
<1>2. IsFiniteSet(Recent(p, r))
  BY <1>1, FS_Subset DEF Recent
<1>3. Recent(p, r)' \in SUBSET Recent(p, r)
  BY DEF Ageing
<1>4. /\ Cardinality(Recent(p, r)') <= Cardinality(Recent(p, r))
      /\ Cardinality(Recent(p, r)') \in Nat
      /\ Cardinality(Recent(p, r)) \in Nat
  BY <1>2, <1>3, FS_Subset, FS_CardinalityType
<1> QED
  BY <1>4 DEF WithinLimit

\* A step that neither begins nor refuses a call and loses no process.
LEMMA QuietStep ==
    ASSUME TypeOK, TypeOK', WindowFaithful, UNCHANGED <<dead, host, to, tracker>>,
           \A s \in Sends : call'[s] \in {"unused", "refused"} <=> call[s] \in {"unused", "refused"},
           \A s \in Sends : call[s] # "unused" => age'[s] >= age[s]
    PROVE  WindowFaithful' /\ Ageing
<1>1. Ageing
  <2> SUFFICES ASSUME NEW p \in Processes, NEW r \in Recipients, NEW s \in Recent(p, r)'
               PROVE  s \in Recent(p, r)
    BY DEF Ageing
  <2>1. s \in Sends /\ call[s] \notin {"unused", "refused"} /\ host[s] = p /\ to[s] = r /\ age'[s] < Window
    BY DEF Recent
  <2>2. age'[s] >= age[s] /\ age'[s] \in Nat /\ age[s] \in Nat
    BY <2>1 DEF TypeOK
  <2> QED
    BY <2>1, <2>2 DEF Recent
<1>2. \A p \in Processes, r \in Recipients : Took(p, r)' = Took(p, r)
  BY DEF Took
<1> QED
  BY <1>1, <1>2 DEF WindowFaithful, Ageing

\* The end of a call, or a pause, is such a step.
LEMMA AttemptStep ==
    ASSUME TypeOK, TypeOK', WindowFaithful, NEW s \in Sends, Attempt(s) \/ Wake(s)
    PROVE  WindowFaithful' /\ Ageing
<1>1. UNCHANGED <<dead, host, to, age, tracker>>
  BY DEF Attempt, Send, SendFails, Fails, GiveUp, NoLibrary, Wake
<1>2. call[s] \in {"trying", "asleep"}
  BY DEF Attempt, Send, SendFails, Fails, GiveUp, NoLibrary, Wake, Trying
<1>3. \E c \in {"returned", "asleep", "raised", "trying"} : call' = [call EXCEPT ![s] = c]
  BY DEF Attempt, Send, SendFails, Fails, GiveUp, NoLibrary, Wake, Dump, Ends
<1>4. \A t \in Sends : call'[t] \in {"unused", "refused"} <=> call[t] \in {"unused", "refused"}
  BY <1>2, <1>3 DEF TypeOK
<1>5. \A t \in Sends : call[t] # "unused" => age'[t] >= age[t]
  BY <1>1 DEF TypeOK
<1> QED
  BY <1>1, <1>4, <1>5, QuietStep

\* The check of the limit: what it lets through is within it, whatever it
\* decides the list stays faithful.
LEMMA AdmitStep ==
    ASSUME TypeOK, WindowFaithful, WithinLimit, NEW s \in Sends, NEW p \in Processes,
           NEW address \in Recipients \cup {None}, Admit(s, p, address)
    PROVE  WindowFaithful' /\ WithinLimit'
<1> DEFINE r == Recipient(address)
<1>1. r \in Recipients
  BY DEF Recipient
<1>2. /\ call[s] = "unused"
      /\ p \notin dead
      /\ host' = [host EXCEPT ![s] = p]
      /\ to' = [to EXCEPT ![s] = r]
      /\ call' = [call EXCEPT ![s] = "trying"]
      /\ tracker' = [tracker EXCEPT ![p][r] = Fresh(p, r) \cup {s}]
      /\ UNCHANGED <<age, dead>>
  BY DEF Admit, Made
<1>3. \A q \in Processes, x \in Recipients : s \notin Took(q, x) /\ s \notin Recent(q, x)
  BY <1>2 DEF Took, Recent
<1>4. Took(p, r)' = Took(p, r) \cup {s}
  BY <1>1, <1>2, <1>3 DEF Took, TypeOK
<1>5. Recent(p, r)' \subseteq Recent(p, r) \cup {s}
  BY <1>1, <1>2 DEF Recent, TypeOK
<1>6. ASSUME NEW q \in Processes, NEW x \in Recipients, q # p \/ x # r
      PROVE  Took(q, x)' = Took(q, x) /\ Recent(q, x)' = Recent(q, x) /\ tracker'[q][x] = tracker[q][x]
  <2>1. Took(q, x)' = Took(q, x)
    BY <1>1, <1>2, <1>3, <1>6 DEF Took, TypeOK
  <2>2. Recent(q, x)' = Recent(q, x)
    BY <1>1, <1>2, <1>3, <1>6 DEF Recent, TypeOK
  <2>3. tracker'[q][x] = tracker[q][x]
    BY <1>1, <1>2, <1>6 DEF TypeOK
  <2> QED
    BY <2>1, <2>2, <2>3
<1>7. Recent(p, r) \subseteq Fresh(p, r)
  BY <1>1, <1>2 DEF WindowFaithful, Recent, Fresh
<1>8. tracker'[p][r] = Fresh(p, r) \cup {s}
  BY <1>1, <1>2 DEF TypeOK
<1>9. WindowFaithful'
  <2> SUFFICES ASSUME NEW q \in Processes, NEW x \in Recipients
               PROVE  /\ tracker'[q][x] \subseteq Took(q, x)'
                      /\ q \notin dead' => Recent(q, x)' \subseteq tracker'[q][x]
    BY DEF WindowFaithful
  <2>1. CASE q = p /\ x = r
    <3>1. Fresh(p, r) \subseteq Took(p, r)
      BY <1>1 DEF Fresh, WindowFaithful
    <3> QED
      BY <2>1, <3>1, <1>4, <1>5, <1>7, <1>8
  <2>2. CASE q # p \/ x # r
    BY <2>2, <1>2, <1>6 DEF WindowFaithful
  <2> QED
    BY <2>1, <2>2
<1>10. WithinLimit'
  <2> SUFFICES ASSUME NEW q \in Processes, NEW x \in Recipients
               PROVE  Cardinality(Recent(q, x)') <= Limit
    BY DEF WithinLimit
  <2>1. CASE q = p /\ x = r
    <3>1. IsFiniteSet(Sends)
      BY FS_Interval DEF Sends
    <3>2. Fresh(p, r) \in SUBSET Sends
      BY <1>1 DEF Fresh, TypeOK
    <3>3. IsFiniteSet(Fresh(p, r)) /\ Cardinality(Fresh(p, r)) \in Nat
      BY <3>1, <3>2, FS_Subset, FS_CardinalityType
    <3>4. Cardinality(Fresh(p, r)) < Limit
      BY DEF Admit, HasRoom
    <3>5. IsFiniteSet(Fresh(p, r) \cup {s}) /\ Cardinality(Fresh(p, r) \cup {s}) <= Cardinality(Fresh(p, r)) + 1
      BY <3>3, OneMore
    <3>6. Recent(p, r)' \in SUBSET (Fresh(p, r) \cup {s})
      BY <1>5, <1>7
    <3>7. Cardinality(Recent(p, r)') <= Cardinality(Fresh(p, r) \cup {s})
      BY <3>5, <3>6, FS_Subset
    <3>8. Cardinality(Recent(p, r)') \in Nat /\ Cardinality(Fresh(p, r) \cup {s}) \in Nat
      BY <3>5, <3>6, FS_Subset, FS_CardinalityType
    <3>9. Cardinality(Recent(p, r)') <= Limit
      BY <3>3, <3>4, <3>5, <3>7, <3>8
    <3> QED
      BY <2>1, <3>9
  <2>2. CASE q # p \/ x # r
    BY <2>2, <1>6 DEF WithinLimit
  <2> QED
    BY <2>1, <2>2
<1> QED
  BY <1>9, <1>10

\* A refusal changes no window and happens only at a full one.
LEMMA RefuseStep ==
    ASSUME TypeOK, WindowFaithful, NEW s \in Sends, NEW p \in Processes,
           NEW address \in Recipients \cup {None}, Refuse(s, p, address)
    PROVE  /\ WindowFaithful'
           /\ Ageing
           /\ host'[s] = p /\ to'[s] = Recipient(address)
           /\ Cardinality(Recent(p, Recipient(address))) >= Limit
<1> DEFINE r == Recipient(address)
<1>1. r \in Recipients
  BY DEF Recipient
<1>2. /\ call[s] = "unused"
      /\ host' = [host EXCEPT ![s] = p]
      /\ to' = [to EXCEPT ![s] = r]
      /\ call' = [call EXCEPT ![s] = "refused"]
      /\ tracker' = [tracker EXCEPT ![p][r] = Fresh(p, r)]
      /\ UNCHANGED <<age, dead>>
  BY DEF Refuse, Made
<1>3. \A q \in Processes, x \in Recipients :
         Took(q, x)' = Took(q, x) /\ Recent(q, x)' = Recent(q, x)
  BY <1>2 DEF Took, Recent, TypeOK
<1>4. \A q \in Processes, x \in Recipients :
         tracker'[q][x] = IF q = p /\ x = r THEN Fresh(p, r) ELSE tracker[q][x]
  BY <1>1, <1>2 DEF TypeOK
<1>5. Recent(p, r) \subseteq Fresh(p, r) \/ p \in dead
  BY <1>1 DEF WindowFaithful, Recent, Fresh
<1>6. Fresh(p, r) \subseteq tracker[p][r]
  BY DEF Fresh
<1>7. WindowFaithful'
  BY <1>1, <1>2, <1>3, <1>4, <1>5, <1>6 DEF WindowFaithful
<1>8. Cardinality(Recent(p, r)) >= Limit
  <2>1. Fresh(p, r) \in SUBSET Recent(p, r)
    BY <1>1 DEF WindowFaithful, Took, Fresh, Recent
  <2>2. IsFiniteSet(Sends)
    BY FS_Interval DEF Sends
  <2>3. IsFiniteSet(Recent(p, r)) /\ Cardinality(Recent(p, r)) \in Nat
    BY <2>2, FS_Subset, FS_CardinalityType DEF Recent
  <2>4. Cardinality(Fresh(p, r)) <= Cardinality(Recent(p, r)) /\ Cardinality(Fresh(p, r)) \in Nat
    BY <2>1, <2>3, FS_Subset, FS_CardinalityType
  <2>5. ~(Cardinality(Fresh(p, r)) < Limit)
    BY DEF Refuse, HasRoom
  <2> QED
    BY <2>3, <2>4, <2>5
<1> QED
  BY <1>2, <1>3, <1>7, <1>8 DEF Ageing, TypeOK

\* Time makes calls older.
LEMMA TickStep ==
    ASSUME TypeOK, TypeOK', WindowFaithful, Tick
    PROVE  WindowFaithful' /\ Ageing
<1>1. \A s \in Sends : call[s] # "unused" => age'[s] >= age[s]
  BY OlderInWindow DEF Tick, TypeOK
<1> QED
  BY <1>1, QuietStep DEF Tick

\* A process takes its windows with it and makes no call.
LEMMA CrashStep ==
    ASSUME TypeOK, WindowFaithful, NEW p \in Processes, Crash(p)
    PROVE  WindowFaithful' /\ Ageing
<1>1. \A q \in Processes, r \in Recipients :
         q # p => Took(q, r)' = Took(q, r) /\ Recent(q, r)' = Recent(q, r) /\ tracker'[q][r] = tracker[q][r]
  BY DEF Crash, Took, Recent, TypeOK, Ended
<1>2. \A r \in Recipients : tracker'[p][r] = {}
  BY DEF Crash, TypeOK
<1>3. p \in dead' /\ \A q \in Processes : q \notin dead' => q \notin dead
  BY DEF Crash
<1>4. WindowFaithful'
  BY <1>1, <1>2, <1>3 DEF WindowFaithful
<1>5. \A s \in Sends : call'[s] \notin {"unused", "refused"} => call[s] \notin {"unused", "refused"}
  BY DEF Crash, TypeOK, Ended
<1>6. Ageing
  BY <1>5 DEF Ageing, Recent, Crash
<1> QED
  BY <1>4, <1>6

\* What a step does to the windows.
LEMMA LimitStep ==
    ASSUME TypeOK, TypeOK', WindowFaithful, WithinLimit, [Next]_vars
    PROVE  WindowFaithful' /\ WithinLimit'
<1>1. ASSUME NEW s \in Sends, NEW p \in Processes, NEW address \in Recipients \cup {None},
             Admit(s, p, address)
      PROVE  WindowFaithful' /\ WithinLimit'
  BY <1>1, AdmitStep
<1>2. ASSUME NEW s \in Sends, NEW p \in Processes, NEW address \in Recipients \cup {None},
             Refuse(s, p, address)
      PROVE  WindowFaithful' /\ WithinLimit'
  BY <1>2, RefuseStep, FewerWithinLimit
<1>3. ASSUME NEW s \in Sends, Attempt(s) \/ Wake(s)
      PROVE  WindowFaithful' /\ WithinLimit'
  BY <1>3, AttemptStep, FewerWithinLimit
<1>4. CASE Tick
  BY <1>4, TickStep, FewerWithinLimit
<1>5. ASSUME NEW p \in Processes, Crash(p)
      PROVE  WindowFaithful' /\ WithinLimit'
  BY <1>5, CrashStep, FewerWithinLimit
<1>6. CASE UNCHANGED vars
  <2>1. WindowFaithful'
    BY <1>6 DEF vars, WindowFaithful, Took, Recent
  <2>2. WithinLimit'
    BY <1>6 DEF vars, WithinLimit, Recent
  <2> QED
    BY <2>1, <2>2
<1> QED
  BY <1>1, <1>2, <1>3, <1>4, <1>5, <1>6 DEF Next

\* At the start no window has an entry.
LEMMA LimitInit == ASSUME Init PROVE WindowFaithful /\ WithinLimit
<1>1. \A p \in Processes, r \in Recipients : Recent(p, r) = {} /\ Took(p, r) = {}
  BY DEF Init, Recent, Took
<1>2. Cardinality({}) = 0
  BY FS_EmptySet
<1>3. WithinLimit
  BY <1>1, <1>2 DEF WithinLimit
<1>4. WindowFaithful
  BY <1>1 DEF Init, WindowFaithful
<1> QED
  BY <1>3, <1>4

\* No minute of any process holds more than the limit of mails to one
\* recipient, however calls, pauses and processes' deaths interleave.
THEOREM LimitHolds == Spec => []WithinLimit
<1>1. Init => WindowFaithful /\ WithinLimit
  BY LimitInit
<1>2. TypeOK /\ TypeOK' /\ (WindowFaithful /\ WithinLimit) /\ [Next]_vars => (WindowFaithful /\ WithinLimit)'
  BY LimitStep
<1> QED
  BY <1>1, <1>2, TypeCorrect, PTL DEF Spec

\* Nobody is refused on account of refusals or of an earlier minute.
THEOREM RefusalsEarned == Spec => RefusedOnlyIfFull
<1>1. ASSUME TypeOK, WindowFaithful, [Next]_vars
      PROVE  [\A s \in Sends : call[s] = "unused" /\ call'[s] = "refused"
                => Cardinality(Recent(host'[s], to'[s])) >= Limit]_vars
  <2> SUFFICES ASSUME NEW s \in Sends, call[s] = "unused", call'[s] = "refused", Next
               PROVE  Cardinality(Recent(host'[s], to'[s])) >= Limit
    BY <1>1 DEF vars
  <2>1. PICK p \in Processes, address \in Recipients \cup {None} : Refuse(s, p, address)
    <3>1. ASSUME NEW t \in Sends, NEW p \in Processes, NEW address \in Recipients \cup {None},
                 Admit(t, p, address)
          PROVE  FALSE
      BY <3>1, <1>1 DEF Admit, TypeOK
    <3>2. ASSUME NEW t \in Sends, NEW p \in Processes, NEW address \in Recipients \cup {None},
                 Refuse(t, p, address)
          PROVE  s = t
      BY <3>2, <1>1 DEF Refuse, TypeOK
    <3>3. ASSUME NEW t \in Sends, Attempt(t) \/ Wake(t)
          PROVE  FALSE
      <4>1. \E c \in {"returned", "asleep", "raised", "trying"} : call' = [call EXCEPT ![t] = c]
        BY <3>3 DEF Attempt, Send, SendFails, Fails, GiveUp, NoLibrary, Wake, Dump, Ends
      <4> QED
        BY <4>1, <1>1 DEF TypeOK
    <3>4. ~Tick
      BY DEF Tick
    <3>5. ASSUME NEW p \in Processes, Crash(p)
          PROVE  FALSE
      BY <3>5 DEF Crash
    <3> QED
      BY <3>1, <3>2, <3>3, <3>4, <3>5 DEF Next
  <2> QED
    BY <1>1, <2>1, RefuseStep
<1>2. Spec => []WindowFaithful
  <2>1. Init => WindowFaithful /\ WithinLimit
    BY LimitInit
  <2>2. TypeOK /\ TypeOK' /\ (WindowFaithful /\ WithinLimit) /\ [Next]_vars => (WindowFaithful /\ WithinLimit)'
    BY LimitStep
  <2> QED
    BY <2>1, <2>2, TypeCorrect, PTL DEF Spec
<1> QED
  BY <1>1, <1>2, TypeCorrect, PTL DEF Spec, RefusedOnlyIfFull

(***************************************************************************)
(* What a returned Message-ID is worth.                                    *)
(***************************************************************************)

\* Mails already taken or dumped stay so, and a call returns only with one.
LEMMA KeptStep ==
    ASSUME TypeOK, ReturnedIsKept, [Next]_vars
    PROVE  ReturnedIsKept'
<1> USE DEF ReturnedIsKept, TypeOK
<1>1. ASSUME NEW s \in Sends, NEW p \in Processes, NEW address \in Recipients \cup {None},
             Admit(s, p, address) \/ Refuse(s, p, address)
      PROVE  ReturnedIsKept'
  BY <1>1 DEF Admit, Refuse
<1>2. ASSUME NEW s \in Sends, Send(s) PROVE ReturnedIsKept'
  BY <1>2 DEF Send, Ends
<1>3. ASSUME NEW s \in Sends, SendFails(s) PROVE ReturnedIsKept'
  BY <1>3 DEF SendFails, Fails
<1>4. ASSUME NEW s \in Sends, NEW error \in BOOLEAN, Dump(s, error), accepted \subseteq accepted'
      PROVE  ReturnedIsKept'
  BY <1>4 DEF Dump, Dumps, Ends
<1>5. ASSUME NEW s \in Sends, GiveUp(s) \/ NoLibrary(s) PROVE ReturnedIsKept'
  BY <1>4, <1>5 DEF GiveUp, Fails, NoLibrary
<1>6. ASSUME NEW s \in Sends, Wake(s) PROVE ReturnedIsKept'
  BY <1>6 DEF Wake
<1>7. CASE Tick
  BY <1>7 DEF Tick
<1>8. ASSUME NEW p \in Processes, Crash(p) PROVE ReturnedIsKept'
  BY <1>8 DEF Crash
<1>9. CASE UNCHANGED vars
  BY <1>9 DEF vars
<1> QED
  BY <1>1, <1>2, <1>3, <1>5, <1>6, <1>7, <1>8, <1>9 DEF Next, Attempt

\* A call that returned has left its mail with the server or on the disk.
THEOREM ReturnedIsKeptHolds == Spec => []ReturnedIsKept
<1>1. Init => ReturnedIsKept
  BY DEF Init, ReturnedIsKept
<1>2. TypeOK /\ ReturnedIsKept /\ [Next]_vars => ReturnedIsKept'
  BY KeptStep
<1> QED
  BY <1>1, <1>2, TypeCorrect, PTL DEF Spec

=============================================================================
