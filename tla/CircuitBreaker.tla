--------------------------- MODULE CircuitBreaker ---------------------------
(***************************************************************************)
(* services/llm_client.py: callers that share one circuit breaker.         *)
(*                                                                         *)
(* The time is a counter.  A caller may be inside for long, so its result  *)
(* is recorded in a breaker that has opened, cooled down or closed since.  *)
(***************************************************************************)
EXTENDS Naturals, Sequences, SequencesExt

CONSTANTS
    Callers,       \* bound: calls of call_llm_with_circuit_breaker at a time
    Threshold,     \* failure_threshold
    Window,        \* window_sec
    OpenDuration,  \* open_duration_sec
    MaxTime,       \* bound of the clock
    Never          \* None of the code

ASSUME ThresholdAssumption == Threshold \in Nat \ {0}
ASSUME TimesAssumption == Window \in Nat /\ OpenDuration \in Nat /\ MaxTime \in Nat
ASSUME NeverAssumption == Never \notin Nat

VARIABLES
    now,       \* time.time()
    failures,  \* _failures
    opened,    \* _opened_at
    inside,    \* attempt of each caller, 0 when it is not inside
    tripped,   \* when the failures of a window last reached the threshold (history)
    healed     \* a success was recorded since (history)

breakerVars == <<now, failures, opened, inside, tripped, healed>>

BreakerTypeOK ==
    /\ now \in 0..MaxTime
    /\ \A i \in DOMAIN failures : failures[i] \in 0..now
    /\ opened \in 0..now \cup {Never}
    /\ inside \in [Callers -> 0..2]
    /\ tripped \in 0..now \cup {Never}
    /\ healed \in BOOLEAN

BreakerInit ==
    /\ now = 0
    /\ failures = <<>>
    /\ opened = Never
    /\ inside = [k \in Callers |-> 0]
    /\ tripped = Never
    /\ healed = FALSE

-----------------------------------------------------------------------------
Cooled == opened # Never /\ now - opened > OpenDuration

\* is_open is false: a breaker that has cooled down forgets its failures and
\* closes at once, for this caller and for all that wait.
Admit(k) ==
    /\ inside[k] = 0
    /\ opened = Never \/ Cooled
    /\ inside' = [inside EXCEPT ![k] = 1]
    /\ failures' = IF Cooled THEN <<>> ELSE failures
    /\ opened' = Never
    /\ UNCHANGED <<now, tripped, healed>>

\* LLMUnavailableError; it is not a failure of the model.
Refuse(k) ==
    /\ inside[k] = 0
    /\ opened # Never /\ ~ Cooled
    /\ UNCHANGED breakerVars

\* _retry_llm_call: the first of two attempts raises or times out.
AttemptAgain(k) ==
    /\ inside[k] = 1
    /\ inside' = [inside EXCEPT ![k] = 2]
    /\ UNCHANGED <<now, failures, opened, tripped, healed>>

\* record_success
Succeed(k) ==
    /\ inside[k] # 0
    /\ inside' = [inside EXCEPT ![k] = 0]
    /\ failures' = <<>>
    /\ opened' = Never
    /\ healed' = TRUE
    /\ UNCHANGED <<now, tripped>>

\* The failures of the window, this one included.
Recent == Append(SelectSeq(failures, LAMBDA t : now - t < Window), now)

\* Mutant: a breaker that is open keeps the time it opened at.
OpenedFirst == IF opened = Never THEN now ELSE opened

\* self._opened_at = now, open or not
OpenedNow == now

\* record_failure after the second attempt
Fail(k) ==
    /\ inside[k] = 2
    /\ inside' = [inside EXCEPT ![k] = 0]
    /\ failures' = Recent
    /\ IF Len(Recent) >= Threshold
       THEN opened' = OpenedNow /\ tripped' = now /\ healed' = FALSE
       ELSE UNCHANGED <<opened, tripped, healed>>
    /\ UNCHANGED now

Tick ==
    /\ now < MaxTime
    /\ now' = now + 1
    /\ UNCHANGED <<failures, opened, inside, tripped, healed>>

BreakerNext ==
    \/ \E k \in Callers :
          \/ Admit(k)
          \/ Refuse(k)
          \/ AttemptAgain(k)
          \/ Succeed(k)
          \/ Fail(k)
    \/ Tick

BreakerSpec == BreakerInit /\ [][BreakerNext]_breakerVars

-----------------------------------------------------------------------------
\* After the threshold was reached nobody enters for the whole cool-down,
\* counted from the last failure, unless a caller that was inside meanwhile
\* succeeded (is_open, record_failure, record_success).
CoolsDown ==
    [][\A k \in Callers :
          (inside[k] = 0 /\ inside'[k] = 1 /\ tripped # Never /\ ~ healed)
              => now - tripped > OpenDuration]_breakerVars

=============================================================================
