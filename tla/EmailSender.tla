---------------------------- MODULE EmailSender -----------------------------
(***************************************************************************)
(* send_rfq_email (email_service/sender.py): a slot of the recipient's     *)
(* minute is taken, then up to three attempts over SMTP with a growing     *)
(* pause, then the mail is written to data/sent_emails/*.eml.              *)
(*                                                                         *)
(* The windows of the rate limit live in the memory of each process, and   *)
(* the calls of one process interleave wherever one awaits.  Time is       *)
(* relative: a window is a list of times in the code, here the calls that  *)
(* took a slot, and now - t is the call's age, which stops at the length   *)
(* of the window.  The SMTP server is external.                            *)
(***************************************************************************)
EXTENDS Naturals, FiniteSets

CONSTANTS
    MaxSends,     \* bound: calls of send_rfq_email
    Processes,    \* processes with a _rate_tracker of their own
    Recipients,   \* addresses
    NoReply,      \* the address that stands for a missing one
    Limit,        \* _RATE_LIMIT_PER_MIN
    Window,       \* the 60 seconds of the limit
    MaxAttempts,  \* max_retries
    RetryDelay,   \* retry_delay
    None

ASSUME SendsAssumption == MaxSends \in Nat
ASSUME AddressAssumption == NoReply \in Recipients /\ None \notin Recipients /\ None \notin Processes
ASSUME NumbersAssumption == {Limit, Window, MaxAttempts} \subseteq Nat \ {0} /\ RetryDelay \in Nat

\* Calls are numbered in the order they are made.
Sends == 1..MaxSends

VARIABLES
    installed,  \* the import of aiosmtplib succeeds
    dead,       \* processes that are gone
    call,       \* where each call is
    host,       \* process it was made in
    to,         \* address it writes to
    age,        \* time since it asked for a slot, Window at most
    attempt,    \* attempts begun
    pause,      \* time it has yet to sleep
    tracker,    \* _rate_tracker of each process: calls in each recipient's window
    accepted,   \* calls whose mail the SMTP server has taken, once or more
    dumps       \* calls whose mail is in data/sent_emails

vars == <<installed, dead, call, host, to, age, attempt, pause, tracker, accepted, dumps>>

Ended == {"returned", "refused", "raised", "lost"}

TypeOK ==
    /\ installed \in BOOLEAN
    /\ dead \subseteq Processes
    /\ call \in [Sends -> {"unused", "trying", "asleep"} \cup Ended]
    /\ host \in [Sends -> Processes \cup {None}]
    /\ to \in [Sends -> Recipients \cup {None}]
    /\ age \in [Sends -> 0..Window]
    /\ attempt \in [Sends -> 0..MaxAttempts]
    /\ pause \in [Sends -> Nat]
    /\ tracker \in [Processes -> [Recipients -> SUBSET Sends]]
    /\ accepted \subseteq Sends
    /\ dumps \subseteq Sends

Init ==
    /\ installed \in BOOLEAN
    /\ dead = {}
    /\ call = [s \in Sends |-> "unused"]
    /\ host = [s \in Sends |-> None]
    /\ to = [s \in Sends |-> None]
    /\ age = [s \in Sends |-> 0]
    /\ attempt = [s \in Sends |-> 0]
    /\ pause = [s \in Sends |-> 0]
    /\ tracker = [p \in Processes |-> [r \in Recipients |-> {}]]
    /\ accepted = {}
    /\ dumps = {}

----------------------------------------------------------------------------
(* The rate limit, _check_rate_limit.                                      *)

\* Mutant: the old entries of the window are never dropped.
FreshForever(p, r) == tracker[p][r]

\* The entries of the window younger than a minute.
Fresh(p, r) == {s \in tracker[p][r] : age[s] < Window}

\* Mutant: one send more than the limit.
HasRoomOneMore(p, r) == Cardinality(Fresh(p, r)) <= Limit

HasRoom(p, r) == Cardinality(Fresh(p, r)) < Limit

\* The recipient of a call: a supplier without an address shares one with
\* every other such supplier.
Recipient(address) == IF address = None THEN NoReply ELSE address

\* A call is made in a live process, with an address or without.
Made(s, p, address) ==
    /\ call[s] = "unused"
    /\ \A t \in 1..s - 1 : call[t] # "unused"
    /\ p \notin dead
    /\ host' = [host EXCEPT ![s] = p]
    /\ to' = [to EXCEPT ![s] = Recipient(address)]

Admit(s, p, address) == LET r == Recipient(address) IN
    /\ Made(s, p, address)
    /\ HasRoom(p, r)
    /\ tracker' = [tracker EXCEPT ![p][r] = Fresh(p, r) \cup {s}]
    /\ call' = [call EXCEPT ![s] = "trying"]
    /\ attempt' = [attempt EXCEPT ![s] = 1]
    /\ UNCHANGED <<installed, dead, age, pause, accepted, dumps>>

\* The window is full: RuntimeError, before there is a message.
Refuse(s, p, address) == LET r == Recipient(address) IN
    /\ Made(s, p, address)
    /\ ~HasRoom(p, r)
    /\ tracker' = [tracker EXCEPT ![p][r] = Fresh(p, r)]
    /\ call' = [call EXCEPT ![s] = "refused"]
    /\ UNCHANGED <<installed, dead, age, attempt, pause, accepted, dumps>>

----------------------------------------------------------------------------
(* The attempts.                                                           *)

Trying(s) == call[s] = "trying" /\ host[s] \notin dead

MoreAttempts(s) == attempt[s] < MaxAttempts

\* Mutant: the loop does not count.
SameAttempt(s) == attempt[s]

NextAttempt(s) == attempt[s] + 1

\* Mutant: the mail is dumped only if an attempt failed, which it did not
\* when there is no library to attempt it with.
DumpsOnError(error) == error

\* if not sent_via_smtp: whatever the reason was.
Dumps(error) == TRUE

\* The call is over, and its locals with it.
Ends(s, how) ==
    /\ call' = [call EXCEPT ![s] = how]
    /\ attempt' = [attempt EXCEPT ![s] = 0]
    /\ pause' = [pause EXCEPT ![s] = 0]

\* Delivered, and the answer of the server has arrived.
Send(s) ==
    /\ Trying(s)
    /\ installed
    /\ accepted' = accepted \cup {s}
    /\ Ends(s, "returned")
    /\ UNCHANGED <<installed, dead, host, to, age, tracker, dumps>>

\* An attempt raises; the server may have taken the mail all the same, when
\* only its answer was lost or late.
Fails(s) ==
    /\ Trying(s)
    /\ installed
    /\ accepted' \in {accepted, accepted \cup {s}}
    /\ UNCHANGED <<installed, dead, host, to, age, tracker>>

SendFails(s) ==
    /\ Fails(s)
    /\ MoreAttempts(s)
    /\ call' = [call EXCEPT ![s] = "asleep"]
    /\ pause' = [pause EXCEPT ![s] = RetryDelay * attempt[s]]
    /\ UNCHANGED <<attempt, dumps>>

Wake(s) ==
    /\ call[s] = "asleep"
    /\ host[s] \notin dead
    /\ pause[s] = 0
    /\ call' = [call EXCEPT ![s] = "trying"]
    /\ attempt' = [attempt EXCEPT ![s] = NextAttempt(s)]
    /\ UNCHANGED <<installed, dead, host, to, age, pause, tracker, accepted, dumps>>

\* The dump is written, or writing it raises.
Dump(s, error) ==
    \/ /\ Ends(s, "returned")
       /\ dumps' = IF Dumps(error) THEN dumps \cup {s} ELSE dumps
    \/ /\ Ends(s, "raised")
       /\ dumps' = dumps

\* The last attempt raises: no pause, the dump follows at once.
GiveUp(s) ==
    /\ Fails(s)
    /\ ~MoreAttempts(s)
    /\ Dump(s, TRUE)

\* ImportError: no attempt at all.
NoLibrary(s) ==
    /\ Trying(s)
    /\ ~installed
    /\ Dump(s, FALSE)
    /\ UNCHANGED <<installed, dead, host, to, age, tracker, accepted>>

----------------------------------------------------------------------------
(* Time, and the death of a process, whose calls and windows go with it.   *)

Older(n) == IF n < Window THEN n + 1 ELSE n

Tick ==
    /\ age' = [s \in Sends |-> IF call[s] = "unused" THEN 0 ELSE Older(age[s])]
    /\ pause' = [s \in Sends |-> IF pause[s] > 0 THEN pause[s] - 1 ELSE 0]
    /\ UNCHANGED <<installed, dead, call, host, to, attempt, tracker, accepted, dumps>>

Crash(p) ==
    /\ p \notin dead
    /\ dead' = dead \cup {p}
    /\ call' = [s \in Sends |->
                  IF host[s] = p /\ call[s] \in {"trying", "asleep"} THEN "lost" ELSE call[s]]
    /\ attempt' = [s \in Sends |-> IF host[s] = p THEN 0 ELSE attempt[s]]
    /\ pause' = [s \in Sends |-> IF host[s] = p THEN 0 ELSE pause[s]]
    /\ tracker' = [tracker EXCEPT ![p] = [r \in Recipients |-> {}]]
    /\ UNCHANGED <<installed, host, to, age, accepted, dumps>>

Attempt(s) == Send(s) \/ SendFails(s) \/ GiveUp(s) \/ NoLibrary(s)

Next ==
    \/ \E s \in Sends, p \in Processes, address \in Recipients \cup {None} :
          Admit(s, p, address) \/ Refuse(s, p, address)
    \/ \E s \in Sends : Attempt(s) \/ Wake(s)
    \/ Tick
    \/ \E p \in Processes : Crash(p)

\* aiosmtplib ends every command by its timeout, sleeps end, time passes.
Fairness ==
    /\ WF_vars(Tick)
    /\ \A s \in Sends : WF_vars(Attempt(s)) /\ WF_vars(Wake(s))

Spec == Init /\ [][Next]_vars /\ Fairness

----------------------------------------------------------------------------
(* Properties.                                                             *)

\* Calls of p that took a slot for r within the last minute.
Recent(p, r) ==
    {s \in Sends : /\ call[s] \notin {"unused", "refused"}
                   /\ host[s] = p
                   /\ to[s] = r
                   /\ age[s] < Window}

\* In no minute does a process begin more than the limit of mails to one
\* recipient (_check_rate_limit), whatever became of them.
WithinLimit ==
    \A p \in Processes, r \in Recipients : Cardinality(Recent(p, r)) <= Limit

\* A call is refused only if the limit was used up by calls that went on:
\* refusals and mails of an earlier minute cost nothing (lines 29-31).
RefusedOnlyIfFull ==
    [][\A s \in Sends :
         call[s] = "unused" /\ call'[s] = "refused"
           => Cardinality(Recent(host'[s], to'[s])) >= Limit]_vars

\* A call that returned a Message-ID has left the mail with the server or on
\* the disk ("the mails are not lost", docs/runbook.md:45).
ReturnedIsKept == \A s \in Sends : call[s] = "returned" => s \in accepted \cup dumps

\* Every admitted call ends: it returns, raises, or dies with its process.
SendEnds == \A s \in Sends : call[s] = "trying" ~> call[s] \in Ended

=============================================================================
