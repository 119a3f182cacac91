----------------------------- MODULE TelegramBot ------------------------------
(***************************************************************************)
(* The buyers' bot of one chat: Telegram keeps every update until it is    *)
(* confirmed, by the offset of a later getUpdates or by the answer 200 of  *)
(* the webhook; the polling process and the webhook carry commands out     *)
(* through the HTTP API (bot/polling_runner.py, bot/telegram_bot.py,       *)
(* api/routes/telegram_webhook.py, create_lot of api/routes/lots.py).      *)
(*                                                                         *)
(* Telegram is external: it returns the updates from the offset on, refuses*)
(* getUpdates while a webhook is set, and delivers again what was not      *)
(* answered with 200.  Commands that only read are one command, and so are *)
(* those answered with a fixed text.  APP_ENV is dev, where the bot's      *)
(* requests and Telegram's, which carry no token, are admitted.            *)
(***************************************************************************)
EXTENDS Naturals, FiniteSets

CONSTANTS
    MaxUpdates,  \* bound: messages buyers write
    MaxEvents,   \* bound: messages, losses, switches to the webhook, late answers
    Asks,        \* what the n-th message may ask for
    None

ASSUME NumberAssumption == MaxUpdates \in Nat /\ MaxEvents \in Nat

VARIABLES
    command,     \* what each update asks for, or None: not written yet
    pending,     \* updates Telegram has not seen confirmed
    hook,        \* a webhook is set
    up,          \* the polling process runs
    offset, batch,
                 \* its local variables: next offset, updates still to process
    handler,     \* each handling of an update: the runner's and the webhook's
    calls,       \* requests at the API, abandoned by their client or not
    effects,     \* times the API carried the update's command out
    handled,     \* updates processed to the end (history)
    faults

telegram == <<command, pending, hook>>
runner == <<up, offset, batch>>
api == <<calls, effects>>
vars == <<telegram, runner, handler, api, handled, faults>>

Updates == 1..MaxUpdates
Commands == {"new", "approve", "read", "escalate", "text", "none", "broken"}
Asking == {"new", "approve", "read"}
Runner == <<"runner", 0>>
\* An update that was not answered in time may be with two processes at once.
Hooks == {"hook"} \X Updates \X {1, 2}
Handlers == Hooks \cup {Runner}
ASSUME AsksAssumption == Asks \in [Updates -> SUBSET Commands]
Replies == {"created", "approved", "listed", "escalated", "fixed", "failed"}
ASSUME NoneAssumption == None \notin Nat /\ None \notin Commands \cup Replies

Free == [pc |-> "free", update |-> None, call |-> None, reply |-> None]
Busy(d) == handler[d].pc # "free"

TypeOK ==
    /\ command \in [Updates -> Commands \cup {None}]
    /\ pending \subseteq Updates
    /\ hook \in BOOLEAN /\ up \in BOOLEAN
    /\ offset \in 0..MaxUpdates + 1
    /\ batch \subseteq Updates
    /\ handler \in [Handlers -> [pc : {"free", "await", "notify", "reply"},
                                 update : Updates \cup {None},
                                 call : Nat \cup {None},
                                 reply : Replies \cup {None}]]
    /\ calls \subseteq [no : Nat, update : Updates, step : {"asked", "ok", "failed"}]
    /\ effects \in [Updates -> Nat]
    /\ handled \subseteq Updates
    /\ faults \in 0..MaxEvents

Init ==
    /\ command = [u \in Updates |-> None]
    /\ pending = {}
    /\ hook = FALSE
    /\ up = FALSE
    /\ offset = 0
    /\ batch = {}
    /\ handler = [d \in Handlers |-> Free]
    /\ calls = {}
    /\ effects = [u \in Updates |-> 0]
    /\ handled = {}
    /\ faults = 0

-----------------------------------------------------------------------------
Room == Cardinality({u \in Updates : command[u] # None}) + faults < MaxEvents

\* A buyer writes; updates are numbered in order.
Write(u, k) ==
    /\ Room /\ command[u] = None
    /\ \A v \in 1..u - 1 : command[v] # None
    /\ command' = [command EXCEPT ![u] = k]
    /\ pending' = pending \cup {u}
    /\ UNCHANGED <<hook, runner, handler, api, handled, faults>>

\* /telegram/set-webhook
SetWebhook ==
    /\ ~hook /\ Room
    /\ hook' = TRUE
    /\ faults' = faults + 1
    /\ UNCHANGED <<command, pending, runner, handler, api, handled>>

-----------------------------------------------------------------------------
(***************************************************************************)
(* poll_updates.                                                           *)
(***************************************************************************)
\* The process starts, deletes the webhook and knows no offset.
Start ==
    /\ ~up
    /\ up' = TRUE
    /\ hook' = FALSE
    /\ UNCHANGED <<command, pending, offset, batch, handler, api, handled, faults>>

\* Mutant: updates are processed by tasks the loop does not wait for.
NotAwaited == up

\* The loop is back at getUpdates.
AtPoll == up /\ batch = {} /\ ~Busy(Runner)

\* What getUpdates leaves unconfirmed.
From(o) == {u \in pending : u >= o}

\* A webhook makes getUpdates fail; an empty answer changes nothing.
Poll ==
    /\ AtPoll /\ ~hook
    /\ pending' = From(offset)
    /\ batch' = From(offset)
    /\ UNCHANGED <<command, hook, up, offset, handler, api, handled, faults>>

\* The answer is lost on its way: the offset has been taken all the same.
PollTimesOut ==
    /\ AtPoll /\ ~hook
    /\ pending' = From(offset)
    /\ UNCHANGED <<command, hook, runner, handler, api, handled, faults>>

-----------------------------------------------------------------------------
(***************************************************************************)
(* process_update, and the webhook's copy of it.                           *)
(***************************************************************************)
\* A request gets a number that no other at the API has and nobody waits for.
NewNo ==
    LET taken == {c.no : c \in calls} \cup {handler[d].call : d \in Handlers}
    IN  CHOOSE n \in 0..Cardinality(taken) : n \notin taken

\* Where the handling of update u by d stands after its first stretch.
Begun(u) ==
    CASE command[u] \in Asking   -> [Free EXCEPT !.pc = "await", !.update = u, !.call = NewNo]
      [] command[u] = "escalate" -> [Free EXCEPT !.pc = "notify", !.update = u]
      [] command[u] = "text"     -> [Free EXCEPT !.pc = "reply", !.update = u, !.reply = "fixed"]
      [] OTHER                   -> Free

\* An update without text ends at once, a broken one raises.
Begin(d, u) ==
    /\ handler' = [handler EXCEPT ![d] = Begun(u)]
    /\ calls' = IF command[u] \in Asking
                THEN calls \cup {[no |-> NewNo, update |-> u, step |-> "asked"]}
                ELSE calls
    /\ UNCHANGED effects

\* Mutant: the offset is the update's own id.
OffsetSame(u) == u

\* Mutant: the offset moves only past what was processed without an error.
OffsetIfDone(u) == IF command[u] = "broken" THEN offset ELSE u + 1

OffsetPast(u) == u + 1

\* The oldest comes first.  The offset moves before the update is processed; an
\* error is swallowed.
RunnerTakes ==
    /\ up /\ ~Busy(Runner)
    /\ \E u \in batch :
          /\ \A v \in batch : u <= v
          /\ offset' = OffsetPast(u)
          /\ Begin(Runner, u)
          /\ batch' = batch \ {u}
          /\ handled' = IF command[u] \in {"none", "broken"} THEN handled \cup {u} ELSE handled
    /\ UNCHANGED <<telegram, up, faults>>

\* Telegram posts an update to the webhook; once more when it heard nothing.
Deliver(d, u) ==
    /\ hook /\ u \in pending /\ d[2] = u /\ ~Busy(d)
    /\ IF \E e \in Hooks : e[2] = u /\ Busy(e)
       THEN Room /\ faults' = faults + 1
       ELSE UNCHANGED faults
    /\ Begin(d, u)
    /\ pending' = IF command[u] = "none" THEN pending \ {u} ELSE pending
    /\ handled' = IF command[u] = "none" THEN handled \cup {u} ELSE handled
    /\ UNCHANGED <<command, hook, runner>>

\* The status code of the API decides what the buyer reads.
ReplyFor(u, step) ==
    IF step = "ok"
    THEN [new |-> "created", approve |-> "approved", read |-> "listed"][command[u]]
    ELSE "failed"

\* The API answers the request handler d waits for.
Answered(d) ==
    /\ handler[d].pc = "await"
    /\ \E c \in calls :
          /\ c.no = handler[d].call
          /\ c.step \in {"ok", "failed"}
          /\ handler' = [handler EXCEPT ![d] = [@ EXCEPT !.pc = "reply", !.call = None,
                                                 !.reply = ReplyFor(c.update, c.step)]]
          /\ calls' = calls \ {c}
    /\ UNCHANGED <<telegram, runner, effects, handled, faults>>

\* The requests once d waits no longer: its answer, if there, is thrown away.
Abandoned(d) == {c \in calls : c.no = handler[d].call => c.step = "asked"}

\* Nothing heard in 15 or 30 seconds, or no connection: the request may go on.
TimesOut(d) ==
    /\ handler[d].pc = "await"
    /\ handler' = [handler EXCEPT ![d] = [@ EXCEPT !.pc = "reply", !.call = None, !.reply = "failed"]]
    /\ calls' = Abandoned(d)
    /\ UNCHANGED <<telegram, runner, effects, handled, faults>>

\* send_escalation_notification: delivered; or not, for want of a chat or of
\* a connection.
Notify(d) ==
    /\ handler[d].pc = "notify"
    /\ handler' = [handler EXCEPT ![d] = [@ EXCEPT !.pc = "reply", !.reply = "escalated"]]
    /\ UNCHANGED <<telegram, runner, api, handled, faults>>

\* send_message: whether it arrives or not, the handling is over; the
\* webhook answers 200.
Reply(d) ==
    /\ handler[d].pc = "reply"
    /\ handled' = handled \cup {handler[d].update}
    /\ pending' = IF d \in Hooks THEN pending \ {handler[d].update} ELSE pending
    /\ handler' = [handler EXCEPT ![d] = Free]
    /\ UNCHANGED <<command, hook, runner, api, faults>>

-----------------------------------------------------------------------------
(***************************************************************************)
(* The API.  A request its client has given up goes on, and leaves nothing *)
(* but its effect.                                                         *)
(***************************************************************************)
Awaited(c) == \E d \in Handlers : handler[d].call = c.no

Ended(c, step) ==
    /\ c.step = "asked"
    /\ calls' = (calls \ {c}) \cup (IF Awaited(c) THEN {[c EXCEPT !.step = step]} ELSE {})
    /\ UNCHANGED <<telegram, runner, handler, handled, faults>>

\* create_lot commits a lot, approve_lot a decision; what list_lots and
\* get_lot return is read.
Carried(c) ==
    /\ Ended(c, "ok")
    /\ effects' = IF command[c.update] = "read" THEN effects
                  ELSE [effects EXCEPT ![c.update] = @ + 1]

\* 404, 422, or a database that fails before the commit.
CallFails(c) ==
    /\ Ended(c, "failed")
    /\ UNCHANGED effects

-----------------------------------------------------------------------------
RunnerLost ==
    /\ up /\ Room
    /\ faults' = faults + 1
    /\ up' = FALSE
    /\ handler' = [handler EXCEPT ![Runner] = Free]
    /\ calls' = Abandoned(Runner)
    /\ offset' = 0 /\ batch' = {}
    /\ UNCHANGED <<telegram, effects, handled>>

\* The API process takes its requests and the webhook's handlers along.
ApiLost ==
    /\ Room
    /\ faults' = faults + 1
    /\ calls' = {}
    /\ handler' = [d \in Handlers |-> IF d \in Hooks THEN Free ELSE handler[d]]
    /\ UNCHANGED <<telegram, runner, effects, handled>>

Serve(c) == Carried(c) \/ CallFails(c)

Handle(d) == Answered(d) \/ TimesOut(d) \/ Notify(d) \/ Reply(d)

Next ==
    \/ \E u \in Updates : \E k \in Asks[u] : Write(u, k)
    \/ SetWebhook
    \/ Start
    \/ Poll
    \/ PollTimesOut
    \/ RunnerTakes
    \/ \E d \in Hooks, u \in Updates : Deliver(d, u)
    \/ \E d \in Handlers : Handle(d)
    \/ \E c \in calls : Serve(c)
    \/ RunnerLost
    \/ ApiLost

RunnerSteps == Start \/ Poll \/ RunnerTakes \/ Handle(Runner)

\* Docker restarts the runner and its loop goes on; Telegram delivers; every
\* call of httpx has a timeout.
Fairness ==
    /\ WF_vars(RunnerSteps)
    /\ \A u \in Updates : WF_vars(\E d \in Hooks : Deliver(d, u))
    /\ \A d \in Hooks : WF_vars(Handle(d))

Spec == Init /\ [][Next]_vars /\ Fairness

-----------------------------------------------------------------------------
(***************************************************************************)
(* What must hold.                                                         *)
(***************************************************************************)
\* What Telegram has forgotten was processed to its end, whatever was lost
\* in between: no command disappears.
NothingDropped == \A u \in Updates : command[u] # None /\ u \notin pending => u \in handled

\* A command is carried out once, and once more for each process lost, switch
\* to the webhook or answer that came too late.
AppliedBounded == \A u \in Updates : effects[u] <= 1 + faults

\* "Created" and "approved" are said of what the API has carried out.
RepliesBacked ==
    \A d \in Handlers :
        handler[d].reply \in {"created", "approved"} => effects[handler[d].update] > 0

\* What a buyer is told and what was done agree, however often an update came:
\* no repetition without a cause, no success that was none.
AppliedAsTold == AppliedBounded /\ RepliesBacked

\* Every update is done with at last; only one the webhook cannot process is
\* delivered again and again.
UpdateSettles ==
    \A u \in Updates :
        u \in pending ~> u \notin pending \/ (hook /\ command[u] = "broken")

=============================================================================
