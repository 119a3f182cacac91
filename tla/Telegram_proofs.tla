--------------------------- MODULE Telegram_proofs ---------------------------
(***************************************************************************)
(* What Telegram forgets was processed, and what buyers are told was done  *)
(* and done no more often than was lost on the way: for any number of      *)
(* updates, losses, switches and late answers.                             *)
(***************************************************************************)
EXTENDS TelegramBot, FiniteSetTheorems, TLAPS

-----------------------------------------------------------------------------
(***************************************************************************)
(* Types, and what a handling or a request carries.                        *)
(***************************************************************************)
Handling == [pc : {"free", "await", "notify", "reply"},
             update : Updates \cup {None},
             call : Nat \cup {None},
             reply : Replies \cup {None}]
Request == [no : Nat, update : Updates, step : {"asked", "ok", "failed"}]

Written(u) == command[u] # None

\* A handling at work has its update, a webhook's the one it was called with; it
\* waits for a request or for none.
Carries ==
    /\ \A d \in Handlers :
          /\ Busy(d) => handler[d].update \in Updates /\ Written(handler[d].update)
          /\ d \in Hooks /\ Busy(d) => handler[d].update = d[2]
          /\ handler[d].pc # "await" => handler[d].call = None
          /\ ~Busy(d) => handler[d].reply = None
    /\ \A c \in calls : command[c.update] \in Asking
    /\ IsFiniteSet(calls)

\* Telegram has what was written, in order; a runner that is down knows nothing;
\* the offset never passes an update nobody has written yet.
Ordered ==
    /\ \A u \in pending : Written(u)
    /\ \A u, v \in Updates : Written(u) /\ v < u => Written(v)
    /\ \A u \in batch : Written(u) /\ u >= offset
    /\ \A u \in Updates : ~Written(u) => u >= offset
    /\ ~up => offset = 0 /\ batch = {} /\ ~Busy(Runner)

Shape == TypeOK /\ Carries /\ Ordered

\* The runner is no webhook.
LEMMA RunnerApart == Runner \in Handlers /\ Runner \notin Hooks
<1>1. \A d \in Hooks : d[1] = "hook"
  BY DEF Hooks
<1>2. Runner[1] = "runner"
  BY DEF Runner
<1> QED
  BY <1>1, <1>2 DEF Handlers

\* As many numbers as there are handlers and requests, and one more, hold a new one.
LEMMA HandlersFinite == IsFiniteSet(Handlers)
<1> DEFINE T == Updates \X {1, 2}
           f == [d \in Hooks |-> <<d[2], d[3]>>]
<1>1. IsFiniteSet(Updates)
  BY FS_Interval, NumberAssumption DEF Updates
<1>2. IsFiniteSet({1, 2})
  <2>1. IsFiniteSet({1}) /\ {1} \cup {2} = {1, 2}
    BY FS_Singleton
  <2> QED
    BY <2>1, FS_AddElement
<1>3. IsFiniteSet(T)
  BY <1>1, <1>2, FS_Product
<1>4. f \in Injection(Hooks, T)
  <2>1. f \in [Hooks -> T]
    BY DEF Hooks
  <2>2. ASSUME NEW d \in Hooks, NEW e \in Hooks, f[d] = f[e] PROVE d = e
    BY <2>2 DEF Hooks
  <2> QED
    BY <2>1, <2>2 DEF Injection, IsInjective
<1>5. IsFiniteSet(Hooks)
  <2> HIDE DEF f, T
  <2> QED
    BY <1>3, <1>4, FS_Injection
<1> QED
  BY <1>5, FS_AddElement DEF Handlers

\* A request's number is new: nobody waits for it and no request has it.
LEMMA NewNoIsNew ==
    ASSUME Shape
    PROVE  /\ NewNo \in Nat
           /\ \A c \in calls : c.no # NewNo
           /\ \A d \in Handlers : handler[d].call # NewNo
<1> DEFINE A == {c.no : c \in calls}
           B == {handler[d].call : d \in Handlers}
           taken == A \cup B
           n == Cardinality(taken)
<1>1. IsFiniteSet(A)
  <2> DEFINE f == [c \in calls |-> c.no]
  <2>1. f \in Surjection(calls, A)
    BY DEF Surjection
  <2>2. IsFiniteSet(calls)
    BY DEF Shape, Carries
  <2> HIDE DEF f, A
  <2> QED
    BY <2>1, <2>2, FS_Surjection
<1>2. IsFiniteSet(B)
  <2> DEFINE f == [d \in Handlers |-> handler[d].call]
  <2>1. f \in Surjection(Handlers, B)
    BY DEF Surjection
  <2> HIDE DEF f, B
  <2> QED
    BY <2>1, HandlersFinite, FS_Surjection
<1>3. IsFiniteSet(taken) /\ n \in Nat
  <2> HIDE DEF A, B
  <2> QED
    BY <1>1, <1>2, FS_Union, FS_CardinalityType
<1>4. \E k \in 0..n : k \notin taken
  <2> SUFFICES ASSUME 0..n \subseteq taken PROVE FALSE
    OBVIOUS
  <2> HIDE DEF taken
  <2>1. Cardinality(0..n) = n + 1
    <3> HIDE DEF n
    <3> QED
      BY <1>3, FS_Interval
  <2>2. Cardinality(0..n) <= n
    BY <1>3, FS_Subset
  <2> QED
    BY <2>1, <2>2, <1>3
<1>5. NewNo = CHOOSE k \in 0..n : k \notin taken
  BY DEF NewNo
<1>6. NewNo \in 0..n /\ NewNo \notin taken
  <2> HIDE DEF n, taken
  <2> QED
    BY <1>4, <1>5
<1>7. NewNo \in Nat
  <2> HIDE DEF n, taken
  <2> QED
    BY <1>6, <1>3
<1> QED
  BY <1>6, <1>7

-----------------------------------------------------------------------------
(***************************************************************************)
(* What the steps of a handling do.                                        *)
(***************************************************************************)
New(n, u) == [no |-> n, update |-> u, step |-> "asked"]

\* The first stretch asks the API, or waits for something else, or ends.
LEMMA BeginEffect ==
    ASSUME Shape, NEW d \in Handlers, NEW u \in Updates, Written(u), Begin(d, u)
    PROVE  \E n \in Nat, h \in Handling :
              /\ handler' = [handler EXCEPT ![d] = h]
              /\ (h.pc = "free") <=> command[u] \in {"none", "broken"}
              /\ h.pc # "free" => h.update = u
              /\ h.pc # "await" => h.call = None
              /\ h.reply \in {None, "fixed"}
              /\ h.pc = "free" => h.reply = None
              /\ \A c \in calls : c.no # n
              /\ \A e \in Handlers : handler[e].call # n
              /\ IF command[u] \in Asking
                 THEN h.pc = "await" /\ h.call = n /\ calls' = calls \cup {New(n, u)}
                 ELSE h.call = None /\ calls' = calls
              /\ effects' = effects
<1> DEFINE h == Begun(u)
<1>0. handler' = [handler EXCEPT ![d] = h] /\ effects' = effects /\ u \in Updates \cup {None}
  BY DEF Begin
<1>1. command[u] \in Commands
  BY DEF Shape, TypeOK, Written
<1>2. /\ NewNo \in Nat
      /\ \A c \in calls : c.no # NewNo
      /\ \A e \in Handlers : handler[e].call # NewNo
  BY NewNoIsNew
<1>3. CASE command[u] \in Asking
  <2>1. h = [pc |-> "await", update |-> u, call |-> NewNo, reply |-> None]
    BY <1>3 DEF Begun, Free, Asking
  <2>2. h \in Handling
    <3> HIDE DEF h
    <3> QED
      BY <2>1, <1>2 DEF Handling
  <2>3. calls' = calls \cup {New(NewNo, u)}
    BY <1>3 DEF Begin, New
  <2>4. command[u] \notin {"none", "broken"}
    BY <1>3 DEF Asking
  <2> HIDE DEF h
  <2> QED
    BY <1>0, <1>2, <1>3, <2>1, <2>2, <2>3, <2>4
<1>4. CASE command[u] \notin Asking
  <2>1. calls' = calls
    BY <1>4 DEF Begin
  <2>2. CASE command[u] = "escalate"
    <3>1. h = [pc |-> "notify", update |-> u, call |-> None, reply |-> None]
      BY <1>4, <2>2 DEF Begun, Free
    <3>2. h \in Handling
      <4> HIDE DEF h
      <4> QED
        BY <3>1 DEF Handling
    <3> HIDE DEF h
    <3> QED
      BY <1>0, <1>2, <1>4, <2>1, <2>2, <3>1, <3>2
  <2>3. CASE command[u] = "text"
    <3>1. h = [pc |-> "reply", update |-> u, call |-> None, reply |-> "fixed"]
      BY <1>4, <2>3 DEF Begun, Free
    <3>2. h \in Handling
      <4> HIDE DEF h
      <4> QED
        BY <3>1 DEF Handling, Replies
    <3> HIDE DEF h
    <3> QED
      BY <1>0, <1>2, <1>4, <2>1, <2>3, <3>1, <3>2
  <2>4. CASE command[u] \notin {"escalate", "text"}
    <3>1. h = [pc |-> "free", update |-> None, call |-> None, reply |-> None]
      BY <1>4, <2>4 DEF Begun, Free
    <3>2. h \in Handling
      <4> HIDE DEF h
      <4> QED
        BY <3>1 DEF Handling
    <3>3. command[u] \in {"none", "broken"}
      BY <1>1, <1>4, <2>4 DEF Asking, Commands
    <3> HIDE DEF h
    <3> QED
      BY <1>0, <1>2, <1>4, <2>1, <3>1, <3>2, <3>3
  <2> QED
    BY <2>2, <2>3, <2>4
<1> QED
  BY <1>3, <1>4

\* What a later step does: it goes on to the reply, or ends with it; no request
\* at work is touched.
Goes(d, h) ==
    /\ Busy(d)
    /\ handler' = [handler EXCEPT ![d] = h]
    /\ h.call = None
    /\ calls' \subseteq calls
    /\ \A c \in calls : c.step = "asked" => c \in calls'
    /\ UNCHANGED <<command, hook, runner, effects, faults>>

Replying(d, h) ==
    /\ h.pc = "reply" /\ h.update = handler[d].update
    /\ h.reply \in {"created", "approved"} =>
          \E c \in calls : /\ c.no = handler[d].call /\ handler[d].pc = "await"
                           /\ c.step = "ok" /\ command[c.update] # "read"
    /\ UNCHANGED <<pending, handled>>

Ending(d, h) ==
    /\ h.pc = "free" /\ h.reply = None
    /\ handled' = handled \cup {handler[d].update}
    /\ pending' = IF d \in Hooks THEN pending \ {handler[d].update} ELSE pending

Told(g, r) == [g EXCEPT !.pc = "reply", !.call = None, !.reply = r]
Notified(g, r) == [g EXCEPT !.pc = "reply", !.reply = r]

\* A handling that goes on to its reply.
LEMMA ToReply ==
    ASSUME NEW g \in Handling, NEW r \in Replies
    PROVE  /\ Told(g, r) \in Handling
           /\ Told(g, r).pc = "reply" /\ Told(g, r).update = g.update
           /\ Told(g, r).call = None /\ Told(g, r).reply = r
           /\ Notified(g, r) \in Handling
           /\ Notified(g, r).pc = "reply" /\ Notified(g, r).update = g.update
           /\ Notified(g, r).call = g.call /\ Notified(g, r).reply = r
  BY DEF Handling, Told, Notified

\* Every later step of a handling is of this form.
LEMMA HandleEffect ==
    ASSUME Shape, NEW d \in Handlers, Handle(d)
    PROVE  \E h \in Handling : Goes(d, h) /\ (Replying(d, h) \/ Ending(d, h))
<1>0. /\ handler \in [Handlers -> Handling]
      /\ handler[d] \in Handling
      /\ Busy(d) => handler[d].update \in Updates
  BY DEF Shape, TypeOK, Handling, Carries
<1>1. CASE Answered(d)
  <2>1. PICK c \in calls :
           /\ c.no = handler[d].call
           /\ c.step \in {"ok", "failed"}
           /\ handler' = [handler EXCEPT ![d] = Told(handler[d], ReplyFor(c.update, c.step))]
           /\ calls' = calls \ {c}
    BY <1>1 DEF Answered, Told
  <2> DEFINE r == ReplyFor(c.update, c.step)
             h == Told(handler[d], r)
  <2>3. command[c.update] \in Asking
    BY DEF Shape, Carries
  <2>4. /\ r \in Replies
        /\ r \in {"created", "approved"} => c.step = "ok" /\ command[c.update] # "read"
    BY <2>3, <2>1 DEF ReplyFor, Replies, Asking
  <2>6. handler[d].pc = "await" /\ Busy(d) /\ UNCHANGED <<telegram, runner, effects, handled, faults>>
    BY <1>1 DEF Answered, Busy
  <2> HIDE DEF r
  <2>7. h \in Handling /\ h.call = None /\ h.pc = "reply" /\ h.update = handler[d].update /\ h.reply = r
    BY <1>0, <2>4, ToReply
  <2>2. handler' = [handler EXCEPT ![d] = h]
    BY <2>1 DEF r
  <2> HIDE DEF h
  <2>8. Goes(d, h)
    BY <2>1, <2>2, <2>6, <2>7 DEF Goes, telegram
  <2>9. Replying(d, h)
    BY <2>1, <2>4, <2>6, <2>7 DEF Replying, telegram
  <2> QED
    BY <2>7, <2>8, <2>9
<1>2. CASE TimesOut(d)
  <2> DEFINE h == Told(handler[d], "failed")
  <2>1. handler' = [handler EXCEPT ![d] = h]
    BY <1>2 DEF TimesOut, Told
  <2>2. h \in Handling /\ h.call = None /\ h.pc = "reply" /\ h.update = handler[d].update
        /\ h.reply = "failed"
    BY <1>0, ToReply DEF Replies
  <2>3. /\ calls' \subseteq calls
        /\ \A c \in calls : c.step = "asked" => c \in calls'
    BY <1>2 DEF TimesOut, Abandoned
  <2>4. Busy(d) /\ UNCHANGED <<telegram, runner, effects, handled, faults>>
    BY <1>2 DEF TimesOut, Busy
  <2> HIDE DEF h
  <2>5. Goes(d, h) /\ Replying(d, h)
    BY <2>1, <2>2, <2>3, <2>4 DEF Goes, Replying, telegram
  <2> QED
    BY <2>2, <2>5
<1>3. CASE Notify(d)
  <2> DEFINE h == Notified(handler[d], "escalated")
  <2>0. handler[d].call = None
    BY <1>3 DEF Notify, Shape, Carries
  <2>1. handler' = [handler EXCEPT ![d] = h]
    BY <1>3 DEF Notify, Notified
  <2>2. h \in Handling /\ h.call = None /\ h.pc = "reply" /\ h.update = handler[d].update
        /\ h.reply = "escalated"
    BY <1>0, <2>0, ToReply DEF Replies
  <2>4. Busy(d) /\ UNCHANGED <<telegram, runner, api, handled, faults>>
    BY <1>3 DEF Notify, Busy
  <2> HIDE DEF h
  <2>5. Goes(d, h) /\ Replying(d, h)
    BY <2>1, <2>2, <2>4 DEF Goes, Replying, telegram, api
  <2> QED
    BY <2>2, <2>5
<1>4. CASE Reply(d)
  <2>1. Free \in Handling /\ Free.pc = "free" /\ Free.call = None /\ Free.reply = None
    BY DEF Free, Handling
  <2>2. Busy(d) /\ UNCHANGED <<command, hook, runner, api, faults>>
        /\ handler' = [handler EXCEPT ![d] = Free]
    BY <1>4 DEF Reply, Busy
  <2>3. Goes(d, Free) /\ Ending(d, Free)
    BY <1>4, <2>1, <2>2 DEF Goes, Ending, Reply, api
  <2> QED
    BY <2>1, <2>3
<1> QED
  BY <1>1, <1>2, <1>3, <1>4 DEF Handle

\* A loss, a switch or a late answer is counted within the bound.
LEMMA RoomIsLeft == ASSUME TypeOK, Room PROVE faults + 1 \in 0..MaxEvents
<1> DEFINE W == {u \in Updates : command[u] # None}
<1>1. IsFiniteSet(Updates)
  BY FS_Interval, NumberAssumption DEF Updates
<1>2. IsFiniteSet(W)
  BY <1>1, FS_Subset
<1>3. Cardinality(W) \in Nat
  <2> HIDE DEF W
  <2> QED
    BY <1>2, FS_CardinalityType
<1>4. Cardinality(W) + faults < MaxEvents
  BY DEF Room
<1> QED
  <2> HIDE DEF W
  <2> QED
    BY <1>3, <1>4, NumberAssumption DEF TypeOK

\* What holds of every request once one ends: those left are old, or old ones
\* with their answer.
LEMMA ServeEffect ==
    ASSUME Shape, NEW c \in calls, Serve(c)
    PROVE  /\ c.step = "asked"
           /\ calls \ {c} \subseteq calls'
           /\ calls' \subseteq Request
           /\ IsFiniteSet(calls')
           /\ \A e \in calls' :
                 \/ e \in calls \ {c}
                 \/ /\ e.no = c.no /\ e.update = c.update /\ e.step \in {"ok", "failed"}
                    /\ e.step = "ok" => Carried(c)
           /\ UNCHANGED <<telegram, runner, handler, handled, faults>>
<1>0. /\ c \in Request /\ calls \subseteq Request
      /\ IsFiniteSet(calls)
  BY DEF Shape, TypeOK, Carries, Request
<1>1. ASSUME NEW step \in {"ok", "failed"}, Ended(c, step), step = "ok" => Carried(c)
      PROVE  /\ c.step = "asked"
             /\ calls \ {c} \subseteq calls'
             /\ calls' \subseteq Request
             /\ IsFiniteSet(calls')
             /\ \A e \in calls' :
                   \/ e \in calls \ {c}
                   \/ /\ e.no = c.no /\ e.update = c.update /\ e.step \in {"ok", "failed"}
                      /\ e.step = "ok" => Carried(c)
             /\ UNCHANGED <<telegram, runner, handler, handled, faults>>
  <2> DEFINE x == [c EXCEPT !.step = step]
  <2>1. x \in Request /\ x.no = c.no /\ x.update = c.update /\ x.step = step
    BY <1>0 DEF Request
  <2>2. calls' = (calls \ {c}) \cup (IF Awaited(c) THEN {x} ELSE {})
    BY <1>1 DEF Ended
  <2> HIDE DEF x
  <2>3. calls' = (calls \ {c}) \cup {x} \/ calls' = calls \ {c}
    BY <2>2
  <2>4. IsFiniteSet(calls')
    <3>1. IsFiniteSet(calls \ {c})
      BY <1>0, FS_RemoveElement
    <3>2. IsFiniteSet((calls \ {c}) \cup {x})
      BY <3>1, FS_AddElement
    <3> QED
      BY <2>3, <3>1, <3>2
  <2>5. calls' \subseteq Request
    BY <1>0, <2>1, <2>3
  <2> QED
    BY <1>1, <2>1, <2>3, <2>4, <2>5 DEF Ended
<1>2. CASE Carried(c)
  BY <1>1, <1>2 DEF Carried
<1>3. CASE CallFails(c)
  BY <1>1, <1>3 DEF CallFails
<1> QED
  BY <1>2, <1>3 DEF Serve

\* A request that is given up leaves the others.
LEMMA AbandonedFinite ==
    ASSUME Shape, NEW S, S \subseteq calls PROVE IsFiniteSet(S)
  BY FS_Subset DEF Shape, Carries

\* Types and what is carried, step by step.
LEMMA TypeStep == ASSUME Shape, [Next]_vars PROVE TypeOK'
<1> USE DEF Shape, Handling, Request
<1>0. TypeOK /\ Carries /\ Ordered
  OBVIOUS
<1>1. ASSUME NEW u \in Updates, NEW k \in Asks[u], Write(u, k) PROVE TypeOK'
  <2>1. k \in Commands
    BY AsksAssumption
  <2> QED
    BY <1>1, <2>1 DEF TypeOK, Write, runner, api
<1>2. CASE SetWebhook
  BY <1>2, RoomIsLeft DEF TypeOK, SetWebhook, runner, api
<1>3. CASE Start
  BY <1>3 DEF TypeOK, Start, api
<1>4. CASE Poll
  BY <1>4 DEF TypeOK, Poll, From, api
<1>5. CASE PollTimesOut
  BY <1>5 DEF TypeOK, PollTimesOut, From, runner, api
<1>6. CASE RunnerTakes
  <2>1. PICK u \in batch :
           /\ offset' = u + 1
           /\ Begin(Runner, u)
           /\ batch' = batch \ {u}
           /\ handled' = IF command[u] \in {"none", "broken"} THEN handled \cup {u} ELSE handled
    BY <1>6 DEF RunnerTakes, OffsetPast
  <2>2. u \in Updates /\ Written(u) /\ Runner \in Handlers
    BY RunnerApart DEF TypeOK, Ordered
  <2>3. PICK n \in Nat, h \in Handling :
           /\ handler' = [handler EXCEPT ![Runner] = h]
           /\ calls' \subseteq calls \cup {New(n, u)}
           /\ effects' = effects
    BY <2>1, <2>2, BeginEffect
  <2>4. offset' \in 0..MaxUpdates + 1
    BY <2>1, <2>2, NumberAssumption DEF Updates
  <2>5. UNCHANGED <<telegram, up, faults>>
    BY <1>6 DEF RunnerTakes
  <2>6. handler' \in [Handlers -> Handling] /\ calls' \subseteq Request
    BY <2>2, <2>3 DEF TypeOK, New
  <2> QED
    BY <2>1, <2>2, <2>3, <2>4, <2>5, <2>6 DEF TypeOK, telegram
<1>7. ASSUME NEW d \in Hooks, NEW u \in Updates, Deliver(d, u) PROVE TypeOK'
  <2>1. Written(u) /\ d \in Handlers
    BY <1>7 DEF Deliver, Ordered, Handlers
  <2>2. Begin(d, u)
    BY <1>7 DEF Deliver
  <2>3. PICK n \in Nat, h \in Handling :
           /\ handler' = [handler EXCEPT ![d] = h]
           /\ calls' \subseteq calls \cup {New(n, u)}
           /\ effects' = effects
    BY <2>1, <2>2, BeginEffect
  <2>4. faults' \in 0..MaxEvents
    BY <1>7, RoomIsLeft DEF Deliver, TypeOK
  <2>6. handler' \in [Handlers -> Handling] /\ calls' \subseteq Request
    BY <2>1, <2>3 DEF TypeOK, New
  <2>7. pending' \subseteq Updates /\ handled' \subseteq Updates /\ UNCHANGED <<command, hook, runner>>
    BY <1>7 DEF Deliver, TypeOK
  <2> QED
    BY <2>3, <2>4, <2>6, <2>7 DEF TypeOK, runner
<1>8. ASSUME NEW d \in Handlers, Handle(d) PROVE TypeOK'
  <2>1. PICK h \in Handling : Goes(d, h) /\ (Replying(d, h) \/ Ending(d, h))
    BY <1>8, HandleEffect
  <2>2. Busy(d) /\ handler[d].update \in Updates
    BY <2>1 DEF Goes, Carries
  <2>3. pending' \subseteq Updates /\ handled' \subseteq Updates
    BY <2>1, <2>2 DEF Replying, Ending, TypeOK
  <2>4. handler' \in [Handlers -> Handling] /\ calls' \subseteq Request
    BY <2>1 DEF Goes, TypeOK
  <2> QED
    BY <2>1, <2>3, <2>4 DEF Goes, TypeOK, runner
<1>9. ASSUME NEW c \in calls, Serve(c) PROVE TypeOK'
  <2>1. /\ calls' \subseteq Request
        /\ UNCHANGED <<telegram, runner, handler, handled, faults>>
    BY <1>9, ServeEffect
  <2>2. effects' \in [Updates -> Nat]
    <3>1. c.update \in Updates
      BY DEF TypeOK
    <3>2. effects' = effects \/ effects' = [effects EXCEPT ![c.update] = @ + 1]
      BY <1>9 DEF Serve, Carried, CallFails
    <3> QED
      BY <3>1, <3>2 DEF TypeOK
  <2> QED
    BY <2>1, <2>2 DEF TypeOK, telegram, runner
<1>10. CASE RunnerLost
  <2>1. handler' \in [Handlers -> Handling]
    BY <1>10, RunnerApart DEF RunnerLost, Free, TypeOK
  <2>2. calls' \subseteq calls
    BY <1>10 DEF RunnerLost, Abandoned
  <2>3. faults' \in 0..MaxEvents
    BY <1>10, RoomIsLeft DEF RunnerLost
  <2>4. offset' \in 0..MaxUpdates + 1 /\ batch' = {} /\ up' = FALSE
    BY <1>10, NumberAssumption DEF RunnerLost
  <2>5. UNCHANGED <<command, pending, hook, effects, handled>>
    BY <1>10 DEF RunnerLost, telegram
  <2> QED
    BY <2>1, <2>2, <2>3, <2>4, <2>5 DEF TypeOK
<1>11. CASE ApiLost
  <2>1. handler' \in [Handlers -> Handling]
    BY <1>11 DEF ApiLost, Free, TypeOK
  <2> QED
    BY <1>11, <2>1, RoomIsLeft DEF TypeOK, ApiLost, telegram, runner
<1>12. CASE UNCHANGED vars
  BY <1>12 DEF TypeOK, vars, telegram, runner, api
<1> QED
  BY <1>1, <1>2, <1>3, <1>4, <1>5, <1>6, <1>7, <1>8, <1>9, <1>10, <1>11, <1>12 DEF Next

\* Every step of a handling hands on what the next one needs.
LEMMA CarriesStep == ASSUME Shape, [Next]_vars PROVE Carries'
<1> USE DEF Shape
<1>0. /\ TypeOK /\ Carries /\ Ordered
      /\ handler \in [Handlers -> Handling]
      /\ calls \subseteq Request
      /\ Free.pc = "free" /\ Free.call = None /\ Free.reply = None
  BY DEF TypeOK, Handling, Request, Free
\* A step that asks nothing, and leaves each handling to itself or ends it.
<1>a. ASSUME UNCHANGED command, calls' \subseteq calls,
             \A d \in Handlers : handler'[d] = handler[d] \/ handler'[d] = Free
      PROVE  Carries'
  <2>1. IsFiniteSet(calls')
    BY <1>a, AbandonedFinite
  <2>2. ASSUME NEW d \in Handlers
        PROVE  /\ Busy(d)' => handler'[d].update \in Updates /\ command'[handler'[d].update] # None
               /\ d \in Hooks /\ Busy(d)' => handler'[d].update = d[2]
               /\ handler'[d].pc # "await" => handler'[d].call = None
               /\ ~Busy(d)' => handler'[d].reply = None
    BY <1>0, <1>a DEF Carries, Busy, Written
  <2> QED
    BY <1>a, <2>1, <2>2 DEF Carries, Busy, Written
\* A step that begins a handling.
<1>b. ASSUME NEW d \in Handlers, NEW u \in Updates, Written(u), Begin(d, u), UNCHANGED command,
             d \in Hooks => u = d[2]
      PROVE  Carries'
  <2>1. PICK n \in Nat, h \in Handling :
           /\ handler' = [handler EXCEPT ![d] = h]
           /\ h.pc # "free" => h.update = u
           /\ h.pc # "await" => h.call = None
           /\ h.pc = "free" => h.reply = None
           /\ IF command[u] \in Asking THEN calls' = calls \cup {New(n, u)} ELSE calls' = calls
    BY <1>b, BeginEffect
  <2>2. IsFiniteSet(calls')
    BY <2>1, FS_AddElement DEF Carries
  <2>3. \A c \in calls' : command'[c.update] \in Asking
    BY <1>b, <2>1 DEF Carries, New
  <2>4. ASSUME NEW e \in Handlers
        PROVE  /\ Busy(e)' => handler'[e].update \in Updates /\ command'[handler'[e].update] # None
               /\ e \in Hooks /\ Busy(e)' => handler'[e].update = e[2]
               /\ handler'[e].pc # "await" => handler'[e].call = None
               /\ ~Busy(e)' => handler'[e].reply = None
    <3>1. CASE e = d
      <4>1. handler'[e] = h
        BY <1>0, <2>1, <3>1
      <4> QED
        BY <1>b, <2>1, <3>1, <4>1 DEF Busy, Written
    <3>2. CASE e # d
      <4>1. handler'[e] = handler[e]
        BY <1>0, <2>1, <3>2
      <4> QED
        BY <1>b, <4>1 DEF Carries, Busy, Written
    <3> QED
      BY <3>1, <3>2
  <2> QED
    BY <2>2, <2>3, <2>4 DEF Carries, Busy, Written
<1>1. ASSUME NEW u \in Updates, NEW k \in Asks[u], Write(u, k) PROVE Carries'
  <2>1. k \in Commands /\ UNCHANGED <<handler, calls>> /\ command[u] = None
        /\ command' = [command EXCEPT ![u] = k]
    BY <1>1, AsksAssumption DEF Write, api
  <2>2. \A c \in calls : command'[c.update] \in Asking
    <3> SUFFICES ASSUME NEW c \in calls PROVE command'[c.update] \in Asking
      OBVIOUS
    <3>1. command[c.update] \in Asking /\ c.update \in Updates
      BY <1>0 DEF Carries, Request
    <3>2. c.update # u
      BY <2>1, <3>1, NoneAssumption DEF Asking, Commands
    <3> QED
      BY <2>1, <3>1, <3>2 DEF TypeOK
  <2> QED
    <3>1. \A v \in Updates : command[v] # None => command'[v] # None
      BY <1>0, <2>1, NoneAssumption DEF TypeOK
    <3> QED
      BY <2>1, <2>2, <3>1 DEF Carries, Busy, Written
<1>6. CASE RunnerTakes
  <2>1. PICK u \in batch : Begin(Runner, u)
    BY <1>6 DEF RunnerTakes
  <2>2. u \in Updates /\ Written(u) /\ UNCHANGED command
    BY <1>6 DEF TypeOK, Ordered, RunnerTakes, telegram
  <2> QED
    BY <1>b, <2>1, <2>2, RunnerApart
<1>7. ASSUME NEW d \in Hooks, NEW u \in Updates, Deliver(d, u) PROVE Carries'
  <2>1. Written(u) /\ d \in Handlers /\ Begin(d, u) /\ UNCHANGED command /\ u = d[2]
    BY <1>7 DEF Deliver, Ordered, Handlers
  <2> QED
    BY <1>b, <2>1
<1>8. ASSUME NEW d \in Handlers, Handle(d) PROVE Carries'
  <2>1. PICK h \in Handling : Goes(d, h) /\ (Replying(d, h) \/ Ending(d, h))
    BY <1>8, HandleEffect
  <2>2. handler[d].update \in Updates /\ (d \in Hooks => handler[d].update = d[2])
        /\ command[handler[d].update] # None
    BY <2>1 DEF Goes, Carries, Written
  <2>3. IsFiniteSet(calls') /\ calls' \subseteq calls /\ command' = command
        /\ handler' = [handler EXCEPT ![d] = h]
    BY <2>1, AbandonedFinite DEF Goes
  <2>4. ASSUME NEW e \in Handlers
        PROVE  /\ Busy(e)' => handler'[e].update \in Updates /\ command'[handler'[e].update] # None
               /\ e \in Hooks /\ Busy(e)' => handler'[e].update = e[2]
               /\ handler'[e].pc # "await" => handler'[e].call = None
               /\ ~Busy(e)' => handler'[e].reply = None
    <3>1. CASE e = d
      <4>1. handler'[e] = h
        BY <1>0, <2>3, <3>1
      <4> QED
        BY <2>1, <2>2, <3>1, <4>1 DEF Busy, Goes, Replying, Ending
    <3>2. CASE e # d
      <4>1. handler'[e] = handler[e]
        BY <1>0, <2>3, <3>2
      <4> QED
        BY <2>3, <4>1 DEF Carries, Busy, Written
    <3> QED
      BY <3>1, <3>2
  <2> QED
    BY <2>3, <2>4 DEF Carries, Busy, Written
<1>9. ASSUME NEW c \in calls, Serve(c) PROVE Carries'
  <2>1. /\ IsFiniteSet(calls')
        /\ \A e \in calls' : e \in calls \/ e.update = c.update
        /\ UNCHANGED <<telegram, handler>>
    BY <1>9, ServeEffect
  <2> QED
    BY <2>1 DEF Carries, Busy, Written, telegram
<1>10. CASE RunnerLost
  BY <1>0, <1>a, <1>10, RunnerApart DEF RunnerLost, Abandoned, telegram
<1>11. CASE ApiLost
  <2>1. \A d \in Handlers : handler'[d] = handler[d] \/ handler'[d] = Free
    BY <1>11 DEF ApiLost
  <2> QED
    BY <1>a, <1>11, <2>1 DEF ApiLost, telegram
<1>12. CASE UNCHANGED <<command, handler, calls>>
  BY <1>12, <1>a
<1>13. CASE SetWebhook \/ Start \/ Poll \/ PollTimesOut \/ UNCHANGED vars
  BY <1>12, <1>13 DEF SetWebhook, Start, Poll, PollTimesOut, vars, telegram, api
<1> QED
  BY <1>1, <1>6, <1>7, <1>8, <1>9, <1>10, <1>11, <1>13 DEF Next

\* The order of the updates and what the runner knows, step by step.
LEMMA OrderedStep == ASSUME Shape, [Next]_vars PROVE Ordered'
<1> USE DEF Shape
<1>0. /\ TypeOK /\ Carries /\ Ordered
      /\ handler \in [Handlers -> Handling]
      /\ Updates \subseteq Nat
      /\ pending \subseteq Updates /\ batch \subseteq Updates /\ offset \in Nat
      /\ Free.pc = "free"
  BY NumberAssumption DEF TypeOK, Handling, Free, Updates
\* A step that leaves the messages and the runner alone, or has it wait.
<1>a. ASSUME pending' \subseteq pending, UNCHANGED <<command, runner>>,
             handler'[Runner] = handler[Runner] \/ handler'[Runner] = Free \/ Busy(Runner)
      PROVE  Ordered'
  BY <1>0, <1>a DEF Ordered, Written, Busy, runner
<1>1. ASSUME NEW u \in Updates, NEW k \in Asks[u], Write(u, k) PROVE Ordered'
  <2>1. /\ k # None
        /\ command[u] = None
        /\ \A v \in 1..u - 1 : command[v] # None
        /\ command' = [command EXCEPT ![u] = k]
        /\ pending' = pending \cup {u}
        /\ UNCHANGED <<runner, handler>>
    BY <1>1, AsksAssumption, NoneAssumption DEF Write
  <2>2. \A v \in Updates : Written(v)' <=> Written(v) \/ v = u
    BY <2>1 DEF Written, TypeOK
  <2>3. \A v \in Updates : v < u => Written(v)
    BY <2>1, NumberAssumption DEF Written, Updates
  <2> QED
    BY <1>0, <2>1, <2>2, <2>3 DEF Ordered, Busy, runner
<1>2. CASE SetWebhook
  BY <1>2, <1>a DEF SetWebhook
<1>3. CASE Start
  BY <1>0, <1>3 DEF Start, Ordered, Written
<1>4. CASE Poll
  BY <1>0, <1>4 DEF Poll, Ordered, Written, From, AtPoll
<1>5. CASE PollTimesOut
  BY <1>a, <1>5 DEF PollTimesOut, From
<1>6. CASE RunnerTakes
  <2>1. PICK u \in batch :
           /\ \A v \in batch : u <= v
           /\ offset' = u + 1
           /\ batch' = batch \ {u}
    BY <1>6 DEF RunnerTakes, OffsetPast
  <2>2. up /\ UNCHANGED <<telegram, up>>
    BY <1>6 DEF RunnerTakes
  <2>3. u \in Updates /\ Written(u)
    BY <1>0, <2>1 DEF Ordered
  <2>4. \A v \in Updates : ~Written(v) => v >= u + 1
    BY <1>0, <2>3 DEF Ordered
  <2>5. \A v \in batch' : v >= u + 1
    BY <1>0, <2>1
  <2> QED
    BY <1>0, <2>1, <2>2, <2>4, <2>5 DEF Ordered, Written, telegram
<1>7. ASSUME NEW d \in Hooks, NEW u \in Updates, Deliver(d, u) PROVE Ordered'
  <2>1. d # Runner /\ Runner \in Handlers /\ handler' = [handler EXCEPT ![d] = Begun(u)]
    BY <1>7, RunnerApart DEF Deliver, Begin
  <2>2. handler'[Runner] = handler[Runner]
    BY <1>0, <2>1
  <2> QED
    BY <1>7, <1>a, <2>2 DEF Deliver
<1>8. ASSUME NEW d \in Handlers, Handle(d) PROVE Ordered'
  <2>1. PICK h \in Handling : Goes(d, h) /\ (Replying(d, h) \/ Ending(d, h))
    BY <1>8, HandleEffect
  <2>2. pending' \subseteq pending
    BY <2>1 DEF Replying, Ending
  <2>3. handler'[Runner] = handler[Runner] \/ Busy(Runner)
    BY <1>0, <2>1, RunnerApart DEF Goes
  <2> QED
    BY <1>a, <2>1, <2>2, <2>3 DEF Goes
<1>9. ASSUME NEW c \in calls, Serve(c) PROVE Ordered'
  BY <1>9, <1>a, ServeEffect DEF telegram
<1>10. CASE RunnerLost
  <2>1. handler'[Runner] = Free
    BY <1>0, <1>10, RunnerApart DEF RunnerLost
  <2> QED
    BY <1>0, <1>10, <2>1 DEF RunnerLost, Ordered, Written, Busy, telegram
<1>11. CASE ApiLost
  <2>1. handler'[Runner] = handler[Runner]
    BY <1>11, RunnerApart DEF ApiLost
  <2> QED
    BY <1>11, <1>a, <2>1 DEF ApiLost, telegram
<1>12. CASE UNCHANGED vars
  BY <1>12, <1>a DEF vars, telegram
<1> QED
  BY <1>1, <1>2, <1>3, <1>4, <1>5, <1>6, <1>7, <1>8, <1>9, <1>10, <1>11, <1>12 DEF Next

-----------------------------------------------------------------------------
(***************************************************************************)
(* Nothing is dropped.                                                     *)
(***************************************************************************)
\* The runner is at u, or will be before it asks for more, or will get it then.
AtWork(u) == Busy(Runner) /\ handler[Runner].update = u
Later(u) == u >= offset /\ \A v \in batch : v < u
Ahead ==
    \A u \in Updates : Written(u) => u \in handled \/ AtWork(u) \/ u \in batch \/ Later(u)

\* The offset is behind nothing that was not processed when the next poll
\* confirms what is below it.
LEMMA BelowIsHandled ==
    ASSUME Shape, Ahead, AtPoll, NEW u \in Updates, Written(u), u < offset
    PROVE  u \in handled
<1>1. u \in Nat /\ offset \in Nat
  BY NumberAssumption DEF Shape, TypeOK, Updates
<1> QED
  BY <1>1 DEF AtPoll, Ahead, AtWork, Later

\* Every step keeps both.
LEMMA NothingDroppedStep ==
    ASSUME Shape, Ahead, NothingDropped, [Next]_vars
    PROVE  Ahead' /\ NothingDropped'
<1>0. /\ TypeOK /\ Carries /\ Ordered
      /\ handler \in [Handlers -> Handling]
      /\ Updates \subseteq Nat
      /\ pending \subseteq Updates /\ batch \subseteq Updates /\ offset \in Nat
      /\ Runner \in Handlers
  BY NumberAssumption, RunnerApart DEF Shape, TypeOK, Handling, Updates
\* A step that processes what it takes from Telegram and leaves the runner alone.
<1>a. ASSUME handled \subseteq handled', \A u \in pending : u \in pending' \/ u \in handled',
             UNCHANGED <<command, runner, handler[Runner]>>
      PROVE  Ahead' /\ NothingDropped'
  <2>1. NothingDropped'
    BY <1>a DEF NothingDropped
  <2>2. Ahead'
    BY <1>a DEF Ahead, Written, AtWork, Later, Busy, runner
  <2> QED
    BY <2>1, <2>2
<1>1. ASSUME NEW u \in Updates, NEW k \in Asks[u], Write(u, k) PROVE Ahead' /\ NothingDropped'
  <2>1. /\ command' = [command EXCEPT ![u] = k]
        /\ ~Written(u)
        /\ pending' = pending \cup {u}
        /\ UNCHANGED <<runner, handler, handled>>
    BY <1>1 DEF Write, Written
  <2>2. \A v \in Updates : v # u => (Written(v)' <=> Written(v))
    BY <2>1 DEF Written, TypeOK, Shape
  <2>3. Later(u)'
    <3>1. u >= offset
      BY <1>0, <2>1 DEF Ordered
    <3>2. ASSUME NEW v \in batch PROVE v < u
      <4>1. Written(v) /\ v \in Updates
        BY <1>0 DEF Ordered
      <4> QED
        BY <1>0, <2>1, <4>1 DEF Ordered
    <3> QED
      BY <2>1, <3>1, <3>2 DEF Later, runner
  <2>4. \A v \in Updates : v # u => (Later(v)' <=> Later(v)) /\ (AtWork(v)' <=> AtWork(v))
    BY <2>1 DEF Later, AtWork, Busy, runner
  <2>5. Ahead'
    BY <2>1, <2>2, <2>3, <2>4 DEF Ahead, runner
  <2>6. NothingDropped'
    BY <2>1, <2>2 DEF NothingDropped, Written
  <2> QED
    BY <2>5, <2>6
<1>2. CASE SetWebhook
  BY <1>2, <1>a DEF SetWebhook
<1>3. CASE Start
  <2>1. UNCHANGED <<command, pending, offset, batch, handler, handled>>
    BY <1>3 DEF Start
  <2> QED
    BY <2>1 DEF Ahead, NothingDropped, Written, AtWork, Later, Busy
<1>4. CASE Poll
  <2>1. /\ AtPoll /\ pending' = From(offset) /\ batch' = From(offset)
        /\ UNCHANGED <<command, offset, handler, handled>>
    BY <1>4 DEF Poll
  <2>2. NothingDropped'
    BY <1>0, <2>1, BelowIsHandled DEF NothingDropped, From, Written
  <2>3. ASSUME NEW u \in Updates, Written(u)' PROVE (u \in handled \/ u \in batch)'
    BY <1>0, <2>1, <2>3, BelowIsHandled DEF NothingDropped, From, Written
  <2> QED
    BY <2>2, <2>3 DEF Ahead
<1>5. CASE PollTimesOut
  <2>1. /\ AtPoll /\ pending' = From(offset)
        /\ UNCHANGED <<command, runner, handler, handled>>
    BY <1>5 DEF PollTimesOut
  <2>2. \A u \in pending : u \in pending' \/ u \in handled'
    BY <1>0, <2>1, BelowIsHandled DEF From, Ordered
  <2> QED
    BY <1>a, <2>1, <2>2
<1>6. CASE RunnerTakes
  <2>1. PICK u \in batch :
           /\ \A v \in batch : u <= v
           /\ offset' = u + 1
           /\ Begin(Runner, u)
           /\ batch' = batch \ {u}
           /\ handled' = IF command[u] \in {"none", "broken"} THEN handled \cup {u} ELSE handled
    BY <1>6 DEF RunnerTakes, OffsetPast
  <2>2. ~Busy(Runner) /\ UNCHANGED <<telegram, up>>
    BY <1>6 DEF RunnerTakes
  <2>3. u \in Updates /\ Written(u)
    BY <1>0 DEF Ordered
  <2>4. PICK h \in Handling :
           /\ handler' = [handler EXCEPT ![Runner] = h]
           /\ (h.pc = "free") <=> command[u] \in {"none", "broken"}
           /\ h.pc # "free" => h.update = u
    BY <1>0, <2>1, <2>3, BeginEffect DEF Shape
  <2>5. handler'[Runner] = h
    BY <1>0, <2>4
  <2>6. u \in handled' \/ AtWork(u)'
    BY <2>1, <2>4, <2>5 DEF AtWork, Busy
  <2>7. ASSUME NEW v \in Updates, Written(v), v # u PROVE (v \in handled \/ v \in batch \/ Later(v))'
    <3>1. v \in handled \/ v \in batch \/ Later(v)
      BY <2>2, <2>7 DEF Ahead, AtWork
    <3>2. ASSUME Later(v) PROVE Later(v)'
      <4>1. u < v
        BY <3>2 DEF Later
      <4> QED
        BY <1>0, <2>1, <2>3, <3>2, <4>1 DEF Later
    <3> QED
      BY <2>1, <2>7, <3>1, <3>2
  <2>8. Ahead'
    BY <2>2, <2>6, <2>7 DEF Ahead, Written, telegram
  <2>9. NothingDropped'
    BY <2>1, <2>2 DEF NothingDropped, telegram
  <2> QED
    BY <2>8, <2>9
<1>7. ASSUME NEW d \in Hooks, NEW u \in Updates, Deliver(d, u) PROVE Ahead' /\ NothingDropped'
  <2>1. d # Runner /\ handler' = [handler EXCEPT ![d] = Begun(u)]
    BY <1>7, RunnerApart DEF Deliver, Begin
  <2>2. handler'[Runner] = handler[Runner]
    BY <1>0, <2>1
  <2> QED
    BY <1>7, <1>a, <2>2 DEF Deliver
<1>8. ASSUME NEW d \in Handlers, Handle(d) PROVE Ahead' /\ NothingDropped'
  <2>1. PICK h \in Handling : Goes(d, h) /\ (Replying(d, h) \/ Ending(d, h))
    BY <1>0, <1>8, HandleEffect DEF Shape
  <2>2. /\ handled \subseteq handled' /\ \A u \in pending : u \in pending' \/ u \in handled'
        /\ UNCHANGED <<command, runner>>
        /\ handler' = [handler EXCEPT ![d] = h]
    BY <2>1 DEF Goes, Replying, Ending
  <2>3. CASE d # Runner
    BY <1>0, <1>a, <2>2, <2>3
  <2>4. CASE d = Runner
    <3>1. handler'[Runner] = h
      BY <1>0, <2>2, <2>4
    <3>2. \A u \in Updates : AtWork(u) => u \in handled' \/ AtWork(u)'
      BY <2>1, <2>4, <3>1 DEF AtWork, Busy, Replying, Ending
    <3>3. Ahead'
      BY <2>2, <3>2 DEF Ahead, Written, Later, runner
    <3>4. NothingDropped'
      BY <2>2 DEF NothingDropped
    <3> QED
      BY <3>3, <3>4
  <2> QED
    BY <2>3, <2>4
<1>9. ASSUME NEW c \in calls, Serve(c) PROVE Ahead' /\ NothingDropped'
  BY <1>9, <1>a, ServeEffect DEF telegram
<1>10. CASE RunnerLost
  <2>1. offset' = 0 /\ batch' = {} /\ UNCHANGED <<telegram, handled>>
    BY <1>10 DEF RunnerLost
  <2> QED
    BY <1>0, <2>1 DEF Ahead, NothingDropped, Later, telegram
<1>11. CASE ApiLost
  <2>1. handler'[Runner] = handler[Runner]
    BY <1>11, RunnerApart DEF ApiLost
  <2> QED
    BY <1>11, <1>a, <2>1 DEF ApiLost, telegram
<1>12. CASE UNCHANGED vars
  BY <1>12, <1>a DEF vars, telegram
<1> QED
  BY <1>1, <1>2, <1>3, <1>4, <1>5, <1>6, <1>7, <1>8, <1>9, <1>10, <1>11, <1>12 DEF Next

-----------------------------------------------------------------------------
(***************************************************************************)
(* What is said was done.                                                  *)
(***************************************************************************)
\* A request answered "ok" has had its effect, and who waits for a request waits
\* for one about its update.
Truthful ==
    /\ \A c \in calls : c.step = "ok" /\ command[c.update] # "read" => effects[c.update] > 0
    /\ \A d \in Handlers, c \in calls : handler[d].call = c.no => c.update = handler[d].update

\* Every step keeps it, and the replies backed.
LEMMA RepliesStep ==
    ASSUME Shape, Truthful, RepliesBacked, [Next]_vars
    PROVE  Truthful' /\ RepliesBacked'
<1>0. /\ TypeOK /\ Carries /\ Ordered
      /\ handler \in [Handlers -> Handling]
      /\ effects \in [Updates -> Nat]
      /\ calls \subseteq Request
      /\ Free.call = None /\ Free.reply = None
      /\ None \notin {"created", "approved"}
      /\ \A c \in calls : c.no # None
  BY NoneAssumption DEF Shape, TypeOK, Handling, Request, Free, Replies
\* A step without effects that asks nothing, and leaves each handling to itself
\* or ends it.
<1>a. ASSUME UNCHANGED <<command, effects>>, calls' \subseteq calls,
             \A d \in Handlers : handler'[d] = handler[d] \/ handler'[d] = Free
      PROVE  Truthful' /\ RepliesBacked'
  <2>1. Truthful'
    BY <1>0, <1>a DEF Truthful
  <2>2. RepliesBacked'
    BY <1>0, <1>a DEF RepliesBacked
  <2> QED
    BY <2>1, <2>2
\* A step that begins a handling.
<1>b. ASSUME NEW d \in Handlers, NEW u \in Updates, Written(u), Begin(d, u), UNCHANGED command
      PROVE  Truthful' /\ RepliesBacked'
  <2>1. PICK n \in Nat, h \in Handling :
              /\ handler' = [handler EXCEPT ![d] = h]
              /\ h.pc # "free" => h.update = u
              /\ h.pc # "await" => h.call = None
              /\ h.reply \in {None, "fixed"}
              /\ h.pc = "free" => h.reply = None
              /\ \A c \in calls : c.no # n
              /\ \A e \in Handlers : handler[e].call # n
              /\ IF command[u] \in Asking
                 THEN h.pc = "await" /\ h.call = n /\ calls' = calls \cup {New(n, u)}
                 ELSE h.call = None /\ calls' = calls
              /\ effects' = effects
    BY <1>b, BeginEffect
  <2>2. /\ handler'[d] = h
        /\ \A e \in Handlers : e # d => handler'[e] = handler[e]
        /\ New(n, u).no = n /\ New(n, u).update = u /\ New(n, u).step = "asked"
    BY <1>0, <2>1 DEF New
  <2>3. \A c \in calls' : c \in calls \/ (c = New(n, u) /\ h.call = n /\ h.update = u)
    BY <2>1
  <2>4. \A c \in calls' : c.step = "ok" /\ command'[c.update] # "read" => effects'[c.update] > 0
    BY <1>b, <2>1, <2>2, <2>3 DEF Truthful
  <2>5. ASSUME NEW e \in Handlers, NEW c \in calls', handler'[e].call = c.no
        PROVE  c.update = handler'[e].update
    <3>1. CASE e = d
      BY <1>0, <2>1, <2>2, <2>3, <2>5, <3>1
    <3>2. CASE e # d
      BY <2>1, <2>2, <2>3, <2>5, <3>2 DEF Truthful
    <3> QED
      BY <3>1, <3>2
  <2>6. RepliesBacked'
    BY <1>0, <2>1, <2>2 DEF RepliesBacked
  <2> QED
    BY <2>4, <2>5, <2>6 DEF Truthful
<1>1. ASSUME NEW u \in Updates, NEW k \in Asks[u], Write(u, k) PROVE Truthful' /\ RepliesBacked'
  <2>1. /\ command' = [command EXCEPT ![u] = k] /\ command[u] = None
        /\ UNCHANGED <<handler, calls, effects>>
    BY <1>1 DEF Write, api
  <2>2. \A c \in calls : command'[c.update] = command[c.update]
    <3>1. \A c \in calls : command[c.update] \in Asking
      BY <1>0 DEF Carries
    <3>2. None \notin Asking
      BY NoneAssumption DEF Asking, Commands
    <3> QED
      BY <1>0, <2>1, <3>1, <3>2 DEF TypeOK
  <2> QED
    BY <2>1, <2>2 DEF Truthful, RepliesBacked
<1>6. CASE RunnerTakes
  <2>1. PICK u \in batch : Begin(Runner, u)
    BY <1>6 DEF RunnerTakes
  <2>2. u \in Updates /\ Written(u) /\ UNCHANGED command
    BY <1>0, <1>6 DEF TypeOK, Ordered, RunnerTakes, telegram
  <2> QED
    BY <1>b, <2>1, <2>2, RunnerApart
<1>7. ASSUME NEW d \in Hooks, NEW u \in Updates, Deliver(d, u) PROVE Truthful' /\ RepliesBacked'
  <2>1. Written(u) /\ d \in Handlers /\ Begin(d, u) /\ UNCHANGED command
    BY <1>0, <1>7 DEF Deliver, Ordered, Handlers
  <2> QED
    BY <1>b, <2>1
<1>8. ASSUME NEW d \in Handlers, Handle(d) PROVE Truthful' /\ RepliesBacked'
  <2>1. PICK h \in Handling : Goes(d, h) /\ (Replying(d, h) \/ Ending(d, h))
    BY <1>8, HandleEffect
  <2>2. /\ calls' \subseteq calls /\ UNCHANGED <<command, effects>>
        /\ handler'[d] = h /\ h.call = None
        /\ \A e \in Handlers : e # d => handler'[e] = handler[e]
    BY <1>0, <2>1 DEF Goes
  <2>3. h.reply \in {"created", "approved"} => effects[h.update] > 0
    BY <1>0, <2>1 DEF Replying, Ending, Truthful
  <2>4. Truthful'
    BY <1>0, <2>2 DEF Truthful
  <2>5. RepliesBacked'
    BY <2>2, <2>3 DEF RepliesBacked
  <2> QED
    BY <2>4, <2>5
<1>9. ASSUME NEW c \in calls, Serve(c) PROVE Truthful' /\ RepliesBacked'
  <2>1. /\ \A e \in calls' :
              \/ e \in calls
              \/ /\ e.no = c.no /\ e.update = c.update /\ e.step \in {"ok", "failed"}
                 /\ e.step = "ok" => Carried(c)
        /\ UNCHANGED <<command, handler>>
    BY <1>9, ServeEffect DEF telegram
  <2>2. c.update \in Updates
    BY <1>0 DEF Request
  <2>3. \A u \in Updates : effects[u] > 0 => effects'[u] > 0
    <3>1. effects' = effects \/ effects' = [effects EXCEPT ![c.update] = @ + 1]
      BY <1>9 DEF Serve, Carried, CallFails
    <3> QED
      BY <1>0, <2>2, <3>1
  <2>4. Carried(c) /\ command[c.update] # "read" => effects'[c.update] > 0
    BY <1>0, <2>2 DEF Carried
  <2>5. Truthful'
    <3>1. ASSUME NEW e \in calls', e.step = "ok", command[e.update] # "read"
          PROVE  effects'[e.update] > 0
      <4>1. CASE e \in calls
        BY <1>0, <2>3, <3>1, <4>1 DEF Truthful, Request
      <4>2. CASE e \notin calls
        BY <2>1, <2>4, <3>1, <4>2
      <4> QED
        BY <4>1, <4>2
    <3> QED
      BY <2>1, <3>1 DEF Truthful
  <2>6. RepliesBacked'
    <3>1. ASSUME NEW d \in Handlers, handler[d].reply \in {"created", "approved"}
          PROVE  effects'[handler[d].update] > 0
      <4>1. effects[handler[d].update] > 0
        BY <3>1 DEF RepliesBacked
      <4>2. handler[d].update \in Updates
        BY <1>0, <3>1 DEF Carries
      <4> QED
        BY <2>3, <4>1, <4>2
    <3> QED
      BY <2>1, <3>1 DEF RepliesBacked
  <2> QED
    BY <2>5, <2>6
<1>10. CASE RunnerLost
  BY <1>0, <1>a, <1>10, RunnerApart DEF RunnerLost, Abandoned, telegram
<1>11. CASE ApiLost
  BY <1>a, <1>11 DEF ApiLost, telegram
<1>12. CASE UNCHANGED <<command, handler, calls, effects>>
  BY <1>12, <1>a
<1>13. CASE SetWebhook \/ Start \/ Poll \/ PollTimesOut \/ UNCHANGED vars
  BY <1>12, <1>13 DEF SetWebhook, Start, Poll, PollTimesOut, vars, telegram, api
<1> QED
  BY <1>1, <1>6, <1>7, <1>8, <1>9, <1>10, <1>11, <1>13 DEF Next

-----------------------------------------------------------------------------
(***************************************************************************)
(* Nothing is repeated without a cause.                                    *)
(***************************************************************************)
\* The requests about u that may still have their effect.
Open(u) == {c \in calls : c.update = u /\ c.step = "asked"}

\* What may still come to u without another loss, switch or late answer: the
\* runner has it in hand or may get it, a webhook may be called with it.
Coming(u) == u \in pending \/ ~Written(u)
Taken(u) == IF u \in batch \/ (u >= offset /\ Coming(u)) THEN 1 ELSE 0
Posted(u) ==
    IF hook /\ Coming(u) /\ (\A d \in Hooks : d[2] = u => ~Busy(d)) THEN 1 ELSE 0

\* What was done, what is under way, and what may come are paid for.
PaidFor ==
    \A u \in Updates : effects[u] + Cardinality(Open(u)) + Taken(u) + Posted(u) <= 1 + faults

\* Requests end one by one.
LEMMA OpenCounts ==
    ASSUME Shape, NEW u
    PROVE  /\ IsFiniteSet(Open(u)) /\ Cardinality(Open(u)) \in Nat
           /\ \A S : S \subseteq Open(u) => Cardinality(S) \in Nat /\ Cardinality(S) <= Cardinality(Open(u))
           /\ \A x : x \in Open(u) =>
                 Cardinality(Open(u) \ {x}) = Cardinality(Open(u)) - 1
           /\ \A x : /\ Cardinality(Open(u) \cup {x}) \in Nat
                     /\ Cardinality(Open(u) \cup {x}) <= Cardinality(Open(u)) + 1
<1>1. IsFiniteSet(Open(u))
  BY FS_Subset DEF Open, Shape, Carries
<1> HIDE DEF Open
<1>2. Cardinality(Open(u)) \in Nat
  BY <1>1, FS_CardinalityType
<1>3. ASSUME NEW S, S \subseteq Open(u)
      PROVE  Cardinality(S) \in Nat /\ Cardinality(S) <= Cardinality(Open(u))
  BY <1>1, <1>3, FS_Subset, FS_CardinalityType
<1>4. ASSUME NEW x, x \in Open(u) PROVE Cardinality(Open(u) \ {x}) = Cardinality(Open(u)) - 1
  BY <1>1, <1>4, FS_RemoveElement
<1>5. ASSUME NEW x
      PROVE  /\ Cardinality(Open(u) \cup {x}) \in Nat
             /\ Cardinality(Open(u) \cup {x}) <= Cardinality(Open(u)) + 1
  <2>1. Cardinality(Open(u) \cup {x}) = IF x \in Open(u) THEN Cardinality(Open(u)) ELSE Cardinality(Open(u)) + 1
    BY <1>1, FS_AddElement
  <2> QED
    BY <1>2, <2>1
<1> QED
  BY <1>1, <1>2, <1>3, <1>4, <1>5

\* Every step keeps the account.
LEMMA PaidForStep == ASSUME Shape, PaidFor, [Next]_vars PROVE PaidFor'
<1>0. /\ TypeOK /\ Carries /\ Ordered
      /\ handler \in [Handlers -> Handling]
      /\ effects \in [Updates -> Nat]
      /\ calls \subseteq Request
      /\ faults \in Nat
      /\ Updates \subseteq Nat /\ offset \in Nat
      /\ pending \subseteq Updates /\ batch \subseteq Updates
      /\ Hooks \subseteq Handlers
      /\ Free.pc = "free"
  BY NumberAssumption DEF Shape, TypeOK, Handling, Request, Free, Updates, Handlers
<1>e. effects' \in [Updates -> Nat]
  BY TypeStep DEF TypeOK
<1>t. \A u : Taken(u) \in 0..1 /\ Posted(u) \in 0..1 /\ Taken(u)' \in 0..1 /\ Posted(u)' \in 0..1
  BY DEF Taken, Posted
<1>p. ASSUME NEW u \in Updates
      PROVE  /\ effects[u] + Cardinality(Open(u)) + Taken(u) + Posted(u) <= 1 + faults
             /\ Cardinality(Open(u)) \in Nat /\ effects[u] \in Nat /\ effects'[u] \in Nat
  BY <1>0, <1>e, OpenCounts DEF PaidFor
\* A step that begins and repeats nothing.
<1>a. ASSUME NEW u \in Updates, Open(u)' \subseteq Open(u), effects'[u] = effects[u],
             \/ /\ Taken(u)' <= Taken(u) /\ Posted(u)' <= Posted(u) /\ faults' = faults
             \/ /\ Taken(u)' <= Taken(u) /\ faults' = faults + 1
             \/ /\ Posted(u)' <= Posted(u) /\ faults' = faults + 1
      PROVE  effects'[u] + Cardinality(Open(u)') + Taken(u)' + Posted(u)' <= 1 + faults'
  <2>1. Cardinality(Open(u)') \in Nat /\ Cardinality(Open(u)') <= Cardinality(Open(u))
    BY <1>a, OpenCounts
  <2> QED
    BY <1>0, <1>a, <1>p, <1>t, <2>1
\* What changes neither the messages nor who is at work.
<1>b. ASSUME NEW u \in Updates, pending' \subseteq pending, UNCHANGED <<command, hook, runner>>,
             \A d \in Hooks : d[2] = u => (Busy(d)' <=> Busy(d)) \/ u \notin pending'
      PROVE  Taken(u)' <= Taken(u) /\ (Written(u) => Posted(u)' <= Posted(u))
  <2>1. Coming(u)' => Coming(u)
    BY <1>b DEF Coming, Written
  <2>2. Taken(u)' <= Taken(u)
    BY <1>b, <2>1 DEF Taken, runner
  <2>3. Written(u) => Posted(u)' <= Posted(u)
    BY <1>b, <2>1 DEF Posted, Coming, Written
  <2> QED
    BY <2>2, <2>3
\* A handling that begins.
<1>c. ASSUME NEW d \in Handlers, NEW u \in Updates, Written(u), Begin(d, u)
      PROVE  /\ effects' = effects
             /\ \A v \in Updates : v # u => Open(v)' = Open(v)
             /\ Cardinality(Open(u)') \in Nat /\ Cardinality(Open(u)') <= Cardinality(Open(u)) + 1
             /\ Busy(d)' \/ Open(u)' = Open(u)
             /\ \A e \in Handlers : e # d => (Busy(e)' <=> Busy(e))
  <2>1. PICK n \in Nat, h \in Handling :
           /\ handler' = [handler EXCEPT ![d] = h]
           /\ IF command[u] \in Asking
              THEN h.pc = "await" /\ h.call = n /\ calls' = calls \cup {New(n, u)}
              ELSE h.call = None /\ calls' = calls
           /\ effects' = effects
    BY <1>c, BeginEffect
  <2>2. handler'[d] = h /\ \A e \in Handlers : e # d => handler'[e] = handler[e]
    BY <1>0, <2>1
  <2>3. New(n, u).update = u /\ New(n, u).step = "asked"
    BY DEF New
  <2>4. \A v \in Updates : v # u => Open(v)' = Open(v)
    BY <2>1, <2>3 DEF Open
  <2>5. Open(u)' = Open(u) \/ (Open(u)' = Open(u) \cup {New(n, u)} /\ h.pc = "await")
    BY <2>1, <2>3 DEF Open
  <2>6. Cardinality(Open(u)') \in Nat /\ Cardinality(Open(u)') <= Cardinality(Open(u)) + 1
    <3>1. /\ Cardinality(Open(u)) \in Nat
          /\ Cardinality(Open(u) \cup {New(n, u)}) \in Nat
          /\ Cardinality(Open(u) \cup {New(n, u)}) <= Cardinality(Open(u)) + 1
      BY OpenCounts
    <3>2. CASE Open(u)' = Open(u)
      BY <3>1, <3>2
    <3>3. CASE Open(u)' = Open(u) \cup {New(n, u)}
      BY <3>1, <3>3
    <3> QED
      BY <2>5, <3>2, <3>3
  <2> QED
    BY <2>1, <2>2, <2>4, <2>5, <2>6 DEF Busy
<1>1. ASSUME NEW u \in Updates, NEW k \in Asks[u], Write(u, k) PROVE PaidFor'
  <2>1. /\ command' = [command EXCEPT ![u] = k]
        /\ ~Written(u)
        /\ pending' = pending \cup {u}
        /\ UNCHANGED <<hook, runner, handler, calls, effects, faults>>
    BY <1>1 DEF Write, Written, api
  <2>2. \A v \in Updates : Coming(v)' <=> Coming(v)
    BY <1>0, <2>1 DEF Coming, Written, TypeOK
  <2>3. ASSUME NEW v \in Updates
        PROVE  Taken(v)' = Taken(v) /\ Posted(v)' = Posted(v) /\ Open(v)' = Open(v)
    BY <2>1, <2>2 DEF Taken, Posted, Open, Busy, runner
  <2> QED
    BY <2>1, <2>3, <1>p DEF PaidFor
<1>2. CASE SetWebhook
  <2>1. /\ faults' = faults + 1
        /\ UNCHANGED <<command, pending, runner, calls, effects>>
    BY <1>2 DEF SetWebhook, api
  <2>2. ASSUME NEW v \in Updates
        PROVE  Taken(v)' = Taken(v) /\ Open(v)' = Open(v) /\ effects'[v] = effects[v]
    BY <2>1 DEF Taken, Coming, Written, Open, runner
  <2>3. \A v \in Updates : effects'[v] + Cardinality(Open(v)') + Taken(v)' + Posted(v)' <= 1 + faults'
    BY <1>a, <1>t, <2>1, <2>2
  <2> QED
    BY <2>3 DEF PaidFor
<1>3. CASE Start
  <2>1. /\ hook' = FALSE /\ faults' = faults
        /\ UNCHANGED <<command, pending, offset, batch, calls, effects>>
    BY <1>3 DEF Start, api
  <2>2. ASSUME NEW v \in Updates
        PROVE  /\ Taken(v)' = Taken(v) /\ Posted(v)' = 0
               /\ Open(v)' = Open(v) /\ effects'[v] = effects[v]
    BY <2>1 DEF Taken, Posted, Coming, Written, Open
  <2>3. \A v \in Updates : effects'[v] + Cardinality(Open(v)') + Taken(v)' + Posted(v)' <= 1 + faults'
    BY <1>a, <1>t, <2>1, <2>2
  <2> QED
    BY <2>3 DEF PaidFor
<1>4. CASE Poll
  <2>1. /\ ~hook /\ hook' = hook /\ faults' = faults /\ batch = {}
        /\ pending' = From(offset) /\ batch' = From(offset)
        /\ UNCHANGED <<command, offset, calls, effects>>
    BY <1>4 DEF Poll, AtPoll, api
  <2>2. ASSUME NEW v \in Updates
        PROVE  /\ Taken(v)' <= Taken(v) /\ Posted(v)' = 0
               /\ Open(v)' = Open(v) /\ effects'[v] = effects[v]
    BY <2>1 DEF Taken, Posted, Coming, Written, Open, From
  <2>3. \A v \in Updates : effects'[v] + Cardinality(Open(v)') + Taken(v)' + Posted(v)' <= 1 + faults'
    BY <1>a, <1>t, <2>1, <2>2
  <2> QED
    BY <2>3 DEF PaidFor
<1>5. CASE PollTimesOut
  <2>1. /\ ~hook /\ hook' = hook /\ faults' = faults
        /\ pending' \subseteq pending
        /\ UNCHANGED <<command, runner, calls, effects>>
    BY <1>5 DEF PollTimesOut, From, api
  <2>2. ASSUME NEW v \in Updates
        PROVE  /\ Taken(v)' <= Taken(v) /\ Posted(v)' = 0
               /\ Open(v)' = Open(v) /\ effects'[v] = effects[v]
    BY <2>1 DEF Taken, Posted, Coming, Written, Open, runner
  <2>3. \A v \in Updates : effects'[v] + Cardinality(Open(v)') + Taken(v)' + Posted(v)' <= 1 + faults'
    BY <1>a, <1>t, <2>1, <2>2
  <2> QED
    BY <2>3 DEF PaidFor
<1>6. CASE RunnerTakes
  <2>1. PICK u \in batch :
           /\ offset' = u + 1
           /\ Begin(Runner, u)
           /\ batch' = batch \ {u}
    BY <1>6 DEF RunnerTakes, OffsetPast
  <2>2. faults' = faults /\ UNCHANGED telegram
    BY <1>6 DEF RunnerTakes
  <2>3. u \in Updates /\ Written(u) /\ u >= offset /\ Runner \in Handlers
    BY <1>0, RunnerApart DEF Ordered
  <2>4. \A v \in Updates : Coming(v)' <=> Coming(v)
    BY <2>2 DEF Coming, Written, telegram
  <2>5. \A v \in Updates : Posted(v)' = Posted(v)
    <3>1. \A d \in Hooks : Busy(d)' <=> Busy(d)
      BY <1>0, <1>c, <2>1, <2>3, RunnerApart
    <3> QED
      BY <2>2, <2>4, <3>1 DEF Posted, telegram
  <2>6. Taken(u) = 1 /\ Taken(u)' = 0
    BY <1>0, <2>1, <2>3 DEF Taken
  <2>7. \A v \in Updates : v # u => Taken(v)' <= Taken(v)
    BY <1>0, <2>1, <2>3, <2>4 DEF Taken
  <2>8. /\ effects' = effects
        /\ \A v \in Updates : v # u => Open(v)' = Open(v)
        /\ Cardinality(Open(u)') \in Nat /\ Cardinality(Open(u)') <= Cardinality(Open(u)) + 1
    BY <1>c, <2>1, <2>3
  <2>9. effects'[u] + Cardinality(Open(u)') + Taken(u)' + Posted(u)' <= 1 + faults'
    BY <1>0, <1>p, <1>t, <2>2, <2>3, <2>5, <2>6, <2>8
  <2>10. ASSUME NEW v \in Updates, v # u
         PROVE  effects'[v] + Cardinality(Open(v)') + Taken(v)' + Posted(v)' <= 1 + faults'
    BY <1>a, <1>t, <2>2, <2>5, <2>7, <2>8, <2>10
  <2> QED
    BY <2>9, <2>10 DEF PaidFor
<1>7. ASSUME NEW d \in Hooks, NEW u \in Updates, Deliver(d, u) PROVE PaidFor'
  <2>1. /\ hook /\ u \in pending /\ d[2] = u /\ ~Busy(d) /\ Begin(d, u)
        /\ pending' \subseteq pending /\ UNCHANGED <<command, hook, runner>>
        /\ IF \E e \in Hooks : e[2] = u /\ Busy(e) THEN faults' = faults + 1 ELSE faults' = faults
    BY <1>7 DEF Deliver
  <2>2. Written(u) /\ d \in Handlers
    BY <1>0, <2>1 DEF Ordered
  <2>3. /\ effects' = effects
        /\ \A v \in Updates : v # u => Open(v)' = Open(v)
        /\ Cardinality(Open(u)') \in Nat /\ Cardinality(Open(u)') <= Cardinality(Open(u)) + 1
        /\ Busy(d)' \/ Open(u)' = Open(u)
        /\ \A e \in Handlers : e # d => (Busy(e)' <=> Busy(e))
    BY <1>c, <2>1, <2>2
  <2>4. \A v \in Updates : Taken(v)' <= Taken(v)
    <3>1. \A v \in Updates : Coming(v)' => Coming(v)
      BY <2>1 DEF Coming, Written
    <3> QED
      BY <2>1, <3>1 DEF Taken, runner
  <2>5. ASSUME NEW v \in Updates, v # u PROVE Posted(v)' <= Posted(v)
    <3>1. Coming(v)' => Coming(v)
      BY <2>1 DEF Coming, Written
    <3>2. \A e \in Hooks : e[2] = v => (Busy(e)' <=> Busy(e))
      BY <1>0, <2>1, <2>3, <2>5
    <3> QED
      BY <2>1, <3>1, <3>2 DEF Posted
  <2>6. ASSUME NEW v \in Updates, v # u
        PROVE  effects'[v] + Cardinality(Open(v)') + Taken(v)' + Posted(v)' <= 1 + faults'
    <3>1. faults' = faults \/ faults' = faults + 1
      BY <2>1
    <3> QED
      BY <1>a, <2>3, <2>4, <2>5, <2>6, <3>1
  <2>7. effects'[u] + Cardinality(Open(u)') + Taken(u)' + Posted(u)' <= 1 + faults'
    <3>1. CASE \E e \in Hooks : e[2] = u /\ Busy(e)
      <4>1. Posted(u)' = 0
        <5>1. PICK e \in Hooks : e[2] = u /\ Busy(e)
          BY <3>1
        <5>2. e # d /\ Busy(e)'
          BY <1>0, <2>1, <2>3, <5>1
        <5> QED
          BY <5>1, <5>2 DEF Posted
      <4>2. faults' = faults + 1
        BY <2>1, <3>1
      <4> QED
        BY <1>0, <1>p, <1>t, <2>3, <2>4, <4>1, <4>2
    <3>2. CASE ~ \E e \in Hooks : e[2] = u /\ Busy(e)
      <4>1. Posted(u) = 1 /\ faults' = faults
        BY <2>1, <3>2 DEF Posted, Coming
      <4>2. CASE Busy(d)'
        <5>1. Posted(u)' = 0
          BY <2>1, <4>2 DEF Posted
        <5> QED
          BY <1>0, <1>p, <1>t, <2>3, <2>4, <4>1, <5>1
      <4>3. CASE Open(u)' = Open(u)
        BY <1>0, <1>p, <1>t, <2>3, <2>4, <4>1, <4>3
      <4> QED
        BY <2>3, <4>2, <4>3
    <3> QED
      BY <3>1, <3>2
  <2> QED
    BY <2>6, <2>7 DEF PaidFor
<1>8. ASSUME NEW d \in Handlers, Handle(d) PROVE PaidFor'
  <2>1. PICK h \in Handling : Goes(d, h) /\ (Replying(d, h) \/ Ending(d, h))
    BY <1>0, <1>8, HandleEffect DEF Shape
  <2>2. /\ calls' \subseteq calls
        /\ handler'[d] = h
        /\ \A e \in Handlers : e # d => handler'[e] = handler[e]
        /\ UNCHANGED <<command, hook, runner, effects, faults>>
    BY <1>0, <2>1 DEF Goes
  <2>3. pending' \subseteq pending
    BY <2>1 DEF Replying, Ending
  <2>4. ASSUME NEW u \in Updates
        PROVE  \A e \in Hooks : e[2] = u => (Busy(e)' <=> Busy(e)) \/ u \notin pending'
    <3> SUFFICES ASSUME NEW e \in Hooks, e[2] = u PROVE (Busy(e)' <=> Busy(e)) \/ u \notin pending'
      OBVIOUS
    <3>1. CASE e # d
      BY <1>0, <2>2, <3>1 DEF Busy
    <3>2. CASE e = d
      <4>1. Busy(d) /\ handler[d].update = u
        BY <1>0, <2>1, <3>2 DEF Goes, Carries
      <4> QED
        BY <2>1, <2>2, <3>2, <4>1 DEF Busy, Replying, Ending
    <3> QED
      BY <3>1, <3>2
  <2>5. ASSUME NEW u \in Updates PROVE Posted(u)' <= Posted(u)
    <3>1. CASE Written(u)
      BY <1>b, <2>2, <2>3, <2>4, <3>1
    <3>2. CASE ~Written(u)
      <4>1. ASSUME NEW e \in Hooks, e[2] = u, e = d PROVE FALSE
        <5>1. handler[d].update = u /\ Busy(d)
          BY <1>0, <2>1, <4>1 DEF Goes, Carries
        <5> QED
          BY <1>0, <3>2, <5>1 DEF Carries
      <4>2. \A e \in Hooks : e[2] = u => (Busy(e)' <=> Busy(e))
        BY <1>0, <2>2, <4>1 DEF Busy
      <4> QED
        BY <2>2, <2>3, <4>2 DEF Posted, Coming, Written
    <3> QED
      BY <3>1, <3>2
  <2>6. ASSUME NEW u \in Updates
        PROVE  effects'[u] + Cardinality(Open(u)') + Taken(u)' + Posted(u)' <= 1 + faults'
    <3>1. Open(u)' \subseteq Open(u) /\ effects'[u] = effects[u]
      BY <2>2 DEF Open
    <3>2. Taken(u)' <= Taken(u)
      BY <1>b, <2>2, <2>3, <2>4
    <3> QED
      BY <1>a, <2>2, <2>5, <3>1, <3>2
  <2> QED
    BY <2>6 DEF PaidFor
<1>9. ASSUME NEW c \in calls, Serve(c) PROVE PaidFor'
  <2>1. /\ c.step = "asked"
        /\ calls \ {c} \subseteq calls'
        /\ \A e \in calls' :
              \/ e \in calls \ {c}
              \/ e.update = c.update /\ e.step \in {"ok", "failed"}
        /\ UNCHANGED <<telegram, runner, handler, faults>>
    BY <1>9, ServeEffect
  <2>2. ASSUME NEW u \in Updates PROVE Open(u)' = Open(u) \ {c}
    BY <2>1 DEF Open
  <2>3. ASSUME NEW u \in Updates PROVE Taken(u)' = Taken(u) /\ Posted(u)' = Posted(u)
    BY <2>1 DEF Taken, Posted, Coming, Written, Busy, telegram, runner
  <2>4. c.update \in Updates
    BY <1>0 DEF Request
  <2>5. effects' = effects \/ effects' = [effects EXCEPT ![c.update] = @ + 1]
    BY <1>9 DEF Serve, Carried, CallFails
  <2>6. ASSUME NEW u \in Updates
        PROVE  effects'[u] + Cardinality(Open(u)') + Taken(u)' + Posted(u)' <= 1 + faults'
    <3>1. CASE u = c.update
      <4>1. Cardinality(Open(u)') = Cardinality(Open(u)) - 1
        <5>1. c \in Open(u)
          BY <2>1, <3>1 DEF Open
        <5>2. Cardinality(Open(u) \ {c}) = Cardinality(Open(u)) - 1
          BY <5>1, OpenCounts
        <5> QED
          BY <2>2, <5>2
      <4>2. effects'[u] <= effects[u] + 1
        BY <1>0, <2>5, <3>1
      <4> QED
        BY <1>0, <1>p, <1>t, <2>1, <2>3, <4>1, <4>2
    <3>2. CASE u # c.update
      <4>1. effects'[u] = effects[u]
        BY <1>0, <2>4, <2>5, <3>2
      <4>2. Open(u)' \subseteq Open(u)
        BY <2>2
      <4> QED
        BY <1>a, <1>t, <2>1, <2>3, <4>1, <4>2
    <3> QED
      BY <3>1, <3>2
  <2> QED
    BY <2>6 DEF PaidFor
<1>10. CASE RunnerLost
  <2>1. /\ faults' = faults + 1 /\ calls' \subseteq calls
        /\ UNCHANGED <<telegram, effects>>
        /\ handler' = [handler EXCEPT ![Runner] = Free]
    BY <1>10 DEF RunnerLost, Abandoned
  <2>2. \A e \in Hooks : handler'[e] = handler[e]
    BY <1>0, <2>1, RunnerApart
  <2>3. ASSUME NEW u \in Updates
        PROVE  Posted(u)' = Posted(u) /\ Open(u)' \subseteq Open(u) /\ effects'[u] = effects[u]
    BY <2>1, <2>2 DEF Posted, Coming, Written, Busy, Open, telegram
  <2>4. \A u \in Updates : effects'[u] + Cardinality(Open(u)') + Taken(u)' + Posted(u)' <= 1 + faults'
    BY <1>a, <1>t, <2>1, <2>3
  <2> QED
    BY <2>4 DEF PaidFor
<1>11. CASE ApiLost
  <2>1. faults' = faults + 1 /\ calls' = {} /\ UNCHANGED <<telegram, runner, effects>>
    BY <1>11 DEF ApiLost
  <2>2. ASSUME NEW u \in Updates
        PROVE  Taken(u)' = Taken(u) /\ Open(u)' \subseteq Open(u) /\ effects'[u] = effects[u]
    BY <2>1 DEF Taken, Coming, Written, Open, telegram, runner
  <2>3. \A u \in Updates : effects'[u] + Cardinality(Open(u)') + Taken(u)' + Posted(u)' <= 1 + faults'
    BY <1>a, <1>t, <2>1, <2>2
  <2> QED
    BY <2>3 DEF PaidFor
<1>12. CASE UNCHANGED vars
  <2>1. ASSUME NEW u \in Updates
        PROVE  Taken(u)' = Taken(u) /\ Posted(u)' = Posted(u) /\ Open(u)' = Open(u) /\ effects'[u] = effects[u]
    BY <1>12 DEF Taken, Posted, Coming, Written, Busy, Open, vars, telegram, runner, api
  <2> QED
    BY <1>12, <1>p, <2>1 DEF PaidFor, vars
<1> QED
  BY <1>1, <1>2, <1>3, <1>4, <1>5, <1>6, <1>7, <1>8, <1>9, <1>10, <1>11, <1>12 DEF Next

-----------------------------------------------------------------------------
(***************************************************************************)
(* The theorems.                                                           *)
(***************************************************************************)
BotInv == Shape /\ Ahead /\ NothingDropped /\ Truthful /\ RepliesBacked /\ PaidFor

\* It holds before a message is written.
LEMMA BotInvInit == ASSUME Init PROVE BotInv
<1> USE DEF Init
<1>0. 0 \in Nat /\ Updates \subseteq Nat /\ \A u \in Updates : u >= 0
  BY NumberAssumption DEF Updates
<1>1. TypeOK
  <2>1. handler \in [Handlers -> Handling]
    BY DEF Free, Handling
  <2>2. offset \in 0..MaxUpdates + 1 /\ faults \in 0..MaxEvents /\ effects \in [Updates -> Nat]
    BY NumberAssumption
  <2> QED
    BY <2>1, <2>2 DEF TypeOK, Handling
<1>2. Carries
  BY FS_EmptySet DEF Carries, Busy, Free
<1>3. Ordered
  BY <1>0, RunnerApart DEF Ordered, Written, Busy, Free
<1>4. Ahead /\ NothingDropped
  BY DEF Ahead, NothingDropped, Written
<1>5. Truthful
  BY DEF Truthful
<1>6. RepliesBacked
  BY NoneAssumption DEF RepliesBacked, Free, Replies
<1>7. ASSUME NEW u \in Updates
      PROVE  effects[u] + Cardinality(Open(u)) + Taken(u) + Posted(u) <= 1 + faults
  <2>1. Open(u) = {} /\ Cardinality({}) = 0
    BY FS_EmptySet DEF Open
  <2>2. Posted(u) = 0 /\ Taken(u) <= 1 /\ effects[u] = 0 /\ Taken(u) \in Nat
    BY DEF Posted, Taken
  <2> QED
    BY <2>1, <2>2
<1> QED
  BY <1>1, <1>2, <1>3, <1>4, <1>5, <1>6, <1>7 DEF BotInv, Shape, PaidFor

\* It holds of every state.
LEMMA BotInvHolds == Spec => []BotInv
<1>1. BotInv /\ [Next]_vars => BotInv'
  BY TypeStep, CarriesStep, OrderedStep, NothingDroppedStep, RepliesStep, PaidForStep
  DEF BotInv, Shape
<1> QED
  BY BotInvInit, <1>1, PTL DEF Spec

\* Updates, handlings and requests keep their types, for any number of updates.
THEOREM BotTypeCorrect == Spec => []TypeOK
<1>1. BotInv => TypeOK
  BY DEF BotInv, Shape
<1> QED
  BY BotInvHolds, <1>1, PTL

\* What Telegram has forgotten was processed to its end, by the runner or by a
\* webhook, whatever was lost in between.
THEOREM NothingIsDropped == Spec => []NothingDropped
<1>1. BotInv => NothingDropped
  BY DEF BotInv
<1> QED
  BY BotInvHolds, <1>1, PTL

\* A command is carried out once, and once more for each loss, switch or late
\* answer, and "created" and "approved" are said of what was carried out.
THEOREM CommandsAreAppliedAsTold == Spec => []AppliedAsTold
<1>1. BotInv => AppliedAsTold
  <2> SUFFICES ASSUME BotInv PROVE AppliedBounded
    BY DEF BotInv, AppliedAsTold
  <2>1. ASSUME NEW u \in Updates PROVE effects[u] <= 1 + faults
    <3>1. /\ effects[u] \in Nat /\ Cardinality(Open(u)) \in Nat
          /\ Taken(u) \in Nat /\ Posted(u) \in Nat /\ faults \in Nat
      BY OpenCounts DEF BotInv, Shape, TypeOK, Taken, Posted
    <3>2. effects[u] + Cardinality(Open(u)) + Taken(u) + Posted(u) <= 1 + faults
      BY DEF BotInv, PaidFor
    <3> QED
      BY <3>1, <3>2
  <2> QED
    BY <2>1 DEF AppliedBounded
<1> QED
  BY BotInvHolds, <1>1, PTL
=============================================================================
