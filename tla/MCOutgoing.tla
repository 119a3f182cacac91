------------------------------ MODULE MCOutgoing ------------------------------
(***************************************************************************)
(* For TLC: what leaves a process, mails to suppliers and events to        *)
(* browsers.  EmailSender and EventBus share no state, so each moves while *)
(* the other rests.                                                        *)
(***************************************************************************)
EXTENDS EmailSender, EventBus

CONSTANTS p1, a1, noreply

VARIABLE which

outgoingVars == <<vars, busVars, which>>

\* What does not move starts one way.
OutgoingInit ==
    /\ Init
    /\ BusInit
    /\ which \in {"mails", "events"}
    /\ which = "events" => installed
    /\ which = "mails" => home = [c \in Clients |-> CHOOSE p \in Servers : TRUE]

Mails(A) == which = "mails" /\ A /\ UNCHANGED <<busVars, which>>

Bus(A) == which = "events" /\ A /\ UNCHANGED <<vars, which>>

OutgoingNext == Mails(Next) \/ Bus(BusNext)

\* The Fairness of EmailSender; the loop of a WebSocket handler goes on.
OutgoingSpec ==
    /\ OutgoingInit
    /\ [][OutgoingNext]_outgoingVars
    /\ WF_outgoingVars(Mails(Tick))
    /\ \A s \in Sends : WF_outgoingVars(Mails(Attempt(s))) /\ WF_outgoingVars(Mails(Wake(s)))
    /\ \A c \in Clients : WF_outgoingVars(Bus(Work(c)))

=============================================================================
