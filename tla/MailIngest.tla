----------------------------- MODULE MailIngest -----------------------------
(***************************************************************************)
(* How the answers of suppliers become rows of rfq_emails: the IMAP poller *)
(* (email_service/imap_poller.py), started every 30 seconds as a Celery    *)
(* task whether or not the last one has ended (tasks/emails.py), and the   *)
(* webhook email_in (api/routes/webhooks.py).                              *)
(*                                                                         *)
(* The mailbox is external: uids in order of arrival, SEARCH UNSEEN, and   *)
(* FETCH RFC822, which sets \Seen in a mailbox selected for writing.  A    *)
(* mail is what its headers say of a lot; the address lot+<id> is believed *)
(* without a look at the table, whose foreign key refuses an unknown id.   *)
(***************************************************************************)
EXTENDS Naturals, Sequences, FiniteSets

CONSTANTS
    Mails,         \* what the mails that arrive say
    MaxMails,      \* bound: mails that arrive
    MaxOffers,     \* bound: posts of one mail to the webhook
    MaxAccidents,  \* bound: lost connections and processes
    Pollers,       \* processes that may poll at the same time
    Lots,          \* rows of lots
    Unknown,       \* an id of no lot, in lot+<id>@
    NoLot

\* address is the id in lot+<id>@, subject the lots whose id begins with the
\* id in #LOT-<id>.
ASSUME MailsAssumption ==
    Mails \subseteq [address : Lots \cup {Unknown, NoLot}, subject : SUBSET Lots]
ASSUME LotsAssumption == Unknown \notin Lots /\ NoLot \notin Lots \cup {Unknown}
ASSUME BoundsAssumption ==
    {MaxMails, MaxOffers, MaxAccidents} \subseteq Nat /\ IsFiniteSet(Pollers)

VARIABLES
    inbox,      \* mails that have arrived, by uid
    expunged,   \* uids somebody has deleted since
    seen,       \* uids with the flag \Seen
    pc,         \* where each poller is
    uids,       \* uids a poller has yet to fetch
    at,         \* uid at work
    rows,       \* rfq_emails: lot_id of the rows stored for each uid, as they came
    offers,     \* posts of each mail to the webhook
    accidents,  \* lost connections and processes so far
    failed      \* uids whose insert did not take place (history)

ingestVars == <<inbox, expunged, seen, pc, uids, at, rows, offers, accidents, failed>>

Uids == 1..MaxMails
Arrived == DOMAIN inbox

IngestTypeOK ==
    /\ inbox \in UNION {[1..n -> Mails] : n \in 0..MaxMails}
    /\ expunged \subseteq Arrived
    /\ seen \subseteq Arrived
    /\ pc \in [Pollers -> {"idle", "loop", "insert", "flag"}]
    /\ uids \in [Pollers -> SUBSET Arrived]
    /\ at \in [Pollers -> Arrived \cup {0}]
    /\ rows \in [Uids -> Seq(Lots \cup {NoLot})]
    /\ offers \in [Uids -> 0..MaxOffers]
    /\ accidents \in 0..MaxAccidents
    /\ failed \subseteq Arrived

IngestInit ==
    /\ inbox = <<>>
    /\ expunged = {}
    /\ seen = {}
    /\ pc = [p \in Pollers |-> "idle"]
    /\ uids = [p \in Pollers |-> {}]
    /\ at = [p \in Pollers |-> 0]
    /\ rows = [u \in Uids |-> <<>>]
    /\ offers = [u \in Uids |-> 0]
    /\ accidents = 0
    /\ failed = {}

----------------------------------------------------------------------------
(* The mailbox, as others use it.                                          *)

Arrive == \E m \in Mails :
    /\ Len(inbox) < MaxMails
    /\ inbox' = Append(inbox, m)
    /\ UNCHANGED <<expunged, seen, pc, uids, at, rows, offers, accidents, failed>>

Expunge(u) ==
    /\ u \in Arrived \ expunged
    /\ expunged' = expunged \cup {u}
    /\ UNCHANGED <<inbox, seen, pc, uids, at, rows, offers, accidents, failed>>

----------------------------------------------------------------------------
(* What both ways in do with a mail.                                       *)

\* Mutant: the subject is read first.
MeantBySubject(mail) ==
    IF mail.subject # {} THEN mail.subject ELSE {mail.address}

\* Lots a mail may be taken for: the one in its address, else any whose id
\* begins as the subject says (first() of an unordered query), else none.
Meant(mail) ==
    IF mail.address # NoLot THEN {mail.address}
    ELSE IF mail.subject # {} THEN mail.subject
    ELSE {NoLot}

\* The foreign key of rfq_emails.lot_id, which may be NULL.
References(lot) == lot # Unknown

\* Mutant: a mail that names no lot is skipped.
KeepsRouted(lot) == lot # NoLot

\* The poller stores unrouted mail too.
Keeps(lot) == TRUE

WithRow(u, lot) == [rows EXCEPT ![u] = Append(@, lot)]

----------------------------------------------------------------------------
(* The poller, _poll_once.                                                 *)

\* Log in, select, search; without a result log out.
Search(p) == LET unseen == Arrived \ (seen \cup expunged) IN
    /\ pc[p] = "idle"
    /\ unseen # {}
    /\ uids' = [uids EXCEPT ![p] = unseen]
    /\ pc' = [pc EXCEPT ![p] = "loop"]
    /\ UNCHANGED <<inbox, expunged, seen, at, rows, offers, accidents, failed>>

\* Mutant: BODY.PEEK[], which leaves the flag to the store below.
SeenAfterPeek(u) == seen

\* FETCH RFC822 reads the mail.
SeenAfterFetch(u) == seen \cup {u}

\* In the order of the search, which is that of arrival.
Fetch(p) == \E u \in uids[p] :
    /\ pc[p] = "loop"
    /\ \A v \in uids[p] : u <= v
    /\ uids' = [uids EXCEPT ![p] = @ \ {u}]
    /\ IF u \in expunged THEN UNCHANGED <<pc, at, seen>>
       ELSE /\ pc' = [pc EXCEPT ![p] = "insert"]
            /\ at' = [at EXCEPT ![p] = u]
            /\ seen' = SeenAfterFetch(u)
    /\ UNCHANGED <<inbox, expunged, rows, offers, accidents, failed>>

Insert(p) ==
    /\ pc[p] = "insert"
    /\ \E lot \in Meant(inbox[at[p]]) :
          /\ References(lot)
          /\ rows' = IF Keeps(lot) THEN WithRow(at[p], lot) ELSE rows
    /\ pc' = [pc EXCEPT ![p] = "flag"]
    /\ UNCHANGED <<inbox, expunged, seen, uids, at, offers, accidents, failed>>

\* An exception leaves the loop and _poll_once; poll_inbox_task and
\* poll_loop log it.
Abort(p) ==
    /\ pc' = [pc EXCEPT ![p] = "idle"]
    /\ uids' = [uids EXCEPT ![p] = {}]
    /\ at' = [at EXCEPT ![p] = 0]
    /\ failed' = IF pc[p] = "insert" THEN failed \cup {at[p]} ELSE failed
    /\ UNCHANGED <<inbox, expunged, seen, rows, offers>>

InsertRefused(p) ==
    /\ pc[p] = "insert"
    /\ \E lot \in Meant(inbox[at[p]]) : ~References(lot)
    /\ Abort(p)
    /\ UNCHANGED accidents

\* STORE +FLAGS (\Seen), which the fetch has done already.
Flag(p) ==
    /\ pc[p] = "flag"
    /\ seen' = seen \cup {at[p]}
    /\ pc' = [pc EXCEPT ![p] = "loop"]
    /\ UNCHANGED <<inbox, expunged, uids, at, rows, offers, accidents, failed>>

Logout(p) ==
    /\ pc[p] = "loop"
    /\ uids[p] = {}
    /\ pc' = [pc EXCEPT ![p] = "idle"]
    /\ at' = [at EXCEPT ![p] = 0]
    /\ UNCHANGED <<inbox, expunged, seen, uids, rows, offers, accidents, failed>>

\* The connection to the mailbox or the database, or the process, is lost.
Accident(p) ==
    /\ pc[p] # "idle"
    /\ accidents < MaxAccidents
    /\ accidents' = accidents + 1
    /\ Abort(p)

----------------------------------------------------------------------------
(* The webhook, email_in.  Its caller may call again; n8n finds the mail   *)
(* in the same mailbox and reads it there, Mailcow hands it over directly. *)

Offered(u) ==
    /\ u \in Arrived
    /\ offers[u] < MaxOffers
    /\ offers' = [offers EXCEPT ![u] = @ + 1]
    /\ seen' \in {seen, seen \cup {u}}
    /\ UNCHANGED <<inbox, expunged, pc, uids, at, accidents, failed>>

EmailIn(u) == \E lot \in Meant(inbox[u]) :
    /\ Offered(u)
    /\ lot \in Lots
    /\ rows' = WithRow(u, lot)

\* 422 for a mail that names no lot, an error of the table for an unknown
\* one.
EmailInRefused(u) == \E lot \in Meant(inbox[u]) :
    /\ Offered(u)
    /\ lot \notin Lots
    /\ UNCHANGED rows

----------------------------------------------------------------------------
Poll(p) == Search(p) \/ Fetch(p) \/ Insert(p) \/ InsertRefused(p) \/ Flag(p) \/ Logout(p)

IngestNext ==
    \/ Arrive
    \/ \E u \in Arrived : Expunge(u) \/ EmailIn(u) \/ EmailInRefused(u)
    \/ \E p \in Pollers : Poll(p) \/ Accident(p)

\* The beat goes on and a poll comes to its next step; mails and accidents
\* owe nothing.
IngestSpec == IngestInit /\ [][IngestNext]_ingestVars /\ \A p \in Pollers : WF_ingestVars(Poll(p))

----------------------------------------------------------------------------
(* Properties.                                                             *)

\* A mail is stored at most once per poller that may run beside the others,
\* and once per post to the webhook: a poller that loses its connection
\* between the commit and the flag does not store the mail again.  One row a mail
\* it is not, as docs/prompts/communicator.md:21 has it: message_id has an index
\* that is not unique (models.py:191).  README, section 5.
RowsBounded ==
    \A u \in Uids : Len(rows[u]) <= Cardinality(Pollers) + offers[u]

\* A row belongs to the lot its mail names, the address before the subject
\* (imap_poller.py:1-8), whichever way the mail came in.
RoutedAsNamed ==
    \A u \in Arrived : \A lot \in {rows[u][i] : i \in DOMAIN rows[u]} :
       \/ lot = inbox[u].address /\ lot # NoLot
       \/ inbox[u].address = NoLot /\ lot \in inbox[u].subject
       \/ inbox[u].address = NoLot /\ inbox[u].subject = {} /\ lot = NoLot

\* Every mail left to the poller is stored, with a lot or without, or its
\* insert fails: a mail that cannot be stored holds up none behind it.
MailSettles ==
    \A u \in Uids :
       u \in Arrived ~> \/ rows[u] # <<>>
                        \/ u \in failed \cup expunged
                        \/ offers[u] > 0

=============================================================================
