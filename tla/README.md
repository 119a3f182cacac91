# SnabAgent in TLA+

SnabAgent turns a free-text purchase request (a *lot*) into a report with the
three best offers. Six agents work on a lot one after another; an LLM answers in
most of them; rows, mails and audit records are written on the way. This directory
specifies the parts of the program whose correctness depends on order, failure and
concurrency, checks them with TLC, and proves the most important invariants with
TLAPS. Paths below are
relative to `src/src/snabagent/`, those that begin with `frontend/` to `src/`.

## 1. The system

| Component | State it keeps | Operations | Talks to |
|---|---|---|---|
| Agent graph (`agents/graph.py`) | `LotState` in memory | `run_lot`, `_persist_status` | agents, `lots` |
| Agents (`agents/*.py`) | none of their own | one coroutine each | LLM router, e-mail sender, tables, audit |
| Lot handlers (`api/routes/lots.py`) | none | create, import, list, approve, reject, background run | `lots`, event bus, graph |
| Tables (`db/`) | lots, rfq_emails, negotiations, verifications, audit_log, users, customers, catalogue | repositories, one commit per call | everything |
| Celery tasks (`tasks/`) | messages in Redis | `run_lot`, `recover_stuck_lots`, `poll_inbox` | graph, poller |
| E-mail sender (`email_service/sender.py`) | rate window per recipient, per process | `send_rfq_email` | SMTP, disk |
| E-mail ingestion (`email_service/imap_poller.py`, `api/routes/webhooks.py`) | \Seen flags in the mailbox | poll, webhook | rfq_emails |
| LLM router (`llm/router.py`, `llm/pii_masker.py`) | none | `complete_with_fallback` | providers, metering |
| Circuit breaker (`services/llm_client.py`) | failures, opening time | enter, record | its callers |
| Event bus (`api/ws.py`, `api/routes/websocket.py`) | subscribers' queues, per process | subscribe, publish, send | handlers, audit, browser |
| Start-up catalogue and vector index (`db/seed.py`, `api/main.py`, `vector/`) | catalogue rows, collections in Qdrant or in memory | seed, index, search | planner, sourcer |
| Telegram bot (`bot/`, `api/routes/telegram_webhook.py`) | update offset | poll, commands | HTTP API |
| Authentication (`api/auth.py`, `api/routes/auth.py`, `api/sso/`) | users, customers, tokens, SSO states | register, login, refresh, links, SSO | browser, tables |
| Browser (`frontend/src/`) | tokens in localStorage, page in view | sign in, renew, load and page | HTTP API |
| Metering (`services/metering.py`) | counters | increment, reset | router |

What is hard: nothing keeps two runs of one lot apart (background task, Celery
delivery, redelivery, replay script), and a run writes the row at every node without
looking at it, so runs and reviewers interleave at each commit; every commit is a
transaction of its own, so a crash falls between any two; retries, redelivery and the
periodic recovery start runs again; several API processes start, serve sign-ons and
hold events side by side, each with memory of its own; answers of the LLM, of
suppliers and of identity providers are arbitrary, late or missing.

What makes each part correct:

* Graph, agents and handlers: no supplier hears from a run that asked for a human, and
  the operators are told; every negotiation is lawful; a stored report rests on rows
  that are there; the audit trail lags by one row at most; statuses follow one chain;
  a decision of a reviewer stays.
* Celery tasks: a message comes to an end, and a lot left behind is run again or marked
  failed.
* Prices: no discount below the floor, each price traceable to an offer and a round,
  the ranking in the documented order whatever the order of the list.
* Sender: the limit per window, no refusal without cause, no mail lost, every call ends.
* Ingestion: a bounded number of rows per mail, under the lot it names, no mail held up
  by another.
* Router and breaker: personal data goes out masked and comes back whole on both paths;
  the primary's provider does not verify itself; an open breaker cools down.
* Event bus: a browser sees events once and in order, with gaps at overflows only; a
  subscription nobody reads goes away.
* Catalogue: a restart adds no customer and no item to what is complete; what is seeded
  can be found.
* Telegram: no update is forgotten, none is carried out again without a cause, none
  comes for ever.
* Authentication: a failed registration leaves no customer, a state is spent once, a
  delivered link goes out of use by a confirmation or a later send only, sign-in needs no
  token.
* Browser: the end of an access token ends no session, a sign-out lasts; the pages of
  the table show every lot of the tenant, and no other.

`PROJECT.json` lists each hazard at its line with the properties that cover it.

## 2. Modules

| Module | Models |
|---|---|
| `LotPipeline` | one lot: the six agents, the graph, the saves, create/approve/reject, any number of concurrent runs, a crash at any point |
| `LotLifecycle` | abstract: the chain of statuses the code follows, beside the one the documents draw; the human gate, a decision over a report that is there |
| `LotTasks` | who runs a lot again: background task, Celery delivery, retries, late acknowledgement, loss of a worker, `recover_stuck_lots` |
| `OfferFlow` | the money: skip margin, clamp, rounding, negotiation rows, the verifier's score, ranking, savings |
| `EmailSender` | the recipients' windows, the attempts and the .eml fallback of `send_rfq_email` |
| `MailIngest` | overlapping IMAP polls and the webhook: from the mailbox to rfq_emails |
| `LlmRouter` | a question to an LLM: attempts, the fallback by role, masking both ways, the counter |
| `CircuitBreaker` | callers that share one breaker |
| `EventBus` | events of a lot from `write_audit` to the browsers of several processes |
| `Catalogue` | starts of API processes: seeding, collections, indexing, search, with Qdrant or without |
| `TelegramBot` | updates of one chat: polling, webhook, the commands and their calls to the API |
| `Accounts` | registration, users by an admin, e-mail links, OAuth2 and SAML sign-on, with the customers they make |
| `BrowserSession` | one tab: tokens, their expiry and renewal, sign-in, sign-out, page loads |
| `LotPages` | the table of lots read page by page, and whose lots a reader sees |
| `MC*` | constants, symmetry and the environment for TLC; `MCLots`, `MCReruns`, `MCMemory` and `MCOutgoing` check modules that share no state in one run, one of them moving |
| `*_proofs` | theorems, section 6 |

`LotTasks` takes the chain of statuses from `LotLifecycle`, which `LotPipeline` is
shown to implement (`ImplementsLifecycle`). That chain is the code's, not the one of
`docs/architecture.md:47-50` and `METHODOLOGY.md` 6.4 (`DocumentedChain`): a run that
collects answers never saves `rfq_sent` and goes from `sourcing` to
`responses_collected`, one that cannot wait for them goes from `rfq_sent` to
`negotiating`, and one the regulatory filter stops from `responses_collected` to
`verified`. `FollowsDocument` states the documented chain and is refuted (section 5).

### LotPipeline
`lot` is the row (the columns the properties tell apart), `mem[r]` the `LotState` of
run r with the loop it is in, `pc[r]` the point at which another process may act. One
action stands for the code between two commits, sends or LLM answers. Tables are sets
of rows tagged with the run that wrote them; the tag is history, the code's tables hold
only the lot's id. `demo` is `settings.demo_mode`. LLM answers, ranking and the choice
of suppliers are nondeterministic, exceptions and process death are `Stop`. Suppliers
are a set: a supplier the LLM repeats in its ranking counts once.

### LotTasks
A run is reduced to the statuses it saves. `broker` and `job` say where each message
is. `Age` is the 30-minute threshold as an event, whether or not a run of the lot is
alive: `recover_stuck_lots` asks for `updated_at` and the status only, so it may queue a
lot beside its run. A message goes back when its worker is lost; the visibility timeout
of Redis, after which a message is delivered while its worker still runs, is left out.
The last save and the acknowledgement are one step here; a crash between the two saves
of the end is in `LotPipeline`.

### OfferFlow
Sums in kopecks, percents whole; a score is any integer, since `verifier.py:65` checks no
range. `Nearest` gives both neighbours at a tie, since the
binary fraction decides which one `round` returns. The sort of the reporter is written
as the place of each answer, the number of those before it. Crashes and other runs are
left to `LotPipeline`.

### EmailSender
One action per await of `send_rfq_email`: the check of the limit and the first attempt
are one step (nothing awaits between them), so are the last failure and the dump. Time
is relative, so no bound on the clock is needed: `age[s]` is `now - t` of the entry s,
and stops at the length of the window, where the code forgets the entry. An attempt
may last any time, since aiosmtplib applies its timeout to each command. The windows
belong to a process and go with it. `time.time()` is taken to run forward.

### MailIngest
A mail is what its headers say of a lot. FETCH RFC822 sets \Seen (RFC 3501, 6.4.5) since
the poller selects the mailbox for writing; line 108, which sets it again, is the
action `Flag`. Postgres enforces the foreign key (`References`); the SQLite of the tests
does not. Mails may be deleted by others and read by n8n (`n8n/workflows/email_poll.json`).

### LlmRouter and CircuitBreaker
A prompt is the sequence of what the masker's four patterns find in it; a provider
answers with any mix of the placeholders it knows and invented ones, or raises after the
prompt has left. `FakeLLM` is local; it may raise on a contrived phrase (`fake.py:101`), and
its fallback then gets the prompt as it is (section 5). `conf` ranges over the settings the
validator lets pass. The breaker's callers may be inside for long, so that a result is
recorded in a breaker that has opened, cooled down or closed since; nothing in `src/`
but tests calls it.

### EventBus
The bus awaits nothing inside its critical sections, so a call of it is a step.
`write_audit` commits and then publishes; the two are steps apart. An event is taken from
the queue and sent in one step, so that one whose send is under way counts as sent; the
order is that of the queue either way. A browser that has
gone is noticed by the next send or ping. One lot; the token check before `accept` is
left out.

### Catalogue
Each read and each commit of a start is a step; a start may end at an error of the
database, and Qdrant goes and comes back. The accidents are bounded. `create_all`, which
runs before the seeds, is left out. A start that loses a race for a row skips its own
index (`main.py:104-106`); `PlannerCanMatch` says when the catalogue can be searched
all the same.

### TelegramBot
Telegram keeps an update until a later offset or the webhook's 200 confirms it. A
handling of an update is a record with the place of its coroutine; the call to the API
goes on after its client has given up. The commands that only read are one command.
The bot's requests are admitted in dev mode only (section 5).

### Accounts
A request gives way at every await; a commit is a step, and the unique address decides
which of two inserts fails. A customer is known by the request that made it. A
verification mail is taken by the server in a step of its own, before or instead of the
return of the sender, which also returns when it has only written the mail to the disk. The
requests that need no token are admitted in dev mode, as in the tests (section 5).

### BrowserSession and LotPages
The tokens of one issue are a pair, known by its number. A request and its answer take
their time, and the handler of an answer runs to its end. A refresh token is good for any
number of renewals until it expires, as in `api/routes/auth.py:302-331`. `LotPages` counts and lists in
two queries, as `list_lots` does; the history `walk` says what a reader who pages on from
the first page has been shown. The row-level policies of `alembic/` are left out, since
the application makes its tables by `create_all`.

## 3. Runs

Constants are small, named in the .cfg, and stand for these of the code:

| Constant | Code | Run | Why enough |
|---|---|---|---|
| `Runs` (`reruns`, the others) | any | 2 / 1 | the row is overwritten by one run at a time; two already give every order of saves |
| `Suppliers` (`reruns`, `lots`) | the sourcer's ranking | 1 / 3 | loops over suppliers need a first, a middle and a last; the gates need one |
| `ResponsePercent` (`reruns`, `lots`) | 66 | 66 / 100 | with three suppliers 100 lets all of them answer, 66 of one rounds up to one |
| `MaxUnregulated`, `BuyerLimit`, `Totals` | sums in roubles | 2, 2, {3} | only the side of the threshold matters; a total that is unknown is there before the planner |
| `MaxRetries` (task) | 3 | 1 | a retry that is not the last, and the last |
| `Workers`, `Messages` (`LotTasks`) | any, any | 1, 2 | the background task of the API and the worker are two runs that overlap; a lost worker comes back under its name; a second message waits behind the first |
| `MaxCrashes`, `MaxAccidents`, `MaxFaults` | any | 1 | a second loss repeats the first: it finds the same state |
| `MaxOffers`, `ShownOffers` (`OfferFlow`) | any, 3 | 3, 2 | one offer more than the report shows |
| `Prices`, `Discounts`, `Scores` | any | around the 5% margin, the 12% clamp, 0, 30 and 120 | both sides of each threshold, a tie in rounding, a score out of its range |
| `MaxSends`, `Limit`, `Window` | any, 10, 60 s | 3, 2, 2 | one call more than the limit, entries that leave the window one by one |
| `MaxMails`, `MaxOffers` (`MailIngest`), `Pollers` | any, any, 4 | 2, 1, 2 | a mail behind another, overlap, both ways in |
| `Requests`, `Workers`, `Addresses`, `Providers`, `States` | any | 3, 2, 2, 2, 1 | two requests race while a third has to find what they left; a state can come back to the other process or through the other provider |
| `Fetches`, `MaxPairs` (`BrowserSession`) | any | 3, 3 | two answers 401 at once and a call after the renewal; a renewal of a renewal |
| `MaxLots`, `PageSize`, `MaxQueries`, `MaxUpdates` | any, 20, any, any | 3, 2, 2, 1 | a second page, a query that overtakes another, a lot that leaves a filter |
| `MaxStarts`, `MaxAtOnce`, `Items` | any, 4, 10 and more | 3, 2, 1 | two starts that race, one that restarts after them |
| `Servers`, `Clients`, `MaxEvents`, `Capacity` (`EventBus`) | 4, any, any, 200 | 2, 2, 3, 2 | two events in one queue, whose order could change, and one that meets it full |
| `Calls`, `Providers`, `MaxRetries`, `MaxReply` (`LlmRouter`) | any, 3, 3, any | 2, 3, 2, 1 | every pair of primary, fallback and verifier; a retry that is not the last |
| `Callers`, `Threshold`, `Window`, `OpenDuration`, `MaxTime` | any, 5, 60 s, 30 s, any | 3, 2, 3, 1, 6 | failures that leave the window before the threshold, two openings, a result that comes after one |
| `MaxUpdates`, `MaxEvents` (`TelegramBot`) | any | 2, 3 | an update that comes again beside a newer one; messages, crashes, switches and late answers count together |

| Run | Shows |
|---|---|
| `lots` | one run, three suppliers, demo and production: `RegulatoryGate`, `AuditLagsByOne`, `ImplementsLifecycle`, `RunEnds`; retries, redelivery, recovery: `MessageSettles`, `StuckIsRunAgain` |
| `reruns` | two runs of a lot, reviewers, crashes anywhere: `HumanGate`, `HumanFlagAnnounced`, `ReportBacked`, and the types; the prices of a run, for every order of the list: `FloorKept`, `DearerNotSpared`, `PricesTraceable`, `TopIsBest` |
| `memory` | the catalogue: `RestartAddsNothing`, `PlannerCanMatch`; the router: `PersonalDataKept`, `VerifierApart`; the breaker: `CoolsDown`; the session of a tab: `SessionLasts`, `OutUnlessRenewing`; the table of lots: `WalkShowsAll`, `TenantsAgree` |
| `outgoing` | mails: `WithinLimit`, `RefusedOnlyIfFull`, `ReturnedIsKept`, `SendEnds`; events: `GapsAreOverflows`, `DeadQueuesGo` |
| `mail_polls` | `RowsBounded`, `RoutedAsNamed`, `MailSettles` |
| `sign_ons` | registrations, logins, links and single sign-ons that race: `OwnersKept`, `SettledNames`, `StateSpentOnce`, `LinksOpen` |
| `telegram_updates` | updates that are polled, posted, lost half-way and answered late: `NothingDropped`, `AppliedAsTold`, `UpdateSettles` |
| `decision_overwritten`, `given_up`, `documented_chain`, `login_refused`, `refresh_reused` | a violation each, section 5 |

`lots`, `reruns`, `memory` and `outgoing` put modules side by side that share no state: in
a behaviour one of them moves and the others stand still, so that the number of states is
the sum of theirs and each property is checked as it would be alone.

Each module states its type invariant. That of `LotPipeline` is checked in
`reruns`; those of all modules but `CircuitBreaker` are proved (section 6). The
constrained runs keep to the properties that say more; add `INVARIANT` and the module's
type invariant to a .cfg to check it there.

The run of `lots` uses `PatientSpec`: reviewers wait for the run, since the chain of
statuses is one of an undisturbed lot; section 5 tells what happens otherwise.
Deadlock is not checked: a lot does finish, and so do the bounded mailbox, broker, chat,
tab, catalogue, queues and the requests of `sign_ons`; what must go on is stated as
liveness. `reruns` declares its runs symmetric, `sign_ons` its requests and its
processes; neither checks liveness.

## 4. Fairness

* `LotPipeline` (`PatientSpec`): weak fairness of each run's steps. Every await of a run is an LLM call, an SMTP
  call or a commit, and each ends by its timeout, so a run goes on, ends or raises.
  Reviewers, crashes and new runs are not fair.
* `LotTasks`: weak fairness of a run's saves and its return, as above; of `Age`, since
  time passes; of `RecoverStuck`, which the beat starts every ten minutes; strong
  fairness of `Deliver`, since a Redis list is first in, first out and a worker that is
  busy is free again. Crashes and failures are not fair.
* `EmailSender`: weak fairness of time and of each call's attempt and waking. The death
  of a process is not fair.
* `MailIngest`: weak fairness of each poller's next step: the beat starts a poll every 30
  seconds and its commands end. Arrivals, posts, deletions and accidents are not fair.
* `TelegramBot`: weak fairness of the runner's loop, which polls for ever; of Telegram's
  delivery of each update to the webhook, which it repeats until a 200; of the handling
  of each update, whose HTTP calls have timeouts. Messages, crashes, the switch between
  polling and webhook and late answers are not fair.
* `EventBus`: weak fairness of each WebSocket loop, which waits for an event for at most
  its ping interval. Events, browsers that come and go and slow sends are not fair.
* `LlmRouter`, `CircuitBreaker`, `Catalogue`, `Accounts`, `BrowserSession`, `LotPages`,
  `OfferFlow`: safety only, no fairness.

## 5. Disagreements between the code and its documents

With a run that shows it:

| Run | What it shows |
|---|---|
| `decision_overwritten` | a run's next save puts its status over an approval (`agents/graph.py:122`), which ends a lot's life in `docs/architecture.md:48-49` |
| `given_up` | `self.retry(exc=e)` raises e at the last try, so the lot is never marked failed (`tasks/lot_pipeline.py:36`, 68) |
| `documented_chain` | `docs/architecture.md:47-50` and `METHODOLOGY.md` 6.4 put `responses_collected` between `rfq_sent` and `negotiating`; in production a lot goes from the one to the other (`agents/communicator.py:172-178`, `agents/negotiator.py:23`) |
| `refresh_reused` | `docs/security.md:11` promises "one-time use rotation" of refresh tokens; `refresh` (`api/routes/auth.py:302-331`) notes no token as used, so two requests are renewed with one. `SessionLasts` rests on it: spent tokens would refuse the second of two renewals at once and end the session |
| `login_refused` | the open paths (`api/auth.py:57`) are compared with a path that begins with `/api/v1` (`api/auth.py:107`, `api/main.py:178-193`): outside dev mode sign-in, registration, renewal, the confirmation link and Telegram's webhook need a token. The deployments set `APP_ENV=prod` (`deploy/yc/ansible/cloud-init.yml:22`), the tests `dev` (`tests/conftest.py:13`) |

`Accounts` and `TelegramBot` model dev mode, where those requests are admitted, and
`BrowserSession` has both modes (`dev`).

Met while modelling, without a run of their own:

* The documents escalate a lot on a verifier's low confidence, on a regulatory violation
  and on a budget exceeded by more than 15% (`docs/architecture.md:52-55`), and
  `METHODOLOGY.md` 6.4 lets it end there. In the code only the planner hands a lot over
  (`LotLifecycle!HandOver`); a lot the regulatory filter blocks goes on with its status
  left at `responses_collected` (`agents/negotiator.py:38`), and a low confidence only
  lowers an answer's place in the report.
* RFQs leave for a lot published on a platform (`agents/communicator.py:93`), although
  automatic communication is forbidden there (`agents/regulatory_filter.py:18`): the
  filter is asked before bargaining only, which is what `RegulatoryGate` states.
* The buyer's limit is checked against the total the handler read, which the planner may
  not have saved yet (`api/routes/lots.py:174`).
* `recover_stuck_lots` watches four of the intermediate statuses
  (`tasks/lot_pipeline.py:79`, 48), so `StuckIsRunAgain` speaks of those.
* A confidence of 0 is taken for 0.5 (`agents/verifier.py:65`); `TopIsBest` ranks by the
  score after that.
* `docs/prompts/communicator.md:21` says storing a mail is idempotent, by a UNIQUE
  `rfq_emails.message_id`. The column has an index that is not unique (`db/models.py:191`,
  `alembic/versions/846f921fd198_init.py:168`), and nothing looks for the id first: two
  overlapping polls, or a poll and a post, store a mail twice. `RowsBounded` bounds the
  rows by the pollers and posts instead of one.
* The verifier is to be another model than the primary (`docs/prompts/verifier.md:7`,
  `agents/verifier.py:50`), its fallback included (`llm/router.py:159-160`). The validator
  (`settings.py:53-57`) compares the primary with the verifier only: settings that name
  the primary as `verifier_fallback` are accepted, and then the primary's provider checks
  its own work whenever the verifier fails. `VerifierApart` excepts these settings.
* A call that is to go to `FakeLLM` is not masked; if `FakeLLM` raises (`llm/fake.py:101`), its
  fallback is sent the prompt unmasked (`llm/router.py:122`, 175). `PersonalDataKept` speaks of the
  other calls.
* Every start adds the whole file of purchases again (`db/seed.py:95-122`), unlike
  customers, items and suppliers, which `RestartAddsNothing` speaks of.
* A verification link is said to be good for 24 hours (`email_service/sender.py:153`). The
  token has no time (`api/routes/auth.py:410-415`): it opens until it is confirmed or
  replaced. A second send replaces it before its own mail is sent, and when that mail is
  refused, dumped or lost with its process, no delivered link opens the address any
  more; `LinksOpen` excepts that case, in which `send_verify_email` even answers "sent" for
  a mail that was dumped.
* `/escalate` answers that the operators are notified whether or not the call that
  notifies them was made (`bot/telegram_bot.py:186`).
* A start that loses a race for a catalogue row leaves its own in-memory index empty
  (`api/main.py:104-118`); `PlannerCanMatch` speaks of Qdrant that answers.
* An answer to a renewal that arrives after a sign-out signs in again
  (`frontend/src/api/client.ts:43-46`); `OutUnlessRenewing` excepts it.
* A page is counted in one query and listed in another, so that a lot created in between
  shifts the pages (`api/routes/lots.py:101`), and the answer of an earlier query that
  comes late replaces the page in view (`frontend/src/pages/Lots.tsx:42-48`);
  `WalkShowsAll` speaks of readers who are not disturbed so.

## 6. Proofs

All are for any values of the constants that satisfy the assumptions named in the module.
Every invariant and every action property of the runs that pass is the statement of a
theorem; what is left to TLC alone is at the end of this section.

`LotPipeline_proofs`, for any number of runs and suppliers, any categories, totals and limits:

| Theorem | Strengthening, and why |
|---|---|
| `TypeCorrect` | none |
| `HumanGateHolds` | `AtWork`, `NothingSent`, `GateClosed`: mails are tagged with their run, and a run that asked for a human is past the planner only at the gate, with nothing sent; the invariant itself says nothing of what such a run may still do |
| `RegulatoryGateHolds` | `NotStarted`, `NothingBargained`, `Lawful`: the filter is asked once before a loop, so the answer has to be carried through every round, while other runs overwrite the row |
| `AuditTrailHolds` | the same, with the row whose audit is pending tied to the point where its run stands |
| `HumanFlagIsAnnounced` | `Tells`: who is past its announcement has told; with the gate's invariant a run that saves the flag is such a run |
| `ReportIsBacked` | `Collected`, `Checked`, `Backed`: the report is built in memory from what the run itself stored; rows only grow and a run moves alone (`RowsGrow`, `OneRunMoves`), so what was true of a run's rows stays true while others move |
| `LifecycleHolds` | the refinement of `LotLifecycle`, for one run and reviewers who wait for it (`PatientSpec`). `Placed`: where the run stands tells the status in the row (`Stage`), what it is about to save is the next link (`Link`), the row's flag is the run's since its first save (`Flag`), answers and report are empty until their time (`Parts`). Each save is then a link, a hand-over, a publication or nothing |

`EmailSender_proofs`, for any number of calls, processes and recipients and any limit, window
and number of attempts:

| Theorem | Strengthening, and why |
|---|---|
| `TypeCorrect` | `SleepersMayTry`: who sleeps has an attempt left, otherwise waking would go past the last |
| `LimitHolds` | `WindowFaithful`: the code compares the length of its own list; the list has to hold every recent call of a living process, and nothing else, before its length says anything of the calls. Cardinalities by the library's theorems on finite sets |
| `RefusalsEarned` | the other half of `WindowFaithful`, through an action |
| `ReturnedIsKeptHolds` | inductive with the types |

`LotTasks_proofs`, for any number of workers, messages, retries and losses: `TasksTypeCorrect`,
inductive by itself.

`ApiMemory_proofs`, for any providers, prompts, answers, retries, callers and times, any
number of starts and lines of the catalogue, and any processes, browsers, events and capacity
of a queue:

| Theorem | Strengthening, and why |
|---|---|
| `RouterTypeCorrect` | none |
| `PersonalDataStays` | `Asked`, `Fresh`: a call at work has a prompt and attempts left, and one that has not begun has no answer |
| `VerifierStaysApart` | `AnsweredByRole`: by which provider each kind of call can have been answered |
| `CoolsDownHolds` | `Times`, `OpenSinceTrip`: the breaker is open since the time at which the threshold was reached, unless a success came |
| `RestartsAddNothing` | `Closed`: once a start began over a complete catalogue nobody is about to add a customer, so the customers stay those it is complete for; `FoundAll`: such a start finds no line missing; `Seeds`, `Owners`: who seeds has a customer, who is not there owns nothing |
| `CatalogueTypeCorrect` | `Seeds`, as above, and `IndexTypes` of what seeds say nothing of: the rows a start read are what it fills a collection or its memory with |
| `PlannerFinds` | `Order`, `Reached`: while nothing fails, the collection of the items is created first and by one start, and each item is indexed already, or is about to be by a start that has not read the rows yet or has read this one: whoever loses a race leaves the index to one that won it |
| `BusTypeCorrect` | none |
| `NoGapButOverflow` | `OncePublished`, `NoOtherGap`: what was sent and what waits remain of the publications, in order, and an event that is yet to be published is in neither. `Remains` says so by a place for each that is left, which two lemmas extend by one event, kept or refused |

`Telegram_proofs`, for any number of updates, losses of a process, switches between polling
and webhook, and late answers:

| Theorem | Strengthening, and why |
|---|---|
| `BotTypeCorrect` | `Carries`, `Ordered`: what a handling carries where it waits, and that updates are written in order and no offset passes one that is not written yet |
| `NothingIsDropped` | `Ahead`: an update that is told and not handled is the runner's, is in its batch, or is still to be asked for, so that no offset passes it |
| `CommandsAreAppliedAsTold` | `PaidFor`: the effects of an update, its open requests and the deliveries that may still start one are together at most one more than the faults so far; `Truthful`: who says "created" has seen the effect |

`Session_proofs`, of `Accounts` for any number of requests, processes, addresses and providers, and
of `BrowserSession` for any number of requests and pairs of tokens:

| Theorem | Strengthening, and why |
|---|---|
| `AccountsTypeCorrect` | `Carries`: what a request carries where it waits, without which its insert would have no type |
| `StateIsSpentOnce` | `StatesInv`: a state in the memory of a process was issued there, for that provider, and was not exchanged |
| `LinksStayOpen` | `Stored`: a request that is about to send a mail has stored its token before; `Link`: the token of an address is that of a send to it, told by where that request stands, so that nothing another request does can change it (`LinkStays`); an address that opens does so after every step (`OpensStays`) |
| `OwnersAreKept` | `MadeOnce`: a request makes one customer, none before it commits one, and gives it to the user it is about to insert; who owned a customer keeps it |
| `NamesAreSettled` | `MadeOnce`, `LookedBefore`: what a sign-on looked at were customers then, none of the name it adds |
| `SessionTypeCorrect` | none |
| `OutStaysOut` | `OutForGood`: in a tab that is out, nothing is left that could store a pair again |
| `SessionLastsHolds` | `Lasting`, with `Sound` of every request: none fails or is refused a renewal meanwhile, and what is about to be stored is a pair that is good |

`Buyer_proofs`, of `LotPages` for any number of readers, tenants, requests and lots and any size
of a page:

| Theorem | Strengthening, and why |
|---|---|
| `PagesTypeCorrect` | `Used`: a request that is not free is some reader's, otherwise an answer would have no view to go to |
| `OneTenant` | `Tenants`: not only what a reader sees, what any request of his has read is his to see; a row keeps its customer and stays, so it is still when the answer comes (`RowsChange`, `StillMatches`) |
| `NoLotMissed` | `Orderly`: a walk has one request at a time (`Alone`) for the page chosen (`Asked`). While the table stands still it has shown the first pages of the list, a request brings the next (`Stands`). When lots are created a lot moves back in the list and never to the front, so what was on the pages so far has been shown (`Misses`, `On`, `NoFurther`), and on the page the count calls the last all of them, unless the list had grown since the count |

The list is defined by the place of each lot, the number of newer ones, which on the
instances of TLC is the list filtered and reversed; `Ranks` shows that each place is taken
once, `OnePageMore` and `AllPages` that the pages put together are the list.

The same module, of `OfferFlow` for any number of offers, prices, discounts and scores:
`OfferTypeCorrect`, with `MoneyTypes` of the list, the typical total and the scores, which the
report is built from; `FloorIsKept`, `DearerIsNotSpared`, `PricesAreTraceable` from `BargainInv` (what has been
bargained so far, in the order of the list), `TopIsTheBest` from `Scored` and `Built`. The
order of the report is defined by the place of each answer; that places are those of a
sorted list rests on the lemmas about ranks, with the least element of a finite set from
the library's well-founded induction.

`MailIngest_proofs`, for any number of mails, pollers, posts and offers:

| Theorem | Strengthening, and why |
|---|---|
| `MailTypeCorrect` | `AtWork`: the mail a poller has in hand has arrived |
| `RowsRouted` | `Routed`: a mail keeps what it says, and no row comes before it |
| `MailStoredBoundedly` | `Fetched`, `Pending`, `Bounded`: who is about to store a mail has fetched it and will not again, a mail nobody fetched has the rows of its posts only, and rows and pollers that may still add one are together within the bound |

Only model-checked: the liveness properties (`RunEnds`, `MessageSettles`, `StuckIsRunAgain`,
`SendEnds`, `MailSettles`, `UpdateSettles`, `DeadQueuesGo`), since the prover handles neither
ENABLED nor fairness, and the type invariant of `CircuitBreaker`, whose window is a
`SelectSeq`, defined by recursion.

## 7. Not modelled

* LLM providers, what prompts and parsers do with their text: any answer is possible in the models.
* Export, notifications, the Streamlit page, the other pages of the frontend (but for
  when a lot may be approved, `Quiet`): display, or one form and one answer.
* Passwords, rate limits of a login, the layout of a JWT; embeddings and the scores of a search.
* The row-level policies of `alembic/`: the application makes its tables by `create_all`,
  before the seeds, and sets no tenant in the connection.
* Counters of the metering service other than the router's: nothing in the code reads or
  resets them on a schedule.
* Row-level behaviour of the database below one commit: each repository call is one
  transaction, READ COMMITTED, and updates name their columns.
* The loss of messages by Redis, and of the disk.

## 8. Plan

1. `LotTasks` and `LotPipeline` as one system, each message a whole run; `lots` has them
   side by side only.
2. The page of one lot in the browser, with the events of `EventBus` beside the answers of
   the API.
