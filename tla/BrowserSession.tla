---------------------------- MODULE BrowserSession ----------------------------
(***************************************************************************)
(* A user's session in one browser tab: the tokens in localStorage, the    *)
(* interceptor that renews them and sends a refused request again          *)
(* (frontend/src/api/client.ts), the signed-in user of React               *)
(* (frontend/src/context/AuthContext.tsx), and what the API makes of the   *)
(* tokens (api/auth.py, api/security.py, /login, /refresh and /me of       *)
(* api/routes/auth.py).                                                    *)
(*                                                                         *)
(* The access and the refresh token are issued, stored and removed         *)
(* together, so a pair of them is a number, 0 for none.  A request and its *)
(* answer each take their time; the handler of an answer runs to its end.  *)
(* The user is in the table and active, and never sends the API key.       *)
(***************************************************************************)
EXTENDS Naturals, FiniteSets

CONSTANTS
    Fetches,    \* bound: requests the tab sends
    MaxPairs,   \* bound: pairs of tokens issued
    MaxFaults   \* bound: answers lost, or with a status of 500

ASSUME SessionAssumption == MaxPairs \in Nat /\ MaxFaults \in Nat

VARIABLES
    dev,          \* app_env is "dev" and api_key begins with "dev-"
    stored,       \* the pair in localStorage
    account,      \* AuthContext holds a user
    request,      \* the requests
    pairs,        \* pairs issued so far
    dead,         \* pairs whose access token has expired
    deadRefresh,  \* pairs whose refresh token has expired
    faults,
    session,      \* none yet, in or out: what the user did last (history)
    renewals      \* refreshes under way when the user signed out (history)

serverVars == <<dev, pairs, dead, deadRefresh>>
sessionHistory == <<session, renewals>>
sessionVars == <<serverVars, stored, account, request, faults, sessionHistory>>

Pairs == 1..MaxPairs

\* On their way: the request; its answer; the refresh; its answer.
InFlight == {"sent", "ok", "denied", "failed", "refreshing", "renewed", "refused"}

\* "wrong" is a sign-in with a wrong password, "data" any other call.
Request ==
    [at : InFlight \cup {"idle", "done", "rejected"},
     kind : {"me", "login", "wrong", "data"},
     bearer : 0..MaxPairs,   \* access token in its header
     retried : BOOLEAN,      \* _retry
     refresh : 0..MaxPairs,  \* refresh token sent for it
     got : 0..MaxPairs]      \* pair in the answer

Unsent == [at |-> "idle", kind |-> "data", bearer |-> 0, retried |-> FALSE,
           refresh |-> 0, got |-> 0]

SessionTypeOK ==
    /\ dev \in BOOLEAN /\ account \in BOOLEAN
    /\ stored \in 0..MaxPairs
    /\ request \in [Fetches -> Request]
    /\ pairs \in 0..MaxPairs
    /\ deadRefresh \subseteq dead /\ dead \subseteq 1..pairs
    /\ faults \in 0..MaxFaults
    /\ session \in {"none", "in", "out"}
    /\ renewals \subseteq Fetches

SessionInit ==
    /\ dev \in BOOLEAN
    /\ stored = 0
    /\ account = FALSE
    /\ request = [i \in Fetches |-> Unsent]
    /\ pairs = 0
    /\ dead = {}
    /\ deadRefresh = {}
    /\ faults = 0
    /\ session = "none"
    /\ renewals = {}

-----------------------------------------------------------------------------
(***************************************************************************)
(* The API.                                                                *)
(***************************************************************************)
\* require_principal: a token that is good, or no token at all in dev mode.
\* No path of _OPEN_PATHS begins with /api/v1, where all of these are mounted.
Admitted(bearer) == IF bearer = 0 THEN dev ELSE bearer \notin dead

Issue(i) ==
    /\ pairs < MaxPairs
    /\ pairs' = pairs + 1
    /\ request' = [request EXCEPT ![i] =
                      [request[i] EXCEPT !.at = IF request[i].at = "sent" THEN "ok" ELSE "renewed",
                                         !.got = pairs + 1]]

Deny(i) ==
    /\ request' = [request EXCEPT ![i].at = IF @ = "sent" THEN "denied" ELSE "refused"]
    /\ UNCHANGED pairs

\* The dependency of the application, then the handler.
Serve(i) ==
    /\ request[i].at = "sent"
    /\ IF ~Admitted(request[i].bearer) \/ request[i].kind = "wrong"
       THEN Deny(i)
       ELSE IF request[i].kind = "login"
            THEN Issue(i)
            ELSE /\ request' = [request EXCEPT ![i].at = "ok"]
                 /\ UNCHANGED pairs
    /\ UNCHANGED <<dev, dead, deadRefresh, stored, account, faults, sessionHistory>>

\* The refresh carries no Authorization header; the token before stays good.
ServeRefresh(i) ==
    /\ request[i].at = "refreshing"
    /\ IF Admitted(0) /\ request[i].refresh \notin deadRefresh THEN Issue(i) ELSE Deny(i)
    /\ UNCHANGED <<dev, dead, deadRefresh, stored, account, faults, sessionHistory>>

\* No answer, or the global exception handler's.
Fault(i) ==
    /\ faults < MaxFaults
    /\ faults' = faults + 1
    /\ request[i].at \in {"sent", "refreshing"}
    /\ request' = [request EXCEPT ![i].at = IF @ = "sent" THEN "failed" ELSE "refused"]
    /\ UNCHANGED <<serverVars, stored, account, sessionHistory>>

\* 15 minutes after the pair was issued; a request sent again with a new token
\* is answered before that.
Expire(n) ==
    /\ n \in 1..pairs \ dead
    /\ \A i \in Fetches :
          request[i].at \in {"renewed", "sent"} /\ request[i].retried => request[i].got # n
    /\ dead' = dead \cup {n}
    /\ UNCHANGED <<dev, pairs, deadRefresh, stored, account, request, faults, sessionHistory>>

\* 7 days after.
ExpireRefresh(n) ==
    /\ n \in dead \ deadRefresh
    /\ deadRefresh' = deadRefresh \cup {n}
    /\ UNCHANGED <<dev, pairs, dead, stored, account, request, faults, sessionHistory>>

-----------------------------------------------------------------------------
(***************************************************************************)
(* The tab.                                                                *)
(***************************************************************************)
\* The page is left: what was under way is dropped, and with it the user.
Dropped(f) == [i \in Fetches |-> IF f[i].at \in InFlight THEN [f[i] EXCEPT !.at = "done"] ELSE f[i]]

Sent(kind) == [Unsent EXCEPT !.at = "sent", !.kind = kind, !.bearer = stored]

\* The page is opened or loaded again, and AuthProvider asks who is signed in.
Load(i) ==
    /\ request[i].at = "idle"
    /\ account' = FALSE
    /\ request' = IF stored = 0 THEN Dropped(request)
                  ELSE [Dropped(request) EXCEPT ![i] = Sent("me")]
    /\ UNCHANGED <<serverVars, stored, faults, sessionHistory>>

\* The form of Login.tsx, or a page behind ProtectedRoute.
Submit(i, kind) ==
    /\ request[i].at = "idle"
    /\ kind = "data" => account
    /\ request' = [request EXCEPT ![i] = Sent(kind)]
    /\ UNCHANGED <<serverVars, stored, account, faults, sessionHistory>>

SignedIn(i) ==
    /\ stored' = request[i].got
    /\ session' = "in"
    /\ renewals' = {}

Receive(i) ==
    /\ request[i].at = "ok"
    /\ request' = [request EXCEPT ![i].at = "done"]
    /\ account' = (account \/ request[i].kind \in {"me", "login"})
    /\ IF request[i].kind = "login" THEN SignedIn(i) ELSE UNCHANGED <<stored, sessionHistory>>
    /\ UNCHANGED <<serverVars, faults>>

\* fetchMe's catch: any error ends the session.
Caught(i) == request[i].kind = "me"

\* window.location.href = '/login', once the caller's catch has run.
ToLogin(i) ==
    /\ account' = FALSE
    /\ request' = [Dropped(request) EXCEPT ![i].at = "rejected"]

\* The first 401 of a request: renew the pair, or sign in again.
Denied(i) ==
    /\ request[i].at = "denied"
    /\ ~request[i].retried
    /\ IF stored # 0
       THEN /\ request' = [request EXCEPT ![i] =
                              [request[i] EXCEPT !.at = "refreshing", !.retried = TRUE,
                                                 !.refresh = stored]]
            /\ UNCHANGED account
       ELSE ToLogin(i)
    /\ UNCHANGED <<serverVars, stored, faults, sessionHistory>>

\* An error of another kind, or the second 401, is the caller's.
Rejected(i) ==
    /\ \/ request[i].at = "failed"
       \/ request[i].at = "denied" /\ request[i].retried
    /\ request' = [request EXCEPT ![i].at = "rejected"]
    /\ stored' = IF Caught(i) THEN 0 ELSE stored
    /\ account' = (account /\ ~Caught(i))
    /\ UNCHANGED <<serverVars, faults, sessionHistory>>

\* Mutant: the request goes out again as it was.
SentAsBefore(q) == [q EXCEPT !.at = "sent"]

\* return api(originalRequest), with the new access token in its header.
SentAgain(q) == [q EXCEPT !.at = "sent", !.bearer = q.got]

Renewed(i) ==
    /\ request[i].at = "renewed"
    /\ stored' = request[i].got
    /\ request' = [request EXCEPT ![i] = SentAgain(@)]
    /\ UNCHANGED <<serverVars, account, faults, sessionHistory>>

\* The catch around the refresh.
Refused(i) ==
    /\ request[i].at = "refused"
    /\ stored' = 0
    /\ ToLogin(i)
    /\ UNCHANGED <<serverVars, faults, sessionHistory>>

\* Mutant: only the user is forgotten.
Kept == stored

\* What logout leaves in localStorage.
Left == 0

Logout ==
    /\ account
    /\ account' = FALSE
    /\ stored' = Left
    /\ session' = "out"
    /\ renewals' = {i \in Fetches : request[i].at \in {"refreshing", "renewed"}}
    /\ UNCHANGED <<serverVars, request, faults>>

-----------------------------------------------------------------------------
SessionNext ==
    \/ \E i \in Fetches :
          \/ Serve(i) \/ ServeRefresh(i) \/ Fault(i)
          \/ Load(i) \/ Receive(i) \/ Denied(i) \/ Rejected(i) \/ Renewed(i) \/ Refused(i)
          \/ \E kind \in {"login", "wrong", "data"} : Submit(i, kind)
    \/ \E n \in Pairs : Expire(n) \/ ExpireRefresh(n)
    \/ Logout

SessionSpec == SessionInit /\ [][SessionNext]_sessionVars

-----------------------------------------------------------------------------
(***************************************************************************)
(* What must hold.                                                         *)
(***************************************************************************)
\* The end of an access token never ends a session: in dev mode, while no
\* answer is lost and no refresh token has expired, a tab whose user signed in
\* and did not sign out keeps its tokens, however many of its requests find the
\* old token expired at once, and whatever pages it loads meanwhile.  This
\* rests on a refresh token being good for any number of renewals until it
\* expires (routes/auth.py:302-331), against RefreshSpentOnce.
SessionLasts ==
    dev /\ faults = 0 /\ deadRefresh = {} /\ session = "in" => stored # 0

\* Who signed out is out, until a new sign-in, unless a refresh was under way
\* when the user did: its answer puts new tokens back (client.ts:43-46).
OutUnlessRenewing ==
    session = "out" /\ renewals = {} => stored = 0

\* docs/security.md:11 says of refresh tokens "one-time use rotation": no two
\* requests are renewed with one of them.
RefreshSpentOnce ==
    \A i, j \in Fetches :
        /\ i # j /\ request[i].retried /\ request[j].retried
        /\ request[i].got # 0 /\ request[j].got # 0
        => request[i].refresh # request[j].refresh

\* Signing in asks for no credentials: api/auth.py:62-73 lists "/auth/login"
\* among the paths that need none.
LoginIsOpen ==
    \A i \in Fetches : request[i].kind = "login" => request[i].at # "denied"

=============================================================================
