------------------------------- MODULE Accounts -------------------------------
(***************************************************************************)
(* Who may sign in: registration, the demo account, users made by an admin,*)
(* single sign-on through OAuth2 and SAML, and the confirmation of an      *)
(* e-mail address (api/routes/auth.py, api/sso/, UserRepo, CustomerRepo).  *)
(*                                                                         *)
(* A request is a handler of one API process; it gives way at every await  *)
(* of the database, the identity provider or the mail server, and each     *)
(* commit is one step.  A customer row is known by the request that made   *)
(* it.  Passwords are right, demo_mode is on, and addresses are compared   *)
(* in lower case, as the code stores them.  APP_ENV is dev, where requests *)
(* without a token are admitted.                                           *)
(***************************************************************************)
EXTENDS Naturals, FiniteSets

CONSTANTS
    Requests,    \* bound: requests that are served
    Workers,     \* API processes
    Addresses,   \* e-mail addresses
    Demo,        \* demo@snabagent.ru
    Providers,   \* OAuth2 providers
    States,      \* bound: OAuth2 sign-ons begun
    Names,       \* names of customers
    DemoName,    \* "Demo Company"
    Companies,   \* names given at registration
    SsoName,     \* name made of the identity provider and the address
    DemoLots,    \* rows _seed_demo_lots adds
    MaxCrashes,  \* bound: processes lost
    None

ASSUME AddressAssumption == Demo \in Addresses /\ None \notin Addresses \cup Requests
ASSUME IdpAssumption ==
    Providers \cap {"saml", "register", "demo", "create", "login", "send", "verify"} = {}
ASSUME NameAssumption ==
    /\ DemoName \in Names
    /\ Companies \subseteq Names
    /\ SsoName \in [(Providers \cup {"saml"}) \X Addresses -> Names]
ASSUME NoneAssumption ==
    None \notin [customer : Requests \cup {None}, verified : BOOLEAN, token : Requests \cup {None}]
ASSUME NumberAssumption == DemoLots \in Nat /\ MaxCrashes \in Nat

VARIABLES
    user,       \* row of users of each address, or None
    customers,  \* rows of customers: name and the request that made it
    lots,       \* lots of the demo customer
    signedIn,   \* addresses with last_login_at
    store,      \* _state_store of each process
    issued,     \* sign-ons begun (history)
    exchanged,  \* codes sent to a token_url (history)
    mails,      \* verification mails the server took
    pc, kind, at, addr, name, cust,
                \* each request: where it is, what it does, its process,
                \* address, customer name and customer
    looked,     \* customers there when it looked for the name (history)
    crashes

rows == <<user, customers, lots, signedIn>>
sso == <<store, issued, exchanged>>
vars == <<rows, sso, mails, pc, kind, at, addr, name, cust, looked, crashes>>

Idps == Providers \cup {"saml"}
Kinds == {"register", "demo", "create", "login", "send", "verify"} \cup Idps
Waiting == {"insert", "insertUser", "seed", "touch", "token", "mail", "confirm",
            "exchange", "find", "addCustomer"}
Ends == {"ok", "refused", "error", "dumped", "lost"}
User == [customer : Requests \cup {None}, verified : BOOLEAN, token : Requests \cup {None}]

AccountsTypeOK ==
    /\ user \in [Addresses -> User \cup {None}]
    /\ customers \subseteq [by : Requests, name : Names]
    /\ lots \in Nat
    /\ signedIn \subseteq Addresses
    /\ store \in [Workers -> SUBSET [state : States, provider : Providers]]
    /\ issued \subseteq [state : States, provider : Providers, at : Workers]
    /\ exchanged \subseteq [state : States, provider : Providers, at : Workers, by : Requests]
    /\ mails \subseteq [to : Addresses, token : Requests]
    /\ pc \in [Requests -> {"idle"} \cup Waiting \cup Ends]
    /\ kind \in [Requests -> Kinds \cup {None}]
    /\ at \in [Requests -> Workers \cup {None}]
    /\ addr \in [Requests -> Addresses \cup {None}]
    /\ name \in [Requests -> Names \cup {None}]
    /\ cust \in [Requests -> Requests \cup {None}]
    /\ looked \in [Requests -> SUBSET Requests]
    /\ crashes \in 0..MaxCrashes

NewUser(c, verified) == [customer |-> c, verified |-> verified, token |-> None]

\* Users seed_users.py made are there; their customers are left out.
AccountsInit ==
    /\ user \in [Addresses -> {None, NewUser(None, FALSE)}]
    /\ user[Demo] = None
    /\ customers = {}
    /\ lots = 0
    /\ signedIn = {}
    /\ store = [w \in Workers |-> {}]
    /\ issued = {}
    /\ exchanged = {}
    /\ mails = {}
    /\ pc = [r \in Requests |-> "idle"]
    /\ kind = [r \in Requests |-> None]
    /\ at = [r \in Requests |-> None]
    /\ addr = [r \in Requests |-> None]
    /\ name = [r \in Requests |-> None]
    /\ cust = [r \in Requests |-> None]
    /\ looked = [r \in Requests |-> {}]
    /\ crashes = 0

-----------------------------------------------------------------------------
(***************************************************************************)
(* Requests.                                                               *)
(***************************************************************************)
Known(a) == user[a] # None

\* Request r reaches process w; its first read decides where it waits or ends.
Arrive(r, w, k, a, n, c, to) ==
    /\ pc[r] = "idle"
    /\ pc' = [pc EXCEPT ![r] = to]
    /\ kind' = [kind EXCEPT ![r] = k]
    /\ at' = [at EXCEPT ![r] = w]
    /\ addr' = [addr EXCEPT ![r] = a]
    /\ name' = [name EXCEPT ![r] = n]
    /\ cust' = [cust EXCEPT ![r] = c]

Goto(r, from, to) ==
    /\ pc[r] = from
    /\ pc' = [pc EXCEPT ![r] = to]

Register(r, w, a, n) ==
    /\ Arrive(r, w, "register", a, n, None, IF Known(a) THEN "refused" ELSE "insert")
    /\ UNCHANGED <<rows, sso, mails, looked, crashes>>

\* The demo address is taken as it is: no row, and one is made on the spot.
DemoLogin(r, w) ==
    /\ Arrive(r, w, "demo", Demo, DemoName, None, IF Known(Demo) THEN "ok" ELSE "insert")
    /\ UNCHANGED <<rows, sso, mails, looked, crashes>>

Login(r, w, a) ==
    /\ a # Demo
    /\ Arrive(r, w, "login", a, None, None, IF Known(a) THEN "touch" ELSE "refused")
    /\ UNCHANGED <<rows, sso, mails, looked, crashes>>

\* An admin names the customer of a new user, or none.
CreateUser(r, w, a, c) ==
    /\ c \in {x.by : x \in customers} \cup {None}
    /\ Arrive(r, w, "create", a, None, c, IF Known(a) THEN "refused" ELSE "insertUser")
    /\ UNCHANGED <<rows, sso, mails, looked, crashes>>

SamlAcs(r, w, a) ==
    /\ Arrive(r, w, "saml", a, SsoName["saml", a], None, IF Known(a) THEN "ok" ELSE "find")
    /\ UNCHANGED <<rows, sso, mails, looked, crashes>>

SendVerify(r, w, a) ==
    /\ Known(a)
    /\ Arrive(r, w, "send", a, None, None, IF user[a].verified THEN "ok" ELSE "token")
    /\ UNCHANGED <<rows, sso, mails, looked, crashes>>

\* by_verify_token: the link of a mail is opened.
VerifyEmail(r, w, m) ==
    /\ m \in mails
    /\ LET found == Known(m.to) /\ user[m.to].token = m.token
       IN  Arrive(r, w, "verify", m.to, None, None, IF found THEN "confirm" ELSE "refused")
    /\ UNCHANGED <<rows, sso, mails, looked, crashes>>

-----------------------------------------------------------------------------
(***************************************************************************)
(* Commits.  users.email is unique: of two inserts the later one fails,    *)
(* and everything of its transaction with it.                              *)
(***************************************************************************)
\* Mutant: the customer is committed before the user.
CustomersApart(r) == customers \cup {[by |-> r, name |-> name[r]]}

\* The customers once the transaction of request r has ended.
CustomersWith(r) ==
    IF Known(addr[r]) THEN customers ELSE customers \cup {[by |-> r, name |-> name[r]]}

AfterInsert(r) ==
    IF Known(addr[r]) THEN "error" ELSE IF kind[r] = "demo" THEN "seed" ELSE "ok"

\* Customer and user of a registration, or of the demo account, at once.
InsertBoth(r) ==
    /\ Goto(r, "insert", AfterInsert(r))
    /\ customers' = CustomersWith(r)
    /\ user' = IF Known(addr[r]) THEN user
               ELSE [user EXCEPT ![addr[r]] = NewUser(r, FALSE)]
    /\ UNCHANGED <<lots, signedIn, sso, mails, kind, at, addr, name, cust, looked, crashes>>

\* The user alone: its customer is committed, or there is none.
InsertUser(r) ==
    /\ Goto(r, "insertUser", IF Known(addr[r]) THEN "error" ELSE "ok")
    /\ user' = IF Known(addr[r]) THEN user
               ELSE [user EXCEPT ![addr[r]] = NewUser(cust[r], kind[r] \in Idps)]
    /\ UNCHANGED <<customers, lots, signedIn, sso, mails, kind, at, addr, name, cust, looked, crashes>>

SeedDemoLots(r) ==
    /\ Goto(r, "seed", "ok")
    /\ lots' = lots + DemoLots
    /\ UNCHANGED <<user, customers, signedIn, sso, mails, kind, at, addr, name, cust, looked, crashes>>

TouchLastLogin(r) ==
    /\ Goto(r, "touch", "ok")
    /\ signedIn' = signedIn \cup {addr[r]}
    /\ UNCHANGED <<user, customers, lots, sso, mails, kind, at, addr, name, cust, looked, crashes>>

\* A token of its own for every send; it takes the place of the one before.
StoreToken(r) ==
    /\ Goto(r, "token", "mail")
    /\ user' = [user EXCEPT ![addr[r]].token = r]
    /\ UNCHANGED <<customers, lots, signedIn, sso, mails, kind, at, addr, name, cust, looked, crashes>>

\* The mail server takes the mail; its answer may be late, or lost with the process.
Delivered(r) ==
    /\ pc[r] = "mail" /\ [to |-> addr[r], token |-> r] \notin mails
    /\ mails' = mails \cup {[to |-> addr[r], token |-> r]}
    /\ UNCHANGED <<rows, sso, pc, kind, at, addr, name, cust, looked, crashes>>

\* send_verification_email: sent; refused for the rate limit before any attempt;
\* or written to the disk once the attempts failed, which the caller is not told.
Mail(r) ==
    /\ \/ Goto(r, "mail", "ok") /\ [to |-> addr[r], token |-> r] \in mails
       \/ Goto(r, "mail", "error") /\ [to |-> addr[r], token |-> r] \notin mails
       \/ Goto(r, "mail", "dumped")
    /\ UNCHANGED <<rows, sso, mails, kind, at, addr, name, cust, looked, crashes>>

\* Mutant: the token is cleared, the address not marked.
ClearedOnly(u) == [u EXCEPT !.token = None]

Verified(u) == [u EXCEPT !.verified = TRUE, !.token = None]

Confirm(r) ==
    /\ Goto(r, "confirm", "ok")
    /\ user' = [user EXCEPT ![addr[r]] = Verified(@)]
    /\ UNCHANGED <<customers, lots, signedIn, sso, mails, kind, at, addr, name, cust, looked, crashes>>

-----------------------------------------------------------------------------
(***************************************************************************)
(* Single sign-on.  A state is kept by the process that began the sign-on  *)
(* and is taken out before the code is exchanged.                          *)
(***************************************************************************)
Oauth2Login(w, s, p) ==
    /\ s \notin {i.state : i \in issued}
    /\ store' = [store EXCEPT ![w] = @ \cup {[state |-> s, provider |-> p]}]
    /\ issued' = issued \cup {[state |-> s, provider |-> p, at |-> w]}
    /\ UNCHANGED <<rows, exchanged, mails, pc, kind, at, addr, name, cust, looked, crashes>>

\* Mutant: the state is read and left in the store.
StoreRead(w, s) == store[w]

\* _state_store.pop(state, None)
StoreLeft(w, s) == {x \in store[w] : x.state # s}

\* The callback may come to any process, late, again or for another provider.
Oauth2Callback(r, w, s, p) ==
    /\ LET entry == [state |-> s, provider |-> p]
           valid == entry \in store[w]
       IN  /\ Arrive(r, w, p, None, None, None, IF valid THEN "exchange" ELSE "refused")
           /\ store' = [store EXCEPT ![w] = StoreLeft(w, s)]
           /\ exchanged' = IF valid
                           THEN exchanged \cup {[state |-> s, provider |-> p, at |-> w, by |-> r]}
                           ELSE exchanged
    /\ UNCHANGED <<rows, issued, mails, looked, crashes>>

\* The provider answers with an address, and the user is looked up.
UserInfo(r, a) ==
    /\ Goto(r, "exchange", IF Known(a) THEN "ok" ELSE "find")
    /\ addr' = [addr EXCEPT ![r] = a]
    /\ name' = [name EXCEPT ![r] = SsoName[kind[r], a]]
    /\ UNCHANGED <<rows, sso, mails, kind, at, cust, looked, crashes>>

\* A status other than 200, or no address in the answer.
ExchangeFails(r) ==
    /\ Goto(r, "exchange", "error")
    /\ UNCHANGED <<rows, sso, mails, kind, at, addr, name, cust, looked, crashes>>

\* Mutant: get_or_create always creates.
NamedNone(n) == {}

Named(n) == {c \in customers : c.name = n}

\* get_or_create: the name is looked up, any of its rows is taken ...
FindCustomer(r) ==
    /\ looked' = [looked EXCEPT ![r] = {c.by : c \in customers}]
    /\ \/ \E c \in Named(name[r]) :
             /\ Goto(r, "find", "insertUser")
             /\ cust' = [cust EXCEPT ![r] = c.by]
       \/ /\ Named(name[r]) = {}
          /\ Goto(r, "find", "addCustomer")
          /\ UNCHANGED cust
    /\ UNCHANGED <<rows, sso, mails, kind, at, addr, name, crashes>>

\* ... and a row committed when there was none.
AddCustomer(r) ==
    /\ Goto(r, "addCustomer", "insertUser")
    /\ customers' = customers \cup {[by |-> r, name |-> name[r]]}
    /\ cust' = [cust EXCEPT ![r] = r]
    /\ UNCHANGED <<user, lots, signedIn, sso, mails, kind, at, addr, name, looked, crashes>>

\* A process is lost with its requests and its store.
Crash(w) ==
    /\ crashes < MaxCrashes
    /\ crashes' = crashes + 1
    /\ store' = [store EXCEPT ![w] = {}]
    /\ pc' = [r \in Requests |-> IF at[r] = w /\ pc[r] \in Waiting THEN "lost" ELSE pc[r]]
    /\ UNCHANGED <<rows, issued, exchanged, mails, kind, at, addr, name, cust, looked>>

-----------------------------------------------------------------------------
Comes(r, w) ==
    \/ \E a \in Addresses, n \in Companies : Register(r, w, a, n)
    \/ DemoLogin(r, w)
    \/ \E a \in Addresses : Login(r, w, a)
    \/ \E a \in Addresses, c \in Requests \cup {None} : CreateUser(r, w, a, c)
    \/ \E a \in Addresses : SamlAcs(r, w, a)
    \/ \E a \in Addresses : SendVerify(r, w, a)
    \/ \E m \in mails : VerifyEmail(r, w, m)
    \/ \E s \in States, p \in Providers : Oauth2Callback(r, w, s, p)

Continues(r) ==
    \/ InsertBoth(r)
    \/ InsertUser(r)
    \/ SeedDemoLots(r)
    \/ TouchLastLogin(r)
    \/ StoreToken(r)
    \/ Delivered(r)
    \/ Mail(r)
    \/ Confirm(r)
    \/ \E a \in Addresses : UserInfo(r, a)
    \/ ExchangeFails(r)
    \/ FindCustomer(r)
    \/ AddCustomer(r)

AccountsNext ==
    \/ \E r \in Requests, w \in Workers : Comes(r, w)
    \/ \E r \in Requests : Continues(r)
    \/ \E w \in Workers, s \in States, p \in Providers : Oauth2Login(w, s, p)
    \/ \E w \in Workers : Crash(w)

AccountsSpec == AccountsInit /\ [][AccountsNext]_vars

-----------------------------------------------------------------------------
(***************************************************************************)
(* What must hold.                                                         *)
(***************************************************************************)
Owned(c) == \E a \in Addresses : Known(a) /\ user[a].customer = c.by

\* A registration that loses the race for its address leaves no customer
\* behind; only a sign-on, which commits the customer first, may: while it is
\* about to insert the user, or when that failed or was lost.
OwnersKept ==
    \A c \in customers :
        \/ Owned(c)
        \/ kind[c.by] \in Idps /\ pc[c.by] \in {"insertUser", "error", "lost"}

\* A state begins one sign-on: its code is exchanged at most once, however
\* often the callback comes, and for the provider and by the process that
\* issued it.
StateSpentOnce ==
    /\ \A e, f \in exchanged : e.state = f.state => e = f
    /\ \A e \in exchanged : [state |-> e.state, provider |-> e.provider, at |-> e.at] \in issued

\* Two customers of one name made by sign-ons: neither was committed when the
\* sign-on that made the other looked for the name.
SettledNames ==
    \A c, d \in customers :
        c.name = d.name /\ c # d /\ kind[c.by] \in Idps /\ kind[d.by] \in Idps =>
            c.by \notin looked[d.by]

\* Request t sent a link to address a, or got no further than storing its token.
LinkSent(t, a) ==
    /\ addr[t] = a
    /\ [to |-> a, token |-> t] \in mails \/ pc[t] \in {"mail", "dumped", "error", "lost"}

\* A delivered link goes out of use only by a confirmation or by a later send to
\* its address, whatever order these come in.  Then the link of that send is
\* delivered and opens, unless its mail is under way, was dumped or refused, or
\* its process was lost: in that case no link of the address opens any more.
LinksOpen ==
    \A m \in mails :
        /\ Known(m.to)
        /\ ~ user[m.to].verified =>
               user[m.to].token # None /\ LinkSent(user[m.to].token, m.to)

=============================================================================
