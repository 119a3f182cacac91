--------------------------- MODULE Session_proofs ----------------------------
(***************************************************************************)
(* Theorems about who is signed in: accounts (Accounts), for any number of *)
(* requests, API processes, addresses, providers and losses of a process,  *)
(* and the session of a browser tab (BrowserSession), for any number of    *)
(* requests, pairs of tokens and faults.                                   *)
(***************************************************************************)
EXTENDS Accounts, BrowserSession, TLAPS

(***************************************************************************)
(* The states of OAuth2 sign-ons.                                          *)
(***************************************************************************)
Entry == [state : States, provider : Providers]
Begun == [state : States, provider : Providers, at : Workers]
Spent == [state : States, provider : Providers, at : Workers, by : Requests]

\* A state is in the store of the process that issued it until its code is
\* exchanged, and then in none.
StatesKept ==
    /\ store \in [Workers -> SUBSET Entry]
    /\ issued \subseteq Begun
    /\ exchanged \subseteq Spent
    /\ \A e, f \in issued : e.state = f.state => e = f
    /\ \A w \in Workers : \A x \in store[w] :
          /\ [state |-> x.state, provider |-> x.provider, at |-> w] \in issued
          /\ \A e \in exchanged : e.state # x.state

StatesInv == StatesKept /\ StateSpentOnce

\* A new state is in no store and was not exchanged.
LEMMA LoginKeepsStates ==
    ASSUME StatesInv, NEW w \in Workers, NEW s \in States, NEW p \in Providers, Oauth2Login(w, s, p)
    PROVE  StatesInv'
<1> DEFINE x == [state |-> s, provider |-> p]
           b == [state |-> s, provider |-> p, at |-> w]
<1>0. /\ store \in [Workers -> SUBSET Entry]
      /\ issued \subseteq Begun
      /\ exchanged \subseteq Spent
      /\ \A e, f \in issued : e.state = f.state => e = f
      /\ \A v \in Workers : \A y \in store[v] :
            /\ [state |-> y.state, provider |-> y.provider, at |-> v] \in issued
            /\ \A e \in exchanged : e.state # y.state
      /\ \A e, f \in exchanged : e.state = f.state => e = f
      /\ \A e \in exchanged : [state |-> e.state, provider |-> e.provider, at |-> e.at] \in issued
  BY DEF StatesInv, StatesKept, StateSpentOnce
<1>1. /\ \A i \in issued : i.state # s
      /\ store' = [store EXCEPT ![w] = store[w] \cup {x}]
      /\ issued' = issued \cup {b}
      /\ exchanged' = exchanged
  BY DEF Oauth2Login
<1>2. x \in Entry /\ x.state = s /\ x.provider = p /\ b \in Begun /\ b.state = s
  BY DEF Entry, Begun
<1>3. \A e \in exchanged : e.state # s
  <2>1. \A e \in exchanged :
            [state |-> e.state, provider |-> e.provider, at |-> e.at].state = e.state
    OBVIOUS
  <2> QED
    BY <1>0, <1>1, <2>1
<1>4. [state |-> x.state, provider |-> x.provider, at |-> w] = b
  BY <1>2
<1> HIDE DEF x, b
<1>5. store' \in [Workers -> SUBSET Entry]
  BY <1>0, <1>1, <1>2
<1>6. ASSUME NEW v \in Workers, NEW y \in store'[v]
      PROVE  /\ [state |-> y.state, provider |-> y.provider, at |-> v] \in issued'
             /\ \A e \in exchanged' : e.state # y.state
  <2>1. CASE v = w /\ y = x
    BY <1>1, <1>2, <1>3, <1>4, <2>1
  <2>2. CASE ~ (v = w /\ y = x)
    <3>1. y \in store[v]
      BY <1>0, <1>1, <1>6, <2>2
    <3> QED
      BY <1>0, <1>1, <3>1
  <2> QED
    BY <2>1, <2>2
<1>7. \A e, f \in issued' : e.state = f.state => e = f
  BY <1>0, <1>1, <1>2
<1>8. StateSpentOnce'
  BY <1>0, <1>1 DEF StateSpentOnce
<1> QED
  BY <1>0, <1>1, <1>2, <1>5, <1>6, <1>7, <1>8 DEF StatesInv, StatesKept

\* A callback takes the state out of the store before its code is exchanged.
LEMMA CallbackKeepsStates ==
    ASSUME StatesInv, NEW r \in Requests, NEW w \in Workers, NEW s \in States, NEW p \in Providers,
           Oauth2Callback(r, w, s, p)
    PROVE  StatesInv'
<1> DEFINE x == [state |-> s, provider |-> p]
           e0 == [state |-> s, provider |-> p, at |-> w, by |-> r]
<1>0. /\ store \in [Workers -> SUBSET Entry]
      /\ issued \subseteq Begun
      /\ exchanged \subseteq Spent
      /\ \A e, f \in issued : e.state = f.state => e = f
      /\ \A v \in Workers : \A y \in store[v] :
            /\ [state |-> y.state, provider |-> y.provider, at |-> v] \in issued
            /\ \A e \in exchanged : e.state # y.state
      /\ \A e, f \in exchanged : e.state = f.state => e = f
      /\ \A e \in exchanged : [state |-> e.state, provider |-> e.provider, at |-> e.at] \in issued
  BY DEF StatesInv, StatesKept, StateSpentOnce
<1>1. /\ store' = [store EXCEPT ![w] = {y \in store[w] : y.state # s}]
      /\ exchanged' = IF x \in store[w] THEN exchanged \cup {e0} ELSE exchanged
      /\ issued' = issued
  BY DEF Oauth2Callback, StoreLeft
<1>2. e0 \in Spent /\ e0.state = s /\ e0.provider = p /\ e0.at = w /\ x.state = s /\ x.provider = p
  BY DEF Spent
<1>3. [state |-> x.state, provider |-> x.provider, at |-> w]
        = [state |-> e0.state, provider |-> e0.provider, at |-> e0.at]
  BY <1>2
<1> HIDE DEF x, e0
<1>4. store' \in [Workers -> SUBSET Entry] /\ \A v \in Workers : store'[v] \subseteq store[v]
  BY <1>0, <1>1
<1>5. ASSUME x \in store[w], NEW v \in Workers, NEW y \in store'[v] PROVE y.state # s
  <2>1. CASE v = w
    BY <1>0, <1>1, <1>5, <2>1
  <2>2. CASE v # w
    <3>1. y \in store[v]
      BY <1>4, <1>5
    <3>2. [state |-> y.state, provider |-> y.provider, at |-> v] \in issued
          /\ [state |-> x.state, provider |-> x.provider, at |-> w] \in issued
      BY <1>0, <1>5, <3>1
    <3>3. [state |-> y.state, provider |-> y.provider, at |-> v].state = y.state
          /\ [state |-> y.state, provider |-> y.provider, at |-> v].at = v
          /\ [state |-> x.state, provider |-> x.provider, at |-> w].state = x.state
          /\ [state |-> x.state, provider |-> x.provider, at |-> w].at = w
      OBVIOUS
    <3> QED
      BY <1>0, <1>2, <2>2, <3>2, <3>3
  <2> QED
    BY <2>1, <2>2
<1>6. CASE x \notin store[w]
  <2>1. exchanged' = exchanged
    BY <1>1, <1>6
  <2> QED
    BY <1>0, <1>1, <1>4, <2>1 DEF StatesInv, StatesKept, StateSpentOnce
<1>7. CASE x \in store[w]
  <2>1. exchanged' = exchanged \cup {e0}
    BY <1>1, <1>7
  <2>2. \A e \in exchanged : e.state # s
    BY <1>0, <1>2, <1>7
  <2>3. [state |-> e0.state, provider |-> e0.provider, at |-> e0.at] \in issued
    BY <1>0, <1>3, <1>7
  <2>4. StateSpentOnce'
    BY <1>0, <1>1, <1>2, <2>1, <2>2, <2>3 DEF StateSpentOnce
  <2>5. StatesKept'
    BY <1>0, <1>1, <1>2, <1>4, <1>5, <1>7, <2>1 DEF StatesKept
  <2> QED
    BY <2>4, <2>5 DEF StatesInv
<1> QED
  BY <1>6, <1>7

\* Every step keeps it; the others leave the states alone, a loss empties a store.
LEMMA StatesStep == ASSUME StatesInv, [AccountsNext]_vars PROVE StatesInv'
<1>1. ASSUME UNCHANGED sso PROVE StatesInv'
  BY <1>1 DEF sso, StatesInv, StatesKept, StateSpentOnce
<1>2. ASSUME NEW w \in Workers, Crash(w) PROVE StatesInv'
  <2>1. store' = [store EXCEPT ![w] = {}] /\ issued' = issued /\ exchanged' = exchanged
    BY <1>2 DEF Crash
  <2>2. store' \in [Workers -> SUBSET Entry] /\ \A v \in Workers : store'[v] \subseteq store[v]
    BY <2>1 DEF StatesInv, StatesKept
  <2> QED
    BY <2>1, <2>2 DEF StatesInv, StatesKept, StateSpentOnce
<1>3. ASSUME NEW r \in Requests, NEW w \in Workers, Comes(r, w) PROVE StatesInv'
  <2>1. CASE \E s \in States, p \in Providers : Oauth2Callback(r, w, s, p)
    BY <2>1, CallbackKeepsStates
  <2>2. CASE UNCHANGED sso
    BY <1>1, <2>2
  <2> QED
    BY <1>3, <2>1, <2>2
       DEF Comes, Register, DemoLogin, Login, CreateUser, SamlAcs, SendVerify, VerifyEmail
<1>4. ASSUME NEW r \in Requests, Continues(r) PROVE StatesInv'
  <2>1. UNCHANGED sso
    BY <1>4 DEF Continues, InsertBoth, InsertUser, SeedDemoLots, TouchLastLogin, StoreToken,
                Delivered, Mail, Confirm, UserInfo, ExchangeFails, FindCustomer, AddCustomer
  <2> QED
    BY <1>1, <2>1
<1>5. CASE UNCHANGED vars
  BY <1>1, <1>5 DEF vars
<1> QED
  BY <1>2, <1>3, <1>4, <1>5, LoginKeepsStates DEF AccountsNext

\* A state begins one sign-on, for the provider and by the process that issued
\* it, whichever processes callbacks reach and are lost (oauth2_callback pops
\* the state before it sends the code).
THEOREM StateIsSpentOnce == AccountsSpec => []StateSpentOnce
<1>1. AccountsInit => StatesInv
  BY DEF AccountsInit, StatesInv, StatesKept, StateSpentOnce
<1>2. StatesInv /\ [AccountsNext]_vars => StatesInv'
  BY StatesStep
<1>3. StatesInv => StateSpentOnce
  BY DEF StatesInv
<1> QED
  BY <1>1, <1>2, <1>3, PTL DEF AccountsSpec

(***************************************************************************)
(* Types.                                                                  *)
(***************************************************************************)

\* What a request carries where it waits.
Carries ==
    \A r \in Requests :
        /\ pc[r] \in {"insert", "insertUser", "touch", "token", "mail", "confirm", "find",
                      "addCustomer"} => addr[r] \in Addresses
        /\ pc[r] \in {"insert", "find", "addCustomer"} => name[r] \in Names
        /\ pc[r] = "exchange" => kind[r] \in Providers
        /\ pc[r] \in {"find", "addCustomer"} => kind[r] \in Idps
        /\ pc[r] = "insert" => kind[r] \in {"register", "demo"}
        /\ pc[r] \in {"token", "mail", "confirm"} => Known(addr[r])

Shape == AccountsTypeOK /\ Carries

\* A request that comes carries what it will wait with.
LEMMA ArriveTypes ==
    ASSUME Shape, NEW r \in Requests, NEW w \in Workers, NEW k \in Kinds,
           NEW a \in Addresses \cup {None}, NEW n \in Names \cup {None},
           NEW c \in Requests \cup {None}, NEW to \in Waiting \cup Ends,
           Arrive(r, w, k, a, n, c, to),
           UNCHANGED <<rows, issued, mails, looked, crashes>>,
           store' \in [Workers -> SUBSET Entry], exchanged' \subseteq Spent,
           to \in {"insert", "insertUser", "touch", "token", "mail", "confirm", "find",
                  "addCustomer"} => a \in Addresses,
           to \in {"insert", "find", "addCustomer"} => n \in Names,
           to = "exchange" => k \in Providers,
           to \in {"find", "addCustomer"} => k \in Idps,
           to = "insert" => k \in {"register", "demo"},
           to \in {"token", "mail", "confirm"} => Known(a)
    PROVE  Shape'
<1>1. AccountsTypeOK'
  BY DEF Shape, AccountsTypeOK, Arrive, rows, Entry, Spent
<1>2. Carries'
  BY DEF Shape, AccountsTypeOK, Carries, Arrive, Known, rows
<1> QED
  BY <1>1, <1>2 DEF Shape

\* A row is there.
LEMMA UserIsRow == ASSUME NEW u \in User PROVE u # None
  BY NoneAssumption DEF User

\* What the links of a row make of it is a row, as is a new one.
LEMMA RowsUpdated ==
    ASSUME Shape, NEW r \in Requests, pc[r] \in {"token", "mail", "confirm"}
    PROVE  /\ addr[r] \in Addresses /\ user[addr[r]] \in User
           /\ [user[addr[r]] EXCEPT !.token = r] \in User
           /\ Verified(user[addr[r]]) \in User
<1>1. addr[r] \in Addresses /\ user[addr[r]] \in User
  BY DEF Shape, AccountsTypeOK, Carries, Known
<1> DEFINE u == user[addr[r]]
<1>2. u \in User
  BY <1>1
<1> HIDE DEF u
<1>3. [u EXCEPT !.token = r] \in User
  BY <1>2 DEF User
<1>4. [u EXCEPT !.verified = TRUE] \in User
  BY <1>2 DEF User
<1>5. Verified(u) \in User
  BY <1>4 DEF User, Verified
<1> QED
  BY <1>1, <1>3, <1>5 DEF u

\* A step keeps every variable in its type.
LEMMA ShapeStep == ASSUME Shape, StatesInv, [AccountsNext]_vars PROVE Shape'
<1>0. StatesInv'
  BY StatesStep
<1>a. store' \in [Workers -> SUBSET Entry] /\ exchanged' \subseteq Spent /\ issued' \subseteq Begun
  BY <1>0 DEF StatesInv, StatesKept
<1>b. /\ {"register", "demo", "login", "create", "saml", "send", "verify"} \subseteq Kinds
      /\ Providers \subseteq Kinds /\ "saml" \in Idps /\ Providers \subseteq Idps
      /\ {"insert", "insertUser", "seed", "touch", "token", "mail", "confirm", "exchange", "find",
          "addCustomer", "ok", "refused", "error", "lost"} \subseteq Waiting \cup Ends
      /\ Demo \in Addresses /\ DemoName \in Names /\ Companies \subseteq Names
      /\ \A k \in Idps, a \in Addresses : SsoName[k, a] \in Names
  BY AddressAssumption, NameAssumption DEF Kinds, Idps, Waiting, Ends
<1> DEFINE End == Waiting \cup Ends
<1>1. ASSUME NEW r \in Requests, NEW w \in Workers, Comes(r, w) PROVE Shape'
  <2>1. ASSUME NEW a \in Addresses, NEW n \in Companies, Register(r, w, a, n) PROVE Shape'
    <3>1. (IF Known(a) THEN "refused" ELSE "insert") \in Waiting \cup Ends
      BY <1>b
    <3> QED
      BY <1>a, <1>b, <2>1, <3>1, ArriveTypes DEF Register, sso
  <2>2. ASSUME DemoLogin(r, w) PROVE Shape'
    <3>1. (IF Known(Demo) THEN "ok" ELSE "insert") \in Waiting \cup Ends
      BY <1>b
    <3> QED
      BY <1>a, <1>b, <2>2, <3>1, ArriveTypes DEF DemoLogin, sso
  <2>3. ASSUME NEW a \in Addresses, Login(r, w, a) PROVE Shape'
    <3>1. (IF Known(a) THEN "touch" ELSE "refused") \in Waiting \cup Ends
      BY <1>b
    <3> QED
      BY <1>a, <1>b, <2>3, <3>1, ArriveTypes DEF Login, sso
  <2>4. ASSUME NEW a \in Addresses, NEW c \in Requests \cup {None}, CreateUser(r, w, a, c) PROVE Shape'
    <3>1. (IF Known(a) THEN "refused" ELSE "insertUser") \in Waiting \cup Ends
      BY <1>b
    <3> QED
      BY <1>a, <1>b, <2>4, <3>1, ArriveTypes DEF CreateUser, sso
  <2>5. ASSUME NEW a \in Addresses, SamlAcs(r, w, a) PROVE Shape'
    <3>1. (IF Known(a) THEN "ok" ELSE "find") \in Waiting \cup Ends
      BY <1>b
    <3> QED
      BY <1>a, <1>b, <2>5, <3>1, ArriveTypes DEF SamlAcs, sso
  <2>6. ASSUME NEW a \in Addresses, SendVerify(r, w, a) PROVE Shape'
    <3>1. (IF user[a].verified THEN "ok" ELSE "token") \in Waiting \cup Ends
      BY <1>b
    <3> QED
      BY <1>a, <1>b, <2>6, <3>1, ArriveTypes DEF SendVerify, sso
  <2>7. ASSUME NEW m \in mails, VerifyEmail(r, w, m) PROVE Shape'
    <3> DEFINE found == Known(m.to) /\ user[m.to].token = m.token
    <3>1. (IF found THEN "confirm" ELSE "refused") \in Waiting \cup Ends
      BY <1>b
    <3>2. m.to \in Addresses
      BY DEF Shape, AccountsTypeOK
    <3> QED
      BY <1>a, <1>b, <2>7, <3>1, <3>2, ArriveTypes DEF VerifyEmail, sso
  <2>8. ASSUME NEW s \in States, NEW p \in Providers, Oauth2Callback(r, w, s, p) PROVE Shape'
    <3> DEFINE valid == [state |-> s, provider |-> p] \in store[w]
    <3>1. (IF valid THEN "exchange" ELSE "refused") \in Waiting \cup Ends
      BY <1>b
    <3> QED
      BY <1>a, <1>b, <2>8, <3>1, ArriveTypes DEF Oauth2Callback
  <2> QED
    BY <1>1, <2>1, <2>2, <2>3, <2>4, <2>5, <2>6, <2>7, <2>8 DEF Comes
<1> USE DEF Shape, AccountsTypeOK, Carries, Known, Goto, rows, sso
<1>2. ASSUME NEW r \in Requests, InsertBoth(r) PROVE Shape'
  BY <1>2 DEF InsertBoth, AfterInsert, CustomersWith, NewUser, User, Ends, Waiting
<1>3. ASSUME NEW r \in Requests, InsertUser(r) PROVE Shape'
  BY <1>3 DEF InsertUser, NewUser, User, Ends, Waiting
<1>4. ASSUME NEW r \in Requests, SeedDemoLots(r) PROVE Shape'
  BY <1>4, NumberAssumption DEF SeedDemoLots, Ends
<1>5. ASSUME NEW r \in Requests, TouchLastLogin(r) PROVE Shape'
  BY <1>5 DEF TouchLastLogin, Ends
<1>6. ASSUME NEW r \in Requests, StoreToken(r) PROVE Shape'
  <2>1. [user[addr[r]] EXCEPT !.token = r] \in User
        /\ user' = [user EXCEPT ![addr[r]] = [user[addr[r]] EXCEPT !.token = r]]
    BY <1>6, RowsUpdated DEF StoreToken
  <2>2. user' \in [Addresses -> User \cup {None}]
        /\ \A a \in Addresses : user[a] # None => user'[a] # None
    BY <2>1, UserIsRow
  <2> HIDE DEF User
  <2> QED
    BY <1>6, <2>2 DEF StoreToken, Waiting
<1>7. ASSUME NEW r \in Requests, Delivered(r) \/ Mail(r) PROVE Shape'
  BY <1>7 DEF Delivered, Mail, Ends
<1>8. ASSUME NEW r \in Requests, Confirm(r) PROVE Shape'
  <2>1. Verified(user[addr[r]]) \in User
        /\ user' = [user EXCEPT ![addr[r]] = Verified(user[addr[r]])]
    BY <1>8, RowsUpdated DEF Confirm
  <2>2. user' \in [Addresses -> User \cup {None}]
        /\ \A a \in Addresses : user[a] # None => user'[a] # None
    BY <2>1, UserIsRow
  <2> QED
    BY <1>8, <2>2 DEF Confirm, Ends
<1>9. ASSUME NEW r \in Requests, NEW a \in Addresses, UserInfo(r, a) PROVE Shape'
  BY <1>9, <1>b DEF UserInfo, Ends, Waiting
<1>10. ASSUME NEW r \in Requests, ExchangeFails(r) PROVE Shape'
  BY <1>10 DEF ExchangeFails, Ends
<1>11. ASSUME NEW r \in Requests, FindCustomer(r) PROVE Shape'
  BY <1>11 DEF FindCustomer, Named, Waiting
<1>12. ASSUME NEW r \in Requests, AddCustomer(r) PROVE Shape'
  BY <1>12 DEF AddCustomer, Waiting
<1>13. ASSUME NEW w \in Workers, NEW s \in States, NEW p \in Providers, Oauth2Login(w, s, p)
       PROVE  Shape'
  BY <1>a, <1>13 DEF Oauth2Login, Entry, Begun, Spent
<1>14. ASSUME NEW w \in Workers, Crash(w) PROVE Shape'
  BY <1>a, <1>14, NumberAssumption DEF Crash, Ends, Entry, Begun, Spent
<1>15. CASE UNCHANGED vars
  BY <1>15 DEF vars
<1> QED
  BY <1>1, <1>2, <1>3, <1>4, <1>5, <1>6, <1>7, <1>8, <1>9, <1>10, <1>11, <1>12, <1>13, <1>14, <1>15
     DEF AccountsNext, Continues

\* The variables have their types, and nothing is carried yet.
LEMMA ShapeInit == ASSUME AccountsInit PROVE Shape
<1>1. NewUser(None, FALSE) \in User
  BY DEF NewUser, User
<1>2. user \in [Addresses -> User \cup {None}]
  BY <1>1 DEF AccountsInit
<1>3. AccountsTypeOK
  BY <1>2, NumberAssumption DEF AccountsInit, AccountsTypeOK
<1>4. Carries
  BY DEF AccountsInit, Carries
<1> QED
  BY <1>3, <1>4 DEF Shape

\* Every variable has its type, whatever requests come and are lost.
THEOREM AccountsTypeCorrect == AccountsSpec => []AccountsTypeOK
<1>1. AccountsInit => Shape /\ StatesInv
  BY ShapeInit DEF AccountsInit, StatesInv, StatesKept, StateSpentOnce
<1>2. Shape /\ StatesInv /\ [AccountsNext]_vars => (Shape /\ StatesInv)'
  BY ShapeStep, StatesStep
<1>3. Shape /\ StatesInv => AccountsTypeOK
  BY DEF Shape
<1> QED
  BY <1>1, <1>2, <1>3, PTL DEF AccountsSpec

(***************************************************************************)
(* Links.                                                                  *)
(***************************************************************************)

\* Request t sends a link to a, or has: a send that returned was delivered.  Said
\* by where t stands, so that no other request can change it.
Link(t, a) ==
    /\ t \in Requests /\ addr[t] = a
    /\ pc[t] \in {"mail", "ok", "dumped", "error", "lost"}
    /\ pc[t] = "ok" => [to |-> a, token |-> t] \in mails

\* A token is stored before its mail is sent, so that a link is never out
\* without one; the token of an address is that of a send to it.
Opens(a) ==
    /\ Known(a)
    /\ ~ user[a].verified => user[a].token # None /\ Link(user[a].token, a)
Stored == \A r \in Requests : pc[r] = "mail" => Opens(addr[r])
Reachable == \A m \in mails : Opens(m.to)

LinksInv == Stored /\ Reachable

\* A send keeps its address, and ends delivered or as one that is not.
LEMMA LinkStays ==
    ASSUME Shape, [AccountsNext]_vars, NEW t, NEW a, Link(t, a)
    PROVE  Link(t, a)'
<1>0. t \in Requests /\ pc \in [Requests -> {"idle"} \cup Waiting \cup Ends]
      /\ addr \in [Requests -> Addresses \cup {None}]
  BY DEF Shape, AccountsTypeOK, Link
<1>1. ASSUME pc'[t] = pc[t], addr'[t] = addr[t], mails \subseteq mails' PROVE Link(t, a)'
  BY <1>1 DEF Link
<1>2. ASSUME NEW r \in Requests, NEW w \in Workers, Comes(r, w) PROVE Link(t, a)'
  <2>1. /\ pc[r] = "idle" /\ mails' = mails
        /\ \A q \in Requests : q # r => pc'[q] = pc[q] /\ addr'[q] = addr[q]
    BY <1>0, <1>2 DEF Comes, Register, DemoLogin, Login, CreateUser, SamlAcs, SendVerify, VerifyEmail,
                Oauth2Callback, Arrive
  <2>2. t # r
    BY <2>1 DEF Link
  <2> QED
    BY <1>0, <1>1, <2>1, <2>2
<1>3. ASSUME NEW r \in Requests, Continues(r), r # t PROVE Link(t, a)'
  <2>1. pc'[t] = pc[t] /\ addr'[t] = addr[t]
    BY <1>0, <1>3 DEF Continues, InsertBoth, InsertUser, SeedDemoLots, TouchLastLogin, StoreToken,
                Delivered, Mail, Confirm, UserInfo, ExchangeFails, FindCustomer, AddCustomer, Goto
  <2>2. mails \subseteq mails'
    BY <1>3 DEF Continues, InsertBoth, InsertUser, SeedDemoLots, TouchLastLogin, StoreToken,
                Delivered, Mail, Confirm, UserInfo, ExchangeFails, FindCustomer, AddCustomer
  <2> QED
    BY <1>1, <2>1, <2>2
<1>4. ASSUME Continues(t) PROVE Link(t, a)'
  <2>1. Delivered(t) \/ Mail(t)
    BY <1>4 DEF Link, Continues, InsertBoth, InsertUser, SeedDemoLots, TouchLastLogin, StoreToken,
                Confirm, UserInfo, ExchangeFails, FindCustomer, AddCustomer, Goto
  <2>2. CASE Delivered(t)
    BY <1>1, <2>2 DEF Delivered
  <2>3. CASE Mail(t)
    BY <1>0, <2>3 DEF Mail, Goto, Link
  <2> QED
    BY <2>1, <2>2, <2>3
<1>5. ASSUME NEW w \in Workers, Crash(w) PROVE Link(t, a)'
  <2>1. pc'[t] = pc[t] \/ pc'[t] = "lost"
    BY <1>0, <1>5 DEF Crash
  <2>2. addr'[t] = addr[t] /\ mails' = mails
    BY <1>5 DEF Crash
  <2> QED
    BY <2>1, <2>2 DEF Link
<1>6. CASE UNCHANGED <<pc, addr, mails>>
  BY <1>1, <1>6
<1> QED
  BY <1>2, <1>3, <1>4, <1>5, <1>6 DEF AccountsNext, Oauth2Login, vars

\* An address that opens does so after every step.
LEMMA OpensStays ==
    ASSUME Shape, [AccountsNext]_vars, NEW a \in Addresses, Opens(a)
    PROVE  Opens(a)'
<1>0. \A t : Link(t, a) => Link(t, a)'
  BY LinkStays
<1>1. ASSUME user'[a] = user[a] PROVE Opens(a)'
  BY <1>0, <1>1 DEF Opens, Known
<1>2. ASSUME NEW r \in Requests, InsertBoth(r) \/ InsertUser(r) PROVE user'[a] = user[a]
  BY <1>2 DEF InsertBoth, InsertUser, Opens, Known, Shape, AccountsTypeOK
<1>3. ASSUME NEW r \in Requests, StoreToken(r) PROVE Opens(a)'
  <2>1. /\ [user[addr[r]] EXCEPT !.token = r] \in User
        /\ user' = [user EXCEPT ![addr[r]] = [user[addr[r]] EXCEPT !.token = r]]
        /\ user[addr[r]] \in User
    BY <1>3, RowsUpdated DEF StoreToken, Goto
  <2>2. [user[addr[r]] EXCEPT !.token = r] # None
        /\ [user[addr[r]] EXCEPT !.token = r].token = r /\ r # None
    BY <2>1, UserIsRow, AddressAssumption DEF User
  <2>3. Link(r, addr[r])'
    BY <1>3 DEF StoreToken, Goto, Link, Shape, AccountsTypeOK
  <2>4. addr' = addr
    BY <1>3 DEF StoreToken
  <2>5. CASE a = addr[r]
    <3>1. Link(r, a)'
      BY <2>3, <2>4, <2>5
    <3>2. user'[a] # None /\ user'[a].token = r
      BY <2>1, <2>2, <2>5 DEF Shape, AccountsTypeOK
    <3> QED
      BY <2>2, <3>1, <3>2 DEF Opens, Known
  <2>6. CASE a # addr[r]
    BY <1>1, <2>1, <2>6 DEF Shape, AccountsTypeOK
  <2> QED
    BY <2>5, <2>6
<1>4. ASSUME NEW r \in Requests, Confirm(r) PROVE Opens(a)'
  <2>1. /\ Verified(user[addr[r]]) \in User
        /\ user' = [user EXCEPT ![addr[r]] = Verified(user[addr[r]])]
        /\ user[addr[r]] \in User
    BY <1>4, RowsUpdated DEF Confirm, Goto
  <2>2. Verified(user[addr[r]]) # None /\ Verified(user[addr[r]]).verified
    BY <2>1, UserIsRow DEF User, Verified
  <2>3. CASE a = addr[r]
    <3>1. user'[a] # None /\ user'[a].verified
      BY <2>1, <2>2, <2>3 DEF Shape, AccountsTypeOK
    <3> QED
      BY <3>1 DEF Opens, Known
  <2>4. CASE a # addr[r]
    BY <1>1, <2>1, <2>4 DEF Shape, AccountsTypeOK
  <2> QED
    BY <2>3, <2>4
<1>5. CASE \E r \in Requests : Continues(r)
  BY <1>1, <1>2, <1>3, <1>4, <1>5
     DEF Continues, SeedDemoLots, TouchLastLogin, Delivered, Mail, UserInfo, ExchangeFails,
         FindCustomer, AddCustomer, rows
<1>6. ASSUME NEW r \in Requests, NEW w \in Workers, Comes(r, w) PROVE Opens(a)'
  <2>1. UNCHANGED rows
    BY <1>6 DEF Comes, Register, DemoLogin, Login, CreateUser, SamlAcs, SendVerify, VerifyEmail,
                Oauth2Callback
  <2> QED
    BY <1>1, <2>1 DEF rows
<1> QED
  BY <1>1, <1>5, <1>6 DEF AccountsNext, Oauth2Login, Crash, rows, vars

\* A step that sends no mail and brings no request to "mail" keeps the links.
LEMMA LinksStep == ASSUME Shape, Shape', LinksInv, [AccountsNext]_vars PROVE LinksInv'
<1>0. \A r \in Requests : pc[r] = "mail" => addr[r] \in Addresses
  BY DEF Shape, Carries
<1>a. \A m \in mails : Opens(m.to)'
  <2>1. \A m \in mails : m.to \in Addresses /\ Opens(m.to)
    BY DEF Shape, AccountsTypeOK, LinksInv, Reachable
  <2> QED
    BY <2>1, OpensStays
<1>b. ASSUME NEW r \in Requests, pc[r] = "mail", addr'[r] = addr[r] PROVE Opens(addr[r])'
  <2>1. PICK a \in Addresses : a = addr[r] /\ a = addr'[r] /\ Opens(a)
    BY <1>0, <1>b DEF LinksInv, Stored
  <2>2. Opens(a)'
    BY <2>1, OpensStays
  <2> QED
    BY <2>1, <2>2
<1>1. ASSUME mails' = mails,
             \A r \in Requests : pc'[r] = "mail" => pc[r] = "mail" /\ addr'[r] = addr[r]
      PROVE  LinksInv'
  <2>1. Reachable'
    BY <1>a, <1>1 DEF Reachable
  <2>2. \A r \in Requests : pc'[r] = "mail" => Opens(addr[r])'
    BY <1>b, <1>1
  <2> QED
    BY <2>1, <2>2 DEF LinksInv, Stored
<1>2. ASSUME NEW r \in Requests, StoreToken(r) PROVE LinksInv'
  <2>1. mails' = mails /\ pc[r] = "token" /\ pc' = [pc EXCEPT ![r] = "mail"] /\ addr' = addr
    BY <1>2 DEF StoreToken, Goto
  <2>2. /\ [user[addr[r]] EXCEPT !.token = r] \in User
        /\ user' = [user EXCEPT ![addr[r]] = [user[addr[r]] EXCEPT !.token = r]]
        /\ user[addr[r]] \in User /\ addr[r] \in Addresses
    BY <1>2, RowsUpdated DEF StoreToken, Goto
  <2>3. [user[addr[r]] EXCEPT !.token = r] # None
        /\ [user[addr[r]] EXCEPT !.token = r].token = r /\ r # None
    BY <2>2, UserIsRow, AddressAssumption DEF User
  <2>4. Link(r, addr[r])'
    BY <2>1 DEF Link, Shape, AccountsTypeOK
  <2>5. Opens(addr[r])'
    <3>1. user'[addr[r]] # None /\ user'[addr[r]].token = r /\ addr' = addr
      BY <2>1, <2>2, <2>3 DEF Shape, AccountsTypeOK
    <3> QED
      BY <2>3, <2>4, <3>1 DEF Opens, Known
  <2>6. ASSUME NEW q \in Requests, pc'[q] = "mail" PROVE Opens(addr[q])'
    <3>1. CASE q = r
      BY <2>5, <3>1
    <3>2. CASE q # r
      BY <1>b, <2>1, <2>6, <3>2 DEF Shape, AccountsTypeOK
    <3> QED
      BY <3>1, <3>2
  <2> QED
    BY <1>a, <2>1, <2>6 DEF LinksInv, Stored, Reachable
<1>3. ASSUME NEW r \in Requests, Delivered(r) \/ Mail(r) PROVE LinksInv'
  <2>1. /\ pc[r] = "mail" /\ addr' = addr /\ addr[r] \in Addresses
        /\ mails' \subseteq mails \cup {[to |-> addr[r], token |-> r]}
        /\ \A q \in Requests : pc'[q] = "mail" => pc[q] = "mail"
    BY <1>0, <1>3 DEF Delivered, Mail, Goto, rows, Shape, AccountsTypeOK
  <2>2. \A q \in Requests : pc'[q] = "mail" => Opens(addr[q])'
    BY <1>b, <2>1
  <2>3. Opens(addr[r])'
    BY <1>b, <2>1
  <2>4. Reachable'
    BY <1>a, <2>1, <2>3 DEF Reachable
  <2> QED
    BY <2>2, <2>4 DEF LinksInv, Stored
<1>4. ASSUME NEW r \in Requests, Continues(r), ~ StoreToken(r), ~ Delivered(r),
            ~ Mail(r)
     PROVE  LinksInv'
  <2>1. mails' = mails /\ \E to \in (Waiting \cup Ends) \ {"mail"} : pc' = [pc EXCEPT ![r] = to]
    BY <1>4 DEF Continues, InsertBoth, AfterInsert, InsertUser, SeedDemoLots, TouchLastLogin, Confirm,
                UserInfo, ExchangeFails, FindCustomer, AddCustomer, Goto, Waiting, Ends
  <2>2. \A q \in Requests : q # r => addr'[q] = addr[q]
    BY <1>4 DEF Continues, InsertBoth, InsertUser, SeedDemoLots, TouchLastLogin, Confirm, UserInfo,
                ExchangeFails, FindCustomer, AddCustomer, Shape, AccountsTypeOK
  <2> QED
    BY <1>1, <2>1, <2>2 DEF Shape, AccountsTypeOK
<1>5. ASSUME NEW r \in Requests, NEW w \in Workers, Comes(r, w) PROVE LinksInv'
  <2> DEFINE Arrives ==
               /\ mails' = mails
               /\ \E to \in (Waiting \cup Ends) \ {"mail"}, a \in Addresses \cup {None} :
                     pc' = [pc EXCEPT ![r] = to] /\ addr' = [addr EXCEPT ![r] = a]
  <2>1. Demo \in Addresses
    BY AddressAssumption
  <2>2. CASE (\E a \in Addresses, n \in Companies : Register(r, w, a, n)) \/ DemoLogin(r, w)
    <3>1. Arrives
      BY <2>1, <2>2 DEF Register, DemoLogin, Arrive, Waiting, Ends
    <3> QED
      BY <1>1, <3>1 DEF Shape, AccountsTypeOK
  <2>3. CASE \E a \in Addresses : Login(r, w, a) \/ SamlAcs(r, w, a) \/ SendVerify(r, w, a)
    <3>1. Arrives
      BY <2>3 DEF Login, SamlAcs, SendVerify, Arrive, Waiting, Ends
    <3> QED
      BY <1>1, <3>1 DEF Shape, AccountsTypeOK
  <2>4. CASE \E a \in Addresses, c \in Requests \cup {None} : CreateUser(r, w, a, c)
    <3>1. Arrives
      BY <2>4 DEF CreateUser, Arrive, Waiting, Ends
    <3> QED
      BY <1>1, <3>1 DEF Shape, AccountsTypeOK
  <2>5. ASSUME NEW m \in mails, VerifyEmail(r, w, m) PROVE LinksInv'
    <3>1. mails' = mails /\ addr' = [addr EXCEPT ![r] = m.to]
      BY <2>5 DEF VerifyEmail, Arrive
    <3>2. pc' = [pc EXCEPT ![r] = "confirm"] \/ pc' = [pc EXCEPT ![r] = "refused"]
      BY <2>5 DEF VerifyEmail, Arrive
    <3> QED
      BY <1>1, <3>1, <3>2 DEF Shape, AccountsTypeOK
  <2>6. ASSUME NEW s \in States, NEW p \in Providers, Oauth2Callback(r, w, s, p) PROVE LinksInv'
    <3>1. mails' = mails /\ addr' = [addr EXCEPT ![r] = None]
      BY <2>6 DEF Oauth2Callback, Arrive
    <3>2. pc' = [pc EXCEPT ![r] = "exchange"] \/ pc' = [pc EXCEPT ![r] = "refused"]
      BY <2>6 DEF Oauth2Callback, Arrive
    <3> QED
      BY <1>1, <3>1, <3>2 DEF Shape, AccountsTypeOK
  <2> QED
    BY <1>5, <2>2, <2>3, <2>4, <2>5, <2>6 DEF Comes
<1>6. ASSUME NEW w \in Workers, Crash(w) PROVE LinksInv'
  BY <1>1, <1>6 DEF Crash, Shape, AccountsTypeOK
<1>7. CASE UNCHANGED <<mails, pc, addr>>
  BY <1>1, <1>7
<1> QED
  BY <1>2, <1>3, <1>4, <1>5, <1>6, <1>7 DEF AccountsNext, Oauth2Login, vars

\* A delivered link goes out of use only by a confirmation or by a later send to its
\* address, whatever sends, confirmations and losses do (send_verify_email, verify_email).
THEOREM LinksStayOpen == AccountsSpec => []LinksOpen
<1> DEFINE Inv == Shape /\ StatesInv /\ LinksInv
<1>1. AccountsInit => Inv
  <2>1. AccountsInit => LinksInv
    BY DEF AccountsInit, LinksInv, Stored, Reachable
  <2> QED
    BY <2>1, ShapeInit DEF AccountsInit, StatesInv, StatesKept, StateSpentOnce
<1>2. Inv /\ [AccountsNext]_vars => Inv'
  BY ShapeStep, StatesStep, LinksStep
<1>3. Inv => LinksOpen
  <2>1. ASSUME NEW t, NEW a, Link(t, a) PROVE LinkSent(t, a)
    BY <2>1 DEF Link, LinkSent
  <2> QED
    BY <2>1 DEF LinksInv, Reachable, Opens, LinksOpen
<1> QED
  BY <1>1, <1>2, <1>3, PTL DEF AccountsSpec

(***************************************************************************)
(* Customers and their owners.                                             *)
(***************************************************************************)

\* A request has made no customer before it commits one, and makes one; a
\* sign-on that made one gives it to the user it is about to insert.
MadeOnce ==
    /\ \A c \in customers : pc[c.by] \notin {"idle", "insert", "exchange", "find", "addCustomer"}
    /\ \A c, d \in customers : c.by = d.by => c = d
    /\ \A c \in customers : pc[c.by] = "insertUser" => cust[c.by] = c.by

\* What a sign-on looked at were customers then, none of the name it adds.
LookedBefore ==
    \A r \in Requests :
        /\ \A x \in looked[r] : \E c \in customers : c.by = x
        /\ pc[r] = "addCustomer" => \A c \in customers : c.by \in looked[r] => c.name # name[r]

MakersInv == MadeOnce /\ LookedBefore /\ SettledNames /\ OwnersKept

\* An owned customer stays owned: no step takes a customer from a user.
LEMMA OwnedStays ==
    ASSUME Shape, [AccountsNext]_vars, NEW c \in customers, Owned(c)
    PROVE  Owned(c)'
<1>0. PICK a \in Addresses : Known(a) /\ user[a].customer = c.by
  BY DEF Owned
<1>1. ASSUME user'[a] = user[a] PROVE Owned(c)'
  BY <1>0, <1>1 DEF Owned, Known
<1>2. ASSUME NEW r \in Requests, InsertBoth(r) \/ InsertUser(r) PROVE user'[a] = user[a]
  BY <1>0, <1>2 DEF InsertBoth, InsertUser, Known, Shape, AccountsTypeOK
<1>3. ASSUME NEW r \in Requests, StoreToken(r) PROVE Owned(c)'
  <2>1. /\ [user[addr[r]] EXCEPT !.token = r] \in User
        /\ user' = [user EXCEPT ![addr[r]] = [user[addr[r]] EXCEPT !.token = r]]
        /\ user[addr[r]] \in User
    BY <1>3, RowsUpdated DEF StoreToken, Goto
  <2>2. [user[addr[r]] EXCEPT !.token = r] # None
        /\ [user[addr[r]] EXCEPT !.token = r].customer = user[addr[r]].customer
    BY <2>1, UserIsRow DEF User
  <2> QED
    BY <1>0, <2>1, <2>2 DEF Owned, Known, Shape, AccountsTypeOK
<1>4. ASSUME NEW r \in Requests, Confirm(r) PROVE Owned(c)'
  <2>1. /\ Verified(user[addr[r]]) \in User
        /\ user' = [user EXCEPT ![addr[r]] = Verified(user[addr[r]])]
        /\ user[addr[r]] \in User
    BY <1>4, RowsUpdated DEF Confirm, Goto
  <2>2. Verified(user[addr[r]]) # None
        /\ Verified(user[addr[r]]).customer = user[addr[r]].customer
    BY <2>1, UserIsRow DEF User, Verified
  <2> QED
    BY <1>0, <2>1, <2>2 DEF Owned, Known, Shape, AccountsTypeOK
<1>5. ASSUME NEW r \in Requests, Continues(r) PROVE Owned(c)'
  BY <1>1, <1>2, <1>3, <1>4, <1>5
     DEF Continues, SeedDemoLots, TouchLastLogin, Delivered, Mail, UserInfo, ExchangeFails,
         FindCustomer, AddCustomer, rows
<1>6. ASSUME NEW r \in Requests, NEW w \in Workers, Comes(r, w) PROVE Owned(c)'
  <2>1. UNCHANGED rows
    BY <1>6 DEF Comes, Register, DemoLogin, Login, CreateUser, SamlAcs, SendVerify, VerifyEmail,
                Oauth2Callback
  <2> QED
    BY <1>1, <2>1 DEF rows
<1> QED
  BY <1>1, <1>5, <1>6 DEF AccountsNext, Oauth2Login, Crash, rows, vars

\* A step of a request that makes no customer and looks at none.
LEMMA NothingMade ==
    ASSUME Shape, MakersInv, [AccountsNext]_vars, NEW r \in Requests,
           NEW to \in (Waiting \cup Ends) \ {"addCustomer"},
           pc[r] \in {"idle"} \cup Waiting, pc' = [pc EXCEPT ![r] = to],
           UNCHANGED <<customers, looked>>,
           to \in {"insert", "exchange", "find", "insertUser"} => pc[r] \in {"idle", "exchange"},
           \A q \in Requests : q # r => kind'[q] = kind[q] /\ cust'[q] = cust[q] /\ name'[q] = name[q],
           pc[r] # "idle" => kind'[r] = kind[r],
           pc[r] = "insertUser" => to = "error" \/ \A c \in customers : c.by = r => Owned(c)'
    PROVE  MakersInv'
<1>1. \A c \in customers : c.by \in Requests /\ c.name \in Names
  BY DEF Shape, AccountsTypeOK
<1>2. \A q \in Requests : pc'[q] = IF q = r THEN to ELSE pc[q]
  BY DEF Shape, AccountsTypeOK
<1>3. \A c \in customers : c.by = r =>
            pc[r] \notin {"idle", "insert", "exchange", "find", "addCustomer"} /\ kind'[r] = kind[r]
  BY DEF MakersInv, MadeOnce
<1>4. MadeOnce'
  BY <1>1, <1>2, <1>3 DEF MakersInv, MadeOnce, Waiting, Ends
<1>5. LookedBefore'
  BY <1>1, <1>2 DEF MakersInv, LookedBefore
<1>6. \A c \in customers : kind'[c.by] = kind[c.by]
  BY <1>1, <1>3
<1>7. SettledNames'
  BY <1>1, <1>6 DEF MakersInv, SettledNames
<1>8. ASSUME NEW c \in customers
      PROVE  Owned(c)' \/ (kind'[c.by] \in Idps /\ pc'[c.by] \in {"insertUser", "error", "lost"})
  <2>1. CASE Owned(c)
    BY <2>1, OwnedStays
  <2>2. CASE kind[c.by] \in Idps /\ pc[c.by] \in {"insertUser", "error", "lost"}
    <3>1. pc[r] \notin {"error", "lost"}
      BY DEF Waiting
    <3> QED
      BY <1>1, <1>2, <1>6, <2>2, <3>1
  <2> QED
    BY <2>1, <2>2 DEF MakersInv, OwnersKept
<1> QED
  BY <1>4, <1>5, <1>7, <1>8 DEF MakersInv, OwnersKept

\* Customer and user of a request are committed together or not at all.
LEMMA BothMade ==
    ASSUME Shape, MakersInv, [AccountsNext]_vars, NEW r \in Requests, InsertBoth(r)
    PROVE  MakersInv'
<1>0. pc[r] = "insert" /\ pc' = [pc EXCEPT ![r] = AfterInsert(r)] /\ kind' = kind /\ cust' = cust
      /\ name' = name /\ looked' = looked
  BY DEF InsertBoth, Goto
<1>1. AfterInsert(r) \in {"error", "seed", "ok"}
  BY DEF AfterInsert
<1>2. CASE Known(addr[r])
  <2>1. customers' = customers
    BY <1>2 DEF InsertBoth, CustomersWith
  <2> QED
    BY <1>0, <1>1, <2>1, NothingMade DEF Waiting, Ends
<1>3. CASE ~ Known(addr[r])
  <2>0. PICK n : n = [by |-> r, name |-> name[r]]
    OBVIOUS
  <2>1. customers' = customers \cup {n} /\ n.by = r
        /\ user' = [user EXCEPT ![addr[r]] = NewUser(r, FALSE)]
    BY <1>3, <2>0 DEF InsertBoth, CustomersWith
  <2>2. addr[r] \in Addresses /\ kind[r] \notin Idps
    BY <1>0, IdpAssumption DEF Shape, Carries, Idps
  <2>3. NewUser(r, FALSE) # None /\ NewUser(r, FALSE).customer = r
    <3>1. NewUser(r, FALSE) \in User
      BY DEF NewUser, User
    <3> QED
      BY <3>1, UserIsRow DEF NewUser
  <2>4. Owned(n)'
    BY <2>1, <2>2, <2>3 DEF Owned, Known, Shape, AccountsTypeOK
  <2>5. \A c \in customers : c.by \in Requests /\ c.by # r
    BY <1>0 DEF Shape, AccountsTypeOK, MakersInv, MadeOnce
  <2>6. MadeOnce'
    BY <1>0, <1>1, <2>1, <2>5 DEF MakersInv, MadeOnce, Shape, AccountsTypeOK
  <2>7. LookedBefore'
    BY <1>0, <1>1, <2>1, <2>5 DEF MakersInv, LookedBefore, Shape, AccountsTypeOK
  <2>8. SettledNames'
    BY <1>0, <2>1, <2>2 DEF MakersInv, SettledNames
  <2>9. OwnersKept'
    <3>1. \A c \in customers : pc'[c.by] = pc[c.by] /\ kind'[c.by] = kind[c.by]
      BY <1>0, <2>5 DEF Shape, AccountsTypeOK
    <3>2. \A c \in customers : Owned(c) => Owned(c)'
      BY OwnedStays
    <3> QED
      BY <2>1, <2>4, <3>1, <3>2 DEF MakersInv, OwnersKept
  <2> QED
    BY <2>6, <2>7, <2>8, <2>9 DEF MakersInv
<1> QED
  BY <1>2, <1>3

\* The customer a sign-on adds is in nobody's looks, and its name was new to it.
LEMMA SignOnMakes ==
    ASSUME Shape, MakersInv, [AccountsNext]_vars, NEW r \in Requests, AddCustomer(r)
    PROVE  MakersInv'
<1> DEFINE n == [by |-> r, name |-> name[r]]
<1>0. /\ pc[r] = "addCustomer" /\ pc' = [pc EXCEPT ![r] = "insertUser"]
      /\ customers' = customers \cup {n} /\ n.by = r /\ n.name = name[r]
      /\ cust' = [cust EXCEPT ![r] = r]
      /\ user' = user /\ kind' = kind /\ name' = name /\ looked' = looked
  BY DEF AddCustomer, Goto
<1>1. kind[r] \in Idps
  BY <1>0 DEF Shape, Carries
<1>2. \A c \in customers : c.by \in Requests /\ c.by # r
  BY <1>0 DEF Shape, AccountsTypeOK, MakersInv, MadeOnce
<1> HIDE DEF n
<1>3. MadeOnce'
  BY <1>0, <1>2 DEF MakersInv, MadeOnce, Shape, AccountsTypeOK
<1>4. \A q \in Requests : r \notin looked[q]
  BY <1>2 DEF MakersInv, LookedBefore
<1>5. LookedBefore'
  BY <1>0, <1>4 DEF MakersInv, LookedBefore, Shape, AccountsTypeOK
<1>6. SettledNames'
  <2>1. \A c \in customers : c.by \in looked[r] => c.name # n.name
    BY <1>0 DEF MakersInv, LookedBefore
  <2> QED
    BY <1>0, <1>2, <1>4, <2>1 DEF MakersInv, SettledNames
<1>7. OwnersKept'
  BY <1>0, <1>1, <1>2, OwnedStays DEF MakersInv, OwnersKept, Shape, AccountsTypeOK
<1> QED
  BY <1>3, <1>5, <1>6, <1>7 DEF MakersInv

\* A sign-on looks at every customer there is.
LEMMA SignOnLooks ==
    ASSUME Shape, MakersInv, [AccountsNext]_vars, NEW r \in Requests, FindCustomer(r)
    PROVE  MakersInv'
<1>0. /\ pc[r] = "find" /\ customers' = customers /\ user' = user /\ kind' = kind /\ name' = name
      /\ looked' = [looked EXCEPT ![r] = {c.by : c \in customers}]
      /\ \A q \in Requests : q # r => cust'[q] = cust[q]
      /\ \/ pc' = [pc EXCEPT ![r] = "insertUser"]
         \/ pc' = [pc EXCEPT ![r] = "addCustomer"] /\ \A c \in customers : c.name # name[r]
  BY DEF FindCustomer, Goto, Named, rows, Shape, AccountsTypeOK
<1>1. \A c \in customers : c.by \in Requests /\ c.by # r
  BY <1>0 DEF Shape, AccountsTypeOK, MakersInv, MadeOnce
<1>2. MadeOnce'
  BY <1>0, <1>1 DEF MakersInv, MadeOnce, Shape, AccountsTypeOK
<1>3. LookedBefore'
  BY <1>0 DEF MakersInv, LookedBefore, Shape, AccountsTypeOK
<1>4. SettledNames'
  BY <1>0, <1>1 DEF MakersInv, SettledNames, Shape, AccountsTypeOK
<1>5. OwnersKept'
  BY <1>0, <1>1, OwnedStays DEF MakersInv, OwnersKept, Shape, AccountsTypeOK
<1> QED
  BY <1>2, <1>3, <1>4, <1>5 DEF MakersInv

\* The insert of a user ends with an error or with the customer owned.
LEMMA UserInserted ==
    ASSUME Shape, MakersInv, [AccountsNext]_vars, NEW r \in Requests, InsertUser(r)
    PROVE  MakersInv'
<1>0. /\ pc[r] = "insertUser" /\ customers' = customers /\ kind' = kind /\ cust' = cust
      /\ name' = name /\ looked' = looked /\ addr[r] \in Addresses
  BY DEF InsertUser, Goto, Shape, Carries
<1>1. CASE Known(addr[r])
  BY <1>0, <1>1, NothingMade DEF InsertUser, Goto, Waiting, Ends
<1>2. CASE ~ Known(addr[r])
  <2> DEFINE n == NewUser(cust[r], kind[r] \in Idps)
  <2>1. user' = [user EXCEPT ![addr[r]] = n] /\ pc' = [pc EXCEPT ![r] = "ok"]
    BY <1>2 DEF InsertUser, Goto
  <2>2. n # None /\ n.customer = cust[r]
    <3>1. n \in User
      BY DEF NewUser, User, Shape, AccountsTypeOK
    <3> QED
      BY <3>1, UserIsRow DEF NewUser
  <2> HIDE DEF n
  <2>3. \A c \in customers : c.by = r => Owned(c)'
    BY <1>0, <2>1, <2>2 DEF MakersInv, MadeOnce, Owned, Known, Shape, AccountsTypeOK
  <2> QED
    BY <1>0, <2>1, <2>3, NothingMade DEF Waiting, Ends
<1> QED
  BY <1>1, <1>2

\* A request lost with its process leaves what it committed.
LEMMA LossKeepsMakers ==
    ASSUME Shape, MakersInv, [AccountsNext]_vars, NEW w \in Workers, Crash(w)
    PROVE  MakersInv'
<1>0. /\ customers' = customers /\ user' = user /\ kind' = kind /\ name' = name /\ cust' = cust
      /\ looked' = looked
      /\ \A q \in Requests : pc'[q] = pc[q] \/ pc'[q] = "lost"
  BY DEF Crash, rows, Shape, AccountsTypeOK
<1>1. \A c \in customers : c.by \in Requests
  BY DEF Shape, AccountsTypeOK
<1>2. MadeOnce' /\ LookedBefore' /\ SettledNames'
  BY <1>0, <1>1 DEF MakersInv, MadeOnce, LookedBefore, SettledNames
<1>3. OwnersKept'
  BY <1>0, <1>1, OwnedStays DEF MakersInv, OwnersKept
<1> QED
  BY <1>2, <1>3 DEF MakersInv

\* Every step keeps customers and their owners.
LEMMA MakersStep == ASSUME Shape, MakersInv, [AccountsNext]_vars PROVE MakersInv'
<1>1. ASSUME NEW r \in Requests, NEW w \in Workers, Comes(r, w) PROVE MakersInv'
  <2>0. /\ pc[r] = "idle" /\ UNCHANGED <<customers, looked>>
        /\ \E k : kind' = [kind EXCEPT ![r] = k]
        /\ \E n : name' = [name EXCEPT ![r] = n]
        /\ \E c : cust' = [cust EXCEPT ![r] = c]
    <3> USE <1>1 DEF Comes, Register, DemoLogin, Login, CreateUser, SamlAcs, SendVerify, VerifyEmail,
                     Oauth2Callback, Arrive, rows
    <3>1. pc[r] = "idle" /\ UNCHANGED <<customers, looked>>
      OBVIOUS
    <3>2. \E k : kind' = [kind EXCEPT ![r] = k]
      OBVIOUS
    <3>3. \E n : name' = [name EXCEPT ![r] = n]
      OBVIOUS
    <3>4. \E c : cust' = [cust EXCEPT ![r] = c]
      OBVIOUS
    <3> QED
      BY <3>1, <3>2, <3>3, <3>4
  <2>1. \A q \in Requests : q # r => kind'[q] = kind[q] /\ cust'[q] = cust[q] /\ name'[q] = name[q]
    BY <2>0 DEF Shape, AccountsTypeOK
  <2>2. \E to \in (Waiting \cup Ends) \ {"addCustomer"} : pc' = [pc EXCEPT ![r] = to]
    BY <1>1 DEF Comes, Register, DemoLogin, Login, CreateUser, SamlAcs, SendVerify, VerifyEmail,
                Oauth2Callback, Arrive, Waiting, Ends
  <2> QED
    BY <2>0, <2>1, <2>2, NothingMade
<1>2. ASSUME NEW r \in Requests, Continues(r),
             ~ InsertBoth(r), ~ InsertUser(r), ~ FindCustomer(r), ~ AddCustomer(r), ~ Delivered(r)
      PROVE  MakersInv'
  <2>1. /\ UNCHANGED <<customers, looked, kind, cust>>
        /\ \A q \in Requests : q # r => name'[q] = name[q]
    BY <1>2 DEF Continues, SeedDemoLots, TouchLastLogin, StoreToken, Mail, Confirm, UserInfo,
                ExchangeFails, rows, Shape, AccountsTypeOK
  <2>2. \E to \in (Waiting \cup Ends) \ {"addCustomer"} :
            /\ pc' = [pc EXCEPT ![r] = to]
            /\ to \in {"insert", "exchange", "find", "insertUser"} => pc[r] = "exchange"
            /\ pc[r] \in Waiting \ {"insertUser"}
    BY <1>2 DEF Continues, SeedDemoLots, TouchLastLogin, StoreToken, Mail, Confirm, UserInfo,
                ExchangeFails, Goto, Waiting, Ends
  <2> QED
    BY <2>1, <2>2, NothingMade
<1>3. CASE UNCHANGED <<rows, pc, kind, name, cust, looked>>
  BY <1>3 DEF rows, MakersInv, MadeOnce, LookedBefore, SettledNames, OwnersKept, Owned, Known
<1> QED
  BY <1>1, <1>2, <1>3, BothMade, SignOnMakes, SignOnLooks, UserInserted, LossKeepsMakers
     DEF AccountsNext, Continues, Delivered, Oauth2Login, vars

\* Nothing is committed at first.
LEMMA MakersInit == ASSUME AccountsInit PROVE MakersInv
  BY DEF AccountsInit, MakersInv, MadeOnce, LookedBefore, SettledNames, OwnersKept

\* A registration that loses the race for its address leaves no customer: a
\* customer without a user is of a sign-on that has not inserted it, failed or
\* was lost (register commits both at once, get_or_create_user apart).
THEOREM OwnersAreKept == AccountsSpec => []OwnersKept
<1> DEFINE Inv == Shape /\ StatesInv /\ MakersInv
<1>1. AccountsInit => Inv
  BY ShapeInit, MakersInit DEF AccountsInit, StatesInv, StatesKept, StateSpentOnce
<1>2. Inv /\ [AccountsNext]_vars => Inv'
  BY ShapeStep, StatesStep, MakersStep
<1>3. Inv => OwnersKept
  BY DEF MakersInv
<1> QED
  BY <1>1, <1>2, <1>3, PTL DEF AccountsSpec

\* Two customers of one name from sign-ons come from a race between them only
\* (CustomerRepo.get_or_create finds what was committed before it looked).
THEOREM NamesAreSettled == AccountsSpec => []SettledNames
<1> DEFINE Inv == Shape /\ StatesInv /\ MakersInv
<1>1. AccountsInit => Inv
  BY ShapeInit, MakersInit DEF AccountsInit, StatesInv, StatesKept, StateSpentOnce
<1>2. Inv /\ [AccountsNext]_vars => Inv'
  BY ShapeStep, StatesStep, MakersStep
<1>3. Inv => SettledNames
  BY DEF MakersInv
<1> QED
  BY <1>1, <1>2, <1>3, PTL DEF AccountsSpec

-----------------------------------------------------------------------------
(***************************************************************************)
(* The session of a browser tab.                                           *)
(***************************************************************************)

(***************************************************************************)
(* Types.                                                                  *)
(***************************************************************************)
Stages == InFlight \cup {"idle", "done", "rejected"}
Tokens == 0..MaxPairs

\* What the handlers make of a request is a request.
LEMMA RequestUpdated ==
    ASSUME NEW q \in Request, NEW a \in Stages, NEW n \in Tokens
    PROVE  /\ [q EXCEPT !.at = a] \in Request
           /\ [q EXCEPT !.at = a, !.got = n] \in Request
           /\ [q EXCEPT !.at = a, !.retried = TRUE, !.refresh = n] \in Request
           /\ SentAgain(q) \in Request
<1> USE DEF Request, Stages, Tokens
<1>1. [q EXCEPT !.at = a] \in Request
  OBVIOUS
<1>2. [q EXCEPT !.at = a, !.got = n] \in Request
  OBVIOUS
<1>3. [q EXCEPT !.at = a, !.retried = TRUE] \in Request
  BY <1>1
<1>4. [q EXCEPT !.at = a, !.retried = TRUE, !.refresh = n] \in Request
  BY <1>3
<1>5. SentAgain(q) \in Request
  BY DEF SentAgain, InFlight
<1> QED
  BY <1>1, <1>2, <1>4, <1>5

\* So is what the tab sends.
LEMMA RequestSent ==
    ASSUME NEW what \in {"me", "login", "wrong", "data"}, stored \in Tokens
    PROVE  Sent(what) \in Request /\ Unsent \in Request
<1>1. Unsent \in Request
  BY SessionAssumption DEF Unsent, Request, InFlight
<1>2. Sent(what) \in Request
  BY <1>1 DEF Sent, Request, InFlight, Tokens
<1> QED
  BY <1>1, <1>2

\* And what is left of requests when the page is left.
LEMMA RequestsDropped ==
    ASSUME request \in [Fetches -> Request]
    PROVE  Dropped(request) \in [Fetches -> Request]
<1>1. "done" \in Stages /\ 0 \in Tokens
  BY SessionAssumption DEF Stages, Tokens
<1>2. \A c \in Fetches : [request[c] EXCEPT !.at = "done"] \in Request
  BY <1>1, RequestUpdated
<1> QED
  BY <1>2 DEF Dropped

\* Every request stays one, whatever the step.
LEMMA RequestStep ==
    ASSUME SessionTypeOK, [SessionNext]_sessionVars PROVE request' \in [Fetches -> Request]
<1>0. /\ request \in [Fetches -> Request]
      /\ stored \in Tokens
      /\ pairs < MaxPairs => pairs + 1 \in Tokens
      /\ \A c \in Fetches : request[c] \in Request
      /\ InFlight \cup {"idle", "done", "rejected"} \subseteq Stages
      /\ 0 \in Tokens
  BY SessionAssumption DEF SessionTypeOK, Tokens, Stages
<1>a. ASSUME NEW c \in Fetches, Issue(c) PROVE request' \in [Fetches -> Request]
  <2> DEFINE a == IF request[c].at = "sent" THEN "ok" ELSE "renewed"
             n == pairs + 1
  <2>1. a \in Stages /\ n \in Tokens
    BY <1>0, <1>a DEF Issue, InFlight
  <2>2. request' = [request EXCEPT ![c] = [request[c] EXCEPT !.at = a, !.got = n]]
    BY <1>a DEF Issue
  <2> HIDE DEF a, n
  <2>3. [request[c] EXCEPT !.at = a, !.got = n] \in Request
    BY <1>0, <2>1, RequestUpdated
  <2> QED
    BY <1>0, <2>2, <2>3
<1>b. ASSUME NEW c \in Fetches, NEW a \in Stages,
             request' = [request EXCEPT ![c] = [request[c] EXCEPT !.at = a]]
      PROVE  request' \in [Fetches -> Request]
  BY <1>0, <1>b, RequestUpdated
<1>c. ASSUME NEW c \in Fetches, Deny(c) PROVE request' \in [Fetches -> Request]
  <2>1. (IF request[c].at = "sent" THEN "denied" ELSE "refused") \in Stages
    BY <1>0 DEF InFlight
  <2> QED
    BY <1>b, <1>c, <2>1 DEF Deny
<1>d. ASSUME NEW c \in Fetches, ToLogin(c) PROVE request' \in [Fetches -> Request]
  <2>1. Dropped(request) \in [Fetches -> Request]
    BY <1>0, RequestsDropped
  <2>2. "rejected" \in Stages
    BY DEF Stages
  <2>3. [Dropped(request)[c] EXCEPT !.at = "rejected"] \in Request
    BY <1>0, <2>1, <2>2, RequestUpdated
  <2> QED
    BY <1>d, <2>1, <2>3 DEF ToLogin
<1>1. ASSUME NEW c \in Fetches, Serve(c) PROVE request' \in [Fetches -> Request]
  <2>1. "ok" \in Stages
    BY <1>0 DEF InFlight
  <2> QED
    BY <1>1, <1>a, <1>b, <1>c, <2>1 DEF Serve
<1>2. ASSUME NEW c \in Fetches, ServeRefresh(c) PROVE request' \in [Fetches -> Request]
  BY <1>2, <1>a, <1>c DEF ServeRefresh
<1>3. ASSUME NEW c \in Fetches, Fault(c) PROVE request' \in [Fetches -> Request]
  <2>1. (IF request[c].at = "sent" THEN "failed" ELSE "refused") \in Stages
    BY <1>0 DEF InFlight
  <2> QED
    BY <1>3, <1>b, <2>1 DEF Fault
<1>4. ASSUME NEW c \in Fetches, Load(c) PROVE request' \in [Fetches -> Request]
  BY <1>0, <1>4, RequestsDropped, RequestSent DEF Load
<1>5. ASSUME NEW c \in Fetches, Receive(c) PROVE request' \in [Fetches -> Request]
  BY <1>0, <1>5, <1>b DEF Receive
<1>6. ASSUME NEW c \in Fetches, Denied(c) PROVE request' \in [Fetches -> Request]
  <2>1. "refreshing" \in Stages
    BY <1>0 DEF InFlight
  <2>2. [request[c] EXCEPT !.at = "refreshing", !.retried = TRUE, !.refresh = stored] \in Request
    BY <1>0, <2>1, RequestUpdated
  <2> QED
    BY <1>0, <1>6, <1>d, <2>2 DEF Denied
<1>7. ASSUME NEW c \in Fetches, Rejected(c) PROVE request' \in [Fetches -> Request]
  BY <1>0, <1>7, <1>b DEF Rejected
<1>8. ASSUME NEW c \in Fetches, Renewed(c) PROVE request' \in [Fetches -> Request]
  <2>1. SentAgain(request[c]) \in Request
    BY <1>0, RequestUpdated
  <2> QED
    BY <1>0, <1>8, <2>1 DEF Renewed
<1>9. ASSUME NEW c \in Fetches, Refused(c) PROVE request' \in [Fetches -> Request]
  BY <1>9, <1>d DEF Refused
<1>10. ASSUME NEW c \in Fetches, NEW what \in {"login", "wrong", "data"}, Submit(c, what)
       PROVE  request' \in [Fetches -> Request]
  BY <1>0, <1>10, RequestSent DEF Submit
<1>11. ASSUME NEW n \in Pairs, Expire(n) \/ ExpireRefresh(n) PROVE request' \in [Fetches -> Request]
  BY <1>0, <1>11 DEF Expire, ExpireRefresh
<1>12. CASE Logout
  BY <1>0, <1>12 DEF Logout
<1>13. CASE UNCHANGED sessionVars
  BY <1>0, <1>13 DEF sessionVars
<1> QED
  BY <1>1, <1>2, <1>3, <1>4, <1>5, <1>6, <1>7, <1>8, <1>9, <1>10, <1>11, <1>12, <1>13
     DEF SessionNext

\* The numbers the requests carry are those of pairs.
LEMMA TokensCarried ==
    ASSUME SessionTypeOK, NEW c \in Fetches
    PROVE  /\ request[c].got \in Tokens /\ request[c].refresh \in Tokens
           /\ request[c].bearer \in Tokens
  BY DEF SessionTypeOK, Request, Tokens

\* A step keeps every variable in its type.
LEMMA SessionTypeStep == ASSUME SessionTypeOK, [SessionNext]_sessionVars PROVE SessionTypeOK'
<1> DEFINE Rest ==
             /\ dev \in BOOLEAN /\ account \in BOOLEAN
             /\ stored \in 0..MaxPairs
             /\ pairs \in 0..MaxPairs
             /\ deadRefresh \subseteq dead /\ dead \subseteq 1..pairs
             /\ faults \in 0..MaxFaults
             /\ session \in {"none", "in", "out"}
             /\ renewals \subseteq Fetches
<1>0. Rest /\ \A c \in Fetches : request[c].got \in 0..MaxPairs
  BY TokensCarried DEF SessionTypeOK, Tokens
<1> USE SessionAssumption DEF serverVars, sessionHistory
<1>1. ASSUME NEW c \in Fetches, Serve(c) PROVE Rest'
  BY <1>0, <1>1 DEF Serve, Issue, Deny
<1>2. ASSUME NEW c \in Fetches, ServeRefresh(c) PROVE Rest'
  BY <1>0, <1>2 DEF ServeRefresh, Issue, Deny
<1>3. ASSUME NEW c \in Fetches, Fault(c) PROVE Rest'
  BY <1>0, <1>3 DEF Fault
<1>4. ASSUME NEW c \in Fetches, Load(c) PROVE Rest'
  BY <1>0, <1>4 DEF Load
<1>5. ASSUME NEW c \in Fetches, Receive(c) PROVE Rest'
  <2>1. account' \in BOOLEAN
    BY <1>5 DEF Receive
  <2> QED
    BY <1>0, <1>5, <2>1 DEF Receive, SignedIn
<1>6. ASSUME NEW c \in Fetches, Denied(c) PROVE Rest'
  BY <1>0, <1>6 DEF Denied, ToLogin
<1>7. ASSUME NEW c \in Fetches, Rejected(c) PROVE Rest'
  <2>1. account' \in BOOLEAN
    BY <1>7 DEF Rejected
  <2> QED
    BY <1>0, <1>7, <2>1 DEF Rejected
<1>8. ASSUME NEW c \in Fetches, Renewed(c) PROVE Rest'
  BY <1>0, <1>8 DEF Renewed
<1>9. ASSUME NEW c \in Fetches, Refused(c) PROVE Rest'
  <2>1. account' \in BOOLEAN /\ stored' = 0
        /\ UNCHANGED <<dev, pairs, dead, deadRefresh, faults, session, renewals>>
    BY <1>9, Zenon DEF Refused, ToLogin
  <2> QED
    BY <1>0, <2>1
<1>10. ASSUME NEW c \in Fetches, NEW what \in {"login", "wrong", "data"}, Submit(c, what) PROVE Rest'
  BY <1>0, <1>10 DEF Submit
<1>11. ASSUME NEW n \in Pairs, Expire(n) \/ ExpireRefresh(n) PROVE Rest'
  BY <1>0, <1>11 DEF Expire, ExpireRefresh
<1>12. ASSUME Logout PROVE Rest'
  <2>1. account' \in BOOLEAN /\ stored' = 0 /\ session' = "out" /\ renewals' \subseteq Fetches
        /\ UNCHANGED <<dev, pairs, dead, deadRefresh, faults>>
    BY <1>12, Zenon DEF Logout, Left
  <2> QED
    BY <1>0, <2>1
<1>13. ASSUME UNCHANGED sessionVars PROVE Rest'
  BY <1>0, <1>13 DEF sessionVars
<1>14. Rest'
  BY <1>1, <1>2, <1>3, <1>4, <1>5, <1>6, <1>7, <1>8, <1>9, <1>10, <1>11, <1>12, <1>13
     DEF SessionNext
<1> QED
  BY <1>14, RequestStep DEF SessionTypeOK

\* Before the page is opened.
LEMMA SessionTypeInit == ASSUME SessionInit PROVE SessionTypeOK
<1>1. Unsent \in Request
  BY SessionAssumption DEF Unsent, Request, InFlight
<1>2. request \in [Fetches -> Request]
  BY <1>1 DEF SessionInit
<1>3. dev \in BOOLEAN /\ account \in BOOLEAN
  BY Zenon DEF SessionInit
<1>4. stored = 0 /\ pairs = 0 /\ faults = 0 /\ dead = {} /\ deadRefresh = {} /\ renewals = {}
  BY Zenon DEF SessionInit
<1>5. session \in {"none", "in", "out"}
  BY Zenon DEF SessionInit
<1> QED
  BY <1>2, <1>3, <1>4, <1>5, SessionAssumption DEF SessionTypeOK

\* An answer of the API changes its request only: a pair is handed out, ...
LEMMA IssueChanges ==
    ASSUME SessionTypeOK, NEW c \in Fetches, Issue(c)
    PROVE  /\ request'[c].at = IF request[c].at = "sent" THEN "ok" ELSE "renewed"
           /\ request'[c].got = pairs + 1
           /\ request'[c].kind = request[c].kind
           /\ request'[c].retried = request[c].retried
           /\ request'[c].bearer = request[c].bearer
           /\ \A d \in Fetches : d # c => request'[d] = request[d]
<1> DEFINE a == IF request[c].at = "sent" THEN "ok" ELSE "renewed"
           n == pairs + 1
<1>1. request' = [request EXCEPT ![c] = [request[c] EXCEPT !.at = a, !.got = n]]
  BY DEF Issue
<1>2. request \in [Fetches -> Request] /\ request[c] \in Request
  BY DEF SessionTypeOK
<1> HIDE DEF a, n
<1>3. request'[c] = [request[c] EXCEPT !.at = a, !.got = n]
      /\ \A d \in Fetches : d # c => request'[d] = request[d]
  BY <1>1, <1>2
<1>4. request'[c].at = a /\ request'[c].got = n
      /\ request'[c].kind = request[c].kind /\ request'[c].retried = request[c].retried
      /\ request'[c].bearer = request[c].bearer
  BY <1>2, <1>3 DEF Request
<1> QED
  BY <1>3, <1>4 DEF a, n

\* ... or the request is denied.
LEMMA DenyChanges ==
    ASSUME SessionTypeOK, NEW c \in Fetches, Deny(c)
    PROVE  /\ request'[c].at = IF request[c].at = "sent" THEN "denied" ELSE "refused"
           /\ request'[c].kind = request[c].kind
           /\ request'[c].retried = request[c].retried
           /\ \A d \in Fetches : d # c => request'[d] = request[d]
<1> DEFINE a == IF request[c].at = "sent" THEN "denied" ELSE "refused"
<1>1. request' = [request EXCEPT ![c] = [request[c] EXCEPT !.at = a]]
  BY DEF Deny
<1>2. request \in [Fetches -> Request] /\ request[c] \in Request
  BY DEF SessionTypeOK
<1> HIDE DEF a
<1>3. request'[c] = [request[c] EXCEPT !.at = a]
      /\ \A d \in Fetches : d # c => request'[d] = request[d]
  BY <1>1, <1>2
<1>4. request'[c].at = a
      /\ request'[c].kind = request[c].kind /\ request'[c].retried = request[c].retried
  BY <1>2, <1>3 DEF Request
<1> QED
  BY <1>3, <1>4 DEF a

\* The interceptor asks for a new pair with one request, or ends them all.
LEMMA DeniedChanges ==
    ASSUME SessionTypeOK, NEW c \in Fetches, Denied(c)
    PROVE  /\ request'[c].at = IF stored # 0 THEN "refreshing" ELSE "rejected"
           /\ stored # 0 => request'[c].retried
           /\ \A d \in Fetches : d # c =>
                 \/ request'[d] = request[d]
                 \/ request'[d].at = "done"
<1>1. request \in [Fetches -> Request] /\ \A d \in Fetches : request[d] \in Request
  BY DEF SessionTypeOK
<1>2. CASE stored # 0
  <2>1. request' = [request EXCEPT ![c] = [request[c] EXCEPT !.at = "refreshing",
                                              !.retried = TRUE, !.refresh = stored]]
    BY <1>2 DEF Denied
  <2>2. request'[c] = [request[c] EXCEPT !.at = "refreshing", !.retried = TRUE, !.refresh = stored]
        /\ \A d \in Fetches : d # c => request'[d] = request[d]
    BY <1>1, <2>1
  <2>3. request'[c].at = "refreshing" /\ request'[c].retried
    BY <1>1, <2>2 DEF Request
  <2> QED
    BY <1>2, <2>2, <2>3
<1>3. CASE stored = 0
  <2>1. request' = [Dropped(request) EXCEPT ![c].at = "rejected"]
    BY <1>3 DEF Denied, ToLogin
  <2>2. Dropped(request) \in [Fetches -> Request]
    BY <1>1, RequestsDropped
  <2>3. request'[c].at = "rejected"
        /\ \A d \in Fetches : d # c => request'[d] = Dropped(request)[d]
    BY <2>1, <2>2 DEF Request
  <2>4. \A d \in Fetches : Dropped(request)[d] = request[d] \/ Dropped(request)[d].at = "done"
    BY <1>1 DEF Dropped, Request
  <2> QED
    BY <1>3, <2>3, <2>4
<1> QED
  BY <1>2, <1>3

(***************************************************************************)
(* Who signed out is out.                                                  *)
(***************************************************************************)

\* The request that asks for new tokens, or is about to store them.
Renewing(q) == q.at \in {"refreshing", "renewed"}

\* Out for good: nothing is left that could store a pair again.
OutForGood ==
    session = "out" /\ renewals = {} => stored = 0 /\ \A c \in Fetches : ~ Renewing(request[c])

\* A tab without tokens begins no refresh.
LEMMA OutForGoodStep ==
    ASSUME SessionTypeOK, OutForGood, [SessionNext]_sessionVars PROVE OutForGood'
<1>0. request \in [Fetches -> Request] /\ \A c \in Fetches : request[c] \in Request
  BY DEF SessionTypeOK
<1> USE DEF OutForGood, Renewing, Request
<1>1. ASSUME NEW c \in Fetches, Serve(c) PROVE OutForGood'
  <2>1. CASE Issue(c)
    BY <1>1, <2>1, IssueChanges DEF Serve, sessionHistory
  <2>2. CASE Deny(c)
    BY <1>1, <2>2, DenyChanges DEF Serve, sessionHistory
  <2>3. CASE request' = [request EXCEPT ![c].at = "ok"]
    BY <1>0, <1>1, <2>3 DEF Serve, sessionHistory
  <2> QED
    BY <1>1, <2>1, <2>2, <2>3 DEF Serve
<1>2. ASSUME NEW c \in Fetches, ServeRefresh(c) PROVE OutForGood'
  BY <1>0, <1>2 DEF ServeRefresh, Issue, Deny, sessionHistory
<1>3. ASSUME NEW c \in Fetches, Fault(c) PROVE OutForGood'
  BY <1>0, <1>3 DEF Fault, sessionHistory
<1>4. ASSUME NEW c \in Fetches, Load(c) PROVE OutForGood'
  BY <1>0, <1>4 DEF Load, Dropped, Sent, Unsent, sessionHistory
<1>5. ASSUME NEW c \in Fetches, Receive(c) PROVE OutForGood'
  BY <1>0, <1>5 DEF Receive, SignedIn, sessionHistory
<1>6. ASSUME NEW c \in Fetches, Denied(c) PROVE OutForGood'
  <2>1. UNCHANGED <<stored, session, renewals>>
    BY <1>6 DEF Denied, sessionHistory
  <2> QED
    BY <1>6, <2>1, DeniedChanges
<1>7. ASSUME NEW c \in Fetches, Rejected(c) PROVE OutForGood'
  BY <1>0, <1>7 DEF Rejected, sessionHistory
<1>8. ASSUME NEW c \in Fetches, Renewed(c) PROVE OutForGood'
  BY <1>0, <1>8 DEF Renewed, SentAgain, sessionHistory
<1>9. ASSUME NEW c \in Fetches, Refused(c) PROVE OutForGood'
  BY <1>0, <1>9 DEF Refused, ToLogin, Dropped, sessionHistory
<1>10. ASSUME NEW c \in Fetches, NEW what \in {"login", "wrong", "data"}, Submit(c, what)
       PROVE  OutForGood'
  BY <1>0, <1>10 DEF Submit, Sent, Unsent, sessionHistory
<1>11. ASSUME NEW n \in Pairs, Expire(n) \/ ExpireRefresh(n) PROVE OutForGood'
  BY <1>11 DEF Expire, ExpireRefresh, sessionHistory
<1>12. CASE Logout
  BY <1>12 DEF Logout, Left
<1>13. CASE UNCHANGED sessionVars
  BY <1>13 DEF sessionVars, sessionHistory
<1> QED
  BY <1>1, <1>2, <1>3, <1>4, <1>5, <1>6, <1>7, <1>8, <1>9, <1>10, <1>11, <1>12, <1>13
     DEF SessionNext

(***************************************************************************)
(* The end of an access token does not end a session.                      *)
(***************************************************************************)

\* Dev mode, no answer lost, no refresh token expired.
Calm == dev /\ faults = 0 /\ deadRefresh = {}

\* Meanwhile no request fails or is refused a refresh; a second answer of 401
\* is one of a wrong password; and what is about to be stored is a pair.
Sound(q) ==
    /\ q.at \notin {"failed", "refused"}
    /\ q.at \in {"refreshing", "renewed"} => q.retried
    /\ q.at = "renewed" \/ (q.at = "sent" /\ q.retried) => q.got \in (1..pairs) \ dead
    /\ q.at = "sent" /\ q.retried => q.bearer = q.got
    /\ q.at = "denied" /\ q.retried => q.kind = "wrong"
    /\ q.at = "ok" /\ q.kind = "login" => q.got # 0

Lasting ==
    Calm => /\ session = "in" => stored # 0
            /\ \A c \in Fetches : Sound(request[c])

\* A new pair is good, and is handed to a sign-in or a refresh.
LEMMA IssueLasts ==
    ASSUME SessionTypeOK, Lasting, NEW c \in Fetches, Issue(c),
           request[c].at = "refreshing" \/ (request[c].at = "sent" /\ request[c].kind = "login"),
           UNCHANGED <<dev, dead, deadRefresh, stored, faults, session>>
    PROVE  Lasting'
<1>1. pairs \in Nat /\ dead \subseteq 1..pairs /\ pairs' = pairs + 1
  BY SessionAssumption DEF SessionTypeOK, Issue
<1>2. pairs + 1 \notin dead /\ pairs + 1 # 0 /\ pairs + 1 \in 1..pairs + 1
      /\ (1..pairs) \ dead \subseteq (1..pairs + 1) \ dead
  BY <1>1
<1>3. ASSUME Calm, NEW d \in Fetches PROVE Sound(request[d])'
  <2>0. Sound(request[d])
    BY <1>3 DEF Lasting
  <2>1. CASE d = c
    BY <1>1, <1>2, <2>0, <2>1, IssueChanges DEF Sound
  <2>2. CASE d # c
    BY <1>1, <1>2, <2>0, <2>2, IssueChanges DEF Sound
  <2> QED
    BY <2>1, <2>2
<1> QED
  BY <1>3 DEF Lasting, Calm

\* Every step keeps it.
LEMMA LastingStep ==
    ASSUME SessionTypeOK, Lasting, [SessionNext]_sessionVars PROVE Lasting'
<1>0. /\ request \in [Fetches -> Request] /\ \A c \in Fetches : request[c] \in Request
      /\ pairs \in Nat /\ dead \subseteq 1..pairs /\ faults \in Nat
      /\ deadRefresh \subseteq dead
  BY SessionAssumption DEF SessionTypeOK
<1> USE DEF Lasting, Calm, Sound, Request, serverVars, sessionHistory
<1>1. ASSUME NEW c \in Fetches, Serve(c) PROVE Lasting'
  <2>0. UNCHANGED <<dev, dead, deadRefresh, stored, faults, session>> /\ request[c].at = "sent"
    BY <1>1 DEF Serve
  <2>1. CASE Issue(c) /\ request[c].kind = "login"
    BY <2>0, <2>1, IssueLasts
  <2>2. CASE Deny(c) /\ (~ Admitted(request[c].bearer) \/ request[c].kind = "wrong")
    <3>2. Calm /\ request[c].retried => request[c].kind = "wrong"
      BY <1>0, <2>0, <2>2 DEF Admitted
    <3> QED
      BY <1>0, <2>0, <2>2, <3>2, DenyChanges DEF Deny
  <2>3. CASE request' = [request EXCEPT ![c].at = "ok"] /\ UNCHANGED pairs /\ request[c].kind # "login"
    BY <1>0, <2>0, <2>3
  <2> QED
    BY <1>1, <2>1, <2>2, <2>3 DEF Serve
<1>2. ASSUME NEW c \in Fetches, ServeRefresh(c) PROVE Lasting'
  <2>0. UNCHANGED <<dev, dead, deadRefresh, stored, faults, session>> /\ request[c].at = "refreshing"
    BY <1>2 DEF ServeRefresh
  <2>1. CASE Issue(c)
    BY <2>0, <2>1, IssueLasts
  <2>2. CASE Deny(c) /\ ~ Calm
    BY <2>0, <2>2
  <2> QED
    BY <1>2, <2>1, <2>2 DEF ServeRefresh, Admitted
<1>3. ASSUME NEW c \in Fetches, Fault(c) PROVE Lasting'
  BY <1>0, <1>3 DEF Fault
<1>4. ASSUME NEW c \in Fetches, Load(c) PROVE Lasting'
  BY <1>0, <1>4 DEF Load, Dropped, Sent, Unsent
<1>5. ASSUME NEW c \in Fetches, Receive(c) PROVE Lasting'
  BY <1>0, <1>5 DEF Receive, SignedIn
<1>6. ASSUME NEW c \in Fetches, Denied(c) PROVE Lasting'
  <2>1. UNCHANGED <<dev, pairs, dead, deadRefresh, stored, faults, session>>
    BY <1>6 DEF Denied
  <2> QED
    BY <1>6, <2>1, DeniedChanges
<1>7. ASSUME NEW c \in Fetches, Rejected(c) PROVE Lasting'
  BY <1>0, <1>7 DEF Rejected, Caught
<1>8. ASSUME NEW c \in Fetches, Renewed(c) PROVE Lasting'
  BY <1>0, <1>8 DEF Renewed, SentAgain
<1>9. ASSUME NEW c \in Fetches, Refused(c) PROVE Lasting'
  BY <1>0, <1>9 DEF Refused, ToLogin, Dropped
<1>10. ASSUME NEW c \in Fetches, NEW what \in {"login", "wrong", "data"}, Submit(c, what)
       PROVE  Lasting'
  BY <1>0, <1>10 DEF Submit, Sent, Unsent
<1>11. ASSUME NEW n \in Pairs, Expire(n) PROVE Lasting'
  BY <1>0, <1>11 DEF Expire
<1>12. ASSUME NEW n \in Pairs, ExpireRefresh(n) PROVE Lasting'
  BY <1>0, <1>12 DEF ExpireRefresh
<1>13. CASE Logout
  BY <1>13 DEF Logout
<1>14. CASE UNCHANGED sessionVars
  BY <1>14 DEF sessionVars
<1> QED
  BY <1>1, <1>2, <1>3, <1>4, <1>5, <1>6, <1>7, <1>8, <1>9, <1>10, <1>11, <1>12, <1>13, <1>14
     DEF SessionNext

(***************************************************************************)
(* The theorems.                                                           *)
(***************************************************************************)
SessionInv == SessionTypeOK /\ OutForGood /\ Lasting

\* It holds before the page is opened.
LEMMA SessionInvInit == ASSUME SessionInit PROVE SessionInv
<1>1. OutForGood /\ Lasting
  BY DEF SessionInit, OutForGood, Lasting, Sound, Unsent, Renewing
<1> QED
  BY <1>1, SessionTypeInit DEF SessionInv

\* The invariant holds of every run.
LEMMA SessionInvHolds == SessionSpec => []SessionInv
<1>1. SessionInv /\ [SessionNext]_sessionVars => SessionInv'
  BY SessionTypeStep, OutForGoodStep, LastingStep DEF SessionInv
<1> QED
  BY <1>1, SessionInvInit, PTL DEF SessionSpec

\* Every variable of the tab and of the API's tokens keeps its type.
THEOREM SessionTypeCorrect == SessionSpec => []SessionTypeOK
<1>1. SessionInv => SessionTypeOK
  BY DEF SessionInv
<1> QED
  BY <1>1, SessionInvHolds, PTL

\* Who signed out is out until a new sign-in, unless a refresh was under way
\* then (client.ts, logout of AuthContext.tsx).
THEOREM OutStaysOut == SessionSpec => []OutUnlessRenewing
<1>1. SessionInv => OutUnlessRenewing
  BY DEF SessionInv, OutForGood, OutUnlessRenewing
<1> QED
  BY <1>1, SessionInvHolds, PTL

\* In dev mode, while no answer is lost and no refresh token has expired, a tab
\* whose user signed in keeps tokens, whatever requests race (the interceptor
\* of client.ts).
THEOREM SessionLastsHolds == SessionSpec => []SessionLasts
<1>1. SessionInv => SessionLasts
  BY DEF SessionInv, Lasting, Calm, SessionLasts
<1> QED
  BY <1>1, SessionInvHolds, PTL

=============================================================================
