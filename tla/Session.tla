------------------------------- MODULE Session -------------------------------
(***************************************************************************)
(* The browser's session and account tables against the backend's accounts *)
(* and tokens.  The token is kept in localStorage, which all tabs share,   *)
(* and again in the state of each tab (AuthProvider).  A signed-in tab     *)
(* polls every four seconds: orders and positions together, then the       *)
(* balance, each call with the token that is stored when it is made.       *)
(* Polls overlap, and a call is made, served and answered at three moments.*)
(* Rows are a user and a version: what they hold is in Settlement.         *)
(***************************************************************************)
EXTENDS Naturals, FiniteSets

CONSTANTS
  Tabs, Users,
  Tokens, OwnerOf,   \* the tokens signin can issue, and the user each is for
  None,              \* no token, nothing shown
  InitialAccounts,
  InitialToken,      \* what the tabs find in localStorage when they are opened
  MaxCalls,          \* bound, by tab: calls under way at one time
  MaxVersion,        \* bound: changes of a user's rows
  MaxEvents          \* bound: what users do, deposits and fills, tokens that expire, calls that fail

ASSUME SessionAssumption ==
  /\ OwnerOf \in [Tokens -> Users] /\ None \notin Tokens /\ InitialAccounts \subseteq Users
  /\ InitialToken \in {k \in Tokens : OwnerOf[k] \in InitialAccounts} \cup {None}
  /\ MaxCalls \in [Tabs -> Nat \ {0}]
  /\ MaxVersion \in Nat /\ MaxEvents \in Nat

VARIABLES
  accounts, issued,  \* users that exist; by token: "no", "valid" or "expired"
  version,           \* by user: of orders, positions and balance; 0: no balance yet
  storage,           \* the token in localStorage
  tab,               \* by tab: the token AuthProvider has, None for a guest
  shown,             \* by tab: the orders and the balance on the screen
  call,              \* by tab and slot: the call under way
  events             \* how many of MaxEvents have happened

server == <<accounts, issued, version>>
vars   == <<server, storage, tab, shown, call, events>>

Slots(t) == 1..MaxCalls[t]
Blank == [orders |-> None, balance |-> None]
Guest(t) == tab[t] = None
Event    == events < MaxEvents /\ events' = events + 1

\* A call of request(): it carries the stored token, if there is one.
Made(what, user, token) ==
  [what |-> what, user |-> user, carried |-> token, status |-> "waiting", data |-> None]
NoCall == Made("idle", None, None)
Make(t, k, c) == call' = [call EXCEPT ![t][k] = c]
Reply(t, k, status, data) ==
  call' = [call EXCEPT ![t][k].status = status, ![t][k].data = data]

Init ==
  /\ accounts = InitialAccounts
  /\ issued = [k \in Tokens |-> IF k = InitialToken THEN "valid" ELSE "no"]
  /\ version = [u \in Users |-> 0]
  /\ storage = InitialToken
  /\ tab = [t \in Tabs |-> InitialToken]
  /\ shown = [t \in Tabs |-> Blank]
  /\ call = [t \in Tabs |-> [k \in Slots(t) |-> NoCall]]
  /\ events = 0

-----------------------------------------------------------------------------
(* Login: signup and signin.                                               *)

Submit(t, k, what, u) ==
  /\ Event
  /\ Guest(t) /\ call[t][k] = NoCall
  /\ Make(t, k, Made(what, u, storage))
  /\ UNCHANGED <<server, storage, tab, shown>>

\* Faulty: the token is signed with a secret that authMiddleware does not have.
Issue_Unknown(token) == UNCHANGED issued

Issue(token) == issued' = [issued EXCEPT ![token] = "valid"]

\* The handlers of signup and signin: a name is taken once, and signin asks
\* for an account and its password.
ServeLogin(t, k) ==
  LET c == call[t][k] IN
  /\ c.what \in {"signup", "signin"} /\ c.status = "waiting"
  /\ \/ /\ c.what = "signup" <=> c.user \notin accounts
        /\ accounts' = accounts \cup {c.user}
        /\ \E token \in Tokens :
             /\ OwnerOf[token] = c.user /\ issued[token] = "no"
             /\ Issue(token)
             /\ Reply(t, k, "ok", token)
     \/ Reply(t, k, "refused", None) /\ UNCHANGED <<accounts, issued>>
  /\ UNCHANGED <<version, storage, tab, shown, events>>

\* login() is called even when the dialog has been closed in the meantime.
FinishLogin(t, k) ==
  LET c == call[t][k] IN
  /\ c.what \in {"signup", "signin"} /\ c.status # "waiting"
  /\ IF c.status = "ok"
     THEN storage' = c.data /\ tab' = [tab EXCEPT ![t] = c.data]
     ELSE UNCHANGED <<storage, tab>>
  /\ Make(t, k, NoCall)
  /\ UNCHANGED <<server, shown, events>>

Logout(t) ==
  /\ Event
  /\ ~Guest(t)
  /\ storage' = None
  /\ tab' = [tab EXCEPT ![t] = None]
  /\ UNCHANGED <<server, shown, call>>

-----------------------------------------------------------------------------
(* refresh() of the trading screen.                                        *)

\* Faulty: a guest's tables are left as they are.
Cleared_Not(t) == shown[t]

Cleared(t) == Blank

\* A guest's tables are cleared, anybody else's are asked for.
PollAsGuest(t) ==
  /\ Guest(t) /\ shown[t] # Cleared(t)
  /\ shown' = [shown EXCEPT ![t] = Cleared(t)]
  /\ UNCHANGED <<server, storage, tab, call, events>>

Poll(t, k) ==
  /\ ~Guest(t) /\ call[t][k] = NoCall
  /\ Make(t, k, Made("orders", None, storage))
  /\ UNCHANGED <<server, storage, tab, shown, events>>

\* Faulty: the middleware never looks at the time in the token.
Authorized_Stale(c) == c.carried # None /\ issued[c.carried] # "no"

Authorized(c)  == c.carried # None /\ issued[c.carried] = "valid"
HasBalance(u)  == version[u] > 0

\* authMiddleware, then the handler of GET /orders and /position, or /balance.
Serve(t, k) ==
  LET c == call[t][k]
      u == OwnerOf[c.carried]
  IN
  /\ c.what \in {"orders", "balance"} /\ c.status = "waiting"
  /\ \/ /\ CASE ~Authorized(c) -> Reply(t, k, "401", None)
             [] Authorized(c) /\ c.what = "balance" /\ ~HasBalance(u) -> Reply(t, k, "404", None)
             [] OTHER -> Reply(t, k, "ok", <<u, version[u]>>)
        /\ UNCHANGED events
     \/ Event /\ Reply(t, k, "failed", None)
  /\ UNCHANGED <<server, storage, tab, shown>>

\* Faulty: any 401 drops the stored token, that of a call without one too.
DropsToken_Any(c) == c.status = "401"

DropsToken(c) == c.status = "401" /\ c.carried # None

\* The answer of request(): a 401 ends the session of this tab and drops
\* whatever token is stored by now.  After the orders comes the balance.
Finish(t, k) ==
  LET c == call[t][k] IN
  /\ c.what \in {"orders", "balance"} /\ c.status # "waiting"
  /\ IF DropsToken(c) THEN storage' = None /\ tab' = [tab EXCEPT ![t] = None]
                      ELSE UNCHANGED <<storage, tab>>
  /\ shown' = CASE c.what = "balance" -> [shown EXCEPT ![t].balance = c.data]
                [] c.what = "orders" /\ c.status = "ok" -> [shown EXCEPT ![t].orders = c.data]
                [] OTHER -> shown
  /\ Make(t, k, IF c.what = "orders" THEN Made("balance", None, storage') ELSE NoCall)
  /\ UNCHANGED <<server, events>>

\* The page is loaded again: its calls are forgotten, its token is the stored.
Reload(t) ==
  /\ Event
  /\ tab' = [tab EXCEPT ![t] = storage]
  /\ shown' = [shown EXCEPT ![t] = Blank]
  /\ call' = [call EXCEPT ![t] = [k \in Slots(t) |-> NoCall]]
  /\ UNCHANGED <<server, storage>>

-----------------------------------------------------------------------------
\* Seven days have passed.
Expire(token) ==
  /\ Event
  /\ issued[token] = "valid"
  /\ issued' = [issued EXCEPT ![token] = "expired"]
  /\ UNCHANGED <<accounts, version, storage, tab, shown, call>>

\* A deposit (POST /on-ramp, which creates the balance), an order or a fill.
Change(u) ==
  /\ Event
  /\ u \in accounts /\ version[u] < MaxVersion
  /\ version' = [version EXCEPT ![u] = @ + 1]
  /\ UNCHANGED <<accounts, issued, storage, tab, shown, call>>

Polls(t) == PollAsGuest(t) \/ \E k \in Slots(t) : Poll(t, k)
Answers(t, k) == ServeLogin(t, k) \/ FinishLogin(t, k) \/ Serve(t, k) \/ Finish(t, k)

Next ==
  \/ \E t \in Tabs :
       \/ Polls(t) \/ Logout(t) \/ Reload(t)
       \/ \E k \in Slots(t) :
            \/ Answers(t, k)
            \/ \E u \in Users, what \in {"signup", "signin"} : Submit(t, k, what, u)
  \/ \E token \in Tokens : Expire(token)
  \/ \E u \in Users : Change(u)

Spec == Init /\ [][Next]_vars

\* The timer of an open page goes off for ever, and every call comes back.
FairSpec ==
  Spec /\ \A t \in Tabs : WF_vars(Polls(t)) /\ \A k \in Slots(t) : WF_vars(Answers(t, k))

-----------------------------------------------------------------------------
Row == (Users \X (0..MaxVersion)) \cup {None}

\* Every variable has its type, and only issued tokens are about.
TypeOK ==
  /\ accounts \subseteq Users /\ issued \in [Tokens -> {"no", "valid", "expired"}]
  /\ version \in [Users -> 0..MaxVersion] /\ events \in 0..MaxEvents
  /\ storage \in Tokens \cup {None} /\ tab \in [Tabs -> Tokens \cup {None}]
  /\ shown \in [Tabs -> [orders : Row, balance : Row]]
  /\ \A k \in Tokens : issued[k] = "no" => k # storage /\ \A t \in Tabs : k # tab[t]
  /\ \A t \in Tabs : \A k \in Slots(t) : call[t][k].carried \in {None} \cup {x \in Tokens : issued[x] # "no"}

\* Every screen comes to show what it should, whatever answers were late,
\* overtook each other or belonged to a session that is over: nothing for a
\* guest, and for a signed-in tab the rows of the user whose token is stored
\* (Trade.tsx: refresh; state.tsx: AuthProvider).  A tab that is still signed
\* in when another has logged out is not covered: it has no token to send.
Rows(u) == [orders |-> <<u, version[u]>>,
            balance |-> IF HasBalance(u) THEN <<u, version[u]>> ELSE None]
InStep(t) == IF Guest(t) THEN shown[t] = Blank
             ELSE storage # None => shown[t] = Rows(OwnerOf[storage])
ScreensHeal == <>[](\A t \in Tabs : InStep(t))

\* A stored token that has expired is dropped as long as anybody polls
\* (api.ts:55, "let AuthProvider fall back to guest mode instead of every poll
\* failing forever").
ExpiredIsDropped ==
  []<>(storage # None /\ (\E t \in Tabs : ~Guest(t)) => issued[storage] = "valid")

\* A session ends for a cause: a valid stored token is dropped by a logout, or
\* by the late 401 of a call that carried another, expired one, and never by a
\* missing balance, a failing server or a call made without a token.
SessionLasts ==
  [][storage # None /\ issued[storage] = "valid" /\ storage' = None =>
       \E t \in Tabs : \/ Logout(t)
                       \/ \E k \in Slots(t) :
                            call[t][k].carried \notin {None, storage} /\ Finish(t, k)]_vars
=============================================================================
