---------------------------- MODULE SessionProofs ----------------------------
(***************************************************************************)
(* Theorems about Session, for all tabs, users, tokens and bounds.  A call *)
(* that is answered 401 carried no token, or one that has expired, and an  *)
(* expired token is never valid again: so the token that a late 401 drops, *)
(* when it is still valid, is not the one that the call carried.           *)
(***************************************************************************)
EXTENDS Session, TLAPS

Logins   == {"signup", "signin"}
Reads    == {"orders", "balance"}
Statuses == {"waiting", "ok", "refused", "failed", "401", "404"}

Call == [what : Logins \cup Reads \cup {"idle"}, user : Users \cup {None},
         carried : Tokens \cup {None}, status : Statuses, data : Tokens \cup Row]

CallTypes ==
  /\ DOMAIN call = Tabs
  /\ \A t \in Tabs : call[t] \in [Slots(t) -> Call]

\* What is known of a call, given which tokens have been issued.
Sound(c, tokens) ==
  /\ c.carried # None => tokens[c.carried] # "no"
  /\ c.carried # None /\ c.status = "401" => tokens[c.carried] = "expired"
  /\ c.what \in Logins =>
       /\ c.user \in Users
       /\ c.status = "ok" => c.data \in Tokens /\ tokens[c.data] # "no"
  /\ c.what \in Reads => c.data \in Row

IInv ==
  /\ TypeOK /\ CallTypes
  /\ \A t \in Tabs : \A k \in Slots(t) : Sound(call[t][k], issued)

\* A token is issued once, and expires for good.
OnlyOnwards ==
  \A x \in Tokens : issued'[x] = issued[x] \/ issued[x] = "no" \/ issued'[x] = "expired"

-----------------------------------------------------------------------------
(* Calls. *)

\* An answer is a new call in the place of the one that is answered.
LEMMA ReplyIsMake ==
  ASSUME CallTypes, NEW t \in Tabs, NEW k \in Slots(t), NEW status, NEW data,
         Reply(t, k, status, data)
  PROVE  Make(t, k, [call[t][k] EXCEPT !.status = status, !.data = data])
  BY DEF CallTypes, Reply, Make

\* What is known of a call stays true while tokens are issued and expire.
LEMMA SoundKept ==
  ASSUME OnlyOnwards, issued' \in [Tokens -> {"no", "valid", "expired"}],
         issued \in [Tokens -> {"no", "valid", "expired"}],
         NEW c \in Call, Sound(c, issued)
  PROVE  Sound(c, issued')
<1>1. c.carried \in Tokens \cup {None}
  BY DEF Call
<1>2. ASSUME NEW x \in Tokens, issued[x] # "no"
      PROVE  issued'[x] # "no" /\ (issued[x] = "expired" => issued'[x] = "expired")
  BY <1>2 DEF OnlyOnwards
<1>3. QED
  BY <1>1, <1>2 DEF Sound

\* A step that leaves the calls alone but for one that is sound keeps them.
LEMMA CallsKept ==
  ASSUME IInv, OnlyOnwards, issued' \in [Tokens -> {"no", "valid", "expired"}],
         \/ UNCHANGED call
         \/ \E t \in Tabs : \E k \in Slots(t), c \in Call : Make(t, k, c) /\ Sound(c, issued')
  PROVE  CallTypes' /\ \A t \in Tabs : \A k \in Slots(t) : Sound(call'[t][k], issued')
<1>1. /\ CallTypes /\ issued \in [Tokens -> {"no", "valid", "expired"}]
      /\ \A t \in Tabs : \A k \in Slots(t) : call[t][k] \in Call /\ Sound(call[t][k], issued)
  BY DEF IInv, TypeOK, CallTypes
<1>2. \A t \in Tabs : \A k \in Slots(t) : Sound(call[t][k], issued')
  BY <1>1, SoundKept
<1>3. CASE UNCHANGED call
  BY <1>1, <1>2, <1>3 DEF CallTypes
<1>4. ASSUME NEW t \in Tabs, NEW k \in Slots(t), NEW c \in Call, Make(t, k, c), Sound(c, issued')
      PROVE  CallTypes' /\ \A s \in Tabs : \A j \in Slots(s) : Sound(call'[s][j], issued')
  <2>1. call' = [call EXCEPT ![t] = [call[t] EXCEPT ![k] = c]]
    BY <1>1, <1>4 DEF Make, CallTypes
  <2>2. /\ DOMAIN call' = Tabs /\ call'[t] = [call[t] EXCEPT ![k] = c]
        /\ \A s \in Tabs : s # t => call'[s] = call[s]
    BY <1>1, <2>1 DEF CallTypes
  <2>3. call'[t] \in [Slots(t) -> Call]
    BY <1>1, <1>4, <2>2 DEF CallTypes
  <2>4. CallTypes'
    BY <1>1, <2>2, <2>3 DEF CallTypes
  <2>5. \A j \in Slots(t) : Sound(call'[t][j], issued')
    <3>1. \A j \in Slots(t) : call'[t][j] = IF j = k THEN c ELSE call[t][j]
      BY <1>1, <2>2 DEF CallTypes
    <3>2. QED
      BY <1>2, <1>4, <3>1
  <2>6. \A s \in Tabs : s # t => \A j \in Slots(s) : Sound(call'[s][j], issued')
    BY <1>2, <2>2
  <2>7. QED
    BY <2>4, <2>5, <2>6
<1>5. QED
  BY <1>3, <1>4

-----------------------------------------------------------------------------
(* Steps. *)

\* What is known of a call under way before a step.
LEMMA CallFacts ==
  ASSUME IInv, NEW t \in Tabs, NEW k \in Slots(t)
  PROVE  /\ CallTypes /\ call[t][k] \in Call /\ Sound(call[t][k], issued)
         /\ issued \in [Tokens -> {"no", "valid", "expired"}]
         /\ storage \in Tokens \cup {None} /\ (storage # None => issued[storage] # "no")
         /\ OwnerOf \in [Tokens -> Users] /\ None \notin Tokens
         /\ version \in [Users -> 0..MaxVersion]
  BY SessionAssumption DEF IInv, TypeOK, CallTypes

\* Every step leaves the tokens as they are, issues one or lets one expire.
LEMMA TokenSteps ==
  ASSUME IInv, [Next]_vars
  PROVE  OnlyOnwards /\ issued' \in [Tokens -> {"no", "valid", "expired"}]
<1>1. issued \in [Tokens -> {"no", "valid", "expired"}]
  BY DEF IInv, TypeOK
<1>2. ASSUME NEW t \in Tabs, NEW k \in Slots(t), ServeLogin(t, k)
      PROVE  \/ UNCHANGED issued
             \/ \E x \in Tokens : issued[x] = "no" /\ issued' = [issued EXCEPT ![x] = "valid"]
  BY <1>2 DEF ServeLogin, Issue
<1>3. \/ UNCHANGED issued
      \/ \E x \in Tokens : issued' = [issued EXCEPT ![x] = "expired"]
      \/ \E t \in Tabs : \E k \in Slots(t) : ServeLogin(t, k)
  BY DEF Next, vars, server, Polls, Answers, Submit, FinishLogin, Logout,
         PollAsGuest, Poll, Serve, Finish, Reload, Expire, Change
<1>4. QED
  BY <1>1, <1>2, <1>3 DEF OnlyOnwards

\* Every step leaves the calls sound.
LEMMA CallSteps ==
  ASSUME IInv, [Next]_vars
  PROVE  CallTypes' /\ \A t \in Tabs : \A k \in Slots(t) : Sound(call'[t][k], issued')
<1> DEFINE New(t, k, c) == c \in Call /\ Make(t, k, c) /\ Sound(c, issued')
<1>1. OnlyOnwards /\ issued' \in [Tokens -> {"no", "valid", "expired"}]
  BY TokenSteps
<1>2. CASE UNCHANGED call
  BY <1>1, <1>2, CallsKept
<1>3. ASSUME NEW t \in Tabs, NEW k \in Slots(t), NEW c, New(t, k, c)
      PROVE  CallTypes' /\ \A s \in Tabs : \A j \in Slots(s) : Sound(call'[s][j], issued')
  BY <1>1, <1>3, CallsKept
<1>4. None \in Row /\ NoCall \in Call /\ Sound(NoCall, issued')
  BY DEF Row, NoCall, Made, Call, Statuses, Sound, Logins, Reads
<1>5. ASSUME NEW t \in Tabs, NEW k \in Slots(t), NEW u \in Users, NEW what \in Logins,
             Submit(t, k, what, u)
      PROVE  \E c : New(t, k, c)
  <2>1. Make(t, k, Made(what, u, storage)) /\ issued' = issued
    BY <1>5 DEF Submit, server
  <2>2. Made(what, u, storage) \in Call
    BY <1>4, <1>5, CallFacts DEF Made, Call, Statuses
  <2>3. Sound(Made(what, u, storage), issued')
    BY <2>1, CallFacts, <1>5 DEF Made, Sound, Logins, Reads
  <2>4. QED
    BY <2>1, <2>2, <2>3
<1>6. ASSUME NEW t \in Tabs, NEW k \in Slots(t), ServeLogin(t, k)
      PROVE  \E c : New(t, k, c)
  <2>1. /\ call[t][k] \in Call /\ Sound(call[t][k], issued') /\ CallTypes
        /\ call[t][k].what \in Logins
    BY <1>1, <1>6, CallFacts, SoundKept DEF ServeLogin, Logins
  <2>2. CASE Reply(t, k, "refused", None)
    <3> DEFINE c == [call[t][k] EXCEPT !.status = "refused", !.data = None]
    <3>1. Make(t, k, c)
      BY <2>1, <2>2, ReplyIsMake
    <3>2. c \in Call /\ Sound(c, issued')
      BY <1>4, <2>1 DEF Call, Statuses, Sound, Logins, Reads
    <3>3. QED
      BY <3>1, <3>2
  <2>3. CASE ~Reply(t, k, "refused", None)
    <3>1. PICK token \in Tokens : Issue(token) /\ Reply(t, k, "ok", token)
      BY <1>6, <2>3 DEF ServeLogin
    <3> DEFINE c == [call[t][k] EXCEPT !.status = "ok", !.data = token]
    <3>2. Make(t, k, c)
      BY <2>1, <3>1, ReplyIsMake
    <3>3. issued'[token] = "valid"
      BY <3>1, CallFacts DEF Issue
    <3>4. c \in Call
      BY <2>1 DEF Call, Statuses
    <3>5. Sound(c, issued')
      BY <2>1, <3>3 DEF Call, Statuses, Sound, Logins, Reads
    <3>6. QED
      BY <3>2, <3>4, <3>5
  <2>4. QED
    BY <2>2, <2>3
<1>7. ASSUME NEW t \in Tabs, NEW k \in Slots(t), FinishLogin(t, k)
      PROVE  \E c : New(t, k, c)
  BY <1>4, <1>7 DEF FinishLogin
<1>8. ASSUME NEW t \in Tabs, NEW k \in Slots(t), Poll(t, k)
      PROVE  \E c : New(t, k, c)
  <2>1. Make(t, k, Made("orders", None, storage)) /\ issued' = issued
    BY <1>8 DEF Poll, server
  <2>2. Made("orders", None, storage) \in Call
    BY <1>4, CallFacts DEF Made, Call, Statuses, Reads
  <2>3. Sound(Made("orders", None, storage), issued')
    BY <1>4, <2>1, CallFacts DEF Made, Sound, Logins, Reads
  <2>4. QED
    BY <2>1, <2>2, <2>3
<1>9. ASSUME NEW t \in Tabs, NEW k \in Slots(t), Serve(t, k)
      PROVE  \E c : New(t, k, c)
  <2>1. /\ call[t][k] \in Call /\ Sound(call[t][k], issued) /\ CallTypes
        /\ call[t][k].what \in Reads /\ issued' = issued
    BY <1>9, CallFacts DEF Serve, server, Reads
  <2>2. ASSUME NEW status \in Statuses, NEW data \in Row, Reply(t, k, status, data),
               status = "401" => ~Authorized(call[t][k])
        PROVE  \E c : New(t, k, c)
    <3> DEFINE c == [call[t][k] EXCEPT !.status = status, !.data = data]
    <3>1. Make(t, k, c)
      BY <2>1, <2>2, ReplyIsMake
    <3>2. c \in Call
      BY <2>1, <2>2 DEF Call
    <3>3. /\ c.what = call[t][k].what /\ c.carried = call[t][k].carried
          /\ c.status = status /\ c.data = data
      BY <2>1 DEF Call
    <3>4. c.carried # None /\ c.status = "401" => issued[c.carried] = "expired"
      <4>1. call[t][k].carried \in Tokens \cup {None}
        BY <2>1 DEF Call
      <4>2. QED
        BY <2>1, <2>2, <3>3, <4>1, CallFacts DEF Authorized, Sound
    <3>5. Sound(c, issued')
      BY <2>1, <2>2, <3>3, <3>4 DEF Sound, Logins, Reads
    <3>6. QED
      BY <3>1, <3>2, <3>5
  <2>3. CASE Reply(t, k, "failed", None)
    BY <1>4, <2>2, <2>3 DEF Statuses
  <2>4. CASE ~Authorized(call[t][k]) /\ Reply(t, k, "401", None)
    BY <1>4, <2>2, <2>4 DEF Statuses
  <2>5. CASE Reply(t, k, "404", None)
    BY <1>4, <2>2, <2>5 DEF Statuses
  <2>6. CASE /\ Authorized(call[t][k])
             /\ Reply(t, k, "ok", <<OwnerOf[call[t][k].carried], version[OwnerOf[call[t][k].carried]]>>)
    <3> DEFINE u == OwnerOf[call[t][k].carried]
    <3>1. u \in Users /\ version[u] \in 0..MaxVersion
      BY <2>1, <2>6, CallFacts DEF Authorized, Call
    <3>2. <<u, version[u]>> \in Row
      BY <3>1 DEF Row
    <3>3. QED
      BY <2>2, <2>6, <3>2 DEF Statuses
  <2>7. QED
    BY <1>9, <2>3, <2>4, <2>5, <2>6 DEF Serve
<1>10. ASSUME NEW t \in Tabs, NEW k \in Slots(t), Finish(t, k)
       PROVE  \E c : New(t, k, c)
  <2>1. issued' = issued /\ storage' \in {storage, None}
    BY <1>10 DEF Finish, server
  <2>2. CASE Make(t, k, NoCall)
    BY <1>4, <2>2
  <2>3. CASE Make(t, k, Made("balance", None, storage'))
    <3>1. Made("balance", None, storage') \in Call
      BY <1>4, <2>1, CallFacts DEF Made, Call, Statuses, Reads
    <3>2. Sound(Made("balance", None, storage'), issued')
      BY <1>4, <2>1, CallFacts DEF Made, Sound, Logins, Reads
    <3>3. QED
      BY <2>3, <3>1, <3>2
  <2>4. QED
    BY <1>10, <2>2, <2>3 DEF Finish
<1>11. ASSUME NEW t \in Tabs, Reload(t)
       PROVE  CallTypes' /\ \A s \in Tabs : \A k \in Slots(s) : Sound(call'[s][k], issued')
  <2>1. call' = [call EXCEPT ![t] = [k \in Slots(t) |-> NoCall]] /\ issued' = issued /\ CallTypes
    BY <1>11 DEF Reload, server, IInv
  <2>2. /\ DOMAIN call' = Tabs /\ call'[t] = [k \in Slots(t) |-> NoCall]
        /\ \A s \in Tabs : s # t => call'[s] = call[s]
    BY <2>1 DEF CallTypes
  <2>3. CallTypes'
    BY <1>4, <2>1, <2>2 DEF CallTypes
  <2>4. QED
    BY <1>4, <2>1, <2>2, <2>3 DEF IInv
<1>12. QED
  BY <1>2, <1>3, <1>5, <1>6, <1>7, <1>8, <1>9, <1>10, <1>11
  DEF Next, vars, Polls, Answers, Logout, PollAsGuest, Expire, Change, Logins

\* Every step keeps the types.
LEMMA TypesKept ==
  ASSUME IInv, [Next]_vars
  PROVE  TypeOK'
<1>1. TypeOK /\ None \in Row /\ OnlyOnwards /\ issued' \in [Tokens -> {"no", "valid", "expired"}]
  BY TokenSteps DEF IInv, Row
<1>2. CallTypes' /\ \A t \in Tabs : \A k \in Slots(t) : Sound(call'[t][k], issued')
  BY CallSteps
<1>3. \A t \in Tabs : \A k \in Slots(t) :
        call'[t][k].carried \in {None} \cup {x \in Tokens : issued'[x] # "no"}
  BY <1>2 DEF CallTypes, Call, Sound
<1>4. events' \in 0..MaxEvents
  <2>1. Event \/ UNCHANGED events
    BY DEF Next, vars, Polls, Answers, Submit, ServeLogin, FinishLogin, Logout, PollAsGuest, Poll,
           Serve, Finish, Reload, Expire, Change
  <2>2. QED
    BY <1>1, <2>1, SessionAssumption DEF Event, TypeOK
<1>5. accounts' \subseteq Users
  <2>1. \/ UNCHANGED accounts
        \/ \E t \in Tabs : \E k \in Slots(t) :
             call[t][k].what \in Logins /\ accounts' = accounts \cup {call[t][k].user}
    BY DEF Next, vars, server, Polls, Answers, Submit, ServeLogin, FinishLogin, Logout,
           PollAsGuest, Poll, Serve, Finish, Reload, Expire, Change, Logins
  <2>2. QED
    BY <1>1, <2>1, CallFacts DEF TypeOK, Sound
<1>6. version' \in [Users -> 0..MaxVersion]
  <2>1. \/ UNCHANGED version
        \/ \E u \in Users : version[u] < MaxVersion /\ version' = [version EXCEPT ![u] = @ + 1]
    BY DEF Next, vars, server, Polls, Answers, Submit, ServeLogin, FinishLogin, Logout,
           PollAsGuest, Poll, Serve, Finish, Reload, Expire, Change
  <2>2. QED
    BY <1>1, <2>1, SessionAssumption DEF TypeOK
<1>7. shown' \in [Tabs -> [orders : Row, balance : Row]]
  <2>1. Blank \in [orders : Row, balance : Row]
    BY <1>1 DEF Blank
  <2>2. ASSUME NEW t \in Tabs, shown' = [shown EXCEPT ![t] = Blank]
        PROVE  shown' \in [Tabs -> [orders : Row, balance : Row]]
    BY <1>1, <2>1, <2>2 DEF TypeOK
  <2>3. ASSUME NEW t \in Tabs, NEW k \in Slots(t), Finish(t, k)
        PROVE  shown' \in [Tabs -> [orders : Row, balance : Row]]
    <3>1. call[t][k].data \in Row
      BY <2>3, CallFacts DEF Finish, Sound, Reads
    <3>2. \/ shown' = [shown EXCEPT ![t].balance = call[t][k].data]
          \/ shown' = [shown EXCEPT ![t].orders = call[t][k].data]
          \/ shown' = shown
      BY <2>3 DEF Finish
    <3>3. QED
      BY <1>1, <3>1, <3>2 DEF TypeOK
  <2>4. QED
    BY <1>1, <2>2, <2>3
    DEF Next, vars, Polls, Answers, Submit, ServeLogin, FinishLogin, Logout, PollAsGuest, Cleared,
        Poll, Serve, Reload, Expire, Change, TypeOK
<1>8. /\ storage' \in Tokens \cup {None} /\ tab' \in [Tabs -> Tokens \cup {None}]
      /\ \A x \in Tokens : issued'[x] = "no" => x # storage' /\ \A t \in Tabs : x # tab'[t]
  <2>1. /\ storage \in Tokens \cup {None} /\ tab \in [Tabs -> Tokens \cup {None}]
        /\ \A x \in Tokens : issued'[x] = "no" => x # storage /\ \A t \in Tabs : x # tab[t]
    BY <1>1 DEF TypeOK, OnlyOnwards
  <2>2. ASSUME NEW t \in Tabs, NEW k \in Slots(t), FinishLogin(t, k)
        PROVE  \/ UNCHANGED <<storage, tab>>
               \/ \E x \in Tokens : /\ issued'[x] # "no" /\ storage' = x
                                    /\ tab' = [tab EXCEPT ![t] = x]
    BY <2>2, CallFacts DEF FinishLogin, Sound, Logins, server
  <2>3. ASSUME NEW t \in Tabs,
               \/ Logout(t) \/ Reload(t)
               \/ \E k \in Slots(t) : Finish(t, k)
        PROVE  \/ UNCHANGED <<storage, tab>>
               \/ UNCHANGED storage /\ tab' = [tab EXCEPT ![t] = storage]
               \/ storage' = None /\ tab' = [tab EXCEPT ![t] = None]
    BY <2>3 DEF Logout, Reload, Finish
  <2>4. \/ UNCHANGED <<storage, tab>>
        \/ \E t \in Tabs : \/ Logout(t) \/ Reload(t)
                           \/ \E k \in Slots(t) : Finish(t, k) \/ FinishLogin(t, k)
    BY DEF Next, vars, Polls, Answers, Submit, ServeLogin, PollAsGuest, Poll, Serve, Expire, Change
  <2>5. QED
    BY <2>1, <2>2, <2>3, <2>4, SessionAssumption
<1>9. QED
  BY <1>1, <1>3, <1>4, <1>5, <1>6, <1>7, <1>8 DEF TypeOK

\* The initial states satisfy the invariant.
LEMMA InitIInv == Init => IInv
<1> SUFFICES ASSUME Init PROVE IInv
  OBVIOUS
<1>1. None \in Row /\ NoCall \in Call /\ Sound(NoCall, issued)
  BY DEF Row, NoCall, Made, Call, Statuses, Sound, Logins, Reads
<1>2. CallTypes /\ \A t \in Tabs : \A k \in Slots(t) : call[t][k] = NoCall
  BY <1>1 DEF Init, CallTypes
<1>3. InitialToken \in Tokens \cup {None} /\ (InitialToken # None => issued[InitialToken] = "valid")
  BY SessionAssumption DEF Init
<1>4. /\ accounts \subseteq Users /\ issued \in [Tokens -> {"no", "valid", "expired"}]
      /\ version \in [Users -> 0..MaxVersion] /\ events \in 0..MaxEvents
      /\ storage \in Tokens \cup {None} /\ tab \in [Tabs -> Tokens \cup {None}]
      /\ shown \in [Tabs -> [orders : Row, balance : Row]]
  BY <1>1, <1>3, SessionAssumption DEF Init, Blank
<1>5. \A x \in Tokens : issued[x] = "no" => x # storage /\ \A t \in Tabs : x # tab[t]
  BY <1>3 DEF Init
<1>6. \A t \in Tabs : \A k \in Slots(t) :
        call[t][k].carried \in {None} \cup {x \in Tokens : issued[x] # "no"}
  BY <1>2 DEF NoCall, Made
<1>7. QED
  BY <1>1, <1>2, <1>4, <1>5, <1>6 DEF IInv, TypeOK

\* The invariant holds in every reachable state.
LEMMA Inductive == Spec => []IInv
<1>1. IInv /\ [Next]_vars => IInv'
  BY TypesKept, CallSteps DEF IInv
<1>2. QED
  BY <1>1, InitIInv, PTL DEF Spec

\* The types: every token that is stored, held by a tab or under way has been
\* issued.
THEOREM TypeCorrect == Spec => []TypeOK
<1>1. IInv => TypeOK
  BY DEF IInv
<1>2. QED
  BY <1>1, Inductive, PTL

\* A valid stored token is dropped by a logout, or by the late 401 of a call
\* that carried another one.
THEOREM SessionsEndForCause == Spec => SessionLasts
<1> DEFINE Cause ==
      storage # None /\ issued[storage] = "valid" /\ storage' = None =>
        \E t \in Tabs : \/ Logout(t)
                        \/ \E k \in Slots(t) :
                             call[t][k].carried \notin {None, storage} /\ Finish(t, k)
<1>1. IInv /\ [Next]_vars => Cause
  <2> SUFFICES ASSUME IInv, [Next]_vars, storage # None, issued[storage] = "valid", storage' = None,
                      ~\E t \in Tabs : Logout(t)
               PROVE  \E t \in Tabs : \E k \in Slots(t) :
                        call[t][k].carried \notin {None, storage} /\ Finish(t, k)
    OBVIOUS
  <2>1. ASSUME NEW t \in Tabs, NEW k \in Slots(t), FinishLogin(t, k)
        PROVE  storage' # None
    BY <2>1, CallFacts DEF FinishLogin, Sound, Logins
  <2>2. PICK t \in Tabs : \E k \in Slots(t) : Finish(t, k) /\ DropsToken(call[t][k])
    BY <2>1
    DEF Next, vars, Polls, Answers, Submit, ServeLogin, PollAsGuest, Poll,
        Serve, Finish, Reload, Expire, Change
  <2>3. PICK k \in Slots(t) : Finish(t, k) /\ DropsToken(call[t][k])
    BY <2>2
  <2>4. call[t][k].carried # None /\ issued[call[t][k].carried] = "expired"
    BY <2>3, CallFacts DEF DropsToken, Sound
  <2>5. QED
    BY <2>3, <2>4
<1>2. QED
  BY <1>1, Inductive, PTL DEF Spec, SessionLasts
=============================================================================
