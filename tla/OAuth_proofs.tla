---------------------------- MODULE OAuth_proofs ----------------------------
(***************************************************************************)
(* Theorems about the OAuth sessions of a provider, for any number of      *)
(* calls, logins, sessions and tokens: the variables keep their types, a   *)
(* token is refreshed only when it is due, and without a fault the row can *)
(* always be started from.                                                 *)
(*                                                                         *)
(* A rotating endpoint accepts a refresh token once.  That the row keeps   *)
(* one that it accepts needs three facts: tokens on their way to the row   *)
(* (of a call or of a login) are in no other hands, so that nobody can use *)
(* them up; a session whose token is the row's is a session of that row;   *)
(* and hence who uses up the row's token is a call that will write the row.*)
(***************************************************************************)
EXTENDS OAuth, TLAPS

Getting(c) == call[c].pc \in {"answered", "persist"}
Carries(l) == login[l].pc \in {"persist", "fill"}

(* The locals of a call; what a session, the row and a reload may hold.    *)
Bounds ==
  /\ \A c \in Calls : ~At(c, "idle") => Mine(c) \in 1..made
  /\ \A c \in Calls : At(c, "ask") =>
       ~Fresh(session[Mine(c)].tokens) /\ call[c].sent = session[Mine(c)].tokens.refresh
  /\ \A c \in Calls : Getting(c) => call[c].got.refresh \in 1..issued
  /\ \A l \in Logins : Carries(l) => login[l].got.refresh \in 1..issued
  /\ row.tokens = NoTokens \/ row.tokens.refresh \in 1..issued
  /\ reload.row.tokens.refresh \in 0..issued
  /\ \A s \in Sessions : session[s].tokens.refresh \in 0..issued
  /\ reload.read => made < MaxSessions

(* A token that has not been written to the row yet.                       *)
Unwritten(t) == t # row.tokens.refresh /\ t # reload.row.tokens.refresh

LoginInv(l) ==
  Carries(l) =>
    /\ login[l].got.refresh \in good
    /\ Unwritten(login[l].got.refresh)
    /\ \A s \in Sessions : login[l].got.refresh # session[s].tokens.refresh
    /\ \A c \in Calls : Getting(c) => login[l].got.refresh # call[c].got.refresh
    /\ \A k \in Logins \ {l} : Carries(k) => login[l].got.refresh # login[k].got.refresh

CallInv(c) ==
  Getting(c) =>
    /\ call[c].got.refresh \in good
    /\ Unwritten(call[c].got.refresh)
    /\ \A s \in Sessions : (s # Mine(c) \/ At(c, "answered")) =>
         call[c].got.refresh # session[s].tokens.refresh
    /\ \A d \in Calls \ {c} : Getting(d) => call[c].got.refresh # call[d].got.refresh

Owned ==
  row.tokens.refresh # 0 =>
    /\ \A s \in Sessions : session[s].tokens.refresh = row.tokens.refresh =>
                             session[s].of = row.id
    /\ reload.row.tokens.refresh = row.tokens.refresh => reload.row.id = row.id

RowInv ==
  \/ row.tokens.refresh \in good \cup {0}
  \/ \E c \in Calls : Getting(c) /\ SameRow(c) /\ call[c].sent = row.tokens.refresh

(* An endpoint that does not rotate goes on accepting what it gave.        *)
Lasting ==
  ~rotates =>
    /\ row.tokens.refresh \in good \cup {0}
    /\ reload.row.tokens.refresh \in good \cup {0}
    /\ \A s \in Sessions : session[s].tokens.refresh \in good \cup {0}
    /\ \A c \in Calls : Getting(c) => call[c].got.refresh \in good
    /\ \A l \in Logins : Carries(l) => login[l].got.refresh \in good

Tracked ==
  (rotates /\ faults = 0) =>
    /\ \A l \in Logins : LoginInv(l)
    /\ \A c \in Calls : CallInv(c)
    /\ Owned
    /\ RowInv

IInv == TypeOK /\ Bounds /\ Lasting /\ Tracked

-----------------------------------------------------------------------------
(* What the initial states establish.                                      *)
LEMMA InitIInv == Init => IInv
<1> SUFFICES ASSUME Init PROVE IInv
  OBVIOUS
<1> USE OAuthAssumption DEF Init
<1>1. TypeOK
  BY DEF TypeOK, Tokens, NoTokens, Row, NoRow, Session, NoSession, Locals, Idle,
         NotRead, NotStarted, NoLogin, Sessions, Nobody
<1>2. Bounds
  BY DEF Bounds, At, Idle, Getting, Carries, NoLogin, NoTokens, NotRead, NoRow,
         NoSession
<1>3. Tracked
  BY DEF Tracked, LoginInv, CallInv, Owned, RowInv, Getting, Carries, Idle, NoLogin,
         NotRead, NoRow, NoTokens, NoSession
<1>4. Lasting
  BY DEF Lasting, Getting, Carries, Idle, NoLogin, NotRead, NoRow, NoTokens, NoSession
<1> QED
  BY <1>1, <1>2, <1>3, <1>4 DEF IInv

-----------------------------------------------------------------------------
(* Types.  The locals of the calls and the locks move together; the rest   *)
(* of the state is typed one variable at a time.                           *)
Holding(c) == call[c].pc \in {"ask", "answered", "persist"}

LockType ==
  \A c \in Calls, s \in Sessions : lock[s] = c <=> call[c].s = s /\ Holding(c)

PlainTypes ==
  /\ now \in 0..MaxTime
  /\ rotates \in BOOLEAN
  /\ issued \in 1..MaxTokens /\ good \subseteq 1..issued
  /\ row \in Row
  /\ session \in [Sessions -> Session]
  /\ made \in 0..MaxSessions /\ current \in 0..made
  /\ lock \in [Sessions -> Calls \cup {Nobody}]
  /\ call \in [Calls -> Locals]
  /\ pending \in [Logins -> [started : BOOLEAN, at : 0..MaxTime]]
  /\ login \in [Logins -> [pc : {"idle", "exchange", "persist", "fill"}, got : Tokens]]
  /\ reload \in [read : BOOLEAN, row : Row]
  /\ faults \in 0..MaxFaults

LEMMA TypesSplit == TypeOK <=> PlainTypes /\ LockType
BY DEF TypeOK, PlainTypes, LockType, Holding

LEMMA Values ==
  /\ NoTokens \in Tokens /\ NoRow \in Row /\ NoSession \in Session /\ Idle \in Locals
  /\ \A t \in Tokens : t.refresh \in Nat /\ t.expires \in Nat
  /\ \A x \in Row : x.id \in Nat /\ x.tokens \in Tokens
  /\ \A x \in Session : x.of \in Nat /\ x.tokens \in Tokens
  /\ \A x \in Locals : x.s \in 0..MaxSessions /\ x.sent \in Nat /\ x.got \in Tokens
BY OAuthAssumption DEF NoTokens, NoRow, NoSession, Idle, Tokens, Row, Session, Locals

LEMMA CallTypes ==
  ASSUME PlainTypes, Bounds, NEW c \in Calls, Call(c)
  PROVE  PlainTypes'
<1> USE OAuthAssumption, Values DEF PlainTypes, At, Mine, Goes, endpoint, logins
<1>1. CASE Begin(c)
  <2>1. current \in 0..MaxSessions
    OBVIOUS
  <2>2. [Idle EXCEPT !.pc = "check", !.s = current] \in Locals
    BY <2>1 DEF Locals
  <2> QED
    BY <1>1, <2>2 DEF Begin
<1>2. CASE Check(c)
  <2>1. [call[c] EXCEPT !.pc = "wait"] \in Locals
    BY DEF Locals
  <2> QED
    BY <1>2, <2>1 DEF Check
<1>3. CASE Lock(c)
  <2>1. session[Mine(c)].tokens.refresh \in Nat
    BY <1>3 DEF Lock, Bounds, Sessions
  <2>2. [call[c] EXCEPT !.pc = "ask", !.sent = session[Mine(c)].tokens.refresh] \in Locals
    BY <2>1 DEF Locals
  <2> QED
    <3>1. lock' \in [Sessions -> Calls \cup {Nobody}]
      BY <1>3 DEF Lock
    <3>2. call' \in [Calls -> Locals]
      BY <1>3, <2>2 DEF Lock
    <3> QED
      BY <1>3, <3>1, <3>2 DEF Lock
<1>4. CASE Answered(c)
  <2>1. Granted(c) \in Tokens
    BY DEF Granted, RefreshToken, Tokens
  <2>2. [call[c] EXCEPT !.pc = "answered", !.got = Granted(c)] \in Locals
    BY <2>1 DEF Locals
  <2>3. issued' \in 1..MaxTokens /\ good' \subseteq 1..issued'
    BY <1>4 DEF Answered, Grants
  <2> QED
    BY <1>4, <2>2, <2>3 DEF Answered
<1>5. CASE Refused(c)
  BY <1>5 DEF Refused, Release
<1>6. CASE Arrives(c)
  <2>1. [call[c] EXCEPT !.pc = "persist"] \in Locals
    BY DEF Locals
  <2>2. Mine(c) \in Sessions
    BY <1>6 DEF Arrives, Bounds, Sessions
  <2>3. [session[Mine(c)] EXCEPT !.tokens = call[c].got] \in Session
    BY <2>2 DEF Session
  <2>4. session' \in [Sessions -> Session]
    BY <1>6, <2>2, <2>3 DEF Arrives
  <2> QED
    BY <1>6, <2>1, <2>4 DEF Arrives
<1>7. CASE Persist(c)
  <2>1. [row EXCEPT !.tokens = call[c].got] \in Row
    BY DEF Row
  <2> QED
    BY <1>7, <2>1 DEF Persist, Release
<1>8. CASE TimesOut(c) \/ PersistFails(c) \/ Dropped(c)
  <2>1. faults' \in 0..MaxFaults
    BY <1>8 DEF TimesOut, PersistFails, Dropped, Faulty
  <2>2. lock' \in [Sessions -> Calls \cup {Nobody}]
    BY <1>8 DEF TimesOut, PersistFails, Dropped, Release
  <2>3. call' \in [Calls -> Locals]
    BY <1>8 DEF TimesOut, PersistFails, Dropped
  <2> QED
    BY <1>8, <2>1, <2>2, <2>3 DEF TimesOut, PersistFails, Dropped
<1> QED
  BY <1>1, <1>2, <1>3, <1>4, <1>5, <1>6, <1>7, <1>8 DEF Call

(* Where a step of a call leaves it; the other calls stay where they are.  *)
Stays(c) ==
  /\ call'[c].s = call[c].s
  /\ call'[c].sent = call[c].sent
  /\ call'[c].got = call[c].got

LEMMA CallMoves ==
  ASSUME PlainTypes, NEW c \in Calls, Call(c)
  PROVE  /\ \A d \in Calls \ {c} : call'[d] = call[d]
         /\ Begin(c) => call'[c].pc = "check" /\ call'[c].s = current
         /\ Check(c) => call'[c].pc \in {"idle", "wait"} /\ (call'[c].pc = "wait" => Stays(c))
         /\ Lock(c) => \/ call'[c].pc = "idle" /\ lock' = lock
                      \/ /\ call'[c].pc = "ask" /\ call'[c].s = call[c].s
                         /\ call'[c].sent = session[Mine(c)].tokens.refresh
                         /\ ~Fresh(session[Mine(c)].tokens)
                         /\ lock' = [lock EXCEPT ![Mine(c)] = c]
         /\ Answered(c) => /\ call'[c].pc = "answered" /\ call'[c].got = Granted(c)
                           /\ call'[c].s = call[c].s /\ call'[c].sent = call[c].sent
         /\ Arrives(c) => call'[c].pc = "persist" /\ Stays(c)
         /\ Refused(c) \/ Persist(c) \/ TimesOut(c) \/ PersistFails(c) \/ Dropped(c)
              => call'[c].pc = "idle"
<1>1. call \in [Calls -> Locals] /\ call[c] \in Locals
  BY DEF PlainTypes
<1>2. \A x : Goes(c, x) => call'[c] = x /\ \A d \in Calls \ {c} : call'[d] = call[d]
  BY <1>1 DEF Goes
<1>3. CASE Begin(c)
  <2>1. call'[c] = [Idle EXCEPT !.pc = "check", !.s = current]
    BY <1>2, <1>3 DEF Begin
  <2> QED
    BY <1>2, <1>3, <2>1 DEF Begin, Idle, At, Check, Lock, Answered, Arrives, Refused,
                            Persist, TimesOut, HttpTimeout, PersistFails, Dropped
<1>4. ASSUME Check(c)
      PROVE  call'[c].pc \in {"idle", "wait"} /\ (call'[c].pc = "wait" => Stays(c))
  <2>1. CASE call'[c] = [call[c] EXCEPT !.pc = "wait"]
    BY <1>1, <2>1 DEF Stays, Locals
  <2> QED
    BY <1>2, <1>4, <2>1 DEF Check, Idle
<1>5. ASSUME Lock(c), ~RefreshedMeanwhile(c)
      PROVE  /\ call'[c].pc = "ask" /\ call'[c].s = call[c].s
             /\ call'[c].sent = session[Mine(c)].tokens.refresh
  <2>1. call'[c] = [call[c] EXCEPT !.pc = "ask", !.sent = session[Mine(c)].tokens.refresh]
    BY <1>2, <1>5 DEF Lock
  <2> QED
    BY <1>1, <2>1 DEF Locals
<1>6. ASSUME Lock(c), RefreshedMeanwhile(c)
      PROVE  call'[c].pc = "idle" /\ lock' = lock
  BY <1>2, <1>6 DEF Lock, Idle
<1>7. ASSUME Answered(c)
      PROVE  /\ call'[c].pc = "answered" /\ call'[c].got = Granted(c)
             /\ call'[c].s = call[c].s /\ call'[c].sent = call[c].sent
  <2>1. call'[c] = [call[c] EXCEPT !.pc = "answered", !.got = Granted(c)]
    BY <1>2, <1>7 DEF Answered
  <2> QED
    BY <1>1, <2>1 DEF Locals
<1>8. ASSUME Arrives(c) PROVE call'[c].pc = "persist" /\ Stays(c)
  <2>1. call'[c] = [call[c] EXCEPT !.pc = "persist"]
    BY <1>2, <1>8 DEF Arrives
  <2> QED
    BY <1>1, <2>1 DEF Stays, Locals
<1>9. ASSUME Refused(c) \/ Persist(c) \/ TimesOut(c) \/ PersistFails(c) \/ Dropped(c)
      PROVE  call'[c].pc = "idle"
  BY <1>2, <1>9 DEF Refused, Persist, TimesOut, PersistFails, Dropped, Idle
<1>10. \A d \in Calls \ {c} : call'[d] = call[d]
  BY <1>2 DEF Call, Begin, Check, Lock, Answered, Refused, Arrives, Persist, TimesOut,
              PersistFails, Dropped
<1>11. Lock(c) => \/ RefreshedMeanwhile(c)
                  \/ ~Fresh(session[Mine(c)].tokens) /\ lock' = [lock EXCEPT ![Mine(c)] = c]
  BY DEF Lock, RefreshedMeanwhile
<1>12. Begin(c) => call'[c].pc = "check" /\ call'[c].s = current
  BY <1>3
<1> QED
  BY <1>4, <1>5, <1>6, <1>7, <1>8, <1>9, <1>10, <1>11, <1>12

LEMMA HasSession ==
  ASSUME PlainTypes, Bounds, NEW c \in Calls, ~At(c, "idle")
  PROVE  Mine(c) \in Sessions /\ Mine(c) \in 1..made
<1>1. made \in 0..MaxSessions /\ MaxSessions \in Nat
  BY OAuthAssumption DEF PlainTypes
<1>2. Mine(c) \in 1..made
  BY DEF Bounds
<1> QED
  BY <1>1, <1>2 DEF Sessions

LEMMA CallLocks ==
  ASSUME PlainTypes, LockType, Bounds, NEW c \in Calls, Call(c)
  PROVE  LockType'
<1> USE OAuthAssumption DEF LockType, Holding, At, Mine
<1>1. lock \in [Sessions -> Calls \cup {Nobody}]
  BY DEF PlainTypes
<1>2. Nobody \notin Calls
  BY DEF Nobody
<1>3. \A d \in Calls \ {c} : call'[d] = call[d]
  BY CallMoves
<1>4. CASE Begin(c) \/ Check(c)
  BY <1>3, <1>4, CallMoves DEF Begin, Check
<1>5. CASE Lock(c)
  <2>1. lock[Mine(c)] = Nobody /\ ~Holding(c)
    BY <1>5 DEF Lock
  <2> QED
    BY <1>1, <1>2, <1>3, <1>5, <2>1, CallMoves
<1>6. CASE Answered(c) \/ Arrives(c)
  <2>1. lock' = lock /\ Holding(c)
    BY <1>6 DEF Answered, Arrives
  <2>2. call'[c].pc \in {"answered", "persist"} /\ call'[c].s = call[c].s
    BY <1>6, CallMoves DEF Stays
  <2> QED
    BY <1>3, <2>1, <2>2
<1>7. CASE Refused(c) \/ Persist(c) \/ TimesOut(c) \/ PersistFails(c)
  BY <1>1, <1>2, <1>3, <1>7, CallMoves DEF Refused, Persist, TimesOut, PersistFails,
                                            HttpTimeout, Release
<1>8. CASE Dropped(c)
  <2>1. Mine(c) \in Sessions /\ call'[c].pc = "idle"
    BY <1>8, CallMoves, HasSession DEF Dropped
  <2>2. lock' = IF lock[Mine(c)] = c THEN [lock EXCEPT ![Mine(c)] = Nobody] ELSE lock
    BY <1>8 DEF Dropped
  <2> QED
    BY <1>1, <1>2, <1>3, <2>1, <2>2
<1> QED
  BY <1>4, <1>5, <1>6, <1>7, <1>8 DEF Call

LEMMA LoginTypes ==
  ASSUME PlainTypes, NEW l \in Logins, Login(l)
  PROVE  PlainTypes'
<1> USE OAuthAssumption, Values DEF PlainTypes, endpoint, logins
<1> DEFINE Started == [started : BOOLEAN, at : 0..MaxTime]
<1> DEFINE Carried == [pc : {"idle", "exchange", "persist", "fill"}, got : Tokens]
<1>1. CASE Start(l) \/ Reauth(l)
  <2>1. Pruned \in [Logins -> Started]
    BY DEF Pruned, NotStarted
  <2>2. [started |-> TRUE, at |-> now] \in Started
    OBVIOUS
  <2> HIDE DEF Started
  <2>3. pending' \in [Logins -> Started]
    BY <1>1, <2>1, <2>2 DEF Start, Reauth, Begins
  <2> QED
    BY <1>1, <2>3 DEF Start, Reauth, Begins, Started
<1>2. CASE Complete(l)
  <2>1. NotStarted \in Started
    BY DEF NotStarted
  <2>2. \A pc \in {"exchange", "idle"} : [login[l] EXCEPT !.pc = pc] \in Carried
    OBVIOUS
  <2>3. login' \in [Logins -> Carried] /\ pending' \in [Logins -> Started]
    BY <1>2, <2>1, <2>2 DEF Complete
  <2> QED
    BY <1>2, <2>3 DEF Complete
<1>3. CASE Exchange(l)
  <2>1. [refresh |-> issued + 1, expires |-> now + Life] \in Tokens
    BY DEF Tokens
  <2>2. login' \in [Logins -> Carried]
    BY <1>3, <2>1 DEF Exchange
  <2>3. issued' \in 1..MaxTokens /\ good' \subseteq 1..issued'
    BY <1>3 DEF Exchange
  <2> QED
    BY <1>3, <2>2, <2>3 DEF Exchange
<1>4. CASE CreateRow(l)
  <2>1. [id |-> login[l].got.refresh, tokens |-> NoTokens] \in Row
    BY DEF Row
  <2>2. login' \in [Logins -> Carried]
    BY <1>4 DEF CreateRow
  <2> QED
    BY <1>4, <2>1, <2>2 DEF CreateRow
<1>5. CASE PersistLogin(l)
  <2>1. [row EXCEPT !.tokens = login[l].got] \in Row
    BY DEF Row
  <2>2. login' \in [Logins -> Carried]
    BY <1>5 DEF PersistLogin, NoLogin
  <2> QED
    BY <1>5, <2>1, <2>2 DEF PersistLogin
<1>6. CASE LoginFails(l)
  BY <1>6 DEF LoginFails, NoLogin
<1> QED
  BY <1>1, <1>2, <1>3, <1>4, <1>5, <1>6 DEF Login

LEMMA LoginLocks ==
  ASSUME LockType, NEW l \in Logins, Login(l)
  PROVE  LockType'
BY DEF LockType, Holding, Login, Start, Reauth, Begins, Complete, Exchange, CreateRow,
       PersistLogin, LoginFails

LEMMA RestTypes ==
  ASSUME PlainTypes, LockType, Bounds, ReadRow \/ Install \/ DeleteProvider \/ Tick
  PROVE  PlainTypes' /\ LockType'
<1> USE OAuthAssumption, Values DEF PlainTypes, LockType, Holding, endpoint, logins
<1>1. CASE ReadRow
  BY <1>1 DEF ReadRow
<1>2. CASE Install
  <2>1. reload.row.id \in Nat /\ reload.row.tokens \in Tokens
    OBVIOUS
  <2>2. [of |-> reload.row.id, tokens |-> reload.row.tokens] \in Session
    BY <2>1 DEF Session
  <2>3. session' \in [Sessions -> Session]
    BY <1>2, <2>2 DEF Install
  <2> QED
    BY <1>2, <2>3 DEF Install, NotRead, Bounds
<1>3. CASE DeleteProvider
  BY <1>3 DEF DeleteProvider
<1>4. CASE Tick
  <2>1. now' \in 0..MaxTime
    BY <1>4 DEF Tick
  <2> QED
    BY <1>4, <2>1 DEF Tick
<1> QED
  BY <1>1, <1>2, <1>3, <1>4

LEMMA TypeStep ==
  ASSUME TypeOK, Bounds, [Next]_vars
  PROVE  TypeOK'
<1>1. PlainTypes /\ LockType
  BY TypesSplit
<1>2. PlainTypes' /\ LockType'
  <2>1. CASE UNCHANGED vars
    BY <1>1, <2>1 DEF PlainTypes, LockType, Holding, vars, endpoint, logins
  <2> QED
    BY <1>1, <2>1, CallTypes, CallLocks, LoginTypes, LoginLocks, RestTypes DEF Next
<1> QED
  BY <1>2, TypesSplit, PTL

-----------------------------------------------------------------------------
(* Bounds: where tokens come from.                                         *)
LEMMA LocksExclude ==
  ASSUME PlainTypes, LockType, Bounds,
         NEW c \in Calls, NEW d \in Calls \ {c}, Holding(c), Holding(d)
  PROVE  Mine(c) # Mine(d)
<1>1. Mine(c) \in Sessions
  BY HasSession DEF Holding, At
<1> QED
  BY <1>1 DEF LockType, Mine

(* What a step of a call does to the tokens.                               *)
LEMMA CallEffects ==
  ASSUME PlainTypes, NEW c \in Calls, Call(c)
  PROVE  /\ now' = now /\ made' = made /\ reload' = reload /\ login' = login
         /\ rotates' = rotates
         /\ \A s \in Sessions :
              /\ session'[s].of = session[s].of
              /\ session'[s].tokens =
                   IF Arrives(c) /\ s = Mine(c) THEN call[c].got ELSE session[s].tokens
         /\ row'.id = row.id
         /\ row'.tokens = IF Persist(c) /\ SameRow(c) THEN call[c].got ELSE row.tokens
         /\ ~Answered(c) => issued' = issued /\ good' = good
         /\ Answered(c) => issued' = issued + 1
<1>1. /\ session \in [Sessions -> Session] /\ row \in Row
  BY DEF PlainTypes
<1>2. /\ now' = now /\ made' = made /\ reload' = reload /\ login' = login
      /\ rotates' = rotates
  BY DEF Call, Begin, Check, Lock, Answered, Refused, Arrives, Persist, TimesOut,
         PersistFails, Dropped, endpoint, logins
<1>3. CASE Answered(c)
  BY <1>2, <1>3 DEF Answered, Grants, Arrives, Persist, At
<1>4. CASE Arrives(c)
  BY <1>1, <1>2, <1>4 DEF Arrives, Answered, Persist, At, Session, endpoint
<1>5. CASE Persist(c)
  <2>1. row'.id = row.id /\ row'.tokens = IF SameRow(c) THEN call[c].got ELSE row.tokens
    BY <1>1, <1>5 DEF Persist, Row
  <2> QED
    BY <1>2, <1>5, <2>1 DEF Persist, Answered, Arrives, At, endpoint
<1>6. CASE ~Answered(c) /\ ~Arrives(c) /\ ~Persist(c)
  <2>1. session' = session /\ row' = row /\ issued' = issued /\ good' = good
    BY <1>6 DEF Call, Begin, Check, Lock, Refused, TimesOut, PersistFails, Dropped, endpoint
  <2> QED
    BY <1>2, <1>6, <2>1
<1> QED
  BY <1>3, <1>4, <1>5, <1>6

LEMMA GrantedRefresh ==
  ASSUME PlainTypes, NEW c \in Calls, Answered(c)
  PROVE  /\ call'[c].got.refresh = IF rotates THEN issued + 1 ELSE call[c].sent
         /\ good' = IF rotates THEN (good \ {call[c].sent}) \cup {issued + 1} ELSE good
         /\ call[c].sent \in good
<1>1. call'[c].got = Granted(c)
  BY CallMoves DEF Call
<1>2. good' = IF rotates THEN (good \ {call[c].sent}) \cup {issued + 1} ELSE good
  BY DEF Answered, Grants
<1>3. Granted(c).refresh = IF rotates THEN issued + 1 ELSE call[c].sent
  BY DEF Granted, RefreshToken
<1> QED
  BY <1>1, <1>2, <1>3 DEF Answered

LEMMA CallBounds ==
  ASSUME PlainTypes, LockType, Bounds, NEW c \in Calls, Call(c)
  PROVE  Bounds'
<1> USE OAuthAssumption DEF At, Mine, Getting, Carries
<1>1. \A d \in Calls \ {c} : call'[d] = call[d]
  BY CallMoves
<1>2. /\ issued \in Nat /\ good \subseteq 1..issued /\ made \in Nat /\ current \in 0..made
  BY DEF PlainTypes
<1>3. /\ now' = now /\ made' = made /\ reload' = reload /\ login' = login
  BY CallEffects
<1>4. issued' \in Nat /\ issued' \geq issued
  BY <1>2, CallEffects
<1>5. ~At(c, "idle")' => Mine(c)' \in 1..made
  <2>1. CASE Begin(c)
    BY <1>2, <2>1, CallMoves DEF Begin
  <2>2. CASE ~Begin(c)
    <3>1. ~At(c, "idle")
      BY <2>2 DEF Call, Check, Lock, Answered, Refused, Arrives, Persist, TimesOut,
                  HttpTimeout, PersistFails, Dropped
    <3>2. call'[c].pc = "idle" \/ call'[c].s = call[c].s
      BY <2>2, CallMoves DEF Call, Stays
    <3> QED
      BY <3>1, <3>2, HasSession
  <2> QED
    BY <2>1, <2>2
<1>6. Getting(c)' => call'[c].got.refresh \in 1..issued'
  <2>1. CASE Answered(c)
    <3>1. issued' = issued + 1
      BY <2>1, CallEffects
    <3>2. /\ call'[c].got.refresh = IF rotates THEN issued + 1 ELSE call[c].sent
          /\ call[c].sent \in good
      BY <2>1, GrantedRefresh
    <3>3. call[c].sent \in 1..issued
      BY <1>2, <3>2
    <3>4. issued + 1 \in 1..issued' /\ 1..issued \subseteq 1..issued'
      BY <1>2, <3>1
    <3>5. call'[c].got.refresh \in {call[c].sent, issued + 1}
      BY <3>2
    <3> QED
      BY <3>3, <3>4, <3>5
  <2>2. CASE Arrives(c)
    <3>1. call'[c].got = call[c].got /\ call[c].got.refresh \in 1..issued
      BY <2>2, CallMoves DEF Arrives, Bounds, Stays
    <3> QED
      BY <1>2, <1>4, <3>1
  <2> QED
    BY <2>1, <2>2, CallMoves DEF Call
<1>7. Arrives(c) \/ Persist(c) => call[c].got.refresh \in 1..issued
  BY DEF Arrives, Persist, Bounds
<1>8. \A s \in Sessions : session'[s].tokens.refresh \in 0..issued'
  BY <1>2, <1>4, <1>7, CallEffects DEF Bounds
<1>9. row'.tokens = NoTokens \/ row'.tokens.refresh \in 1..issued'
  BY <1>2, <1>4, <1>7, CallEffects DEF Bounds
<1>10. \A d \in Calls : At(d, "ask")' =>
         ~Fresh(session[Mine(d)].tokens)' /\ call'[d].sent = session'[Mine(d)'].tokens.refresh
  <2> SUFFICES ASSUME NEW d \in Calls, At(d, "ask")'
               PROVE  /\ ~Fresh(session[Mine(d)].tokens)'
                      /\ call'[d].sent = session'[Mine(d)'].tokens.refresh
    OBVIOUS
  <2>1. CASE d = c
    <3>1. Lock(c) /\ session' = session
      BY <2>1, CallMoves DEF Call, Lock
    <3> QED
      BY <1>3, <2>1, <3>1, CallMoves, SMTT(40) DEF Fresh
  <2>2. CASE d # c
    <3>1. At(d, "ask") /\ call'[d] = call[d] /\ Mine(d) \in Sessions
      BY <1>1, <2>2, HasSession
    <3>2. session'[Mine(d)].tokens = session[Mine(d)].tokens
      <4>1. Arrives(c) => Mine(c) # Mine(d)
        BY <2>2, <3>1, LocksExclude DEF Arrives, Holding
      <4> QED
        BY <3>1, <4>1, CallEffects
    <3> QED
      BY <1>3, <3>1, <3>2 DEF Bounds, Fresh
  <2> QED
    BY <2>1, <2>2
<1> QED
  BY <1>1, <1>2, <1>3, <1>4, <1>5, <1>6, <1>8, <1>9, <1>10 DEF Bounds

LEMMA OtherBounds ==
  ASSUME PlainTypes, Bounds, NEW l \in Logins,
         Login(l)
  PROVE  Bounds'
<1> USE OAuthAssumption DEF Bounds, At, Mine, Getting, Carries, endpoint, logins
<1>1. /\ issued \in Nat /\ good \subseteq 1..issued /\ now \in Nat /\ made \in Nat
      /\ session \in [Sessions -> Session] /\ row \in Row /\ reload.row \in Row
      /\ login \in [Logins -> [pc : {"idle", "exchange", "persist", "fill"}, got : Tokens]]
  BY DEF PlainTypes
<1>2. CASE Start(l) \/ Reauth(l)
  BY <1>2 DEF Start, Reauth, Begins, Fresh
<1>3. CASE Complete(l)
  BY <1>1, <1>3 DEF Complete, Fresh
<1>4. CASE Exchange(l)
  BY <1>1, <1>4 DEF Exchange, Fresh
<1>5. CASE CreateRow(l)
  BY <1>1, <1>5 DEF CreateRow, Fresh
<1>6. CASE PersistLogin(l)
  BY <1>1, <1>6 DEF PersistLogin, Fresh, NoLogin, Row
<1>7. CASE LoginFails(l)
  BY <1>1, <1>7 DEF LoginFails, Fresh, NoLogin
<1> QED
  BY <1>2, <1>3, <1>4, <1>5, <1>6, <1>7 DEF Login

LEMMA RestBounds ==
  ASSUME PlainTypes, Bounds, ReadRow \/ Install \/ DeleteProvider \/ Tick
  PROVE  Bounds'
<1> USE OAuthAssumption DEF Bounds, At, Mine, Getting, Carries, endpoint, logins
<1>1. /\ issued \in Nat /\ now \in Nat /\ made \in Nat
      /\ session \in [Sessions -> Session] /\ row \in Row /\ reload.row \in Row
  BY DEF PlainTypes
<1>2. CASE ReadRow
  BY <1>1, <1>2 DEF ReadRow, Fresh, NoTokens
<1>3. CASE Install
  <2>1. \A s \in Sessions : session'[s] = session[s] \/ session'[s].tokens = reload.row.tokens
    BY <1>1, <1>3 DEF Install
  <2>2. \A s \in 1..made : s \in Sessions => session'[s] = session[s]
    BY <1>1, <1>3 DEF Install
  <2>3. made' \in {made, made + 1} /\ reload' = NotRead
    BY <1>3 DEF Install
  <2>4. UNCHANGED <<now, endpoint, row, lock, call, logins, faults>>
    BY <1>3 DEF Install
  <2>5. \A c \in Calls : ~At(c, "idle") => session'[Mine(c)] = session[Mine(c)]
    BY <2>2, HasSession DEF At, Mine
  <2>6. \A c \in Calls : At(c, "ask") =>
          ~Fresh(session'[Mine(c)].tokens) /\ call[c].sent = session'[Mine(c)].tokens.refresh
    BY <2>5
  <2>7. \A s \in Sessions : session'[s].tokens.refresh \in 0..issued
    BY <2>1
  <2>8. \A c \in Calls : ~At(c, "idle") => Mine(c) \in 1..made'
    BY <1>1, <2>3
  <2>9. ~reload'.read /\ reload'.row.tokens.refresh = 0
    BY <2>3 DEF NotRead, NoRow, NoTokens
  <2> QED
    BY <1>1, <2>4, <2>6, <2>7, <2>8, <2>9 DEF Fresh
<1>4. CASE DeleteProvider
  BY <1>1, <1>4 DEF DeleteProvider, Fresh, NoRow, NoTokens
<1>5. CASE Tick
  <2>1. \A s \in Sessions : session[s].tokens.expires \in Nat
    BY <1>1, Values
  <2>2. \A s \in Sessions : ~Fresh(session[s].tokens) => ~Fresh(session[s].tokens)'
    BY <1>1, <1>5, <2>1 DEF Tick, Fresh
  <2>3. \A c \in Calls : At(c, "ask") => Mine(c) \in Sessions
    BY HasSession DEF At
  <2> QED
    BY <1>5, <2>2, <2>3 DEF Tick
<1> QED
  BY <1>2, <1>3, <1>4, <1>5

-----------------------------------------------------------------------------
(* An endpoint that does not rotate.                                       *)
LEMMA LastingStep ==
  ASSUME PlainTypes, LockType, Bounds, Lasting, [Next]_vars
  PROVE  Lasting'
<1> USE DEF Getting, Carries, Lasting
<1> SUFFICES ASSUME ~rotates' PROVE Lasting'
  OBVIOUS
<1>1. ~rotates
  BY CallEffects DEF Next, Login, Start, Reauth, Begins, Complete, Exchange, CreateRow,
     PersistLogin, LoginFails, ReadRow, Install, DeleteProvider, Tick, endpoint, vars
<1>2. ASSUME NEW c \in Calls, Call(c) PROVE Lasting'
  <2>1. good' = good
    BY <1>1, <1>2, CallEffects, GrantedRefresh
  <2>2. \A d \in Calls \ {c} : call'[d] = call[d]
    BY <1>2, CallMoves
  <2>3. Getting(c)' => call'[c].got.refresh \in good
    BY <1>1, <1>2, CallMoves, GrantedRefresh DEF Call, Stays, Arrives, At
  <2>4. Arrives(c) \/ Persist(c) => call[c].got.refresh \in good
    BY <1>1 DEF Arrives, Persist, At
  <2> QED
    BY <1>1, <1>2, <2>1, <2>2, <2>3, <2>4, CallEffects
<1>3. ASSUME NEW l \in Logins, Login(l) PROVE Lasting'
  <2> USE <1>1 DEF PlainTypes, endpoint, NoTokens, NoLogin, Row
  <2>1. CASE Start(l) \/ Reauth(l) \/ Complete(l) \/ LoginFails(l)
    BY <2>1 DEF Start, Reauth, Begins, Complete, LoginFails
  <2>2. CASE Exchange(l)
    BY <2>2 DEF Exchange
  <2>3. CASE CreateRow(l)
    BY <2>3 DEF CreateRow
  <2>4. CASE PersistLogin(l)
    BY <2>4 DEF PersistLogin
  <2> QED
    BY <1>3, <2>1, <2>2, <2>3, <2>4 DEF Login
<1>4. CASE Install
  <2>1. \A s \in Sessions : session'[s] = session[s] \/ session'[s].tokens = reload.row.tokens
    BY <1>4 DEF Install, PlainTypes
  <2>2. /\ reload' = NotRead
        /\ UNCHANGED <<good, row, call, login>>
    BY <1>4 DEF Install, endpoint, logins
  <2> QED
    BY <1>1, <2>1, <2>2 DEF NotRead, NoRow, NoTokens
<1>5. CASE ReadRow \/ DeleteProvider \/ Tick \/ UNCHANGED vars
  BY <1>1, <1>5 DEF ReadRow, DeleteProvider, Tick, vars, endpoint, logins, NoRow, NoTokens
<1> QED
  BY <1>2, <1>3, <1>4, <1>5 DEF Next

-----------------------------------------------------------------------------
(* An endpoint that rotates, without faults.                               *)
Each == (\A l \in Logins : LoginInv(l)) /\ (\A c \in Calls : CallInv(c)) /\ Owned /\ RowInv

(* The endpoint takes the token of the call's session, and gives a new one.*)
LEMMA AnsweredTracks ==
  ASSUME PlainTypes, LockType, Bounds, rotates, Each, NEW c \in Calls, Call(c), Answered(c)
  PROVE  Each'
<1> USE DEF Getting, Carries, Unwritten
<1> DEFINE old == session[Mine(c)].tokens.refresh
<1>1. /\ issued \in Nat /\ good \subseteq 1..issued /\ issued' = issued + 1
      /\ good' = (good \ {old}) \cup {issued + 1} /\ call[c].sent = old /\ old \in good
  <2>1. issued \in Nat /\ good \subseteq 1..issued /\ issued' = issued + 1
    <3>1. issued \in Nat /\ good \subseteq 1..issued
      BY OAuthAssumption DEF PlainTypes
    <3>2. issued' = issued + 1
      BY DEF Answered, Grants
    <3> QED
      BY <3>1, <3>2
  <2>2. call[c].sent = old /\ old \in good
    BY GrantedRefresh DEF Answered, Bounds
  <2>3. good' = (good \ {call[c].sent}) \cup {issued + 1}
    BY GrantedRefresh
  <2> QED
    BY <2>1, <2>2, <2>3
<1>2. /\ row'.id = row.id /\ row'.tokens = row.tokens /\ reload' = reload /\ login' = login
      /\ \A s \in Sessions : session'[s].of = session[s].of
                             /\ session'[s].tokens = session[s].tokens
  BY CallEffects DEF Answered, Arrives, Persist, At
<1>3. /\ \A d \in Calls \ {c} : call'[d] = call[d]
      /\ call'[c].pc = "answered" /\ call'[c].got.refresh = issued + 1
      /\ Mine(c)' = Mine(c) /\ call'[c].sent = old
  BY <1>1, CallMoves, GrantedRefresh DEF Mine
<1>4. Mine(c) \in Sessions /\ ~Getting(c)
  BY HasSession DEF Answered, At
<1>5. \A d \in Calls \ {c} : Getting(d) => Mine(c) # Mine(d)
  BY LocksExclude DEF Answered, At, Holding
<1> HIDE DEF old
<1>6. /\ row.tokens.refresh \in 0..issued /\ reload.row.tokens.refresh \in 0..issued
      /\ \A s \in Sessions : session[s].tokens.refresh \in 0..issued
      /\ \A d \in Calls : Getting(d) => call[d].got.refresh \in 1..issued
      /\ \A l \in Logins : Carries(l) => login[l].got.refresh \in 1..issued
  BY <1>1 DEF Bounds, NoTokens
<1>7. ASSUME NEW l \in Logins PROVE LoginInv(l)'
  <2>1. LoginInv(l) /\ (Carries(l) => login[l].got.refresh # old)
    BY <1>4 DEF Each, LoginInv, old
  <2> QED
    BY <1>1, <1>2, <1>3, <1>6, <2>1 DEF LoginInv
<1>8. ASSUME NEW d \in Calls PROVE CallInv(d)'
  <2>1. CASE d = c
    BY <1>1, <1>2, <1>3, <1>6, <2>1 DEF CallInv
  <2>2. CASE d # c
    <3>1. CallInv(d) /\ (Getting(d) => call[d].got.refresh # old)
      BY <1>4, <1>5, <2>2 DEF Each, CallInv, old
    <3> QED
      BY <1>1, <1>2, <1>3, <1>6, <2>2, <3>1 DEF CallInv, At, Mine
  <2> QED
    BY <2>1, <2>2
<1>9. Owned'
  BY <1>2 DEF Each, Owned
<1>10. RowInv'
  <2>1. CASE row.tokens.refresh = old
    <3>1. session[Mine(c)].of = row.id
      BY <1>1, <1>4, <2>1 DEF Each, Owned, old
    <3> QED
      BY <1>2, <1>3, <1>4, <2>1, <3>1 DEF RowInv, SameRow, Mine
  <2>2. CASE row.tokens.refresh # old /\ row.tokens.refresh \in good \cup {0}
    BY <1>1, <1>2, <2>2 DEF RowInv
  <2>3. CASE row.tokens.refresh \notin good \cup {0}
    <3>1. PICK d \in Calls : Getting(d) /\ SameRow(d) /\ call[d].sent = row.tokens.refresh
      BY <2>3 DEF Each, RowInv
    <3>2. d # c /\ Mine(d) \in Sessions
      BY <1>4, <3>1, HasSession DEF At
    <3> QED
      BY <1>2, <1>3, <3>1, <3>2 DEF RowInv, SameRow, Mine
  <2> QED
    BY <2>1, <2>2, <2>3
<1> QED
  BY <1>7, <1>8, <1>9, <1>10 DEF Each

(* The session takes the new token over.                                   *)
LEMMA ArrivesTracks ==
  ASSUME PlainTypes, LockType, Bounds, Each, NEW c \in Calls, Call(c), Arrives(c)
  PROVE  Each'
<1> USE DEF Getting, Carries, Unwritten
<1>1. /\ row'.id = row.id /\ row'.tokens = row.tokens /\ reload' = reload /\ login' = login
      /\ good' = good /\ Getting(c) /\ At(c, "answered")
      /\ \A s \in Sessions :
           /\ session'[s].of = session[s].of
           /\ session'[s].tokens = IF s = Mine(c) THEN call[c].got ELSE session[s].tokens
  BY CallEffects DEF Arrives, Answered, Persist, At
<1>2. /\ \A d \in Calls \ {c} : call'[d] = call[d]
      /\ call'[c].pc = "persist" /\ Stays(c)
  BY CallMoves
<1>3. Mine(c) \in Sessions
  BY HasSession DEF Arrives, At
<1>4. \A d \in Calls \ {c} : Getting(d) => Mine(c) # Mine(d)
  BY LocksExclude DEF Arrives, At, Holding
<1>5. CallInv(c)
  BY DEF Each
<1>6. ASSUME NEW l \in Logins PROVE LoginInv(l)'
  BY <1>1, <1>2 DEF Each, LoginInv, Stays
<1>7. ASSUME NEW d \in Calls PROVE CallInv(d)'
  <2>1. CASE d = c
    BY <1>1, <1>2, <1>5, <2>1 DEF CallInv, Stays, At, Mine
  <2>2. CASE d # c
    BY <1>1, <1>2, <1>5, <2>2 DEF Each, CallInv, Stays, At, Mine
  <2> QED
    BY <2>1, <2>2
<1>8. Owned'
  BY <1>1, <1>5 DEF Each, Owned, CallInv
<1>9. RowInv'
  <2>1. \A d \in Calls : (Getting(d) /\ SameRow(d)) => (Getting(d) /\ SameRow(d))'
    BY <1>1, <1>2, HasSession DEF SameRow, Stays, Mine, At
  <2>2. \A d \in Calls : call'[d].sent = call[d].sent
    BY <1>2 DEF Stays
  <2> QED
    BY <1>1, <2>1, <2>2 DEF Each, RowInv
<1> QED
  BY <1>6, <1>7, <1>8, <1>9 DEF Each

(* The row takes it over, or is no longer the row of that session.         *)
LEMMA PersistTracks ==
  ASSUME PlainTypes, LockType, Bounds, Each, NEW c \in Calls, Call(c), Persist(c)
  PROVE  Each'
<1> USE DEF Getting, Carries, Unwritten
<1>1. /\ reload' = reload /\ login' = login /\ good' = good /\ row'.id = row.id
      /\ row'.tokens = IF SameRow(c) THEN call[c].got ELSE row.tokens
      /\ \A s \in Sessions : session'[s].of = session[s].of
                             /\ session'[s].tokens = session[s].tokens
  BY CallEffects DEF Arrives, Answered, Persist, At
<1>2. (\A d \in Calls \ {c} : call'[d] = call[d]) /\ call'[c].pc = "idle"
  BY CallMoves
<1>3. Getting(c) /\ ~At(c, "answered") /\ CallInv(c)
  BY DEF Each, Persist, At
<1>4. ASSUME NEW l \in Logins PROVE LoginInv(l)'
  BY <1>1, <1>2, <1>3 DEF Each, LoginInv
<1>5. ASSUME NEW d \in Calls PROVE CallInv(d)'
  BY <1>1, <1>2, <1>3 DEF Each, CallInv, At, Mine
<1>6. Owned'
  <2>1. CASE SameRow(c)
    BY <1>1, <1>3, <2>1 DEF Each, Owned, CallInv, SameRow
  <2>2. CASE ~SameRow(c)
    BY <1>1, <2>2 DEF Each, Owned
  <2> QED
    BY <2>1, <2>2
<1>7. RowInv'
  <2>1. CASE SameRow(c)
    BY <1>1, <1>3, <2>1 DEF RowInv, CallInv
  <2>2. CASE ~SameRow(c)
    <3>1. \A d \in Calls : (Getting(d) /\ SameRow(d)) =>
            (Getting(d) /\ SameRow(d))' /\ call'[d].sent = call[d].sent
      BY <1>1, <1>2, <2>2, HasSession DEF SameRow, Mine, At
    <3> QED
      BY <1>1, <2>2, <3>1 DEF Each, RowInv
  <2> QED
    BY <2>1, <2>2
<1> QED
  BY <1>4, <1>5, <1>6, <1>7 DEF Each

(* Every other step of a call leaves the tokens alone, but for faults.     *)
LEMMA CallTracks ==
  ASSUME PlainTypes, LockType, Bounds, rotates, Each, NEW c \in Calls, Call(c),
         faults = 0, faults' = 0
  PROVE  Each'
<1>1. CASE ~Answered(c) /\ ~Arrives(c) /\ ~Persist(c)
  <2> USE DEF Getting, Carries, Unwritten
  <2>1. /\ reload' = reload /\ login' = login /\ good' = good /\ row'.id = row.id
        /\ row'.tokens = row.tokens
        /\ \A s \in Sessions : session'[s].of = session[s].of
                               /\ session'[s].tokens = session[s].tokens
    BY <1>1, CallEffects
  <2>2. \A d \in Calls \ {c} : call'[d] = call[d]
    BY CallMoves
  <2>3. ~Getting(c)
    BY <1>1 DEF Call, Begin, Check, Lock, Refused, TimesOut, HttpTimeout, PersistFails,
                Dropped, Faulty, At
  <2>4. ~Getting(c)'
    BY <1>1, CallMoves DEF Call
  <2>5. ASSUME NEW l \in Logins PROVE LoginInv(l)'
    BY <2>1, <2>2, <2>4 DEF Each, LoginInv
  <2>6. ASSUME NEW d \in Calls PROVE CallInv(d)'
    BY <2>1, <2>2, <2>4 DEF Each, CallInv, At, Mine
  <2>7. Owned'
    BY <2>1 DEF Each, Owned
  <2>8. RowInv'
    <3>1. \A d \in Calls : (Getting(d) /\ SameRow(d)) =>
            (Getting(d) /\ SameRow(d))' /\ call'[d].sent = call[d].sent
      BY <2>1, <2>2, <2>3, HasSession DEF SameRow, Mine, At
    <3> QED
      BY <2>1, <3>1 DEF Each, RowInv
  <2> QED
    BY <2>5, <2>6, <2>7, <2>8 DEF Each
<1> QED
  BY <1>1, AnsweredTracks, ArrivesTracks, PersistTracks

(* A login brings a new token, which the row is the first to hold.         *)
LEMMA LoginTracks ==
  ASSUME PlainTypes, Bounds, Each, NEW l \in Logins, Login(l)
  PROVE  Each'
<1> USE DEF Getting, Carries, Unwritten
<1>1. /\ issued \in Nat /\ good \subseteq 1..issued /\ row \in Row
      /\ login \in [Logins -> [pc : {"idle", "exchange", "persist", "fill"}, got : Tokens]]
      /\ row.tokens.refresh \in 0..issued /\ reload.row.tokens.refresh \in 0..issued
      /\ \A s \in Sessions : session[s].tokens.refresh \in 0..issued
      /\ \A d \in Calls : Getting(d) => call[d].got.refresh \in 1..issued
      /\ \A k \in Logins : Carries(k) => login[k].got.refresh \in 1..issued
  BY DEF PlainTypes, Bounds, NoTokens
<1>2. /\ UNCHANGED <<session, call, reload>>
      /\ \A k \in Logins \ {l} : login'[k] = login[k]
      /\ \A d \in Calls : ~At(d, "idle") => Mine(d) \in Sessions
  BY <1>1, HasSession DEF Login, Start, Reauth, Begins, Complete, Exchange, CreateRow,
     PersistLogin, LoginFails
<1>3. CASE Start(l) \/ Reauth(l) \/ Complete(l) \/ LoginFails(l)
  <2>1. UNCHANGED <<row, good>>
    BY <1>3 DEF Start, Reauth, Begins, Complete, LoginFails, endpoint
  <2>2. login' = login \/ ~Carries(l)'
    BY <1>1, <1>3 DEF Start, Reauth, Begins, Complete, LoginFails, NoLogin
  <2>3. \A k \in Logins : LoginInv(k)'
    BY <1>2, <2>1, <2>2 DEF Each, LoginInv
  <2>4. \A d \in Calls : CallInv(d)'
    BY <1>2, <2>1 DEF Each, CallInv, At, Mine
  <2> QED
    BY <1>2, <2>1, <2>3, <2>4 DEF Each, Owned, RowInv, SameRow, Mine
<1>4. CASE Exchange(l)
  <2>1. /\ row' = row /\ good' = good \cup {issued + 1}
        /\ login'[l].got.refresh = issued + 1
    BY <1>1, <1>4 DEF Exchange
  <2>2. \A k \in Logins : LoginInv(k)'
    BY <1>1, <1>2, <2>1 DEF Each, LoginInv
  <2>3. \A d \in Calls : CallInv(d)'
    BY <1>2, <2>1 DEF Each, CallInv, At, Mine
  <2> QED
    BY <1>2, <2>1, <2>2, <2>3 DEF Each, Owned, RowInv, SameRow, Mine
<1>5. CASE CreateRow(l)
  <2>1. row'.tokens.refresh = 0 /\ good' = good /\ login'[l].got = login[l].got /\ Carries(l)
    BY <1>1, <1>5 DEF CreateRow, NoTokens, endpoint
  <2>2. \A k \in Logins : Carries(k) => login[k].got.refresh # 0
    BY <1>1
  <2>3. \A d \in Calls : Getting(d) => call[d].got.refresh # 0
    BY <1>1
  <2>4. \A k \in Logins : LoginInv(k)'
    BY <1>2, <2>1, <2>2 DEF Each, LoginInv
  <2>5. \A d \in Calls : CallInv(d)'
    BY <1>2, <2>1, <2>3 DEF Each, CallInv, At, Mine
  <2> QED
    BY <2>1, <2>4, <2>5 DEF Each, Owned, RowInv
<1>6. CASE PersistLogin(l)
  <2>1. /\ row'.tokens = login[l].got /\ good' = good /\ Carries(l) /\ ~Carries(l)'
    BY <1>1, <1>6 DEF PersistLogin, NoLogin, Row, endpoint
  <2>2. LoginInv(l)
    BY DEF Each
  <2>3. \A k \in Logins : LoginInv(k)'
    BY <1>2, <2>1, <2>2 DEF Each, LoginInv
  <2>4. \A d \in Calls : CallInv(d)'
    BY <1>2, <2>1, <2>2 DEF Each, CallInv, LoginInv, At, Mine
  <2>5. Owned' /\ RowInv'
    BY <1>2, <2>1, <2>2 DEF Owned, RowInv, LoginInv
  <2> QED
    BY <2>3, <2>4, <2>5 DEF Each
<1> QED
  BY <1>3, <1>4, <1>5, <1>6 DEF Login

(* A reload reads the row and makes a session of what it read.             *)
LEMMA RestTracks ==
  ASSUME PlainTypes, Bounds, Each,
         ReadRow \/ Install \/ DeleteProvider \/ Tick \/ UNCHANGED vars
  PROVE  Each'
<1> USE DEF Getting, Carries, Unwritten
<1>1. /\ UNCHANGED <<call, login, good>>
      /\ \A d \in Calls : ~At(d, "idle") => Mine(d) \in Sessions /\ Mine(d) \in 1..made
      /\ \A k \in Logins : Carries(k) => login[k].got.refresh # 0
      /\ \A d \in Calls : Getting(d) => call[d].got.refresh # 0
  BY HasSession DEF ReadRow, Install, DeleteProvider, Tick, vars, endpoint, logins, Bounds,
                    PlainTypes
<1>2. CASE ReadRow
  <2>1. UNCHANGED <<row, session>> /\ reload'.row = row
    BY <1>2 DEF ReadRow
  <2>2. \A k \in Logins : LoginInv(k)'
    BY <1>1, <2>1 DEF Each, LoginInv
  <2>3. \A d \in Calls : CallInv(d)'
    BY <1>1, <2>1 DEF Each, CallInv, At, Mine
  <2> QED
    BY <1>1, <2>1, <2>2, <2>3 DEF Each, Owned, RowInv, SameRow, Mine
<1>3. CASE Install
  <2>1. /\ row' = row /\ reload'.row.tokens.refresh = 0
        /\ \A s \in Sessions :
             \/ session'[s] = session[s]
             \/ /\ session'[s].tokens = reload.row.tokens /\ session'[s].of = reload.row.id
                /\ s = made + 1
    BY <1>3 DEF Install, PlainTypes, NotRead, NoRow, NoTokens
  <2>2. made + 1 \notin 1..made
    BY DEF PlainTypes
  <2>3. \A d \in Calls : ~At(d, "idle") => session'[Mine(d)] = session[Mine(d)]
    BY <1>1, <2>1, <2>2
  <2>4. \A k \in Logins : LoginInv(k)'
    BY <1>1, <2>1 DEF Each, LoginInv
  <2>5. \A d \in Calls : CallInv(d)'
    BY <1>1, <2>1, <2>2 DEF Each, CallInv, At, Mine
  <2>6. Owned'
    BY <2>1 DEF Each, Owned
  <2>7. RowInv'
    BY <1>1, <2>1, <2>3 DEF Each, RowInv, SameRow, Mine, At
  <2> QED
    BY <2>4, <2>5, <2>6, <2>7 DEF Each
<1>4. CASE DeleteProvider
  <2>1. UNCHANGED <<session, reload>> /\ row'.tokens.refresh = 0
    BY <1>4 DEF DeleteProvider, NoRow, NoTokens
  <2>2. \A k \in Logins : LoginInv(k)'
    BY <1>1, <2>1 DEF Each, LoginInv
  <2>3. \A d \in Calls : CallInv(d)'
    BY <1>1, <2>1 DEF Each, CallInv, At, Mine
  <2> QED
    BY <2>1, <2>2, <2>3 DEF Each, Owned, RowInv
<1>5. CASE Tick \/ UNCHANGED vars
  <2>1. UNCHANGED <<session, reload, row>>
    BY <1>5 DEF Tick, vars
  <2>2. \A k \in Logins : LoginInv(k)'
    BY <1>1, <2>1 DEF Each, LoginInv
  <2>3. \A d \in Calls : CallInv(d)'
    BY <1>1, <2>1 DEF Each, CallInv, At, Mine
  <2> QED
    BY <1>1, <2>1, <2>2, <2>3 DEF Each, Owned, RowInv, SameRow, Mine
<1> QED
  BY <1>2, <1>3, <1>4, <1>5

LEMMA TrackedStep ==
  ASSUME PlainTypes, LockType, Bounds, Tracked, [Next]_vars
  PROVE  Tracked'
<1> SUFFICES ASSUME rotates', faults' = 0 PROVE Each'
  BY DEF Tracked, Each
<1>1. rotates /\ faults = 0
  <2>1. faults \in Nat
    BY OAuthAssumption DEF PlainTypes
  <2>2. ASSUME NEW c \in Calls, Call(c) PROVE rotates /\ faults = 0
    <3>1. faults' = faults \/ faults' = faults + 1
      BY <2>2 DEF Call, Begin, Check, Lock, Answered, Refused, Arrives, Persist, TimesOut,
                  PersistFails, Dropped, Faulty
    <3>2. rotates' = rotates
      BY <2>2, CallEffects
    <3> QED
      BY <2>1, <3>1, <3>2
  <2>3. ASSUME NEW l \in Logins, Login(l) PROVE rotates /\ faults = 0
    <3>1. rotates' = rotates /\ faults' = faults
      BY <2>3 DEF Login, Start, Reauth, Begins, Complete, Exchange, CreateRow,
                  PersistLogin, LoginFails, endpoint
    <3> QED
      BY <3>1
  <2>4. CASE ReadRow \/ Install \/ DeleteProvider \/ Tick \/ UNCHANGED vars
    <3>1. rotates' = rotates /\ faults' = faults
      BY <2>4 DEF ReadRow, Install, DeleteProvider, Tick, endpoint, vars
    <3> QED
      BY <3>1
  <2> QED
    BY <2>2, <2>3, <2>4 DEF Next
<1>2. Each
  BY <1>1 DEF Tracked, Each
<1> QED
  BY <1>1, <1>2, CallTracks, LoginTracks, RestTracks DEF Next

-----------------------------------------------------------------------------
(* The invariant holds throughout.                                         *)
LEMMA IInvStep == IInv /\ [Next]_vars => IInv'
<1> SUFFICES ASSUME IInv, [Next]_vars PROVE IInv'
  OBVIOUS
<1>1. TypeOK /\ Bounds /\ Lasting /\ Tracked /\ PlainTypes /\ LockType
  BY TypesSplit DEF IInv
<1>2. Bounds'
  <2>1. ASSUME NEW c \in Calls, Call(c) PROVE Bounds'
    BY <1>1, <2>1, CallBounds
  <2>2. ASSUME NEW l \in Logins, Login(l) PROVE Bounds'
    BY <1>1, <2>2, OtherBounds
  <2>3. CASE ReadRow \/ Install \/ DeleteProvider \/ Tick
    BY <1>1, <2>3, RestBounds
  <2>4. CASE UNCHANGED vars
    BY <1>1, <2>4 DEF Bounds, At, Mine, Fresh, Getting, Carries, vars, endpoint, logins
  <2> QED
    BY <2>1, <2>2, <2>3, <2>4 DEF Next
<1> QED
  BY <1>1, <1>2, TypeStep, LastingStep, TrackedStep DEF IInv

LEMMA Invariant == Spec => []IInv
BY InitIInv, IInvStep, PTL DEF Spec

(* Every variable keeps its type, and every lock has the one holder that   *)
(* thinks it has it.                                                       *)
THEOREM TypeCorrect == Spec => []TypeOK
<1>1. IInv => TypeOK
  BY DEF IInv
<1> QED
  BY <1>1, Invariant, PTL

(* Of calls that wait for the same session's token only one refreshes it:  *)
(* who is asking holds the lock of a token that is due.                    *)
THEOREM RefreshIsShared == Spec => []Coalesce
<1>1. IInv => Coalesce
  BY DEF IInv, Bounds, Coalesce
<1> QED
  BY <1>1, Invariant, PTL

(* Without a fault the refresh token of the row is one the endpoint takes, *)
(* however many sessions, logins and reloads there have been.              *)
THEOREM RowStaysGood == Spec => []RowIsGood
<1>1. ASSUME IInv PROVE RowIsGood
  <2> SUFFICES ASSUME row.tokens # NoTokens, faults = 0, \A s \in Sessions : ~Refreshing(s)
               PROVE  row.tokens.refresh \in good
    BY DEF RowIsGood
  <2>1. PlainTypes /\ Bounds
    BY <1>1, TypesSplit DEF IInv
  <2>2. row.tokens.refresh # 0
    BY <2>1 DEF Bounds, PlainTypes
  <2>3. \A c \in Calls : ~Getting(c)
    BY <2>1, HasSession DEF Refreshing, Getting, At
  <2>4. CASE rotates
    BY <1>1, <2>2, <2>3, <2>4 DEF IInv, Tracked, RowInv
  <2>5. CASE ~rotates
    BY <1>1, <2>2, <2>5 DEF IInv, Lasting
  <2> QED
    BY <2>4, <2>5
<1> QED
  BY <1>1, Invariant, PTL
=============================================================================
