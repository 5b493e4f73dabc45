---------------------------- MODULE SessionProofs ----------------------------
(***************************************************************************)
(* For any number of users and sessions: nobody is closed behind a         *)
(* session's back, and nobody is destroyed without being closed.           *)
(***************************************************************************)
EXTENDS Session, TLAPS

Registered(u, s) == publisher[s] = u \/ u \in players[s]

(* A registered user is in the session that lists it, and its handler has  *)
(* come past the point of joining.                                         *)
InItsSession ==
  \A u \in Users, s \in Sessions :
    Registered(u, s) => /\ at[u] = s
                        /\ pc[u] \notin {"new", "created", "gone"}

(* Only a user that has joined can be destroyed. *)
DestroyedHaveJoined ==
  \A u \in Users : destroyed[u] => pc[u] \notin {"new", "created"}

(* A loop that is leaving set destroyed_ itself, after the connection went. *)
LeavingAreDestroyed == \A u \in Users : pc[u] = "leaving" => destroyed[u] /\ ~open[u]

(* A handler holds a session; CloseSession one that it took off the list;  *)
(* the timer one that is listed.                                           *)
HoldsSession ==
  /\ \A u \in Users : /\ pc[u] \notin {"new", "gone"} => at[u] \in Sessions
                      /\ pc[u] = "new" => at[u] = NoSession
                      /\ pc[u] = "clear" => victim[u] \in Sessions
  /\ timer # "rest" => current \in Sessions

(* RegisteredAreLive, user by user. *)
DestroyedAreLeaving ==
  \A u \in Users, s \in Sessions : Registered(u, s) /\ destroyed[u] => pc[u] = "leaving"

IInv ==
  /\ TypeOK
  /\ InItsSession
  /\ DestroyedHaveJoined
  /\ LeavingAreDestroyed
  /\ HoldsSession
  /\ DestroyedAreLeaving
  /\ DestroyedAreClosed

(* The initial states satisfy the inductive invariant. *)
LEMMA InitIInv == Init => IInv
BY SessionAssumption, NoUserAssumption
   DEF Init, IInv, TypeOK, InItsSession, DestroyedHaveJoined, LeavingAreDestroyed,
       HoldsSession, DestroyedAreLeaving, DestroyedAreClosed, Registered, Users,
       Sessions, NoSession

(* No publisher is a player and nobody is the absent user. *)
LEMMA Kinds ==
  /\ NoUser \notin Publishers /\ NoUser \notin Players /\ NoUser \notin Users
  /\ Publishers \cap Players = {}
  /\ Users = Publishers \cup Players
  /\ MaxSessions \in Nat
  /\ Sessions = 1 .. MaxSessions
  /\ NoSession = 0
BY SessionAssumption, NoUserAssumption DEF Users, Sessions, NoSession

(* Session::Clear keeps every part of the invariant that it touches. *)
LEMMA ClearKeeps ==
  ASSUME IInv, NEW s \in Sessions, Clear(s)
  PROVE  /\ destroyed' \in [Users -> BOOLEAN] /\ forced' \in [Users -> BOOLEAN]
         /\ publisher' \in [Sessions -> Publishers \cup {NoUser}]
         /\ players' \in [Sessions -> SUBSET Players]
         /\ idle' \in [Sessions -> BOOLEAN]
         /\ \A u \in Users, t \in Sessions :
              /\ Registered(u, t)' => Registered(u, t)
              /\ Registered(u, t)' /\ destroyed'[u] => destroyed[u]
         /\ \A u \in Users :
              /\ destroyed[u] => destroyed'[u]
              /\ destroyed'[u] => destroyed[u] \/ (forced'[u] /\ \E t \in Sessions : Registered(u, t))
              /\ forced[u] => forced'[u]
<1> DEFINE members == players[s] \cup ({publisher[s]} \cap Users)
           closes(v) == v \in members /\ ~destroyed[v]
<1>1. /\ destroyed' = [v \in Users |-> destroyed[v] \/ closes(v)]
      /\ forced' = [v \in Users |-> forced[v] \/ closes(v)]
      /\ publisher' = [publisher EXCEPT ![s] =
                         IF @ \in Users /\ destroyed[@] THEN @ ELSE NoUser]
      /\ players' = [players EXCEPT ![s] = {}]
      /\ idle' = [idle EXCEPT ![s] = @ /\ ~\E v \in players[s] : closes(v)]
  BY DEF Clear
<1>2. TypeOK
  BY DEF IInv
<1>3. /\ destroyed' \in [Users -> BOOLEAN] /\ forced' \in [Users -> BOOLEAN]
      /\ publisher' \in [Sessions -> Publishers \cup {NoUser}]
      /\ players' \in [Sessions -> SUBSET Players]
      /\ idle' \in [Sessions -> BOOLEAN]
  <2>1. /\ destroyed' \in [Users -> BOOLEAN] /\ forced' \in [Users -> BOOLEAN]
    BY <1>1, <1>2, Zenon DEF TypeOK
  <2>2. idle' \in [Sessions -> BOOLEAN]
    BY <1>1, <1>2, Zenon DEF TypeOK
  <2> HIDE DEF closes, members
  <2>3. /\ publisher' \in [Sessions -> Publishers \cup {NoUser}]
        /\ players' \in [Sessions -> SUBSET Players]
    BY <1>1, <1>2 DEF TypeOK
  <2> QED
    BY <2>1, <2>2, <2>3
<1>4. ASSUME NEW u \in Users, NEW t \in Sessions, Registered(u, t)'
      PROVE  Registered(u, t) /\ (destroyed'[u] => destroyed[u])
  <2>1. CASE t = s
    BY <1>1, <1>2, <1>4, <2>1, Kinds DEF TypeOK, Registered
  <2>2. CASE t # s
    <3>1. Registered(u, t)
      BY <1>1, <1>2, <1>4, <2>2, Kinds DEF TypeOK, Registered
    <3>2. at[u] = t /\ ~Registered(u, s)
      BY <3>1, <2>2 DEF IInv, InItsSession
    <3> QED
      BY <3>1, <3>2, <1>1 DEF Registered
  <2> QED
    BY <2>1, <2>2
<1>5. ASSUME NEW u \in Users
      PROVE  /\ destroyed[u] => destroyed'[u]
             /\ destroyed'[u] => destroyed[u] \/ (forced'[u] /\ \E t \in Sessions : Registered(u, t))
             /\ forced[u] => forced'[u]
  <2>1. closes(u) => Registered(u, s)
    BY DEF Registered
  <2> HIDE DEF closes
  <2> QED
    BY <1>1, <2>1
<1> QED
  BY <1>3, <1>4, <1>5

(* Every step keeps the inductive invariant. *)
LEMMA NextIInv == IInv /\ [Next]_vars => IInv'
<1> SUFFICES ASSUME IInv, [Next]_vars PROVE IInv'
  OBVIOUS
<1> USE Kinds
<1>1. ASSUME NEW u \in Users, CreateSession(u) PROVE IInv'
  <2>1. TypeOK'
    <3>1. current' \in 0 .. created' /\ created' \in 0 .. MaxSessions /\ created <= created'
      BY <1>1 DEF IInv, TypeOK, CreateSession
    <3>2. at' \in [Users -> 0 .. created']
      <4>1. at' = [at EXCEPT ![u] = current']
        BY <1>1 DEF CreateSession
      <4>2. at \in [Users -> 0 .. created']
        BY <3>1 DEF IInv, TypeOK
      <4> QED
        BY <3>1, <4>1, <4>2
    <3>3. victim' \in [Users -> 0 .. created']
      BY <1>1, <3>1 DEF IInv, TypeOK, CreateSession
    <3> QED
      BY <1>1, <3>1, <3>2, <3>3 DEF IInv, TypeOK, CreateSession, sessVars
  <2>2. InItsSession'
    BY <1>1 DEF IInv, TypeOK, InItsSession, Registered, HoldsSession, DestroyedAreLeaving,
       CreateSession, ServiceLockFree, sessVars
  <2>3. DestroyedHaveJoined'
    BY <1>1 DEF IInv, TypeOK, DestroyedHaveJoined,
       CreateSession, ServiceLockFree, sessVars
  <2>4. LeavingAreDestroyed'
    BY <1>1 DEF IInv, TypeOK, LeavingAreDestroyed,
       CreateSession, ServiceLockFree, sessVars
  <2>5. HoldsSession'
    BY <1>1 DEF IInv, TypeOK, HoldsSession,
       CreateSession, ServiceLockFree, sessVars
  <2>6. DestroyedAreLeaving'
    BY <1>1 DEF IInv, TypeOK, DestroyedAreLeaving, Registered, InItsSession, DestroyedHaveJoined,
       CreateSession, ServiceLockFree, sessVars
  <2>7. DestroyedAreClosed'
    BY <1>1 DEF IInv, TypeOK, DestroyedAreClosed,
       CreateSession, ServiceLockFree, sessVars
  <2> QED
    BY <2>1, <2>2, <2>3, <2>4, <2>5, <2>6, <2>7 DEF IInv
<1>2. ASSUME NEW u \in Users, SetPublisher(u) PROVE IInv'
  <2>1. TypeOK'
    BY <1>2 DEF IInv, TypeOK,
       SetPublisher
  <2>2. InItsSession'
    BY <1>2 DEF IInv, TypeOK, InItsSession, Registered, HoldsSession, DestroyedAreLeaving,
       SetPublisher
  <2>3. DestroyedHaveJoined'
    <3> SUFFICES ASSUME NEW v \in Users, destroyed'[v] PROVE pc'[v] \notin {"new", "created"}
      BY DEF DestroyedHaveJoined
    <3>1. /\ pc[u] = "created" /\ pc' = [pc EXCEPT ![u] = "on"]
          /\ destroyed'[v] = (destroyed[v] \/ (v = publisher[at[u]] /\ ~destroyed[v]))
      BY <1>2 DEF SetPublisher
    <3>2. at[u] \in Sessions
      BY <3>1 DEF IInv, HoldsSession
    <3>3. v = publisher[at[u]] => pc[v] \notin {"new", "created"}
      BY <3>2 DEF IInv, InItsSession, Registered
    <3>4. destroyed[v] => pc[v] \notin {"new", "created"}
      BY DEF IInv, DestroyedHaveJoined
    <3>5. pc'[v] = "on" \/ pc'[v] = pc[v]
      BY <3>1 DEF IInv, TypeOK
    <3> QED
      BY <3>1, <3>3, <3>4, <3>5
  <2>4. LeavingAreDestroyed'
    BY <1>2 DEF IInv, TypeOK, LeavingAreDestroyed,
       SetPublisher
  <2>5. HoldsSession'
    BY <1>2 DEF IInv, TypeOK, HoldsSession,
       SetPublisher
  <2>6. DestroyedAreLeaving'
    <3> SUFFICES ASSUME NEW v \in Users, NEW s \in Sessions, Registered(v, s)', destroyed'[v]
                 PROVE  pc'[v] = "leaving"
      BY DEF DestroyedAreLeaving
    <3>1. /\ pc[u] = "created" /\ u \in Publishers /\ players' = players
          /\ publisher' = [publisher EXCEPT ![at[u]] = u] /\ pc' = [pc EXCEPT ![u] = "on"]
          /\ destroyed'[v] = (destroyed[v] \/ (v = publisher[at[u]] /\ ~destroyed[v]))
      BY <1>2 DEF SetPublisher
    <3>2. at[u] \in Sessions
      BY <3>1 DEF IInv, HoldsSession
    <3>3. v # u
      <4>1. ~destroyed[u]
        BY <3>1 DEF IInv, DestroyedHaveJoined
      <4>2. publisher[at[u]] # u
        BY <3>1, <3>2 DEF IInv, InItsSession, Registered
      <4> QED
        BY <3>1, <4>1, <4>2
    <3>4. Registered(v, s) /\ (s = at[u] => v \in players[s])
      BY <3>1, <3>2, <3>3 DEF IInv, TypeOK, Registered
    <3>5. v # publisher[at[u]]
      <4> SUFFICES ASSUME v = publisher[at[u]] PROVE FALSE
        OBVIOUS
      <4>1. at[v] = at[u] /\ at[v] = s
        BY <3>2, <3>4 DEF IInv, InItsSession, Registered
      <4>2. v \in Players /\ v \in Publishers \cup {NoUser}
        BY <3>2, <3>4, <4>1 DEF IInv, TypeOK
      <4> QED
        BY <4>2, Kinds
    <3>6. pc[v] = "leaving"
      BY <3>1, <3>4, <3>5 DEF IInv, DestroyedAreLeaving
    <3> QED
      BY <3>1, <3>3, <3>6 DEF IInv, TypeOK
  <2>7. DestroyedAreClosed'
    BY <1>2 DEF IInv, TypeOK, DestroyedAreClosed,
       SetPublisher
  <2> QED
    BY <2>1, <2>2, <2>3, <2>4, <2>5, <2>6, <2>7 DEF IInv
<1>3. ASSUME NEW u \in Users, InsertPlayer(u) PROVE IInv'
  <2>1. TypeOK'
    BY <1>3 DEF IInv, TypeOK, InsertPlayer
  <2>2. InItsSession'
    BY <1>3 DEF IInv, TypeOK, InItsSession, Registered, HoldsSession, DestroyedAreLeaving,
       InsertPlayer
  <2>3. DestroyedHaveJoined'
    BY <1>3 DEF IInv, TypeOK, DestroyedHaveJoined,
       InsertPlayer
  <2>4. LeavingAreDestroyed'
    BY <1>3 DEF IInv, TypeOK, LeavingAreDestroyed,
       InsertPlayer
  <2>5. HoldsSession'
    BY <1>3 DEF IInv, TypeOK, HoldsSession,
       InsertPlayer
  <2>6. DestroyedAreLeaving'
    BY <1>3 DEF IInv, TypeOK, DestroyedAreLeaving, Registered, InItsSession, DestroyedHaveJoined,
       InsertPlayer
  <2>7. DestroyedAreClosed'
    BY <1>3 DEF IInv, TypeOK, DestroyedAreClosed,
       InsertPlayer
  <2> QED
    BY <2>1, <2>2, <2>3, <2>4, <2>5, <2>6, <2>7 DEF IInv
<1>4. ASSUME NEW u \in Users, FindPublisher(u) PROVE IInv'
  <2>1. TypeOK'
    BY <1>4 DEF IInv, TypeOK,
       FindPublisher, sessVars
  <2>2. InItsSession'
    BY <1>4 DEF IInv, TypeOK, InItsSession, Registered, HoldsSession, DestroyedAreLeaving,
       FindPublisher, sessVars
  <2>3. DestroyedHaveJoined'
    BY <1>4 DEF IInv, TypeOK, DestroyedHaveJoined,
       FindPublisher, sessVars
  <2>4. LeavingAreDestroyed'
    BY <1>4 DEF IInv, TypeOK, LeavingAreDestroyed,
       FindPublisher, sessVars
  <2>5. HoldsSession'
    BY <1>4 DEF IInv, TypeOK, HoldsSession,
       FindPublisher, sessVars
  <2>6. DestroyedAreLeaving'
    BY <1>4 DEF IInv, TypeOK, DestroyedAreLeaving, Registered, InItsSession, DestroyedHaveJoined,
       FindPublisher, sessVars
  <2>7. DestroyedAreClosed'
    BY <1>4 DEF IInv, TypeOK, DestroyedAreClosed,
       FindPublisher, sessVars
  <2> QED
    BY <2>1, <2>2, <2>3, <2>4, <2>5, <2>6, <2>7 DEF IInv
<1>5. ASSUME NEW u \in Users, EraseSession(u) PROVE IInv'
  <2>1. TypeOK'
    BY <1>5 DEF IInv, TypeOK,
       EraseSession, ServiceLockFree, sessVars
  <2>2. InItsSession'
    BY <1>5 DEF IInv, TypeOK, InItsSession, Registered, HoldsSession, DestroyedAreLeaving,
       EraseSession, ServiceLockFree, sessVars
  <2>3. DestroyedHaveJoined'
    BY <1>5 DEF IInv, TypeOK, DestroyedHaveJoined,
       EraseSession, ServiceLockFree, sessVars
  <2>4. LeavingAreDestroyed'
    BY <1>5 DEF IInv, TypeOK, LeavingAreDestroyed,
       EraseSession, ServiceLockFree, sessVars
  <2>5. HoldsSession'
    BY <1>5 DEF IInv, TypeOK, HoldsSession,
       EraseSession, ServiceLockFree, sessVars
  <2>6. DestroyedAreLeaving'
    BY <1>5 DEF IInv, TypeOK, DestroyedAreLeaving, Registered, InItsSession, DestroyedHaveJoined,
       EraseSession, ServiceLockFree, sessVars
  <2>7. DestroyedAreClosed'
    BY <1>5 DEF IInv, TypeOK, DestroyedAreClosed,
       EraseSession, ServiceLockFree, sessVars
  <2> QED
    BY <2>1, <2>2, <2>3, <2>4, <2>5, <2>6, <2>7 DEF IInv
<1>6. ASSUME NEW u \in Users, ClearSession(u) PROVE IInv'
  <2>1. victim[u] \in Sessions /\ Clear(victim[u])
    BY <1>6 DEF ClearSession, IInv, HoldsSession
  <2>2. TypeOK'
    BY <1>6, <2>1, ClearKeeps DEF IInv, ClearSession, TypeOK
  <2>3. InItsSession' /\ DestroyedAreLeaving'
    BY <1>6, <2>1, ClearKeeps DEF IInv, ClearSession, TypeOK, InItsSession, DestroyedAreLeaving
  <2>4. DestroyedHaveJoined'
    BY <1>6, <2>1, ClearKeeps DEF IInv, ClearSession, TypeOK, DestroyedHaveJoined, InItsSession
  <2>5. LeavingAreDestroyed' /\ HoldsSession'
    BY <1>6, <2>1, ClearKeeps DEF IInv, ClearSession, TypeOK, LeavingAreDestroyed, HoldsSession
  <2>6. DestroyedAreClosed'
    BY <1>6, <2>1, ClearKeeps DEF IInv, ClearSession, TypeOK, DestroyedAreClosed
  <2> QED
    BY <2>2, <2>3, <2>4, <2>5, <2>6 DEF IInv
<1>7. ASSUME NEW u \in Users, OnClose(u) PROVE IInv'
  <2>1. TypeOK'
    BY <1>7 DEF IInv, TypeOK, OnClose, sessVars
  <2>2. InItsSession'
    BY <1>7 DEF IInv, TypeOK, InItsSession, Registered, HoldsSession, DestroyedAreLeaving,
       OnClose, sessVars
  <2>3. DestroyedHaveJoined'
    BY <1>7 DEF IInv, TypeOK, DestroyedHaveJoined,
       OnClose, sessVars
  <2>4. LeavingAreDestroyed'
    BY <1>7 DEF IInv, TypeOK, LeavingAreDestroyed,
       OnClose, sessVars
  <2>5. HoldsSession'
    BY <1>7 DEF IInv, TypeOK, HoldsSession,
       OnClose, sessVars
  <2>6. DestroyedAreLeaving'
    BY <1>7 DEF IInv, TypeOK, DestroyedAreLeaving, Registered, InItsSession, DestroyedHaveJoined,
       OnClose, sessVars
  <2>7. DestroyedAreClosed'
    BY <1>7 DEF IInv, TypeOK, DestroyedAreClosed,
       OnClose, sessVars
  <2> QED
    BY <2>1, <2>2, <2>3, <2>4, <2>5, <2>6, <2>7 DEF IInv
<1>8. ASSUME NEW u \in Users, CloseUser(u) PROVE IInv'
  <2>0. at[u] \in Sessions
    BY <1>8 DEF CloseUser, IInv, HoldsSession
  <2>1. TypeOK'
    <3>1. idle' \in [Sessions -> BOOLEAN]
      BY <1>8, Zenon DEF IInv, TypeOK, CloseUser
    <3>2. publisher' \in [Sessions -> Publishers \cup {NoUser}]
      BY <1>8 DEF IInv, TypeOK, CloseUser
    <3>3. players' \in [Sessions -> SUBSET Players]
      <4>1. players[at[u]] \ {u} \in SUBSET Players
        BY <2>0 DEF IInv, TypeOK
      <4>2. players' = players \/ players' = [players EXCEPT ![at[u]] = players[at[u]] \ {u}]
        BY <1>8 DEF CloseUser
      <4> QED
        BY <2>0, <4>1, <4>2 DEF IInv, TypeOK
    <3> QED
      BY <1>8, <3>1, <3>2, <3>3 DEF IInv, TypeOK, CloseUser
  <2>a. ASSUME NEW v \in Users, NEW t \in Sessions, Registered(v, t)'
        PROVE  Registered(v, t) /\ v # u
    <3>1. Registered(v, t)
      <4>1. CASE u \in Publishers
        BY <1>8, <2>0, <2>a, <4>1 DEF IInv, TypeOK, CloseUser, Registered
      <4>2. CASE u \notin Publishers
        <5>1. players'[t] \subseteq players[t] /\ publisher' = publisher
          BY <1>8, <2>0, <4>2 DEF IInv, TypeOK, CloseUser
        <5> QED
          BY <2>a, <5>1 DEF Registered
      <4> QED
        BY <4>1, <4>2
    <3>2. ASSUME v = u PROVE FALSE
      <4>1. t = at[u]
        BY <3>1, <3>2 DEF IInv, InItsSession
      <4>2. CASE u \in Publishers
        BY <1>8, <2>0, <2>a, <3>2, <4>1, <4>2 DEF IInv, TypeOK, CloseUser, Registered
      <4>3. CASE u \in Players
        BY <1>8, <2>0, <2>a, <3>2, <4>1, <4>3 DEF IInv, TypeOK, CloseUser, Registered
      <4> QED
        BY <4>2, <4>3
    <3> QED
      BY <3>1, <3>2
  <2>2. InItsSession'
    BY <1>8, <2>a DEF IInv, TypeOK, InItsSession, CloseUser
  <2>3. DestroyedHaveJoined'
    BY <1>8 DEF IInv, TypeOK, DestroyedHaveJoined,
       CloseUser
  <2>4. LeavingAreDestroyed'
    BY <1>8 DEF IInv, TypeOK, LeavingAreDestroyed,
       CloseUser
  <2>5. HoldsSession'
    BY <1>8 DEF IInv, TypeOK, HoldsSession,
       CloseUser
  <2>6. DestroyedAreLeaving'
    BY <1>8, <2>a DEF IInv, TypeOK, DestroyedAreLeaving, CloseUser
  <2>7. DestroyedAreClosed'
    BY <1>8 DEF IInv, TypeOK, DestroyedAreClosed,
       CloseUser
  <2> QED
    BY <2>1, <2>2, <2>3, <2>4, <2>5, <2>6, <2>7 DEF IInv
<1>9. ASSUME TimerClear PROVE IInv'
  <2>1. current \in Sessions /\ Clear(current)
    BY <1>9 DEF TimerClear, IInv, HoldsSession
  <2> QED
    BY <1>9, <2>1, ClearKeeps DEF IInv, TimerClear, TypeOK, InItsSession,
       DestroyedHaveJoined, LeavingAreDestroyed, HoldsSession, DestroyedAreLeaving,
       DestroyedAreClosed
<1>10. ASSUME CheckTimeout \/ TimerErase PROVE IInv'
  BY <1>10 DEF IInv, CheckTimeout, TimerErase, sessVars, userVars, TypeOK,
     InItsSession, DestroyedHaveJoined, LeavingAreDestroyed, HoldsSession,
     DestroyedAreLeaving, DestroyedAreClosed, Registered
<1>11. ASSUME NEW u \in Users, OnRecv(u) PROVE IInv'
  <2>1. silent' \in [Sessions -> BOOLEAN]
    BY <1>11, Zenon DEF OnRecv, IInv, TypeOK
  <2> QED
    BY <1>11, <2>1 DEF IInv, OnRecv, userVars, TypeOK, InItsSession,
       DestroyedHaveJoined, LeavingAreDestroyed, HoldsSession, DestroyedAreLeaving,
       DestroyedAreClosed, Registered
<1>12. ASSUME NEW s \in Sessions, TimePasses(s) PROVE IInv'
  <2>1. silent' \in [Sessions -> BOOLEAN] /\ idle' \in [Sessions -> BOOLEAN]
    BY <1>12, Zenon DEF TimePasses, IInv, TypeOK
  <2> QED
    BY <1>12, <2>1 DEF IInv, TimePasses, userVars, TypeOK, InItsSession,
       DestroyedHaveJoined, LeavingAreDestroyed, HoldsSession, DestroyedAreLeaving,
       DestroyedAreClosed, Registered
<1>13. ASSUME UNCHANGED vars PROVE IInv'
  BY <1>13 DEF IInv, vars, sessVars, userVars, TypeOK, InItsSession,
     DestroyedHaveJoined, LeavingAreDestroyed, HoldsSession, DestroyedAreLeaving,
     DestroyedAreClosed, Registered
<1> QED
  BY <1>1, <1>2, <1>3, <1>4, <1>5, <1>6, <1>7, <1>8, <1>9, <1>10, <1>11, <1>12, <1>13
     DEF Next, UserStep, TimerStep

(* The inductive invariant holds throughout. *)
LEMMA AlwaysIInv == Spec => []IInv
BY InitIInv, NextIInv, PTL DEF Spec

(* The type invariant of the sessions, the users and the timer. *)
THEOREM TypeCorrect == Spec => []TypeOK
<1>1. IInv => TypeOK
  BY DEF IInv
<1> QED
  BY <1>1, AlwaysIInv, PTL

(* Whoever a session lists is live, or is being removed by its own loop:   *)
(* CloseUser, SetPublisher and Clear agree through destroyed_ on who       *)
(* closes a user.                                                          *)
THEOREM ListedAreLive == Spec => []RegisteredAreLive
<1>1. IInv => RegisteredAreLive
  BY Kinds DEF IInv, TypeOK, DestroyedAreLeaving, Registered, RegisteredAreLive
<1> QED
  BY <1>1, AlwaysIInv, PTL

(* Nobody is destroyed and left connected. *)
THEOREM NobodyLeftOpen == Spec => []DestroyedAreClosed
<1>1. IInv => DestroyedAreClosed
  BY DEF IInv
<1> QED
  BY <1>1, AlwaysIInv, PTL

=============================================================================
