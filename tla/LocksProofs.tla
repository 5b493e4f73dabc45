----------------------------- MODULE LocksProofs -----------------------------
(***************************************************************************)
(* For any number of loops: threads wait for each other in a circle only   *)
(* when one of them runs a failed pull in RunFuctions, and no forced close *)
(* is lost.                                                                *)
(***************************************************************************)
EXTENDS Locks, FiniteSetTheorems, SequenceTheorems, TLAPS

Operations == [op : {"unlock", "post", "pull", "create", "close_session", "on_timer", "add_player",
                     "active_all", "set_publisher", "close_user", "clear", "pop"},
               k  : Locks \cup {None},
               f  : {None, "close", "active", "drop", "unpublish", "connect",
                     "push", "pull", "player", "publisher"}]

(* What Session's handlers post under its lock.                            *)
SessionPosts == {Post(l, f) : l \in Loops, f \in {"close", "active", "drop", "unpublish"}}

(* What Pull leads to, in a loop that may hold its own lock.               *)
PullCalls == {CloseSession, Clear} \cup {Post(l, "connect") : l \in Loops}

(* What a thread may be about to call, without the lock of the session.    *)
EventCalls == {CallPull, AddPlayer, ActiveAllPlayers, SetPublisher("push"), SetPublisher("pull"),
               CloseUser("player"), CloseUser("publisher")}

Calls(t, held) == IF t = Task THEN {IF held = 0 THEN OnTimer ELSE Clear}
                  ELSE PullCalls \cup {o \in EventCalls : held = 0}

(* Whether t holds its outermost lock, the loop's own or the service's,    *)
(* and the operation that releases it.                                     *)
Outer(t) == IF t = Task THEN Service ELSE t
Held(t, own) == IF own[Outer(t)] = t THEN 1 ELSE 0
Release(t) == IF t = Task THEN Unlock(Service) ELSE PopFunction

(***************************************************************************)
(* A handler s of thread t, given the owners of the locks.  It ends with   *)
(* the release of the outermost lock.  Before it there are, under the      *)
(* session's lock, functions to post and the unlock; otherwise at most one *)
(* call, or the search for a session and a call.                           *)
(***************************************************************************)
Shape(t, s, own) ==
  /\ s \in Seq(Operations) /\ Held(t, own) <= Len(s)
  /\ Held(t, own) = 1 => s[Len(s)] = Release(t)
  /\ LET n == Len(s) - Held(t, own)
     IN  IF own[Session] = t
         THEN n > 0 /\ s[n] = Unlock(Session) /\ \A i \in 1 .. n - 1 : s[i] \in SessionPosts
         ELSE /\ n <= 2
              /\ n = 1 => s[1] \in Calls(t, Held(t, own))
              /\ n = 2 => /\ t \in Loops /\ Held(t, own) = 0 /\ s[1] = CreateSession
                          /\ s[2] \in {AddPlayer, SetPublisher("push")}

Shapes ==
  /\ todo \in [Threads -> Seq(Operations)]
  /\ \A t \in Threads : Shape(t, todo[t], owner)

(* Only the task thread takes the service's lock for longer than a step,   *)
(* and only the loop itself its own.                                       *)
Owners ==
  /\ owner[Service] \in {Task, None}
  /\ \A l \in Loops : owner[l] \in {l, None}

(* What the operations that lie ahead say about players and publisher.     *)
Ahead(t, o) == o \in Range(todo[t])

Linked ==
  /\ \A l \in Loops : Ahead(l, AddPlayer) => player[l] = "out"
  /\ \A l \in Loops : Ahead(l, CloseUser("player")) => player[l] = "leaving"
  /\ \A t \in Threads, l \in Loops : Ahead(t, Post(l, "close")) => player[l] \in {"closing", "gone"}
  /\ \A t \in Threads, l \in Loops : Ahead(t, Post(l, "drop")) => publisher # None
  /\ \A l \in Loops : "close" \in Range(queue[l]) => player[l] \in {"closing", "gone"}

(* A loop that runs functions runs the first of its queue, which has done  *)
(* its work if it is a close.                                              *)
Running ==
  \A l \in Loops : owner[l] = l =>
    queue[l] # <<>> /\ (Head(queue[l]) = "close" => Len(todo[l]) = 1 /\ player[l] = "gone")

IInv == ClosingIsUnderWay /\ Owners /\ Shapes /\ Linked /\ Running

-----------------------------------------------------------------------------
(* The names of threads and locks are different. *)
LEMMA Names ==
  /\ Task \notin Loops /\ None \notin Threads /\ None \notin Loops /\ None \notin Locks
  /\ Service \notin Threads /\ Session \notin Threads /\ Service # Session
  /\ Loops \subseteq Threads /\ Task \in Threads /\ (\A t \in Threads : t # Task => t \in Loops)
  /\ Loops \subseteq Locks /\ Service \in Locks /\ Session \in Locks
  /\ \A t \in Threads : Outer(t) \in Locks /\ Outer(t) # Session
BY NamesAssumption DEF Threads, Locks, Task, None, Service, Session, Outer

(* Operations are told apart by their names. *)
LEMMA Kinds ==
  /\ \A k, f : Post(k, f).op = "post" /\ Post(k, f).k = k /\ Post(k, f).f = f
  /\ \A k : Unlock(k).op = "unlock" /\ Unlock(k).k = k
  /\ PopFunction.op = "pop" /\ CallPull.op = "pull" /\ CreateSession.op = "create"
  /\ CloseSession.op = "close_session" /\ CloseSession.k = Service
  /\ OnTimer.op = "on_timer" /\ OnTimer.k = Service /\ CreateSession.k = Service
  /\ AddPlayer.op = "add_player" /\ AddPlayer.k = Session
  /\ ActiveAllPlayers.op = "active_all" /\ ActiveAllPlayers.k = Session
  /\ Clear.op = "clear" /\ Clear.k = Session
  /\ \A f : SetPublisher(f).op = "set_publisher" /\ SetPublisher(f).k = Session /\ SetPublisher(f).f = f
  /\ \A f : CloseUser(f).op = "close_user" /\ CloseUser(f).k = Session /\ CloseUser(f).f = f
BY DEF Op, Post, Unlock, PopFunction, CallPull, CreateSession, CloseSession, OnTimer, AddPlayer,
       ActiveAllPlayers, Clear, SetPublisher, CloseUser

(* What the first operation o of a handler of len operations says: which   *)
(* thread t can be there, whether it holds its outermost lock (h) and the  *)
(* session's (mine), and how much of the handler is left.                  *)
Begins(t, o, len, h, mine) ==
  /\ o \in Operations /\ len \in Nat /\ len > 0 /\ h \in {0, 1}
  /\ mine => o.op \in {"unlock", "post"}
  /\ o.op = "unlock" => IF mine THEN len = 1 + h /\ o = Unlock(Session)
                        ELSE len = 1 /\ h = 1 /\ t = Task /\ o = Unlock(Service)
  /\ o.op = "post" => IF mine THEN len >= 2 + h /\ o \in SessionPosts
                      ELSE len = 1 + h /\ t \in Loops /\ \E l \in Loops : o = Post(l, "connect")
  /\ o.op = "pop" => t \in Loops /\ len = 1 /\ h = 1
  /\ o.op = "create" => t \in Loops /\ h = 0 /\ len = 2 /\ o.k = Service
  /\ o.op = "on_timer" => t = Task /\ h = 0 /\ len = 1 /\ o.k = Service
  /\ o.op = "close_session" => t \in Loops /\ len = 1 + h /\ o.k = Service
  /\ o.op = "clear" => len = 1 + h /\ o.k = Session /\ (t = Task => h = 1)
  /\ o.op \in {"add_player", "active_all", "set_publisher", "close_user", "pull"} =>
       t \in Loops /\ h = 0 /\ len = 1 + h
  /\ o.op \in {"add_player", "active_all", "set_publisher", "close_user"} => o.k = Session
  /\ o.op = "add_player" => o = AddPlayer
  /\ o.op = "close_user" => o \in {CloseUser("player"), CloseUser("publisher")}

(* What the shape of a handler says of its first operation. *)
LEMMA ShapeBegins ==
  ASSUME NEW t \in Threads, NEW own, NEW s, NEW h, h = Held(t, own), Shape(t, s, own), s # <<>>
  PROVE  Head(s) = s[1] /\ Begins(t, s[1], Len(s), h, own[Session] = t)
<1> DEFINE n == Len(s) - h
<1>1. /\ h = 0 \/ h = 1
      /\ s \in Seq(Operations) /\ Len(s) \in Nat /\ Len(s) > 0 /\ (t # Task => t \in Loops)
  BY Names, EmptySeq DEF Shape, Held
<1>2. s[1] \in Operations /\ Head(s) = s[1]
  BY <1>1, ElementOfSeq
<1>3. CASE own[Session] = t
  <2>1. n > 0 /\ s[n] = Unlock(Session) /\ \A i \in 1 .. n - 1 : s[i] \in SessionPosts
    BY <1>3 DEF Shape
  <2>2. CASE n = 1
    <3>1. s[1] = Unlock(Session) /\ s[1].op = "unlock" /\ Len(s) = 1 + h
      BY <2>1, <2>2, <1>1, Kinds
    <3> QED
      BY <3>1, <1>1, <1>2, <1>3 DEF Begins
  <2>3. CASE n > 1
    <3>1. s[1] \in SessionPosts /\ Len(s) >= 2 + h
      BY <2>1, <2>3, <1>1
    <3>2. s[1].op = "post"
      BY <3>1, Kinds DEF SessionPosts
    <3> QED
      BY <3>1, <3>2, <1>1, <1>2, <1>3 DEF Begins
  <2> QED
    BY <2>1, <2>2, <2>3, <1>1
<1>4. CASE own[Session] # t
  <2>1. /\ 0 <= n /\ n <= 2 /\ (h = 1 => s[Len(s)] = Release(t))
        /\ n = 1 => s[1] \in Calls(t, h)
        /\ n = 2 => t \in Loops /\ h = 0 /\ s[1] = CreateSession
    BY <1>1, <1>4 DEF Shape
  <2>2. CASE n = 0
    <3>1. h = 1 /\ Len(s) = 1
      <4>1. h # 0
        BY <2>2, <1>1
      <4>2. h = 1
        BY <4>1, <1>1
      <4>3. Len(s) - 1 = 0
        BY <4>2, <2>2
      <4> QED
        BY <4>2, <4>3, <1>1
    <3>2. s[1] = Release(t)
      BY <3>1, <2>1
    <3>3. IF t = Task THEN s[1] = Unlock(Service) /\ s[1].op = "unlock" ELSE s[1].op = "pop"
      BY <3>2, Kinds DEF Release
    <3> QED
      BY <3>1, <3>3, <1>1, <1>2, <1>4 DEF Begins
  <2>3. CASE n = 2
    <3>1. s[1].op = "create" /\ s[1].k = Service /\ t \in Loops /\ h = 0 /\ Len(s) = 2
      BY <2>1, <2>3, <1>1, Kinds
    <3> QED
      BY <3>1, <1>1, <1>2, <1>4 DEF Begins
  <2>4. CASE n = 1
    <3>1. s[1] \in Calls(t, h) /\ Len(s) = 1 + h
      BY <2>1, <2>4, <1>1
    <3>2. CASE t = Task
      <4>1. s[1] = IF h = 0 THEN OnTimer ELSE Clear
        BY <3>1, <3>2, <1>1 DEF Calls
      <4> QED
        BY <4>1, <3>1, <3>2, <1>1, <1>2, <1>4, Kinds DEF Begins
    <3>3. CASE t # Task
      <4>1. CASE s[1] \in PullCalls
        BY <4>1, <3>1, <3>3, <1>1, <1>2, <1>4, Kinds DEF PullCalls, Begins
      <4>2. CASE s[1] \notin PullCalls
        <5>1. h = 0 /\ s[1] \in EventCalls
          BY <4>2, <3>1, <3>3, <1>1 DEF Calls
        <5> QED
          BY <5>1, <3>1, <3>3, <1>1, <1>2, <1>4, Kinds DEF Begins, EventCalls
      <4> QED
        BY <4>1, <4>2
    <3> QED
      BY <3>2, <3>3
  <2> QED
    BY <2>1, <2>2, <2>3, <2>4, <1>1
<1> QED
  BY <1>3, <1>4

(* The same of what a thread does next. *)
LEMMA FirstSays ==
  ASSUME Shapes, NEW t \in Threads, todo[t] # <<>>
  PROVE  /\ first(t) = todo[t][1] /\ todo[t] \in Seq(Operations)
         /\ Begins(t, first(t), Len(todo[t]), Held(t, owner), owner[Session] = t)
<1>1. Shape(t, todo[t], owner)
  BY DEF Shapes
<1> QED
  BY <1>1, ShapeBegins DEF first, Shape

(***************************************************************************)
(* The order of the locks: the service's, the session's, a loop's.  In a   *)
(* circle of waiting threads none waits for a loop that runs no pull, so   *)
(* the holder of the session's lock does not wait in it, nor does the task *)
(* thread, which holds the service's.                                      *)
(***************************************************************************)
LEMMA LockOrder ==
  ASSUME TypeOK, Owners, Shapes, Running
  PROVE  DeadlockOnlyInPull
<1> SUFFICES ASSUME NEW C \in SUBSET Threads, Deadlocked(C),
                    \A l \in C \cap Loops : ~PullsUnderLock(l)
             PROVE  FALSE
  BY DEF DeadlockOnlyInPull
<1> DEFINE k(t) == first(t).k
<1>1. ASSUME NEW t \in C
      PROVE  /\ t \in Threads /\ todo[t] # <<>> /\ owner[k(t)] \in C
             /\ first(t).op \notin {"unlock", "pull", "pop"}
             /\ first(t).op = "post" => k(t) # t
  BY <1>1, Names DEF Deadlocked, waitsFor
<1>2. ASSUME NEW l \in C, l \in Loops
      PROVE  owner[l] # l
  <2> SUFFICES ASSUME owner[l] = l PROVE FALSE
    OBVIOUS
  <2>1. Head(queue[l]) = "close" /\ Len(todo[l]) = 1
    <3>1. queue[l] # <<>> /\ queue[l] \in Seq({"close", "drop", "connect"})
      BY <1>2 DEF Running, TypeOK
    <3>2. Head(queue[l]) \in {"close", "drop", "connect"}
      BY <3>1, HeadTailProperties
    <3> QED
      BY <3>2, <1>2 DEF Running, PullsUnderLock
  <2>2. Held(l, owner) = 1 /\ l # Task
    BY <1>2, Names DEF Held, Outer
  <2>3. owner[Session] # l /\ first(l).op = "pop"
    <3>1. todo[l][1] = PopFunction /\ owner[Session] # l
      BY <2>1, <2>2, <1>1 DEF Shapes, Shape, Release
    <3> QED
      BY <3>1, <1>1, FirstSays, Kinds
  <2> QED
    BY <2>3, <1>1
<1>3. ASSUME NEW t \in C
      PROVE  k(t) \notin Loops
  BY <1>1, <1>2, Names DEF Owners
<1>4. ASSUME NEW t \in C
      PROVE  k(t) # Session
  <2> SUFFICES ASSUME NEW o \in C, owner[Session] = o PROVE FALSE
    BY <1>1
  <2>1. first(o).op \notin {"unlock", "pull", "pop"} /\ o \in Threads /\ todo[o] # <<>>
    BY <1>1
  <2>2. first(o).op = "post" /\ first(o) \in SessionPosts
    BY <2>1, FirstSays DEF Begins
  <2>3. k(o) \in Loops
    BY <2>2, Kinds DEF SessionPosts
  <2> QED
    BY <2>3, <1>3
<1>5. PICK t \in C : TRUE
  BY DEF Deadlocked
<1>6. k(t) = Service
  <2>1. /\ Begins(t, first(t), Len(todo[t]), Held(t, owner), owner[Session] = t)
        /\ first(t).op \notin {"unlock", "pull", "pop"}
    BY <1>1, FirstSays
  <2>2. first(t).op = "post" => k(t) \in Loops
    BY <2>1, Kinds DEF Begins, SessionPosts
  <2>3. first(t).op \in {"add_player", "active_all", "set_publisher", "close_user", "clear"} =>
          k(t) = Session
    BY <2>1 DEF Begins
  <2>4. first(t).op \in {"create", "on_timer", "close_session"}
    BY <2>1, <2>2, <2>3, <1>3, <1>4 DEF Begins, Operations
  <2> QED
    BY <2>1, <2>4 DEF Begins
<1>7. owner[Service] = Task /\ Task \in C
  BY <1>6, <1>1, Names DEF Owners
<1>8. Held(Task, owner) = 1
  BY <1>7 DEF Held, Outer
<1>9. first(Task).op \in {"unlock", "post", "clear"}
  <2>1. Begins(Task, first(Task), Len(todo[Task]), 1, owner[Session] = Task)
    BY <1>1, <1>7, <1>8, FirstSays
  <2> QED
    BY <2>1, Names DEF Begins, Operations
<1>10. k(Task) \in Loops \cup {Session}
  <2>1. /\ Begins(Task, first(Task), Len(todo[Task]), 1, owner[Session] = Task)
        /\ first(Task).op \in {"post", "clear"}
    BY <1>1, <1>7, <1>8, <1>9, FirstSays
  <2> QED
    BY <2>1, Kinds DEF Begins, SessionPosts
<1> QED
  BY <1>10, <1>7, <1>3, <1>4

-----------------------------------------------------------------------------
(* Two sequences of one element make a pair. *)
LEMMA ConcatPair ==
  ASSUME NEW S, NEW a \in S, NEW b \in S
  PROVE  <<a>> \o <<b>> = <<a, b>>
<1> DEFINE u == <<a>>
           v == <<b>>
           p == <<a, b>>
<1>1. /\ u \in Seq(S) /\ Len(u) = 1 /\ u[1] = a /\ v \in Seq(S) /\ Len(v) = 1 /\ v[1] = b
      /\ p \in Seq(S) /\ Len(p) = 2 /\ p[1] = a /\ p[2] = b
  OBVIOUS
<1> HIDE DEF u, v, p
<1>2. /\ u \o v \in Seq(S) /\ Len(u \o v) = Len(u) + Len(v)
      /\ \A i \in 1 .. Len(u) + Len(v) : (u \o v)[i] = IF i <= Len(u) THEN u[i] ELSE v[i - Len(u)]
  BY <1>1, ConcatProperties
<1>3. Len(u \o v) = 2 /\ (u \o v)[1] = a /\ (u \o v)[2] = b
  BY <1>1, <1>2
<1>4. u \o v = p
  BY <1>1, <1>2, <1>3, SeqEqual
<1> QED
  BY <1>4 DEF u, v, p

(* A thread holds its outermost lock or it does not. *)
LEMMA HeldIs == \A t, own : Held(t, own) \in 0 .. 1
BY DEF Held

(* A handler whose first operation is replaced by ops. *)
LEMMA Replaced ==
  ASSUME NEW S, NEW s \in Seq(S), s # <<>>, NEW ops \in Seq(S), NEW r, r = ops \o Tail(s)
  PROVE  /\ r \in Seq(S) /\ Len(r) = Len(ops) + Len(s) - 1
         /\ Len(r) \in Nat /\ Len(s) \in Nat /\ Len(s) > 0 /\ Len(ops) \in Nat
         /\ \A i \in 1 .. Len(ops) : r[i] = ops[i]
         /\ \A i \in Len(ops) + 1 .. Len(r) : r[i] = s[i - Len(ops) + 1]
         /\ \A i \in 2 .. Len(s) : s[i] = r[i + Len(ops) - 1]
<1>1. /\ Tail(s) \in Seq(S) /\ Len(Tail(s)) = Len(s) - 1
      /\ \A i \in 1 .. Len(Tail(s)) : Tail(s)[i] = s[i + 1]
  BY HeadTailProperties
<1>2. Len(s) \in Nat /\ Len(s) > 0 /\ Len(ops) \in Nat /\ Head(s) = s[1]
  BY LenProperties, EmptySeq
<1>3. /\ r \in Seq(S) /\ Len(r) = Len(ops) + Len(s) - 1
      /\ \A i \in 1 .. Len(ops) + Len(Tail(s)) :
           r[i] = IF i <= Len(ops) THEN ops[i] ELSE Tail(s)[i - Len(ops)]
  BY <1>1, <1>2, ConcatProperties
<1>4. /\ \A i \in 1 .. Len(ops) : r[i] = ops[i]
      /\ \A i \in Len(ops) + 1 .. Len(r) : r[i] = s[i - Len(ops) + 1]
  BY <1>1, <1>2, <1>3
<1>5. ASSUME NEW i \in 2 .. Len(s) PROVE s[i] = r[i + Len(ops) - 1]
  <2> DEFINE j == i + Len(ops) - 1
  <2>1. j \in Len(ops) + 1 .. Len(r) /\ j - Len(ops) + 1 = i
    BY <1>2, <1>3
  <2> HIDE DEF j
  <2>2. r[j] = s[j - Len(ops) + 1]
    BY <2>1, <1>4
  <2> QED
    BY <2>1, <2>2 DEF j
<1> QED
  BY <1>2, <1>3, <1>4, <1>5

(* What is in a handler after its first operation was replaced. *)
LEMMA ReplacedRange ==
  ASSUME NEW S, NEW s \in Seq(S), s # <<>>, NEW ops \in Seq(S), NEW r, r = ops \o Tail(s)
  PROVE  /\ Range(ops) \subseteq Range(r)
         /\ Range(r) \subseteq Range(ops) \cup Range(s)
         /\ \A x \in Range(s) : x # Head(s) => x \in Range(r)
<1>2. Len(s) \in Nat /\ Len(s) > 0 /\ Len(ops) \in Nat /\ Head(s) = s[1]
  BY LenProperties, EmptySeq
<1>3. r \in Seq(S) /\ Len(r) = Len(ops) + Len(s) - 1
  BY Replaced
<1>4. /\ \A i \in 1 .. Len(ops) : r[i] = ops[i]
      /\ \A i \in Len(ops) + 1 .. Len(r) : r[i] = s[i - Len(ops) + 1]
  BY Replaced
<1>5. \A i \in 2 .. Len(s) : s[i] = r[i + Len(ops) - 1]
  BY Replaced
<1>6. DOMAIN r = 1 .. Len(r) /\ DOMAIN ops = 1 .. Len(ops) /\ DOMAIN s = 1 .. Len(s)
  BY <1>3, LenProperties
<1>7. Range(ops) \subseteq Range(r)
  BY <1>2, <1>3, <1>4, <1>6 DEF Range
<1>8. Range(r) \subseteq Range(ops) \cup Range(s)
  <2> SUFFICES ASSUME NEW i \in 1 .. Len(r) PROVE r[i] \in Range(ops) \cup Range(s)
    BY <1>6 DEF Range
  <2>1. CASE i <= Len(ops)
    <3>1. i \in 1 .. Len(ops) /\ r[i] = ops[i]
      BY <2>1, <1>2, <1>3, <1>4
    <3>2. ops[i] \in Range(ops)
      BY <3>1, <1>6 DEF Range
    <3> QED
      BY <3>1, <3>2
  <2>2. CASE i > Len(ops)
    <3>1. i - Len(ops) + 1 \in 1 .. Len(s) /\ r[i] = s[i - Len(ops) + 1]
      BY <2>2, <1>2, <1>3, <1>4
    <3> QED
      BY <3>1, <1>6 DEF Range
  <2> QED
    BY <2>1, <2>2, <1>2
<1>9. ASSUME NEW x \in Range(s), x # Head(s) PROVE x \in Range(r)
  <2>1. PICK i \in 1 .. Len(s) : x = s[i]
    BY <1>6 DEF Range
  <2>2. i \in 2 .. Len(s)
    BY <2>1, <1>9, <1>2
  <2>3. i + Len(ops) - 1 \in 1 .. Len(r)
    BY <2>2, <1>2, <1>3
  <2> QED
    BY <2>1, <2>2, <2>3, <1>5, <1>6 DEF Range
<1> QED
  BY <1>7, <1>8, <1>9

(* The types, without what Shapes says about the threads that hold locks. *)
Types ==
  /\ owner \in [Locks -> Threads \cup {None}]
  /\ queue \in [Loops -> Seq({"close", "drop", "connect"})]
  /\ player \in [Loops -> {"out", "in", "leaving", "closing", "gone"}]
  /\ players \subseteq {l \in Loops : player[l] \in {"in", "leaving"}}
  /\ publisher \in Loops \cup {None} /\ {pulled, listed} \subseteq BOOLEAN
  /\ dials \in 0 .. MaxDials

(* Whoever holds a lock has something left to do. *)
LEMMA HoldersAreBusy ==
  ASSUME Types, Owners, Shapes
  PROVE  TypeOK
<1> SUFFICES ASSUME NEW k \in Locks, owner[k] # None
             PROVE  todo[owner[k]] # <<>>
  BY DEF Types, TypeOK
<1> DEFINE t == owner[k]
<1>1. t \in Threads
  BY DEF Types
<1>2. k = Session \/ (k = Outer(t) /\ Held(t, owner) = 1)
  <2>1. CASE k = Service
    BY <2>1 DEF Owners, Outer, Held
  <2>2. CASE k \in Loops
    BY <2>2, Names DEF Owners, Outer, Held
  <2> QED
    BY <2>1, <2>2 DEF Locks
<1>3. Held(t, owner) \in {0, 1} /\ Shape(t, todo[t], owner)
  BY <1>1 DEF Held, Shapes
<1>4. Len(todo[t]) > 0
  BY <1>2, <1>3 DEF Shape
<1> QED
  BY <1>4, EmptySeq

(* The locks that threads other than t hold remain theirs. *)
Undisturbed(t) ==
  \A x \in Threads \ {t} : /\ (owner'[Session] = x) = (owner[Session] = x)
                           /\ (owner'[Outer(x)] = x) = (owner[Outer(x)] = x)

(* What another thread has still to do stays in shape. *)
LEMMA OthersKeepShape ==
  ASSUME Shapes, NEW t \in Threads, NEW s \in Seq(Operations),
         todo' = [todo EXCEPT ![t] = s],
         Undisturbed(t),
         Shape(t, s, owner')
  PROVE  Shapes'
<1>1. todo' \in [Threads -> Seq(Operations)]
  BY DEF Shapes
<1>2. ASSUME NEW x \in Threads PROVE Shape(x, todo'[x], owner')
  <2>1. CASE x = t
    BY <2>1 DEF Shapes
  <2>2. CASE x # t
    <3>1. /\ Shape(x, todo[x], owner) /\ todo'[x] = todo[x]
          /\ owner'[Session] = x <=> owner[Session] = x
      BY <2>2 DEF Shapes, Undisturbed
    <3>2. Held(x, owner') = Held(x, owner)
      BY <2>2 DEF Held, Undisturbed
    <3> HIDE DEF Shapes
    <3> QED
      BY <3>1, <3>2 DEF Shape
  <2> QED
    BY <2>1, <2>2
<1> QED
  BY <1>1, <1>2 DEF Shapes

(* A loop that runs a close has only to take it off its queue. *)
LEMMA CloseIsPopped ==
  ASSUME Shapes, Running, NEW l \in Loops, owner[l] = l, Head(queue[l]) = "close"
  PROVE  todo[l] # <<>> /\ first(l).op = "pop"
<1>1. l \in Threads /\ Len(todo[l]) = 1 /\ Held(l, owner) = 1 /\ l # Task
  BY Names DEF Running, Held, Outer
<1>2. todo[l] # <<>> /\ todo[l][1] = PopFunction
  BY <1>1, EmptySeq DEF Shapes, Shape, Release
<1> QED
  BY <1>1, <1>2, FirstSays, Kinds

(* Operations that say nothing about players and the publisher. *)
Harmless(o) ==
  /\ o \notin {AddPlayer, CloseUser("player")}
  /\ o.op = "post" => o.f \notin {"close", "drop"}

(* Every step of thread t that leaves players, publisher and queues alone. *)
LEMMA QuietStep ==
  ASSUME IInv, Types', NEW t \in Threads, todo[t] = <<>> \/ first(t).op # "pop",
         NEW s \in Seq(Operations), todo' = [todo EXCEPT ![t] = s],
         Undisturbed(t),
         Owners', \A l \in Loops : owner'[l] = owner[l],
         Shape(t, s, owner'),
         UNCHANGED <<queue, player, publisher>>,
         \A o \in Range(s) : o \in Range(todo[t]) \/ Harmless(o),
         \A l \in Loops : Ahead(t, Post(l, "close")) => Post(l, "close") \in Range(s)
  PROVE  IInv'
<1> USE DEF Ahead
<1>0. IInv /\ TypeOK /\ Shapes /\ Linked /\ Running
  BY DEF IInv, ClosingIsUnderWay
<1>1. Shapes'
  BY <1>0, OthersKeepShape
<1>2. TypeOK'
  <2>1. Types' /\ Owners' /\ Shapes'
    BY <1>1
  <2> QED
    BY <2>1, HoldersAreBusy, PTL
<1>3. todo'[t] = s /\ \A x \in Threads \ {t} : todo'[x] = todo[x]
  BY <1>0 DEF Shapes
<1>4. ASSUME NEW x \in Threads, NEW o, Ahead(x, o)'
      PROVE  Ahead(x, o) \/ Harmless(o)
  BY <1>3, <1>4
<1>5. Linked'
  <2>1. ~Harmless(AddPlayer) /\ ~Harmless(CloseUser("player"))
    BY DEF Harmless
  <2>2. \A l \in Loops : ~Harmless(Post(l, "close")) /\ ~Harmless(Post(l, "drop"))
    BY Kinds DEF Harmless
  <2>3. \A x \in Threads : \A o : Ahead(x, o)' /\ ~Harmless(o) => Ahead(x, o)
    BY <1>4
  <2> HIDE DEF Ahead
  <2> QED
    BY <1>0, <2>1, <2>2, <2>3, Names DEF Linked
<1>6. Running'
  <2> SUFFICES ASSUME NEW l \in Loops, owner'[l] = l
               PROVE  queue[l] # <<>> /\ (Head(queue[l]) = "close" => Len(todo'[l]) = 1 /\ player[l] = "gone")
    BY DEF Running
  <2>1. Head(queue[l]) = "close" => l # t
    BY <1>0, CloseIsPopped
  <2> QED
    BY <2>1, <1>0, <1>3, Names DEF Running
<1>7. ASSUME NEW l \in Loops, player'[l] = "closing"
      PROVE  \/ "close" \in Range(queue'[l])
             \/ \E x \in Threads : Post(l, "close") \in Range(todo'[x])
  <2>1. CASE "close" \in Range(queue[l])
    BY <2>1
  <2>2. CASE \E x \in Threads : Post(l, "close") \in Range(todo[x])
    BY <2>2, <1>3
  <2> QED
    BY <2>1, <2>2, <1>7, <1>0 DEF IInv, ClosingIsUnderWay
<1> QED
  BY <1>1, <1>2, <1>5, <1>6, <1>7 DEF IInv, ClosingIsUnderWay

(* Such a step that takes and releases no lock. *)
LEMMA QuietCall ==
  ASSUME IInv, NEW t \in Threads, todo[t] = <<>> \/ first(t).op # "pop",
         NEW s \in Seq(Operations), todo' = [todo EXCEPT ![t] = s], Shape(t, s, owner),
         UNCHANGED <<owner, queue, player, players, publisher, pulled>>,
         listed' \in BOOLEAN, dials' \in 0 .. MaxDials,
         \A o \in Range(s) : o \in Range(todo[t]) \/ Harmless(o),
         \A l \in Loops : Ahead(t, Post(l, "close")) => Post(l, "close") \in Range(s)
  PROVE  IInv'
<1>1. Types' /\ Owners'
  BY DEF IInv, ClosingIsUnderWay, TypeOK, Types, Owners
<1>2. Undisturbed(t) /\ Shape(t, s, owner') /\ \A l \in Loops : owner'[l] = owner[l]
  BY DEF Undisturbed
<1> QED
  BY <1>1, <1>2, QuietStep

(* What Pull may lead to. *)
LEMMA PullBodies ==
  ASSUME Types, NEW body \in pulls \cup {<<>>}
  PROVE  /\ body \in Seq(Operations) /\ (Len(body) = 0 \/ Len(body) = 1)
         /\ Len(body) = 1 => body[1] \in PullCalls
         /\ publisher # None => body = <<>>
         /\ dials_after(body) \in 0 .. MaxDials
         /\ \A o \in Range(body) : Harmless(o)
<1>1. CASE body = <<>>
  <2>1. Len(body) = 0 /\ DOMAIN body = {} /\ body \in Seq(Operations)
    BY <1>1, EmptySeq
  <2> QED
    BY <1>1, <2>1 DEF dials_after, Types, Range
<1>2. CASE body # <<>>
  <2>0. publisher = None
    BY <1>2 DEF pulls
  <2>1. CASE body = <<CloseSession>>
    <3>1. CloseSession \in Operations /\ CloseSession.f # "connect" /\ Harmless(CloseSession)
      BY Kinds, Names DEF CloseSession, Op, Operations, None, Harmless, AddPlayer, CloseUser, Locks
    <3>2. DOMAIN body = {1} /\ body[1] = CloseSession /\ Len(body) = 1 /\ body \in Seq(Operations)
      BY <2>1, <3>1
    <3> QED
      BY <2>0, <3>1, <3>2 DEF dials_after, Types, Range, PullCalls
  <2>2. ASSUME NEW l \in Loops, body = <<Post(l, "connect")>>, dials < MaxDials
        PROVE  /\ body \in Seq(Operations) /\ (Len(body) = 0 \/ Len(body) = 1)
               /\ Len(body) = 1 => body[1] \in PullCalls
               /\ dials_after(body) \in 0 .. MaxDials
               /\ \A o \in Range(body) : Harmless(o)
    <3>1. Post(l, "connect") \in Operations /\ Harmless(Post(l, "connect"))
      BY Kinds, Names DEF Post, Op, Operations, Harmless, AddPlayer, CloseUser
    <3>2. DOMAIN body = {1} /\ body[1] = Post(l, "connect") /\ Len(body) = 1 /\ body \in Seq(Operations)
      BY <2>2, <3>1
    <3> QED
      BY <2>2, <3>1, <3>2, LocksAssumption DEF dials_after, Types, Range, PullCalls
  <2>3. body = <<CloseSession>> \/ \E l \in Loops : dials < MaxDials /\ body = <<Post(l, "connect")>>
    BY <1>2 DEF pulls
  <2> QED
    BY <2>0, <2>1, <2>2, <2>3
<1> QED
  BY <1>1, <1>2

(* A handler whose first operation is done. *)
LEMMA Dropped ==
  ASSUME NEW S, NEW s \in Seq(S), s # <<>>
  PROVE  /\ Tail(s) \in Seq(S) /\ Len(Tail(s)) = Len(s) - 1 /\ Len(s) \in Nat /\ Len(s) > 0
         /\ \A i \in 1 .. Len(Tail(s)) : Tail(s)[i] = s[i + 1]
         /\ Range(Tail(s)) \subseteq Range(s)
         /\ \A x \in Range(s) : x # Head(s) => x \in Range(Tail(s))
<1>1. /\ Tail(s) \in Seq(S) /\ Len(Tail(s)) = Len(s) - 1
      /\ \A i \in 1 .. Len(Tail(s)) : Tail(s)[i] = s[i + 1]
  BY HeadTailProperties
<1>2. Range(<<>>) = {} /\ <<>> \in Seq(S) /\ <<>> \o Tail(s) = Tail(s)
  <2>1. Range(<<>>) = {}
    BY DEF Range
  <2> QED
    BY <2>1, <1>1, ConcatEmptySeq, EmptySeq
<1>3. /\ Range(Tail(s)) \subseteq Range(<<>>) \cup Range(s) /\ Len(s) \in Nat /\ Len(s) > 0
      /\ \A x \in Range(s) : x # Head(s) => x \in Range(Tail(s))
  <2> DEFINE e == <<>>
             r == Tail(s)
  <2>1. e \in Seq(S) /\ r = e \o Tail(s)
    BY <1>2
  <2> HIDE DEF e, r
  <2>2. /\ Range(r) \subseteq Range(e) \cup Range(s) /\ Len(s) \in Nat /\ Len(s) > 0
        /\ \A x \in Range(s) : x # Head(s) => x \in Range(r)
    BY <2>1, Replaced, ReplacedRange
  <2> QED
    BY <2>2 DEF e, r
<1> QED
  BY <1>1, <1>2, <1>3

(* Handlers without the session's lock that are in shape. *)
LEMMA InShape ==
  ASSUME NEW t \in Threads, NEW own, NEW s \in Seq(Operations), NEW h, h = Held(t, own),
         h = 0 \/ (h = 1 /\ s[Len(s)] = Release(t)), own[Session] # t,
         Len(s) = h \/ (Len(s) = 1 + h /\ s[1] \in Calls(t, h))
  PROVE  Shape(t, s, own)
BY DEF Shape

(* A call that has no lock after it turns into what Pull leads to. *)
LEMMA PullShape ==
  ASSUME NEW t \in Threads, NEW own, NEW s, Shape(t, s, own), s # <<>>, own[Session] # t,
         Len(s) = 1 + Held(t, own), NEW body \in Seq(Operations), NEW r, r = body \o Tail(s),
         Len(body) = 0 \/ (Len(body) = 1 /\ body[1] \in Calls(t, Held(t, own)))
  PROVE  r \in Seq(Operations) /\ Shape(t, r, own)
<1> DEFINE h == Held(t, own)
<1>1. s \in Seq(Operations) /\ (h = 1 => s[Len(s)] = Release(t)) /\ h \in 0 .. 1
  BY DEF Shape, Held
<1>2. /\ r \in Seq(Operations) /\ Len(r) = Len(body) + h
      /\ \A i \in 1 .. Len(body) : r[i] = body[i]
      /\ \A i \in Len(body) + 1 .. Len(r) : r[i] = s[i - Len(body) + 1]
  BY <1>1, Replaced
<1>3. h = 1 => r[Len(r)] = Release(t)
  <2> SUFFICES ASSUME h = 1 PROVE r[Len(r)] = Release(t)
    OBVIOUS
  <2>1. Len(r) = Len(body) + 1 /\ Len(s) = 2
    BY <1>2
  <2>2. r[Len(r)] = s[2]
    BY <2>1, <1>2
  <2> QED
    BY <2>1, <2>2, <1>1
<1>4. Len(body) = 1 => r[1] \in Calls(t, h)
  BY <1>2
<1>5. h = 0 \/ h = 1
  BY <1>1
<1>6. Len(r) = h \/ (Len(r) = 1 + h /\ r[1] \in Calls(t, h))
  <2>1. CASE Len(body) = 0
    BY <2>1, <1>2, <1>5
  <2>2. CASE Len(body) = 1
    BY <2>2, <1>2, <1>4
  <2> QED
    BY <2>1, <2>2
<1>7. h = 0 \/ (h = 1 /\ r[Len(r)] = Release(t))
  BY <1>3, <1>5
<1>8. r \in Seq(Operations) /\ h = Held(t, own)
  BY <1>2
<1> HIDE DEF h
<1> QED
  BY <1>6, <1>7, <1>8, InShape

(* Taking or releasing the lock of the session, or of the service in the   *)
(* task thread, concerns no other thread.                                  *)
LEMMA OwnerMoves ==
  ASSUME Types, Owners, NEW t \in Threads, NEW k \in {Session, Service}, NEW new \in {t, None},
         owner[k] \in {t, None}, k = Service => t = Task, owner' = [owner EXCEPT ![k] = new]
  PROVE  /\ Owners' /\ owner' \in [Locks -> Threads \cup {None}]
         /\ \A l \in Loops : owner'[l] = owner[l]
         /\ Undisturbed(t)
         /\ owner'[k] = new /\ (k = Session => Held(t, owner') = Held(t, owner))
<1>1. k \in Locks /\ owner' \in [Locks -> Threads \cup {None}]
  BY Names DEF Types
<1>2. \A j \in Locks : owner'[j] = IF j = k THEN new ELSE owner[j]
  BY <1>1 DEF Types
<1>3. \A l \in Loops : owner'[l] = owner[l]
  BY <1>2, Names
<1>4. Owners'
  BY <1>2, <1>3, Names DEF Owners
<1>5. \A x \in Threads \ {t} : owner'[Session] = x <=> owner[Session] = x
  BY <1>2, Names
<1>6. ASSUME NEW x \in Threads \ {t} PROVE owner'[Outer(x)] = x <=> owner[Outer(x)] = x
  <2>1. Outer(x) \in Locks
    BY Names
  <2> QED
    BY <2>1, <1>2, Names
<1>7. k = Session => Held(t, owner') = Held(t, owner)
  BY <1>2, Names DEF Held
<1>8. Undisturbed(t)
  BY <1>5, <1>6 DEF Undisturbed
<1>9. owner'[k] = new
  BY <1>1, <1>2
<1> QED
  BY <1>1, <1>3, <1>4, <1>7, <1>8, <1>9

(* The unlock of the session, or of the service by the task thread. *)
LEMMA UnlockKeeps ==
  ASSUME IInv, NEW t \in Threads, DoUnlock(t)
  PROVE  IInv'
<1> DEFINE s == todo[t]
           r == Tail(s)
           h == Held(t, owner)
<1>0. TypeOK /\ Owners /\ Shapes /\ Types
  BY DEF IInv, ClosingIsUnderWay, TypeOK, Types
<1>1. s # <<>> /\ first(t).op = "unlock" /\ s \in Seq(Operations) /\ Shape(t, s, owner)
  BY <1>0 DEF DoUnlock, At, Shapes
<1>2. Begins(t, first(t), Len(s), h, owner[Session] = t) /\ h \in 0 .. 1
  BY <1>0, <1>1, FirstSays DEF Held
<1>3. /\ r \in Seq(Operations) /\ Len(r) = Len(s) - 1 /\ Range(r) \subseteq Range(s)
      /\ \A i \in 1 .. Len(r) : r[i] = s[i + 1]
      /\ \A x \in Range(s) : x # first(t) => x \in Range(r)
  BY <1>1, Dropped DEF first
<1>4. todo' = [todo EXCEPT ![t] = r] /\ owner' = [owner EXCEPT ![first(t).k] = None]
  BY DEF DoUnlock
<1>5. first(t).k \in {Session, Service} /\ owner[first(t).k] = t /\ Shape(t, r, owner')
  <2>1. CASE owner[Session] = t
    <3>1. first(t).k = Session /\ Len(s) = 1 + h
      BY <1>1, <1>2, <2>1, Kinds DEF Begins
    <3>2. owner'[Session] # t /\ Held(t, owner') = h
      BY <3>1, <1>0, <1>4, Names DEF Held, Types
    <3>3. h = 1 => r[Len(r)] = Release(t)
      BY <1>1, <1>2, <1>3, <3>1 DEF Shape
    <3>4. Len(r) = h /\ (h = 0 \/ h = 1)
      BY <3>1, <1>2, <1>3
    <3>5. Shape(t, r, owner')
      <4> HIDE DEF r, h
      <4> QED
        BY <3>2, <3>3, <3>4, <1>3, InShape
    <3> QED
      BY <3>1, <3>5, <2>1
  <2>2. CASE owner[Session] # t
    <3>1. first(t).k = Service /\ Len(s) = 1 /\ h = 1 /\ t = Task
      BY <1>1, <1>2, <2>2, Kinds DEF Begins
    <3>2. owner[Service] = t
      BY <3>1 DEF Held, Outer
    <3>3. owner'[Session] # t /\ Held(t, owner') = 0 /\ Len(r) = 0
      BY <3>1, <2>2, <1>0, <1>3, <1>4, Names DEF Held, Types, Outer
    <3>4. Shape(t, r, owner')
      <4> HIDE DEF r
      <4> QED
        BY <3>3, <1>3, InShape
    <3> QED
      BY <3>1, <3>2, <3>4
  <2> QED
    BY <2>1, <2>2
<1>6. /\ Types' /\ Owners' /\ \A l \in Loops : owner'[l] = owner[l]
      /\ Undisturbed(t)
  <2>1. first(t).k = Service => t = Task
    BY <1>0, <1>5, Names DEF Owners
  <2>2. /\ Owners' /\ owner' \in [Locks -> Threads \cup {None}] /\ \A l \in Loops : owner'[l] = owner[l]
        /\ Undisturbed(t)
    BY <2>1, <1>0, <1>4, <1>5, OwnerMoves
  <2> QED
    BY <2>2, <1>0 DEF DoUnlock, Types
<1>7. \A l \in Loops : first(t) # Post(l, "close")
  BY <1>1, Kinds
<1>8. /\ UNCHANGED <<queue, player, publisher>>
      /\ \A l \in Loops : Ahead(t, Post(l, "close")) => Post(l, "close") \in Range(r)
      /\ \A o \in Range(r) : o \in Range(todo[t]) \/ Harmless(o)
      /\ first(t).op # "pop" /\ r \in Seq(Operations)
  BY <1>1, <1>3, <1>7 DEF DoUnlock, Ahead
<1> HIDE DEF r
<1> QED
  BY <1>4, <1>5, <1>6, <1>8, QuietStep

(* A thread that stays without locks finds, or does not find, the session. *)
LEMMA CreateSessionKeeps ==
  ASSUME IInv, NEW t \in Threads, DoCreateSession(t)
  PROVE  IInv'
<1> DEFINE s == todo[t]
           r == IF listed THEN Tail(s) ELSE <<>>
<1>0. TypeOK /\ Owners /\ Shapes /\ Types
  BY DEF IInv, ClosingIsUnderWay, TypeOK, Types
<1>1. s # <<>> /\ first(t).op = "create" /\ s \in Seq(Operations) /\ Shape(t, s, owner)
  BY <1>0 DEF DoCreateSession, Passes, At, Shapes
<1>2. Begins(t, first(t), Len(s), Held(t, owner), owner[Session] = t)
  BY <1>0, <1>1, FirstSays
<1>3. t \in Loops /\ Held(t, owner) = 0 /\ Len(s) = 2 /\ owner[Session] # t
  BY <1>1, <1>2 DEF Begins
<1>4. s[2] \in {AddPlayer, SetPublisher("push")}
  BY <1>1, <1>3 DEF Shape
<1>5. /\ r \in Seq(Operations) /\ Range(r) \subseteq Range(s)
      /\ Len(r) = 0 \/ (Len(r) = 1 /\ r[1] = s[2])
  <2>2. <<>> \in Seq(Operations) /\ Len(<<>>) = 0 /\ Range(<<>>) = {}
    BY EmptySeq DEF Range
  <2>3. /\ Tail(s) \in Seq(Operations) /\ Len(Tail(s)) = 1 /\ Tail(s)[1] = s[2]
        /\ Range(Tail(s)) \subseteq Range(s)
    BY <1>1, <1>3, Dropped
  <2> QED
    BY <2>2, <2>3
<1>6. Shape(t, r, owner)
  <2>1. \A o \in {AddPlayer, SetPublisher("push")} : o \in Calls(t, 0)
    BY <1>3, Names DEF Calls, EventCalls
  <2>2. Len(r) = 0 \/ (Len(r) = 1 /\ r[1] \in Calls(t, 0))
    BY <2>1, <1>4, <1>5
  <2> DEFINE h == Held(t, owner)
  <2>3. h = 0 /\ (Len(r) = h \/ (Len(r) = 1 + h /\ r[1] \in Calls(t, h)))
    BY <2>2, <1>3
  <2> HIDE DEF r, h
  <2> QED
    BY <2>3, <1>3, <1>5, InShape DEF h
<1>8. /\ todo' = [todo EXCEPT ![t] = r] /\ listed' \in BOOLEAN /\ dials' \in 0 .. MaxDials
      /\ UNCHANGED <<owner, queue, player, players, publisher, pulled>>
  BY <1>0 DEF DoCreateSession, Passes, Types
<1>9. \A l \in Loops : ~Ahead(t, Post(l, "close"))
  <2>1. DOMAIN s = 1 .. 2 /\ s[1].op # "post" /\ s[2].op # "post"
    BY <1>0, <1>1, <1>3, <1>4, LenProperties, FirstSays, Kinds
  <2> QED
    BY <2>1, Kinds DEF Ahead, Range
<1>10. /\ \A o \in Range(r) : o \in Range(todo[t]) \/ Harmless(o)
       /\ first(t).op # "pop" /\ r \in Seq(Operations)
  BY <1>1, <1>5
<1> HIDE DEF r
<1> QED
  BY <1>6, <1>8, <1>9, <1>10, QuietCall

(* A call without the session's lock has nothing of a player ahead. *)
LEMMA NothingPosted ==
  ASSUME Shapes, NEW t \in Threads, todo[t] # <<>>, owner[Session] # t,
         Len(todo[t]) = 1 + Held(t, owner), first(t).op # "post"
  PROVE  \A l \in Loops : ~Ahead(t, Post(l, "close")) /\ ~Ahead(t, Post(l, "drop"))
<1> DEFINE s == todo[t]
           h == Held(t, owner)
<1>1. Shape(t, s, owner) /\ s \in Seq(Operations) /\ first(t) = s[1] /\ DOMAIN s = 1 .. Len(s)
  BY FirstSays, LenProperties DEF Shapes
<1>2. (h = 0 \/ h = 1) /\ (h = 1 => s[2] = Release(t))
  BY <1>1 DEF Held, Shape
<1>3. Release(t).op # "post"
  BY Kinds DEF Release
<1>4. ASSUME NEW i \in 1 .. Len(s) PROVE s[i].op # "post"
  <2>1. CASE h = 0
    BY <2>1, <1>1
  <2>2. CASE h = 1
    <3>1. i = 1 \/ i = 2
      BY <2>2
    <3> QED
      BY <3>1, <2>2, <1>1, <1>2, <1>3
  <2> QED
    BY <2>1, <2>2, <1>2
<1> QED
  BY <1>1, <1>4, Kinds DEF Ahead, Range

(* A thread goes on from a call to what Pull leads to. *)
LEMMA PullStep ==
  ASSUME IInv, NEW t \in Threads, todo[t] # <<>>, first(t).op \in {"close_session", "pull"},
         NEW body \in Seq(Operations), todo' = [todo EXCEPT ![t] = body \o Tail(todo[t])],
         Len(body) = 0 \/ (Len(body) = 1 /\ body[1] \in PullCalls),
         UNCHANGED <<owner, queue, player, players, publisher, pulled>>,
         listed' \in BOOLEAN, dials' \in 0 .. MaxDials,
         \A o \in Range(body) : Harmless(o)
  PROVE  IInv'
<1> DEFINE s == todo[t]
           r == body \o Tail(s)
<1>0. Shapes
  BY DEF IInv
<1>1. /\ Begins(t, first(t), Len(s), Held(t, owner), owner[Session] = t)
      /\ s \in Seq(Operations) /\ Shape(t, s, owner)
  BY <1>0, FirstSays DEF Shapes
<1>2. t \in Loops /\ owner[Session] # t /\ Len(s) = 1 + Held(t, owner)
  BY <1>1 DEF Begins
<1>3. \A o \in PullCalls : o \in Calls(t, Held(t, owner))
  BY <1>2, Names DEF Calls
<1>4. r \in Seq(Operations) /\ Shape(t, r, owner)
  <2>1. /\ Shape(t, s, owner) /\ s # <<>> /\ r = body \o Tail(s)
        /\ Len(body) = 0 \/ (Len(body) = 1 /\ body[1] \in Calls(t, Held(t, owner)))
        /\ owner[Session] # t /\ Len(s) = 1 + Held(t, owner)
    BY <1>1, <1>2, <1>3
  <2> HIDE DEF s, r
  <2> QED
    BY <2>1, PullShape, Zenon
<1>5. Range(r) \subseteq Range(body) \cup Range(s)
  <2>1. s \in Seq(Operations) /\ s # <<>> /\ r = body \o Tail(s)
    BY <1>1
  <2> HIDE DEF s, r
  <2> QED
    BY <2>1, ReplacedRange
<1>6. \A l \in Loops : ~Ahead(t, Post(l, "close"))
  BY <1>0, <1>2, NothingPosted
<1>7. /\ \A o \in Range(r) : o \in Range(todo[t]) \/ Harmless(o)
      /\ first(t).op # "pop" /\ todo' = [todo EXCEPT ![t] = r]
  BY <1>5
<1> HIDE DEF r
<1> QED
  BY <1>4, <1>6, <1>7, QuietCall

(* Pull, called by a player's or a puller's handler. *)
LEMMA PullKeeps ==
  ASSUME IInv, NEW t \in Threads, DoPull(t)
  PROVE  IInv'
<1>0. Types
  BY DEF IInv, ClosingIsUnderWay, TypeOK, Types
<1>1. PICK body \in pulls : /\ todo' = [todo EXCEPT ![t] = body \o Tail(@)]
                            /\ dials' = dials_after(body)
  BY DEF DoPull
<1>2. /\ body \in Seq(Operations) /\ (Len(body) = 0 \/ (Len(body) = 1 /\ body[1] \in PullCalls))
      /\ dials' \in 0 .. MaxDials /\ \A o \in Range(body) : Harmless(o)
  BY <1>0, <1>1, PullBodies
<1>3. /\ todo[t] # <<>> /\ first(t).op = "pull" /\ listed' \in BOOLEAN
      /\ UNCHANGED <<owner, queue, player, players, publisher, pulled>>
  BY <1>0 DEF DoPull, At, Types
<1>4. todo' = [todo EXCEPT ![t] = body \o Tail(todo[t])]
  BY <1>1
<1> QED
  BY <1>2, <1>3, <1>4, PullStep

(* CloseSession goes on with Clear. *)
LEMMA CloseSessionKeeps ==
  ASSUME IInv, NEW t \in Threads, DoCloseSession(t)
  PROVE  IInv'
<1> DEFINE body == IF listed THEN <<Clear>> ELSE <<>>
<1>0. Types /\ Shapes
  BY DEF IInv, ClosingIsUnderWay, TypeOK, Types
<1>1. Clear \in Operations /\ Harmless(Clear) /\ Clear \in PullCalls
  BY Kinds, Names DEF Clear, Op, Operations, Harmless, AddPlayer, CloseUser, PullCalls
<1>2. /\ body \in Seq(Operations) /\ (Len(body) = 0 \/ (Len(body) = 1 /\ body[1] \in PullCalls))
      /\ \A o \in Range(body) : Harmless(o)
  <2>1. CASE listed
    <3>1. body = <<Clear>> /\ DOMAIN body = {1}
      BY <2>1
    <3> QED
      BY <3>1, <1>1 DEF Range
  <2>2. CASE ~listed
    <3>1. body = <<>> /\ DOMAIN body = {}
      BY <2>2
    <3> QED
      BY <3>1 DEF Range
  <2> QED
    BY <2>1, <2>2
<1>3. todo[t] # <<>> /\ first(t).op = "close_session"
  BY DEF DoCloseSession, At
<1>4. /\ todo' = [todo EXCEPT ![t] = body \o Tail(todo[t])]
      /\ listed' \in BOOLEAN /\ dials' \in 0 .. MaxDials
      /\ UNCHANGED <<owner, queue, player, players, publisher, pulled>>
  BY <1>0 DEF DoCloseSession, Passes, Types
<1> HIDE DEF body
<1> QED
  BY <1>2, <1>3, <1>4, PullStep

-----------------------------------------------------------------------------
(* SetToSeq lists every element of a finite set. *)
LEMMA SetToSeqIs ==
  ASSUME NEW S, IsFiniteSet(S)
  PROVE  SetToSeq(S) \in Seq(S) /\ Range(SetToSeq(S)) = S
<1> DEFINE n == Cardinality(S)
           q == SetToSeq(S)
<1>1. n \in Nat /\ ExistsBijection(1 .. n, S)
  BY FS_CardinalityType
<1>2. \E f \in [1 .. n -> S] : IsInjective(f)
  BY <1>1 DEF ExistsBijection, Bijection, Injection
<1>3. q \in [1 .. n -> S] /\ IsInjective(q)
  BY <1>2 DEF SetToSeq
<1>4. q \in Injection(1 .. n, S)
  BY <1>3 DEF Injection
<1>5. Cardinality(1 .. n) = n
  BY <1>1, FS_Interval
<1> HIDE DEF n, q
<1>6. q \in Surjection(1 .. n, S)
  BY <1>4, <1>5, FS_Injection DEF n
<1>7. q \in Seq(S) /\ DOMAIN q = 1 .. n
  BY <1>1, <1>3
<1>8. Range(q) = S
  BY <1>3, <1>6, <1>7 DEF Surjection, Range
<1> QED
  BY <1>7, <1>8 DEF q

(* A function f posted to the loops of S. *)
LEMMA PostsOf ==
  ASSUME NEW S \in SUBSET Loops, NEW f \in {"close", "active"}, NEW q, q = SetToSeq(S),
         NEW posts, posts = [i \in DOMAIN q |-> Post(q[i], f)]
  PROVE  /\ posts \in Seq(Operations) /\ \A i \in 1 .. Len(posts) : posts[i] \in SessionPosts
         /\ Range(posts) = {Post(l, f) : l \in S}
<1>1. IsFiniteSet(S)
  BY NamesAssumption, FS_Subset
<1>2. q \in Seq(S) /\ Range(q) = S
  BY <1>1, SetToSeqIs
<1>3. Len(q) \in Nat /\ DOMAIN q = 1 .. Len(q) /\ \A i \in 1 .. Len(q) : q[i] \in S
  BY <1>2, LenProperties, ElementOfSeq
<1>4. \A l \in Loops : Post(l, f) \in Operations /\ Post(l, f) \in SessionPosts
  BY Names DEF Post, Op, Operations, SessionPosts
<1>5. posts \in Seq(Operations) /\ Len(posts) = Len(q) /\ DOMAIN posts = 1 .. Len(q)
  BY <1>3, <1>4
<1>6. \A i \in 1 .. Len(q) : posts[i] = Post(q[i], f)
  BY <1>3
<1>7. Range(posts) = {Post(l, f) : l \in S}
  BY <1>2, <1>3, <1>5, <1>6 DEF Range
<1> QED
  BY <1>3, <1>4, <1>5, <1>6, <1>7

(* What a thread does under the session's lock. *)
UnderLock(ops) ==
  /\ ops \in Seq(Operations) /\ Len(ops) > 0 /\ ops[Len(ops)] = Unlock(Session)
  /\ \A i \in 1 .. Len(ops) - 1 : ops[i] \in SessionPosts

(* What is posted under the session's lock is followed by the unlock. *)
LEMMA PostsThenUnlock ==
  ASSUME NEW posts \in Seq(Operations), \A i \in 1 .. Len(posts) : posts[i] \in SessionPosts,
         NEW ops, ops = posts \o <<Unlock(Session)>>
  PROVE  UnderLock(ops) /\ Range(ops) = Range(posts) \cup {Unlock(Session)}
<1> DEFINE u == <<Unlock(Session)>>
<1>1. Unlock(Session) \in Operations
  BY Names DEF Unlock, Op, Operations
<1>2. /\ u \in Seq(Operations) /\ Len(u) = 1 /\ u[1] = Unlock(Session)
      /\ Range(u) = {Unlock(Session)} /\ Len(posts) \in Nat /\ ops = posts \o u
  <2>1. DOMAIN u = {1} /\ u[1] = Unlock(Session)
    OBVIOUS
  <2> QED
    BY <2>1, <1>1, LenProperties DEF Range
<1> HIDE DEF u
<1>3. /\ ops \in Seq(Operations) /\ Len(ops) = Len(posts) + Len(u)
      /\ \A i \in 1 .. Len(posts) + Len(u) :
           ops[i] = IF i <= Len(posts) THEN posts[i] ELSE u[i - Len(posts)]
  BY <1>2, ConcatProperties
<1>4. Range(ops) = Range(posts) \cup {Unlock(Session)}
  BY <1>2, RangeConcatenation
<1>5. Len(ops) = Len(posts) + 1 /\ Len(ops) - 1 = Len(posts)
  BY <1>2, <1>3
<1>6. ops[Len(posts) + 1] = Unlock(Session) /\ \A i \in 1 .. Len(posts) : ops[i] \in SessionPosts
  BY <1>2, <1>3
<1> QED
  BY <1>2, <1>3, <1>4, <1>5, <1>6 DEF UnderLock

(* A thread takes the session's lock, to post functions under it. *)
LEMMA EntersShape ==
  ASSUME NEW t \in Threads, NEW own, NEW own2, NEW s, Shape(t, s, own), s # <<>>, own[Session] # t,
         Held(t, own2) = Held(t, own), own2[Session] = t, Len(s) = 1 + Held(t, own),
         NEW ops, UnderLock(ops), NEW r, r = ops \o Tail(s)
  PROVE  r \in Seq(Operations) /\ Shape(t, r, own2)
<1>a. PICK h \in 0 .. 1 : Held(t, own) = h
  BY HeldIs
<1> USE <1>a DEF UnderLock
<1>1. s \in Seq(Operations) /\ (h = 1 => s[Len(s)] = Release(t)) /\ h \in 0 .. 1
  BY HeldIs DEF Shape
<1>2. /\ r \in Seq(Operations) /\ Len(r) = Len(ops) + Len(s) - 1 /\ Len(r) \in Nat
      /\ Len(ops) \in Nat /\ \A i \in 1 .. Len(ops) : r[i] = ops[i]
      /\ \A i \in 2 .. Len(s) : s[i] = r[i + Len(ops) - 1]
  <2>1. /\ r \in Seq(Operations) /\ Len(r) = Len(ops) + Len(s) - 1 /\ Len(r) \in Nat
        /\ Len(ops) \in Nat
    BY <1>1, Replaced
  <2>2. \A i \in 1 .. Len(ops) : r[i] = ops[i]
    BY <1>1, Replaced
  <2>3. \A i \in 2 .. Len(s) : s[i] = r[i + Len(ops) - 1]
    BY <1>1, Replaced
  <2> QED
    BY <2>1, <2>2, <2>3
<1>3. h = 1 => r[Len(r)] = Release(t)
  <2> SUFFICES ASSUME h = 1 PROVE r[Len(r)] = Release(t)
    OBVIOUS
  <2>1. Len(s) = 2 /\ Len(r) = Len(ops) + 1
    BY <1>2
  <2>2. s[2] = r[Len(ops) + 1]
    BY <2>1, <1>2
  <2> QED
    BY <2>1, <2>2, <1>1
<1>4. Shape(t, r, own2)
  <2> DEFINE n == Len(r) - h
  <2>0. Len(r) = Len(ops) + (1 + h) - 1 /\ h \in Nat /\ Len(ops) \in Nat
    BY <1>1, <1>2
  <2>1. n = Len(ops) /\ h <= Len(r)
    BY <2>0
  <2> HIDE DEF n
  <2>2. n > 0 /\ r[n] = Unlock(Session) /\ \A i \in 1 .. n - 1 : r[i] \in SessionPosts
    BY <2>1, <1>2
  <2>3. h <= Len(r) /\ r \in Seq(Operations)
    BY <2>1, <1>2
  <2>4. n = Len(r) - Held(t, own2)
    BY DEF n
  <2> QED
    BY <2>2, <2>3, <2>4, <1>3 DEF Shape
<1> QED
  BY <1>2, <1>4

(* Only the thread that holds the session's lock has closes to post. *)
LEMMA PostsUnderLock ==
  ASSUME Shapes, NEW t \in Threads, NEW o \in Range(todo[t]), o.op = "post", o.f # "connect"
  PROVE  owner[Session] = t
<1> SUFFICES ASSUME owner[Session] # t PROVE FALSE
  OBVIOUS
<1> DEFINE s == todo[t]
           h == Held(t, owner)
<1>1. Shape(t, s, owner) /\ s \in Seq(Operations) /\ h \in 0 .. 1
  BY HeldIs DEF Shapes
<1>2. PICK i \in 1 .. Len(s) : o = s[i]
  BY <1>1, LenProperties DEF Range
<1>3. Len(s) \in Nat
  BY <1>1, LenProperties
<1>4. /\ h = 1 => s[Len(s)] = Release(t)
      /\ Len(s) = h \/ Len(s) = 1 + h \/ Len(s) = 2 + h
      /\ Len(s) = 1 + h => s[1] \in Calls(t, h)
      /\ Len(s) = 2 + h => h = 0 /\ s[1] = CreateSession /\ s[2] \in {AddPlayer, SetPublisher("push")}
  <2> HIDE DEF h
  <2>1. /\ h <= Len(s) /\ (h = 1 => s[Len(s)] = Release(t)) /\ Len(s) - h <= 2
        /\ Len(s) - h = 1 => s[1] \in Calls(t, h)
        /\ Len(s) - h = 2 => h = 0 /\ s[1] = CreateSession /\ s[2] \in {AddPlayer, SetPublisher("push")}
    BY <1>1 DEF Shape, h
  <2> QED
    BY <2>1, <1>1, <1>3
<1>5. Release(t).op # "post" /\ \A c \in Calls(t, h) : c.op = "post" => c.f = "connect"
  BY Kinds DEF Release, Calls, PullCalls, EventCalls
<1>6. CASE h = 1 /\ i = Len(s)
  BY <1>6, <1>2, <1>4, <1>5
<1>7. CASE ~(h = 1 /\ i = Len(s))
  <2>1. CASE Len(s) = 2 + h
    <3>1. i = 1 \/ i = 2
      BY <2>1, <1>1, <1>4
    <3> QED
      BY <3>1, <2>1, <1>2, <1>4, Kinds
  <2>2. CASE Len(s) = 1 + h
    <3>1. i = 1
      BY <2>2, <1>1, <1>7
    <3> QED
      BY <3>1, <2>2, <1>2, <1>4, <1>5
  <2>3. CASE Len(s) = h
    BY <2>3, <1>1, <1>7
  <2> QED
    BY <2>1, <2>2, <2>3, <1>4
<1> QED
  BY <1>6, <1>7

(* The parts of the invariant that every step of a thread keeps alike. *)
LEMMA Frame ==
  ASSUME IInv, Types', NEW t \in Threads, NEW s \in Seq(Operations), todo' = [todo EXCEPT ![t] = s],
         Undisturbed(t), Owners', Shape(t, s, owner')
  PROVE  /\ Shapes' /\ TypeOK'
         /\ todo'[t] = s /\ \A x \in Threads \ {t} : todo'[x] = todo[x]
<1>1. Shapes'
  BY OthersKeepShape DEF IInv
<1>2. TypeOK'
  <2>1. Types' /\ Owners' /\ Shapes'
    BY <1>1
  <2> QED
    BY <2>1, HoldersAreBusy, PTL
<1> QED
  BY <1>1, <1>2 DEF IInv, Shapes

(* A step of t that pops nothing leaves alone what the loops are running. *)
LEMMA RunningStep ==
  ASSUME Shapes, Running, NEW t \in Threads, todo[t] = <<>> \/ first(t).op # "pop",
         \A x \in Threads \ {t} : todo'[x] = todo[x],
         \A l \in Loops : owner'[l] = owner[l],
         \A l \in Loops : owner[l] = l => queue'[l] = queue[l],
         \A l \in Loops : player[l] = "gone" => player'[l] = "gone"
  PROVE  Running'
<1> SUFFICES ASSUME NEW l \in Loops, owner'[l] = l
             PROVE  queue'[l] # <<>> /\ (Head(queue'[l]) = "close" => Len(todo'[l]) = 1 /\ player'[l] = "gone")
  BY DEF Running
<1>1. owner[l] = l /\ queue'[l] = queue[l]
  OBVIOUS
<1>2. Head(queue[l]) = "close" => l # t
  BY <1>1, CloseIsPopped
<1>3. l \in Threads
  BY Names
<1> QED
  BY <1>1, <1>2, <1>3 DEF Running

(* The task thread takes the service's lock. *)
LEMMA OnTimerKeeps ==
  ASSUME IInv, NEW t \in Threads, DoOnTimer(t)
  PROVE  IInv'
<1> DEFINE s   == todo[t]
           ops == (IF listed THEN <<Clear>> ELSE <<>>) \o <<Unlock(Service)>>
           r   == ops \o Tail(s)
<1>0. Owners /\ Shapes /\ Types
  BY DEF IInv, ClosingIsUnderWay, TypeOK, Types
<1>1. /\ s # <<>> /\ first(t).op = "on_timer" /\ owner[first(t).k] = None
      /\ todo' = [todo EXCEPT ![t] = r] /\ owner' = [owner EXCEPT ![first(t).k] = t]
  BY DEF DoOnTimer, Enters, At
<1>2. Begins(t, first(t), Len(s), Held(t, owner), owner[Session] = t) /\ s \in Seq(Operations)
  BY <1>0, <1>1, FirstSays
<1>3. t = Task /\ first(t).k = Service /\ owner[Session] # t /\ Len(s) = 1 /\ s[1].op = "on_timer"
  BY <1>0, <1>1, <1>2, FirstSays DEF Begins
<1>4. /\ Owners' /\ owner' \in [Locks -> Threads \cup {None}] /\ \A l \in Loops : owner'[l] = owner[l]
      /\ Undisturbed(t) /\ owner'[Service] = t
  BY <1>0, <1>1, <1>3, OwnerMoves
<1>5. Held(t, owner') = 1 /\ owner'[Session] # t
  BY <1>0, <1>1, <1>3, <1>4, Names DEF Held, Outer, Types
<1>6. /\ r \in Seq(Operations) /\ (Len(r) = 1 \/ (Len(r) = 2 /\ r[1] = Clear))
      /\ r[Len(r)] = Unlock(Service) /\ Range(r) \subseteq {Clear, Unlock(Service)}
  <2>1. Clear \in Operations /\ Unlock(Service) \in Operations
    BY Names DEF Clear, Unlock, Op, Operations
  <2>2. Tail(s) = <<>>
    <3>1. Tail(s) \in Seq(Operations) /\ Len(Tail(s)) = 0
      BY <1>1, <1>2, <1>3, Dropped
    <3> QED
      BY <3>1, EmptySeq
  <2>3. r = IF listed THEN <<Clear, Unlock(Service)>> ELSE <<Unlock(Service)>>
    <3>1. ops = IF listed THEN <<Clear, Unlock(Service)>> ELSE <<Unlock(Service)>>
      <4>1. <<Clear>> \o <<Unlock(Service)>> = <<Clear, Unlock(Service)>>
        BY <2>1, ConcatPair
      <4>2. <<>> \o <<Unlock(Service)>> = <<Unlock(Service)>>
        <5>1. <<Unlock(Service)>> \in Seq(Operations)
          BY <2>1
        <5> QED
          BY <5>1, ConcatEmptySeq, Zenon
      <4> QED
        BY <4>1, <4>2
    <3>2. ops \in Seq(Operations)
      BY <3>1, <2>1
    <3> HIDE DEF ops
    <3>3. r = ops
      BY <2>2, <3>2, ConcatEmptySeq
    <3> QED
      BY <3>1, <3>3
  <2> HIDE DEF r
  <2>4. CASE listed
    <3>1. r = <<Clear, Unlock(Service)>> /\ DOMAIN r = {1, 2}
      BY <2>3, <2>4
    <3> QED
      BY <3>1, <2>1 DEF Range
  <2>5. CASE ~listed
    <3>1. r = <<Unlock(Service)>> /\ DOMAIN r = {1}
      BY <2>3, <2>5
    <3> QED
      BY <3>1, <2>1 DEF Range
  <2> QED
    BY <2>4, <2>5
<1>7. Shape(t, r, owner')
  <2>1. Release(t) = Unlock(Service) /\ Clear \in Calls(t, 1)
    BY <1>3 DEF Release, Calls
  <2> HIDE DEF r
  <2>2. PICK h : h = 1
    OBVIOUS
  <2>3. /\ h = Held(t, owner') /\ (h = 0 \/ (h = 1 /\ r[Len(r)] = Release(t)))
        /\ Len(r) = h \/ (Len(r) = 1 + h /\ r[1] \in Calls(t, h))
    BY <2>1, <2>2, <1>5, <1>6
  <2>4. r \in Seq(Operations) /\ owner'[Session] # t
    BY <1>5, <1>6
  <2> QED
    BY <2>3, <2>4, InShape
<1>8. Types' /\ UNCHANGED <<queue, player, publisher>>
  BY <1>0, <1>4 DEF DoOnTimer, Types
<1>9. /\ \A o \in Range(r) : Harmless(o)
      /\ \A l \in Loops : ~Ahead(t, Post(l, "close"))
  <2>1. Harmless(Clear) /\ Harmless(Unlock(Service))
    BY Kinds DEF Harmless
  <2>2. \A l \in Loops : ~Ahead(t, Post(l, "close"))
    BY <1>0, <1>3, PostsUnderLock, Kinds DEF Ahead
  <2> QED
    BY <2>1, <2>2, <1>6
<1>10. first(t).op # "pop" /\ r \in Seq(Operations)
  BY <1>1, <1>6
<1> HIDE DEF r
<1> QED
  BY <1>1, <1>4, <1>7, <1>8, <1>9, <1>10, QuietStep

Entered(t, posts, s) ==
  /\ todo' = [todo EXCEPT ![t] = s] /\ Shape(t, s, owner')
  /\ Range(posts) \subseteq Range(s)
  /\ Range(s) \subseteq Range(posts) \cup {Unlock(Session)} \cup Range(todo[t])

(* A call takes the session's lock and posts functions under it. *)
LEMMA EntersSession ==
  ASSUME IInv, NEW t \in Threads, NEW name \in {"active_all", "set_publisher", "clear"},
         NEW posts, NEW ops, UnderLock(ops),
         Range(ops) = Range(posts) \cup {Unlock(Session)}, Enters(t, name, ops)
  PROVE  /\ Owners' /\ owner' \in [Locks -> Threads \cup {None}] /\ \A l \in Loops : owner'[l] = owner[l]
         /\ Undisturbed(t) /\ owner[Session] = None /\ first(t).op = name
         /\ \E s \in Seq(Operations) : Entered(t, posts, s)
<1> DEFINE s == todo[t]
           r == ops \o Tail(s)
           h == Held(t, owner)
<1>0. Owners /\ Shapes /\ Types
  BY DEF IInv, ClosingIsUnderWay, TypeOK, Types
<1>1. /\ s # <<>> /\ first(t).op = name /\ owner[first(t).k] = None
      /\ todo' = [todo EXCEPT ![t] = r] /\ owner' = [owner EXCEPT ![first(t).k] = t]
  BY DEF Enters, At
<1>2. Begins(t, first(t), Len(s), h, owner[Session] = t) /\ Shape(t, s, owner)
  BY <1>0, <1>1, FirstSays DEF Shapes
<1>3. first(t).k = Session /\ Len(s) = 1 + h
  BY <1>1, <1>2 DEF Begins
<1>4. owner[Session] = None /\ owner[Session] # t /\ owner' = [owner EXCEPT ![Session] = t]
  BY <1>1, <1>3, Names
<1>5. /\ Owners' /\ owner' \in [Locks -> Threads \cup {None}] /\ \A l \in Loops : owner'[l] = owner[l]
      /\ Undisturbed(t) /\ owner'[Session] = t /\ Held(t, owner') = h
  BY <1>0, <1>4, OwnerMoves, Names
<1>6. r \in Seq(Operations) /\ Shape(t, r, owner')
  <2>1. /\ Shape(t, s, owner) /\ s # <<>> /\ owner[Session] # t
        /\ Held(t, owner') = Held(t, owner) /\ owner'[Session] = t /\ Len(s) = 1 + Held(t, owner)
        /\ r = ops \o Tail(s)
    BY <1>1, <1>2, <1>3, <1>4, <1>5
  <2> HIDE DEF r, s
  <2> QED
    BY <2>1, EntersShape, Zenon
<1>7. Range(ops) \subseteq Range(r) /\ Range(r) \subseteq Range(ops) \cup Range(s)
  <2>1. s \in Seq(Operations) /\ s # <<>> /\ ops \in Seq(Operations) /\ r = ops \o Tail(s)
    BY <1>1, <1>2 DEF Shape, UnderLock
  <2> HIDE DEF r, s
  <2> QED
    BY <2>1, ReplacedRange
<1>8. Range(posts) \subseteq Range(r) /\ Range(r) \subseteq Range(posts) \cup {Unlock(Session)} \cup Range(s)
  BY <1>7
<1> HIDE DEF r
<1> QED
  BY <1>1, <1>4, <1>5, <1>6, <1>8 DEF Entered

(* Nobody has closes to post while the session's lock is free. *)
LEMMA NothingToPost ==
  ASSUME Shapes, owner[Session] = None
  PROVE  \A t \in Threads, l \in Loops : ~Ahead(t, Post(l, "close")) /\ ~Ahead(t, Post(l, "drop"))
BY PostsUnderLock, Kinds, Names DEF Ahead

(* ActiveAllPlayers takes the session's lock and wakes its players. *)
LEMMA ActiveAllKeeps ==
  ASSUME IInv, NEW t \in Threads, DoActiveAllPlayers(t)
  PROVE  IInv'
<1> DEFINE q == SetToSeq(players)
           posts == [i \in DOMAIN q |-> Post(q[i], "active")]
           ops == posts \o <<Unlock(Session)>>
<1>0. Shapes /\ Types /\ players \in SUBSET Loops
  BY DEF IInv, ClosingIsUnderWay, TypeOK, Types
<1>1. Enters(t, "active_all", ops) /\ UNCHANGED <<queue, player, players, publisher, pulled, listed, dials>>
  BY DEF DoActiveAllPlayers
<1>2. /\ posts \in Seq(Operations) /\ \A i \in 1 .. Len(posts) : posts[i] \in SessionPosts
      /\ Range(posts) = {Post(l, "active") : l \in players}
  BY <1>0, PostsOf
<1>3. UnderLock(ops) /\ Range(ops) = Range(posts) \cup {Unlock(Session)}
  <2>1. ops = posts \o <<Unlock(Session)>>
    OBVIOUS
  <2> HIDE DEF posts, ops
  <2> QED
    BY <2>1, <1>2, PostsThenUnlock
<1> HIDE DEF posts, ops
<1>4. /\ Owners' /\ owner' \in [Locks -> Threads \cup {None}] /\ \A l \in Loops : owner'[l] = owner[l]
      /\ Undisturbed(t) /\ owner[Session] = None /\ first(t).op = "active_all"
  BY <1>1, <1>2, <1>3, EntersSession
<1>5. PICK s \in Seq(Operations) : Entered(t, posts, s)
  BY <1>1, <1>2, <1>3, EntersSession
<1>6. \A o \in Range(s) : o \in Range(todo[t]) \/ Harmless(o)
  <2>1. Harmless(Unlock(Session)) /\ \A l : Harmless(Post(l, "active"))
    BY Kinds DEF Harmless
  <2> QED
    BY <2>1, <1>2, <1>5 DEF Entered
<1>7. \A l \in Loops : ~Ahead(t, Post(l, "close"))
  BY <1>0, <1>4, NothingToPost
<1>8. Types'
  BY <1>0, <1>1, <1>4 DEF Types
<1> QED
  BY <1>1, <1>4, <1>5, <1>6, <1>7, <1>8, QuietStep DEF Entered

(* User::Close of the publisher. *)
LEMMA ClosePublisherPosts ==
  ASSUME Types
  PROVE  /\ close_publisher \in Seq(Operations)
         /\ \A i \in 1 .. Len(close_publisher) : close_publisher[i] \in SessionPosts
         /\ \A o \in Range(close_publisher) :
              publisher # None /\ o = Post(publisher, IF pulled THEN "drop" ELSE "unpublish")
<1> DEFINE c == close_publisher
           o == Post(publisher, IF pulled THEN "drop" ELSE "unpublish")
<1>1. CASE c = <<>>
  <2>1. DOMAIN c = {} /\ Len(c) = 0
    BY <1>1
  <2> QED
    BY <1>1, <2>1, EmptySeq DEF Range
<1>2. CASE c # <<>>
  <2>1. c = <<o>> /\ publisher \in Loops /\ publisher # None
    BY <1>2, Names DEF close_publisher, Types
  <2>2. o \in Operations /\ o \in SessionPosts
    BY <2>1, Names DEF Post, Op, Operations, SessionPosts
  <2> HIDE DEF c, o
  <2>3. c \in Seq(Operations) /\ Len(c) = 1 /\ c[1] = o /\ DOMAIN c = {1}
    BY <2>1, <2>2
  <2>4. Range(c) = {o}
    BY <2>3 DEF Range
  <2> QED
    BY <2>1, <2>2, <2>3, <2>4 DEF c, o
<1> QED
  BY <1>1, <1>2

(* SetPublisher replaces the publisher and closes the old one. *)
LEMMA SetPublisherKeeps ==
  ASSUME IInv, NEW t \in Threads, DoSetPublisher(t)
  PROVE  IInv'
<1> DEFINE posts == close_publisher
           ops == posts \o <<Unlock(Session)>>
<1>0. Shapes /\ Types /\ Linked /\ Running
  BY DEF IInv, ClosingIsUnderWay, TypeOK, Types
<1>1. /\ Enters(t, "set_publisher", ops) /\ UNCHANGED <<queue, player, players, listed, dials>>
      /\ publisher' = t /\ pulled' \in BOOLEAN /\ todo[t] # <<>> /\ first(t).op = "set_publisher"
  BY DEF DoSetPublisher, At
<1>2. /\ posts \in Seq(Operations) /\ \A i \in 1 .. Len(posts) : posts[i] \in SessionPosts
      /\ \A o \in Range(posts) : \E f \in {"drop", "unpublish"} : o = Post(publisher, f)
  BY <1>0, ClosePublisherPosts
<1>3. UnderLock(ops) /\ Range(ops) = Range(posts) \cup {Unlock(Session)}
  <2>1. ops = posts \o <<Unlock(Session)>>
    OBVIOUS
  <2> HIDE DEF posts, ops
  <2> QED
    BY <2>1, <1>2, PostsThenUnlock
<1> HIDE DEF posts, ops
<1>4. /\ Owners' /\ owner' \in [Locks -> Threads \cup {None}] /\ \A l \in Loops : owner'[l] = owner[l]
      /\ Undisturbed(t) /\ owner[Session] = None
  BY <1>1, <1>2, <1>3, EntersSession
<1>5. PICK s \in Seq(Operations) : Entered(t, posts, s)
  BY <1>1, <1>2, <1>3, EntersSession
<1>6. t \in Loops
  BY <1>0, <1>1, FirstSays DEF Begins
<1>7. Types'
  BY <1>0, <1>1, <1>4, <1>6 DEF Types
<1>8. /\ Shapes' /\ TypeOK'
      /\ todo'[t] = s /\ \A x \in Threads \ {t} : todo'[x] = todo[x]
  BY <1>4, <1>5, <1>7, Frame DEF Entered
<1>9. Running'
  BY <1>0, <1>1, <1>4, <1>8, RunningStep
<1>10. ASSUME NEW x \in Threads, NEW o, Ahead(x, o)', o.op # "post" \/ o.f = "close"
       PROVE  Ahead(x, o) \/ o = Unlock(Session)
  <2>1. o \notin Range(posts)
    BY <1>2, <1>10, Kinds
  <2> QED
    BY <2>1, <1>5, <1>8, <1>10 DEF Ahead, Entered
<1>11. Linked'
  <2>1. \A x \in Threads, l \in Loops : ~Ahead(x, Post(l, "close"))'
    BY <1>0, <1>4, <1>10, NothingToPost, Kinds
  <2>2. \A l \in Loops : /\ Ahead(l, AddPlayer)' => Ahead(l, AddPlayer)
                         /\ Ahead(l, CloseUser("player"))' => Ahead(l, CloseUser("player"))
    BY <1>10, Kinds, Names
  <2>3. publisher' # None
    BY <1>1, Names
  <2>4. player' = player /\ queue' = queue /\ Linked
    BY <1>0, <1>1
  <2>5. /\ \A l \in Loops : Ahead(l, AddPlayer) => player[l] = "out"
        /\ \A l \in Loops : Ahead(l, CloseUser("player")) => player[l] = "leaving"
        /\ \A l \in Loops : "close" \in Range(queue[l]) => player[l] \in {"closing", "gone"}
    BY <2>4 DEF Linked
  <2>6. \A l \in Loops : Ahead(l, AddPlayer)' => player'[l] = "out"
    <3> SUFFICES ASSUME NEW l \in Loops, Ahead(l, AddPlayer)' PROVE player'[l] = "out"
      OBVIOUS
    <3>1. Ahead(l, AddPlayer)
      BY <2>2
    <3>2. player[l] = "out"
      BY <3>1, <2>5
    <3> QED
      BY <3>2, <2>4
  <2>7. \A l \in Loops : Ahead(l, CloseUser("player"))' => player'[l] = "leaving"
    BY <2>2, <2>4, <2>5
  <2>8. \A l \in Loops : "close" \in Range(queue'[l]) => player'[l] \in {"closing", "gone"}
    BY <2>4, <2>5
  <2> QED
    BY <2>1, <2>3, <2>6, <2>7, <2>8 DEF Linked
<1>12. ASSUME NEW l \in Loops, player'[l] = "closing"
       PROVE  "close" \in Range(queue'[l])
  BY <1>0, <1>1, <1>4, <1>12, NothingToPost DEF IInv, ClosingIsUnderWay, Ahead
<1> QED
  BY <1>4, <1>8, <1>9, <1>11, <1>12 DEF IInv, ClosingIsUnderWay
-----------------------------------------------------------------------------
(* What a step of loop t leaves ahead: nothing new about players and       *)
(* publisher, except the close of a player that is leaving and the start   *)
(* of one that is not in.                                                  *)
Remains(t, s, p) ==
  \A o \in Range(s) : \/ Harmless(o)
                      \/ o = AddPlayer /\ p = "out"
                      \/ o = CloseUser("player") /\ p = "leaving"
                      \/ o \in Range(todo[t]) /\ o.op = "post"

(* The state p of its player after a step of loop t: a forced close is not *)
(* forgotten and none is begun.                                            *)
Follows(t, p) ==
  /\ player' = [player EXCEPT ![t] = p]
  /\ player[t] \in {"closing", "gone"} => p \in {"closing", "gone"}
  /\ p = "closing" => player[t] = "closing"

(* The closes that are still to be done are in the same place. *)
KeepsCloses(t, s) ==
  /\ \A l \in Loops : "close" \in Range(queue'[l]) => "close" \in Range(queue[l])
  /\ \A l \in Loops : player'[l] = "closing" =>
       /\ Ahead(t, Post(l, "close")) => Post(l, "close") \in Range(s)
       /\ "close" \in Range(queue[l]) => "close" \in Range(queue'[l])

(* Every step of a loop that concerns its own player, or none. *)
LEMMA LoopStep ==
  ASSUME IInv, Types', Owners', Running', NEW t \in Loops, NEW s \in Seq(Operations), NEW p,
         todo' = [todo EXCEPT ![t] = s], Undisturbed(t), Shape(t, s, owner'),
         Follows(t, p), Remains(t, s, p), KeepsCloses(t, s),
         publisher' = publisher \/ owner[Session] = None
  PROVE  IInv'
<1>0. Shapes /\ Linked /\ Types /\ t \in Threads
  BY Names DEF IInv, ClosingIsUnderWay, TypeOK, Types
<1>1. /\ Shapes' /\ TypeOK'
      /\ todo'[t] = s /\ \A x \in Threads \ {t} : todo'[x] = todo[x]
  BY <1>0, Frame
<1>2. \A l \in Loops : player'[l] = IF l = t THEN p ELSE player[l]
  BY <1>0 DEF Follows, Types
<1>3. \A x \in Threads \ {t} : \A o : Ahead(x, o)' => Ahead(x, o)
  BY <1>1 DEF Ahead
<1>4. \A o : Ahead(t, o)' => \/ Harmless(o)
                             \/ o = AddPlayer /\ p = "out"
                             \/ o = CloseUser("player") /\ p = "leaving"
                             \/ Ahead(t, o) /\ o.op = "post"
  BY <1>1 DEF Ahead, Remains
<1>5. /\ ~Harmless(AddPlayer) /\ AddPlayer.op = "add_player"
      /\ ~Harmless(CloseUser("player")) /\ CloseUser("player").op = "close_user"
      /\ \A l : /\ ~Harmless(Post(l, "close")) /\ Post(l, "close").op = "post"
                /\ ~Harmless(Post(l, "drop")) /\ Post(l, "drop").op = "post"
  BY Kinds DEF Harmless
<1>6. \A l \in Loops : Ahead(l, AddPlayer)' => player'[l] = "out"
  BY <1>0, <1>2, <1>3, <1>4, <1>5, Names DEF Linked
<1>7. \A l \in Loops : Ahead(l, CloseUser("player"))' => player'[l] = "leaving"
  BY <1>0, <1>2, <1>3, <1>4, <1>5, Names DEF Linked
<1>8. \A x \in Threads, l \in Loops : /\ Ahead(x, Post(l, "close"))' => Ahead(x, Post(l, "close"))
                                      /\ Ahead(x, Post(l, "drop"))' => Ahead(x, Post(l, "drop"))
  BY <1>3, <1>4, <1>5
<1>9. \A l \in Loops : player[l] \in {"closing", "gone"} => player'[l] \in {"closing", "gone"}
  BY <1>2 DEF Follows
<1>10. \A x \in Threads, l \in Loops : Ahead(x, Post(l, "close"))' => player'[l] \in {"closing", "gone"}
  BY <1>0, <1>8, <1>9 DEF Linked
<1>11. \A x \in Threads, l \in Loops : Ahead(x, Post(l, "drop"))' => publisher' # None
  BY <1>0, <1>8, NothingToPost DEF Linked
<1>12. \A l \in Loops : "close" \in Range(queue'[l]) => player'[l] \in {"closing", "gone"}
  BY <1>0, <1>9 DEF Linked, KeepsCloses
<1>13. Linked'
  BY <1>6, <1>7, <1>10, <1>11, <1>12 DEF Linked
<1>14. ASSUME NEW l \in Loops, player'[l] = "closing"
       PROVE  \/ "close" \in Range(queue'[l])
              \/ \E x \in Threads : Post(l, "close") \in Range(todo'[x])
  <2>1. player[l] = "closing"
    BY <1>2, <1>14 DEF Follows
  <2>2. CASE "close" \in Range(queue[l])
    BY <2>2, <1>14 DEF KeepsCloses
  <2>3. ASSUME NEW x \in Threads, Ahead(x, Post(l, "close")) PROVE Post(l, "close") \in Range(todo'[x])
    BY <2>3, <1>1, <1>14 DEF KeepsCloses, Ahead
  <2> QED
    BY <2>1, <2>2, <2>3 DEF IInv, ClosingIsUnderWay, Ahead
<1> QED
  BY <1>1, <1>13, <1>14 DEF IInv, ClosingIsUnderWay

(* Such a step that takes and releases no lock and leaves the queues. *)
LEMMA LoopCall ==
  ASSUME IInv, Types', NEW t \in Loops, todo[t] = <<>> \/ first(t).op # "pop",
         NEW s \in Seq(Operations), NEW p, player[t] = "gone" => p = "gone",
         todo' = [todo EXCEPT ![t] = s], UNCHANGED <<owner, queue>>, Shape(t, s, owner),
         Follows(t, p), Remains(t, s, p),
         \A l \in Loops : player'[l] = "closing" /\ Ahead(t, Post(l, "close")) => Post(l, "close") \in Range(s),
         publisher' = publisher \/ owner[Session] = None
  PROVE  IInv'
<1>0. Shapes /\ Types /\ Owners /\ Running /\ t \in Threads
  BY Names DEF IInv, ClosingIsUnderWay, TypeOK, Types
<1>1. Owners' /\ Undisturbed(t) /\ Shape(t, s, owner') /\ KeepsCloses(t, s)
  BY <1>0 DEF Owners, Undisturbed, KeepsCloses
<1>2. \A l \in Loops : player[l] = "gone" => player'[l] = "gone"
  BY <1>0 DEF Follows, Types
<1>3. \A x \in Threads \ {t} : todo'[x] = todo[x]
  BY <1>0 DEF Shapes
<1>4. Running'
  BY <1>0, <1>2, <1>3, RunningStep
<1> QED
  BY <1>1, <1>4, LoopStep

(* A handler of one call, of a loop that holds no lock. *)
LEMMA OneCall ==
  ASSUME NEW t \in Loops, NEW own, Held(t, own) = 0, own[Session] # t, NEW c \in Operations,
         c \in Calls(t, 0)
  PROVE  <<c>> \in Seq(Operations) /\ Range(<<c>>) = {c} /\ Shape(t, <<c>>, own)
<1> DEFINE s == <<c>>
<1>1. s \in Seq(Operations) /\ Len(s) = 1 /\ s[1] = c /\ DOMAIN s = {1} /\ t \in Threads
  BY Names
<1>2. Range(s) = {c}
  BY <1>1 DEF Range
<1> HIDE DEF s
<1>3. Shape(t, s, own)
  BY <1>1 DEF Shape
<1> QED
  BY <1>1, <1>2, <1>3 DEF s

(* A handler with nothing left is in shape. *)
LEMMA NoCall ==
  ASSUME NEW t \in Loops, NEW own, Held(t, own) = 0, own[Session] # t
  PROVE  <<>> \in Seq(Operations) /\ Range(<<>>) = {} /\ Shape(t, <<>>, own)
<1> DEFINE s == <<>>
<1>1. s \in Seq(Operations) /\ Len(s) = 0 /\ DOMAIN s = {}
  OBVIOUS
<1>2. Range(s) = {}
  BY <1>1 DEF Range
<1> HIDE DEF s
<1>3. Shape(t, s, own)
  BY <1>1 DEF Shape
<1> QED
  BY <1>1, <1>2, <1>3 DEF s

(* The calls of the handlers of events. *)
LEMMA EventCallsAre ==
  /\ EventCalls \subseteq Operations
  /\ \A t \in Loops : EventCalls \subseteq Calls(t, 0)
BY Names DEF EventCalls, Calls, Operations, CallPull, AddPlayer, ActiveAllPlayers, SetPublisher, CloseUser, Op

(* The first operation is one of those ahead. *)
LEMMA FirstIsAhead ==
  ASSUME Shapes, NEW t \in Threads, todo[t] # <<>>
  PROVE  Ahead(t, first(t))
<1> DEFINE s == todo[t]
<1>1. s \in Seq(Operations) /\ first(t) = s[1]
  BY FirstSays
<1>2. Len(s) \in Nat /\ Len(s) > 0 /\ DOMAIN s = 1 .. Len(s)
  BY <1>1, LenProperties, EmptySeq
<1> QED
  BY <1>1, <1>2 DEF Ahead, Range

(* AddPlayer lists the player and goes on to the pull. *)
LEMMA AddPlayerKeeps ==
  ASSUME IInv, NEW t \in Threads, DoAddPlayer(t)
  PROVE  IInv'
<1>0. Shapes /\ Types /\ Linked
  BY DEF IInv, ClosingIsUnderWay, TypeOK, Types
<1>1. /\ todo[t] # <<>> /\ first(t).op = "add_player" /\ owner[first(t).k] = None
      /\ todo' = [todo EXCEPT ![t] = <<CallPull>>] /\ UNCHANGED <<owner, queue, publisher, pulled, listed, dials>>
      /\ players' = players \cup {t} /\ player' = [player EXCEPT ![t] = "in"]
  BY DEF DoAddPlayer, Passes, At
<1>2. /\ Begins(t, first(t), Len(todo[t]), Held(t, owner), owner[Session] = t)
      /\ first(t) = todo[t][1] /\ todo[t] \in Seq(Operations)
  BY <1>0, <1>1, FirstSays
<1>3. t \in Loops /\ Held(t, owner) = 0 /\ first(t) = AddPlayer /\ first(t).k = Session /\ Len(todo[t]) > 0
  BY <1>1, <1>2 DEF Begins
<1>4. owner[Session] = None /\ owner[Session] # t
  BY <1>1, <1>3, Names
<1>5. player[t] = "out"
  <2>1. Ahead(t, AddPlayer)
    BY <1>0, <1>1, <1>3, FirstIsAhead
  <2> QED
    BY <2>1, <1>0, <1>3 DEF Linked
<1>6. <<CallPull>> \in Seq(Operations) /\ Range(<<CallPull>>) = {CallPull} /\ Shape(t, <<CallPull>>, owner)
  <2>1. CallPull \in Operations /\ CallPull \in Calls(t, 0)
    BY <1>3, EventCallsAre DEF EventCalls
  <2> QED
    BY <2>1, <1>3, <1>4, OneCall
<1>7. Types'
  BY <1>0, <1>1, <1>3 DEF Types
<1>8. Follows(t, "in") /\ Harmless(CallPull)
  BY <1>1, <1>5, Kinds DEF Follows, Harmless
<1>9. Remains(t, <<CallPull>>, "in")
  BY <1>6, <1>8 DEF Remains
<1>10. \A l \in Loops : ~Ahead(t, Post(l, "close"))
  BY <1>0, <1>4, NothingToPost
<1>11. first(t).op # "pop" /\ (player[t] = "gone" => "in" = "gone")
  BY <1>1, <1>5
<1>12. PICK s \in Seq(Operations), p \in {"in"} :
         /\ p = "in" /\ todo' = [todo EXCEPT ![t] = s] /\ Shape(t, s, owner)
         /\ Follows(t, p) /\ Remains(t, s, p)
  BY <1>1, <1>6, <1>8, <1>9
<1> QED
  BY <1>1, <1>3, <1>4, <1>7, <1>10, <1>11, <1>12, LoopCall

(* CloseUser takes a player or the publisher off the session. *)
LEMMA CloseUserKeeps ==
  ASSUME IInv, NEW t \in Threads, DoCloseUser(t)
  PROVE  IInv'
<1>0. Shapes /\ Types
  BY DEF IInv, ClosingIsUnderWay, TypeOK, Types
<1>1. /\ todo[t] # <<>> /\ first(t).op = "close_user" /\ owner[first(t).k] = None
      /\ todo' = [todo EXCEPT ![t] = Tail(todo[t])] /\ UNCHANGED <<owner, queue, listed, dials>>
  BY DEF DoCloseUser, Passes, At
<1>2. /\ Begins(t, first(t), Len(todo[t]), Held(t, owner), owner[Session] = t)
      /\ todo[t] \in Seq(Operations)
  BY <1>0, <1>1, FirstSays
<1>3. t \in Loops /\ Held(t, owner) = 0 /\ first(t).k = Session /\ Len(todo[t]) = 1
  BY <1>1, <1>2 DEF Begins
<1>4. owner[Session] = None /\ owner[Session] # t
  BY <1>1, <1>3, Names
<1>5. Tail(todo[t]) = <<>>
  <2>1. Tail(todo[t]) \in Seq(Operations) /\ Len(Tail(todo[t])) = 0
    BY <1>1, <1>2, <1>3, Dropped
  <2> QED
    BY <2>1, EmptySeq
<1>6. PICK s \in Seq(Operations) : todo' = [todo EXCEPT ![t] = s] /\ Shape(t, s, owner) /\ Range(s) = {}
  BY <1>1, <1>3, <1>4, <1>5, NoCall
<1>7. Types' /\ \E p : Follows(t, p) /\ (player[t] = "gone" => p = "gone")
  <2>1. CASE first(t).f = "publisher"
    <3>1. publisher' = None /\ pulled' = FALSE /\ UNCHANGED <<player, players>>
      BY <2>1 DEF DoCloseUser
    <3>2. player' = [player EXCEPT ![t] = player[t]]
      BY <3>1, <1>0 DEF Types
    <3> QED
      BY <3>1, <3>2, <1>0, <1>1 DEF Types, Follows
  <2>2. CASE first(t).f # "publisher"
    <3>1. /\ players' = players \ {t} /\ player' = [player EXCEPT ![t] = "gone"]
          /\ UNCHANGED <<publisher, pulled>>
      BY <2>2 DEF DoCloseUser
    <3>2. Types'
      BY <3>1, <1>0, <1>1, <1>3 DEF Types
    <3>3. Follows(t, "gone")
      BY <3>1 DEF Follows
    <3> QED
      BY <3>2, <3>3
  <2> QED
    BY <2>1, <2>2
<1>8. PICK p : Follows(t, p) /\ (player[t] = "gone" => p = "gone")
  BY <1>7
<1>9. Remains(t, s, p) /\ first(t).op # "pop"
  BY <1>1, <1>6 DEF Remains
<1>10. \A l \in Loops : ~Ahead(t, Post(l, "close"))
  BY <1>0, <1>4, NothingToPost
<1> QED
  BY <1>1, <1>3, <1>4, <1>6, <1>7, <1>8, <1>9, <1>10, LoopCall

-----------------------------------------------------------------------------
(* A thread that has posted a function under the session's lock goes on. *)
LEMMA PostedShape ==
  ASSUME NEW t \in Threads, NEW own, NEW s, Shape(t, s, own), s # <<>>, own[Session] = t,
         Len(s) >= 2 + Held(t, own), NEW r, r = Tail(s)
  PROVE  r \in Seq(Operations) /\ Shape(t, r, own)
<1>a. PICK h \in 0 .. 1 : Held(t, own) = h
  BY HeldIs
<1>1. /\ s \in Seq(Operations) /\ (h = 1 => s[Len(s)] = Release(t))
      /\ s[Len(s) - h] = Unlock(Session) /\ \A i \in 1 .. Len(s) - h - 1 : s[i] \in SessionPosts
  BY <1>a DEF Shape
<1>2. /\ r \in Seq(Operations) /\ Len(r) = Len(s) - 1 /\ Len(s) \in Nat
      /\ \A i \in 1 .. Len(r) : r[i] = s[i + 1]
  BY <1>1, Dropped
<1>3. Len(r) \in Nat /\ Len(r) >= 1 + h /\ Len(r) + 1 = Len(s)
  BY <1>a, <1>2
<1>4. h = 1 => r[Len(r)] = Release(t)
  BY <1>1, <1>2, <1>3
<1>5. r[Len(r) - h] = Unlock(Session)
  <2>1. Len(r) - h \in 1 .. Len(r) /\ Len(r) - h + 1 = Len(s) - h
    BY <1>3
  <2>2. r[Len(r) - h] = s[Len(r) - h + 1]
    BY <2>1, <1>2
  <2> QED
    BY <2>1, <2>2, <1>1
<1>6. ASSUME NEW i \in 1 .. Len(r) - h - 1 PROVE r[i] \in SessionPosts
  <2>1. i + 1 \in 1 .. Len(s) - h - 1 /\ i \in 1 .. Len(r)
    BY <1>3
  <2>2. r[i] = s[i + 1]
    BY <2>1, <1>2
  <2> QED
    BY <2>1, <2>2, <1>1
<1>7. Len(r) - h > 0 /\ h <= Len(r)
  BY <1>3
<1> QED
  BY <1>a, <1>2, <1>4, <1>5, <1>6, <1>7 DEF Shape

(* What a thread has still to do after a post. *)
LEMMA Posted ==
  ASSUME Shapes, NEW t \in Threads, todo[t] # <<>>, first(t).op = "post", NEW r, r = Tail(todo[t])
  PROVE  /\ r \in Seq(Operations) /\ Shape(t, r, owner)
         /\ Range(r) \subseteq Range(todo[t])
         /\ \A x \in Range(todo[t]) : x # first(t) => x \in Range(r)
<1> DEFINE s == todo[t]
<1>1. /\ Begins(t, first(t), Len(s), Held(t, owner), owner[Session] = t)
      /\ s \in Seq(Operations) /\ Shape(t, s, owner) /\ s # <<>>
  BY FirstSays DEF Shapes
<1>2. /\ r \in Seq(Operations) /\ Range(r) \subseteq Range(s)
      /\ \A x \in Range(s) : x # first(t) => x \in Range(r)
  BY <1>1, Dropped DEF first
<1>3. Shape(t, r, owner)
  <2>1. CASE owner[Session] = t
    <3>1. Len(s) >= 2 + Held(t, owner) /\ r = Tail(s)
      BY <1>1, <2>1 DEF Begins
    <3> HIDE DEF s
    <3> QED
      BY <3>1, <2>1, <1>1, PostedShape, Zenon
  <2>2. CASE owner[Session] # t
    <3>1. Len(s) = 1 + Held(t, owner)
      BY <1>1, <2>2 DEF Begins
    <3>2. r = <<>> \o Tail(s)
      BY <1>2, ConcatEmptySeq
    <3>3. PICK body \in Seq(Operations) : Len(body) = 0 /\ r = body \o Tail(s)
      BY <3>2, EmptySeq
    <3> HIDE DEF s
    <3> QED
      BY <3>1, <3>3, <2>2, <1>1, PullShape, Zenon
  <2> QED
    BY <2>1, <2>2
<1> QED
  BY <1>2, <1>3
(* What is posted, and by whom. *)
LEMMA PostIs ==
  ASSUME Shapes, NEW t \in Threads, todo[t] # <<>>, first(t).op = "post"
  PROVE  /\ first(t).k \in Loops /\ first(t) = Post(first(t).k, first(t).f)
         /\ \/ first(t).f \in {"close", "active", "drop", "unpublish"}
            \/ first(t).f = "connect" /\ owner[Session] # t /\ t \in Loops /\ Len(todo[t]) = 1 + Held(t, owner)
<1>1. Begins(t, first(t), Len(todo[t]), Held(t, owner), owner[Session] = t)
  BY FirstSays
<1> QED
  BY <1>1, Kinds DEF Begins, SessionPosts

(* functions_ after a push. *)
LEMMA PushedIs ==
  ASSUME NEW fs \in Seq({"close", "drop", "connect"}),
         NEW f \in {"close", "active", "drop", "unpublish", "connect"}, NEW gs, gs = pushed(fs, f)
  PROVE  /\ gs \in Seq({"close", "drop", "connect"})
         /\ Range(fs) \subseteq Range(gs) /\ Range(gs) \subseteq Range(fs) \cup {f}
         /\ f = "close" => f \in Range(gs)
<1>1. CASE f \in {"active", "unpublish"} \/ f \in Range(fs)
  BY <1>1 DEF pushed
<1>2. CASE ~(f \in {"active", "unpublish"} \/ f \in Range(fs))
  <2>1. gs = Append(fs, f) /\ f \in {"close", "drop", "connect"}
    BY <1>2 DEF pushed
  <2>2. /\ gs \in Seq({"close", "drop", "connect"}) /\ Len(gs) = Len(fs) + 1 /\ Len(fs) \in Nat
        /\ gs[Len(gs)] = f /\ \A i \in 1 .. Len(fs) : gs[i] = fs[i]
    BY <2>1, AppendProperties
  <2>3. DOMAIN gs = 1 .. Len(gs) /\ DOMAIN fs = 1 .. Len(fs)
    BY <2>2, LenProperties
  <2>4. Range(fs) \subseteq Range(gs) /\ f \in Range(gs)
    BY <2>2, <2>3 DEF Range
  <2>5. Range(gs) \subseteq Range(fs) \cup {f}
    <3> SUFFICES ASSUME NEW i \in 1 .. Len(gs) PROVE gs[i] \in Range(fs) \cup {f}
      BY <2>3 DEF Range
    <3>1. CASE i = Len(gs)
      BY <3>1, <2>2
    <3>2. CASE i # Len(gs)
      <4>1. i \in 1 .. Len(fs)
        BY <3>2, <2>2
      <4> QED
        BY <4>1, <2>2, <2>3 DEF Range
    <3> QED
      BY <3>1, <3>2
  <2> QED
    BY <2>2, <2>4, <2>5
<1> QED
  BY <1>1, <1>2

(* RunInLoop of another loop pushes the function; a close changes places   *)
(* from the thread to the queue.                                           *)
LEMMA PushKeeps ==
  ASSUME IInv, NEW t \in Threads, At(t, "post"), first(t).k # t, owner[first(t).k] = None,
         queue' = [queue EXCEPT ![first(t).k] = pushed(@, first(t).f)],
         todo' = [todo EXCEPT ![t] = Tail(@)],
         UNCHANGED <<owner, player, players, publisher, pulled, listed, dials>>
  PROVE  IInv'
<1> DEFINE k == first(t).k
           f == first(t).f
<1>0. Shapes /\ Types /\ Linked /\ Owners /\ Running /\ todo[t] # <<>> /\ first(t).op = "post"
  BY DEF IInv, ClosingIsUnderWay, TypeOK, Types, At
<1>1. /\ k \in Loops /\ first(t) = Post(k, f)
      /\ f \in {"close", "active", "drop", "unpublish", "connect"}
  BY <1>0, PostIs
<1>2. PICK s : s = Tail(todo[t])
  OBVIOUS
<1>3. /\ s \in Seq(Operations) /\ Shape(t, s, owner) /\ Range(s) \subseteq Range(todo[t])
      /\ \A x \in Range(todo[t]) : x # first(t) => x \in Range(s)
  BY <1>0, <1>2, Posted
<1>4. /\ queue' \in [Loops -> Seq({"close", "drop", "connect"})]
      /\ \A l \in Loops \ {k} : queue'[l] = queue[l]
      /\ Range(queue[k]) \subseteq Range(queue'[k]) /\ Range(queue'[k]) \subseteq Range(queue[k]) \cup {f}
      /\ f = "close" => "close" \in Range(queue'[k])
  <2>1. queue[k] \in Seq({"close", "drop", "connect"})
    BY <1>0, <1>1 DEF Types
  <2>2. PICK gs : gs = pushed(queue[k], f)
    OBVIOUS
  <2>3. /\ gs \in Seq({"close", "drop", "connect"})
        /\ Range(queue[k]) \subseteq Range(gs) /\ Range(gs) \subseteq Range(queue[k]) \cup {f}
        /\ f = "close" => f \in Range(gs)
    <3> HIDE DEF f, k
    <3> QED
      BY <1>1, <2>1, <2>2, PushedIs
  <2>4. queue' = [queue EXCEPT ![k] = gs]
    BY <2>2
  <2> HIDE DEF k, f
  <2>5. queue \in [Loops -> Seq({"close", "drop", "connect"})]
    BY <1>0 DEF Types
  <2>6. queue' \in [Loops -> Seq({"close", "drop", "connect"})]
    BY <2>3, <2>4, <2>5
  <2>7. queue'[k] = gs /\ \A l \in Loops \ {k} : queue'[l] = queue[l]
    BY <2>4, <2>5, <1>1
  <2> QED
    BY <2>3, <2>6, <2>7
<1>5. Types' /\ Owners' /\ Undisturbed(t) /\ Shape(t, s, owner')
  BY <1>0, <1>3, <1>4 DEF Types, Owners, Undisturbed
<1>6. /\ Shapes' /\ TypeOK'
      /\ todo'[t] = s /\ \A x \in Threads \ {t} : todo'[x] = todo[x]
  <2>1. todo' = [todo EXCEPT ![t] = s]
    BY <1>2
  <2> QED
    BY <2>1, <1>3, <1>5, Frame
<1>7. Running'
  <2>1. \A l \in Loops : owner[l] = l => queue'[l] = queue[l]
    BY <1>1, <1>4, Names
  <2>2. \A l \in Loops : owner'[l] = owner[l] /\ (player[l] = "gone" => player'[l] = "gone")
    OBVIOUS
  <2> QED
    BY <2>1, <2>2, <1>0, <1>6, RunningStep
<1>8. \A x \in Threads : \A o : Ahead(x, o)' => Ahead(x, o)
  BY <1>3, <1>6 DEF Ahead
<1>9. Ahead(t, Post(k, f))
  BY <1>0, <1>1, FirstIsAhead
<1>10. \A l \in Loops : "close" \in Range(queue'[l]) => "close" \in Range(queue[l]) \/ Ahead(t, Post(l, "close"))
  <2> HIDE DEF k, f
  <2> QED
    BY <1>4, <1>9
<1>11. Linked'
  <2>1. \A l \in Loops : "close" \in Range(queue'[l]) => player[l] \in {"closing", "gone"}
    BY <1>0, <1>10 DEF Linked
  <2>2. \A l \in Loops : Ahead(l, AddPlayer)' => player'[l] = "out"
    BY <1>0, <1>8, Names DEF Linked
  <2>3. \A l \in Loops : Ahead(l, CloseUser("player"))' => player'[l] = "leaving"
    BY <1>0, <1>8, Names DEF Linked
  <2>4. \A x \in Threads, l \in Loops : Ahead(x, Post(l, "close"))' => player'[l] \in {"closing", "gone"}
    BY <1>0, <1>8 DEF Linked
  <2>5. \A x \in Threads, l \in Loops : Ahead(x, Post(l, "drop"))' => publisher' # None
    BY <1>0, <1>8 DEF Linked
  <2> QED
    BY <2>1, <2>2, <2>3, <2>4, <2>5 DEF Linked
<1>12. ASSUME NEW l \in Loops, player'[l] = "closing"
       PROVE  \/ "close" \in Range(queue'[l])
              \/ \E x \in Threads : Post(l, "close") \in Range(todo'[x])
  <2>1. CASE "close" \in Range(queue[l])
    <3> HIDE DEF k
    <3> QED
      BY <2>1, <1>4
  <2>2. ASSUME NEW x \in Threads, Ahead(x, Post(l, "close"))
        PROVE  "close" \in Range(queue'[l]) \/ Post(l, "close") \in Range(todo'[x])
    <3>1. CASE x # t
      BY <3>1, <2>2, <1>6 DEF Ahead
    <3>2. CASE x = t /\ Post(l, "close") # first(t)
      BY <3>2, <2>2, <1>3, <1>6 DEF Ahead
    <3>3. CASE Post(l, "close") = first(t)
      <4>1. k = l /\ f = "close"
        BY <3>3, Kinds
      <4> QED
        BY <4>1, <1>4
    <3> QED
      BY <3>1, <3>2, <3>3
  <2>3. player[l] = "closing"
    BY <1>12
  <2> QED
    BY <2>1, <2>2, <2>3 DEF IInv, ClosingIsUnderWay, Ahead
<1> QED
  BY <1>5, <1>6, <1>7, <1>11, <1>12 DEF IInv, ClosingIsUnderWay
(* A function that RunInLoop runs at once, as its thread is the loop's own. *)
LEMMA RunHereKeeps ==
  ASSUME IInv, NEW t \in Threads, At(t, "post"), first(t).k = t,
         RunHere(t, first(t).f, Tail(todo[t])),
         UNCHANGED <<owner, queue, players, publisher, pulled, listed>>
  PROVE  IInv'
<1> DEFINE f == first(t).f
<1>0. Shapes /\ Types /\ Linked /\ todo[t] # <<>> /\ first(t).op = "post"
  BY DEF IInv, ClosingIsUnderWay, TypeOK, Types, At
<1>1. /\ t \in Loops /\ first(t) = Post(t, f)
      /\ \/ f \in {"close", "active", "drop", "unpublish"}
         \/ f = "connect" /\ owner[Session] # t /\ Len(todo[t]) = 1 + Held(t, owner)
  BY <1>0, PostIs
<1>2. PICK body \in bodies(f) : /\ todo' = [todo EXCEPT ![t] = body \o Tail(todo[t])]
                                /\ dials' = dials_after(body)
  BY DEF RunHere
<1>3. /\ body \in pulls \cup {<<>>}
      /\ f \notin {"drop", "connect"} => body = <<>>
  BY <1>2 DEF bodies
<1>4. /\ body \in Seq(Operations) /\ (Len(body) = 0 \/ (Len(body) = 1 /\ body[1] \in PullCalls))
      /\ publisher # None => body = <<>>
      /\ dials' \in 0 .. MaxDials /\ \A o \in Range(body) : Harmless(o)
  BY <1>0, <1>2, <1>3, PullBodies
<1>5. f = "drop" => body = <<>>
  BY <1>0, <1>1, <1>4, FirstIsAhead DEF Linked
<1>6. PICK s : s = body \o Tail(todo[t])
  OBVIOUS
<1>7. /\ s \in Seq(Operations) /\ Shape(t, s, owner)
      /\ \A o \in Range(s) : o \in Range(todo[t]) \/ Harmless(o)
      /\ \A x \in Range(todo[t]) : x # first(t) => x \in Range(s)
      /\ f # "connect" => Range(s) \subseteq Range(todo[t])
  <2>1. CASE f # "connect"
    <3>1. body = <<>>
      BY <2>1, <1>1, <1>3, <1>5
    <3>2. Tail(todo[t]) \in Seq(Operations)
      BY <1>0, Posted
    <3>3. s = Tail(todo[t])
      BY <3>1, <3>2, <1>6, ConcatEmptySeq
    <3> QED
      BY <3>3, <1>0, Posted
  <2>2. CASE f = "connect"
    <3>1. /\ Shape(t, todo[t], owner) /\ todo[t] \in Seq(Operations) /\ owner[Session] # t
          /\ Len(todo[t]) = 1 + Held(t, owner)
      BY <2>2, <1>0, <1>1 DEF Shapes
    <3>2. \A o \in PullCalls : o \in Calls(t, Held(t, owner))
      BY <1>1, Names DEF Calls
    <3>3. Len(body) = 0 \/ (Len(body) = 1 /\ body[1] \in Calls(t, Held(t, owner)))
      BY <3>2, <1>4
    <3>4. s \in Seq(Operations) /\ Shape(t, s, owner)
      BY <3>1, <3>3, <1>0, <1>4, <1>6, PullShape, Zenon
    <3>5. /\ Range(s) \subseteq Range(body) \cup Range(todo[t])
          /\ \A x \in Range(todo[t]) : x # Head(todo[t]) => x \in Range(s)
      <4>1. PICK u \in Seq(Operations) : u = todo[t]
        BY <3>1
      <4>2. u # <<>> /\ body \in Seq(Operations) /\ s = body \o Tail(u)
        BY <4>1, <1>0, <1>4, <1>6
      <4>3. Range(s) \subseteq Range(body) \cup Range(u) /\ \A x \in Range(u) : x # Head(u) => x \in Range(s)
        BY <4>2, ReplacedRange
      <4> QED
        BY <4>1, <4>3
    <3> QED
      BY <3>4, <3>5, <2>2, <1>4 DEF first
  <2> QED
    BY <2>1, <2>2
<1>8. todo' = [todo EXCEPT ![t] = s] /\ first(t).op # "pop"
  BY <1>0, <1>2, <1>6
<1>9. CASE f # "close"
  <2>1. player' = player
    BY <1>9 DEF RunHere, player_after
  <2>2. \A l \in Loops : Ahead(t, Post(l, "close")) => Post(l, "close") \in Range(s)
    BY <1>1, <1>7, <1>9, Kinds DEF Ahead
  <2>3. listed' \in BOOLEAN
    BY <1>0 DEF Types
  <2> QED
    BY <2>1, <2>2, <2>3, <1>4, <1>7, <1>8, QuietCall
<1>10. CASE f = "close"
  <2>1. player[t] \in {"closing", "gone"}
    BY <1>0, <1>1, <1>10, FirstIsAhead DEF Linked
  <2>2. player' = [player EXCEPT ![t] = "gone"]
    BY <2>1, <1>0, <1>10 DEF RunHere, player_after, Types
  <2>3. PICK p : p = "gone"
    OBVIOUS
  <2>4. Follows(t, p) /\ (player[t] = "gone" => p = "gone")
    BY <2>2, <2>3 DEF Follows
  <2>5. Types'
    BY <2>1, <2>2, <1>0, <1>4 DEF Types
  <2>6. \A l \in Loops : player'[l] = "closing" /\ Ahead(t, Post(l, "close")) => Post(l, "close") \in Range(s)
    <3>1. \A l \in Loops : player'[l] = "closing" => l # t
      BY <2>2, <1>0 DEF Types
    <3> QED
      BY <3>1, <1>1, <1>7, Kinds DEF Ahead
  <2>7. Remains(t, s, p)
    <3> SUFFICES ASSUME NEW o \in Range(s), ~Harmless(o) PROVE o \in Range(todo[t]) /\ o.op = "post"
      BY DEF Remains
    <3>1. Ahead(t, o)
      BY <1>7 DEF Ahead
    <3>2. o \notin {AddPlayer, CloseUser("player")}
      BY <3>1, <2>1, <1>0, <1>1 DEF Linked
    <3> QED
      BY <3>1, <3>2 DEF Harmless, Ahead
  <2> QED
    BY <2>4, <2>5, <2>6, <2>7, <1>1, <1>7, <1>8, LoopCall
<1> QED
  BY <1>9, <1>10

(* RunInLoop: run at once in the loop itself, queued for another one. *)
LEMMA RunInLoopKeeps ==
  ASSUME IInv, NEW t \in Threads, RunInLoop(t)
  PROVE  IInv'
<1>1. At(t, "post") /\ UNCHANGED <<owner, players, publisher, pulled, listed>>
  BY DEF RunInLoop
<1>2. CASE first(t).k = t
  <2>1. RunHere(t, first(t).f, Tail(todo[t])) /\ queue' = queue
    BY <1>2 DEF RunInLoop
  <2> QED
    BY <2>1, <1>1, <1>2, RunHereKeeps
<1>3. CASE first(t).k # t
  <2>1. /\ owner[first(t).k] = None
        /\ queue' = [queue EXCEPT ![first(t).k] = pushed(@, first(t).f)]
        /\ todo' = [todo EXCEPT ![t] = Tail(@)] /\ UNCHANGED <<player, dials>>
    BY <1>3 DEF RunInLoop
  <2> QED
    BY <2>1, <1>1, <1>3, PushKeeps
<1> QED
  BY <1>2, <1>3
-----------------------------------------------------------------------------
(* What loop l has to do, and the state p of its player, once it runs f    *)
(* under its own lock.                                                     *)
Runs(l, f, s, p, own) ==
  /\ s \in Seq(Operations) /\ Shape(l, s, own) /\ todo' = [todo EXCEPT ![l] = s]
  /\ \A o \in Range(s) : Harmless(o)
  /\ player' = [player EXCEPT ![l] = p]
  /\ IF f = "close" THEN Len(s) = 1 /\ p = "gone" ELSE p = player[l]

(* What a queued function leaves the loop to do before it is popped. *)
LEMMA RunHereRuns ==
  ASSUME Types, NEW l \in Loops, NEW f \in {"close", "drop", "connect"},
         f = "close" => player[l] \in {"closing", "gone"},
         RunHere(l, f, <<PopFunction>>), NEW own, own[l] = l, own[Session] # l
  PROVE  dials' \in 0 .. MaxDials /\ \E s, p : Runs(l, f, s, p, own)
<1>1. PICK body \in bodies(f) : /\ todo' = [todo EXCEPT ![l] = body \o <<PopFunction>>]
                                /\ dials' = dials_after(body)
  BY DEF RunHere
<1>2. /\ body \in pulls \cup {<<>>}
      /\ f = "close" => body = <<>>
  BY <1>1 DEF bodies
<1>3. /\ body \in Seq(Operations) /\ (Len(body) = 0 \/ (Len(body) = 1 /\ body[1] \in PullCalls))
      /\ dials' \in 0 .. MaxDials /\ \A o \in Range(body) : Harmless(o)
  BY <1>1, <1>2, PullBodies
<1> DEFINE u == <<PopFunction>>
           s == body \o u
<1>4. PopFunction \in Operations /\ Harmless(PopFunction)
  BY Kinds DEF PopFunction, Op, Operations, Harmless
<1>5. u \in Seq(Operations) /\ Len(u) = 1 /\ u[1] = PopFunction /\ Range(u) = {PopFunction}
  <2>1. DOMAIN u = {1} /\ u[1] = PopFunction
    OBVIOUS
  <2> QED
    BY <2>1, <1>4 DEF Range
<1> HIDE DEF u
<1>6. /\ s \in Seq(Operations) /\ Len(s) = Len(body) + Len(u)
      /\ \A i \in 1 .. Len(body) + Len(u) : s[i] = IF i <= Len(body) THEN body[i] ELSE u[i - Len(body)]
      /\ Range(s) = Range(body) \cup Range(u)
  <2>1. Range(s) = Range(body) \cup Range(u)
    BY <1>3, <1>5, RangeConcatenation
  <2>2. /\ s \in Seq(Operations) /\ Len(s) = Len(body) + Len(u)
        /\ \A i \in 1 .. Len(body) + Len(u) : s[i] = IF i <= Len(body) THEN body[i] ELSE u[i - Len(body)]
    <3> HIDE DEF s
    <3>1. s = body \o u /\ body \in Seq(Operations) /\ u \in Seq(Operations)
      BY <1>3, <1>5 DEF s
    <3> QED
      BY ONLY <3>1, ConcatProperties
  <2> QED
    BY <2>1, <2>2
<1>7. Held(l, own) = 1 /\ l \in Threads /\ Release(l) = PopFunction /\ \A o \in PullCalls : o \in Calls(l, 1)
  BY Names DEF Held, Outer, Release, Calls
<1> HIDE DEF s
<1>8. Shape(l, s, own)
  <2>1. CASE Len(body) = 0
    <3>1. Len(s) = 1 /\ s[1] = PopFunction
      BY <2>1, <1>5, <1>6
    <3> QED
      BY <3>1, <1>6, <1>7, InShape
  <2>2. CASE Len(body) = 1
    <3>1. Len(s) = 2 /\ s[1] = body[1] /\ s[2] = PopFunction
      BY <2>2, <1>5, <1>6
    <3>2. s \in Seq(Operations) /\ s[Len(s)] = Release(l) /\ Len(s) = 1 + 1 /\ s[1] \in Calls(l, 1)
      BY <3>1, <2>2, <1>3, <1>6, <1>7
    <3> QED
      BY <3>2, <1>7, InShape
  <2> QED
    BY <2>1, <2>2, <1>3
<1>9. \A o \in Range(s) : Harmless(o)
  BY <1>3, <1>4, <1>5, <1>6
<1>10. todo' = [todo EXCEPT ![l] = s]
  BY <1>1 DEF s, u
<1>11. CASE f = "close"
  <2>1. Len(s) = 1
    BY <1>11, <1>2, <1>5, <1>6, EmptySeq
  <2>2. player' = [player EXCEPT ![l] = "gone"]
    BY <1>11 DEF RunHere, player_after, Types
  <2>3. Runs(l, f, s, "gone", own)
    BY <2>1, <2>2, <1>6, <1>8, <1>9, <1>10, <1>11 DEF Runs
  <2> QED
    BY <2>3, <1>3
<1>12. CASE f # "close"
  <2>1. player' = [player EXCEPT ![l] = player[l]]
    BY <1>12 DEF RunHere, player_after, Types
  <2>2. Runs(l, f, s, player[l], own)
    BY <2>1, <1>6, <1>8, <1>9, <1>10, <1>12 DEF Runs
  <2> QED
    BY <2>2, <1>3
<1> QED
  BY <1>11, <1>12

(* The same as a step of l: its player is followed. *)
LEMMA RunsFollows ==
  ASSUME Types, NEW l \in Loops, NEW f, NEW s, NEW p, NEW own, Runs(l, f, s, p, own),
         f = "close" => player[l] \in {"closing", "gone"}
  PROVE  /\ Follows(l, p) /\ Remains(l, s, p) /\ (player[l] = "gone" => p = "gone")
         /\ player' \in [Loops -> {"out", "in", "leaving", "closing", "gone"}]
         /\ \A x \in Loops : player'[x] = IF x = l THEN p ELSE player[x]
         /\ players \subseteq {x \in Loops : player'[x] \in {"in", "leaving"}}
<1>1. p \in {"out", "in", "leaving", "closing", "gone"} /\ player' = [player EXCEPT ![l] = p]
  BY DEF Runs, Types
<1>2. \A x \in Loops : player'[x] = IF x = l THEN p ELSE player[x]
  BY <1>1 DEF Types
<1>3. p = player[l] \/ (p = "gone" /\ player[l] \in {"closing", "gone"})
  BY DEF Runs
<1>4. Follows(l, p) /\ Remains(l, s, p)
  BY <1>1, <1>3 DEF Follows, Remains, Runs
<1>5. players \subseteq {x \in Loops : player'[x] \in {"in", "leaving"}}
  BY <1>2, <1>3 DEF Types
<1> QED
  BY <1>1, <1>2, <1>3, <1>4, <1>5 DEF Types

(* A loop that takes or releases its own lock concerns no other thread. *)
LEMMA OwnLock ==
  ASSUME Types, Owners, NEW l \in Loops, NEW new \in {l, None}, owner' = [owner EXCEPT ![l] = new]
  PROVE  /\ Owners' /\ owner' \in [Locks -> Threads \cup {None}] /\ Undisturbed(l)
         /\ \A k \in Locks : owner'[k] = IF k = l THEN new ELSE owner[k]
<1>1. owner' \in [Locks -> Threads \cup {None}] /\ \A k \in Locks : owner'[k] = IF k = l THEN new ELSE owner[k]
  BY Names DEF Types
<1>2. Owners'
  BY <1>1, Names DEF Owners
<1>3. \A x \in Threads \ {l} : Outer(x) # l /\ Outer(x) \in Locks /\ Session # l
  BY Names DEF Outer
<1>4. Undisturbed(l)
  BY <1>1, <1>3, Names DEF Undisturbed
<1> QED
  BY <1>1, <1>2, <1>4

(* A loop begins to run the functions of its queue. *)
LEMMA RunFuctionsKeeps ==
  ASSUME IInv, NEW l \in Loops, RunFuctions(l)
  PROVE  IInv'
<1> DEFINE f == Head(queue[l])
<1>0. Shapes /\ Types /\ Linked /\ Owners /\ Running /\ l \in Threads
  BY Names DEF IInv, ClosingIsUnderWay, TypeOK, Types
<1>1. /\ todo[l] = <<>> /\ queue[l] # <<>> /\ owner' = [owner EXCEPT ![l] = l]
      /\ RunHere(l, f, <<PopFunction>>) /\ UNCHANGED <<queue, players, publisher, pulled, listed>>
  BY DEF RunFuctions
<1>2. owner[Session] # l
  <2>1. Shape(l, todo[l], owner) /\ Len(todo[l]) = 0 /\ Held(l, owner) \in 0 .. 1
    BY <1>0, <1>1, HeldIs, EmptySeq DEF Shapes
  <2> QED
    BY <2>1 DEF Shape
<1>3. /\ Owners' /\ owner' \in [Locks -> Threads \cup {None}] /\ Undisturbed(l)
      /\ \A k \in Locks : owner'[k] = IF k = l THEN l ELSE owner[k]
  BY <1>0, <1>1, OwnLock
<1>4. owner'[l] = l /\ owner'[Session] # l
  BY <1>2, <1>3, Names
<1>5. f \in {"close", "drop", "connect"} /\ f \in Range(queue[l])
  <2>1. PICK q \in Seq({"close", "drop", "connect"}) : q = queue[l]
    BY <1>0 DEF Types
  <2>2. Len(q) \in Nat /\ Len(q) > 0 /\ DOMAIN q = 1 .. Len(q) /\ Head(q) = q[1]
    BY <2>1, <1>1, LenProperties, EmptySeq
  <2>3. q[1] \in {"close", "drop", "connect"} /\ q[1] \in Range(q)
    BY <2>2, ElementOfSeq DEF Range
  <2> QED
    BY <2>1, <2>2, <2>3
<1>6. f = "close" => player[l] \in {"closing", "gone"}
  BY <1>0, <1>5 DEF Linked
<1>7. PICK s, p : Runs(l, f, s, p, owner') /\ dials' \in 0 .. MaxDials
  <2> HIDE DEF f
  <2> QED
    BY <1>0, <1>1, <1>4, <1>5, <1>6, RunHereRuns
<1>8. /\ Follows(l, p) /\ Remains(l, s, p) /\ (player[l] = "gone" => p = "gone")
      /\ player' \in [Loops -> {"out", "in", "leaving", "closing", "gone"}]
      /\ \A x \in Loops : player'[x] = IF x = l THEN p ELSE player[x]
      /\ players \subseteq {x \in Loops : player'[x] \in {"in", "leaving"}}
  <2> HIDE DEF f
  <2> QED
    BY <1>0, <1>6, <1>7, RunsFollows
<1>9. Types'
  BY <1>0, <1>1, <1>3, <1>7, <1>8 DEF Types
<1>10. /\ s \in Seq(Operations) /\ todo' = [todo EXCEPT ![l] = s] /\ Shape(l, s, owner')
       /\ f = "close" => Len(s) = 1 /\ p = "gone"
  BY <1>7 DEF Runs
<1>11. todo'[l] = s /\ \A x \in Threads \ {l} : todo'[x] = todo[x]
  BY <1>0, <1>10 DEF Shapes
<1>12. Running'
  <2> SUFFICES ASSUME NEW x \in Loops, owner'[x] = x
               PROVE  queue'[x] # <<>> /\ (Head(queue'[x]) = "close" => Len(todo'[x]) = 1 /\ player'[x] = "gone")
    BY DEF Running
  <2>1. CASE x = l
    BY <2>1, <1>1, <1>8, <1>10, <1>11
  <2>2. CASE x # l
    <3>1. owner[x] = x /\ todo'[x] = todo[x] /\ player'[x] = player[x] /\ queue'[x] = queue[x]
      BY <2>2, <1>1, <1>3, <1>8, <1>11, Names
    <3> QED
      BY <3>1, <1>0 DEF Running
  <2> QED
    BY <2>1, <2>2
<1>13. KeepsCloses(l, s)
  <2>1. \A o : ~Ahead(l, o)
    <3>1. DOMAIN todo[l] = {}
      BY <1>1
    <3> QED
      BY <3>1 DEF Ahead, Range
  <2> QED
    BY <2>1, <1>1 DEF KeepsCloses
<1> QED
  BY <1>1, <1>3, <1>8, <1>9, <1>10, <1>12, <1>13, LoopStep
(* The function that ran is taken off the queue; the next one runs, or the *)
(* lock is released.                                                       *)
LEMMA PopKeeps ==
  ASSUME IInv, NEW l \in Loops, DoPop(l)
  PROVE  IInv'
<1>0. Shapes /\ Types /\ Linked /\ Owners /\ Running /\ l \in Threads
  BY Names DEF IInv, ClosingIsUnderWay, TypeOK, Types
<1>1. /\ todo[l] # <<>> /\ first(l).op = "pop" /\ queue' = [queue EXCEPT ![l] = Tail(queue[l])]
      /\ UNCHANGED <<players, publisher, pulled, listed>>
  BY DEF DoPop, At
<1>2. /\ Begins(l, first(l), Len(todo[l]), Held(l, owner), owner[Session] = l)
      /\ todo[l] \in Seq(Operations) /\ Shape(l, todo[l], owner)
  BY <1>0, <1>1, FirstSays DEF Shapes
<1>3. Len(todo[l]) = 1 /\ Held(l, owner) = 1 /\ owner[Session] # l
  BY <1>1, <1>2 DEF Begins
<1>4. owner[l] = l
  BY <1>3, Names DEF Held, Outer
<1>5. todo[l] = <<PopFunction>>
  <2>1. todo[l][1] = PopFunction
    BY <1>2, <1>3, Names DEF Shape, Release
  <2> QED
    BY <2>1, <1>2, <1>3
<1>6. PICK q \in Seq({"close", "drop", "connect"}) : q = queue[l]
  BY <1>0 DEF Types
<1>7. q # <<>> /\ (Head(q) = "close" => player[l] = "gone")
  BY <1>0, <1>4, <1>6 DEF Running
<1>8. /\ Tail(q) \in Seq({"close", "drop", "connect"}) /\ Len(Tail(q)) = Len(q) - 1 /\ Len(q) \in Nat /\ Len(q) > 0
      /\ \A i \in 1 .. Len(Tail(q)) : Tail(q)[i] = q[i + 1]
      /\ Range(Tail(q)) \subseteq Range(q)
      /\ \A x \in Range(q) : x # Head(q) => x \in Range(Tail(q))
  BY <1>7, Dropped
<1>9. /\ queue' \in [Loops -> Seq({"close", "drop", "connect"})]
      /\ queue'[l] = Tail(q) /\ \A x \in Loops \ {l} : queue'[x] = queue[x]
  <2>1. queue' = [queue EXCEPT ![l] = Tail(q)]
    BY <1>1, <1>6
  <2> QED
    BY <2>1, <1>0, <1>8 DEF Types
<1>10. \A o : ~Ahead(l, o) \/ o = PopFunction
  <2>1. DOMAIN todo[l] = {1} /\ todo[l][1] = PopFunction
    BY <1>5
  <2> QED
    BY <2>1 DEF Ahead, Range
<1>11. ASSUME \A x \in Loops \ {l} : player'[x] = player[x], player[l] = "gone" => player'[l] = "gone",
              NEW s
       PROVE  KeepsCloses(l, s)
  <2>1. \A x \in Loops : "close" \in Range(queue'[x]) => "close" \in Range(queue[x])
    BY <1>6, <1>8, <1>9
  <2>2. \A x \in Loops : player'[x] = "closing" /\ "close" \in Range(queue[x]) => "close" \in Range(queue'[x])
    <3> SUFFICES ASSUME NEW x \in Loops, player'[x] = "closing", "close" \in Range(queue[x])
                 PROVE  "close" \in Range(queue'[x])
      OBVIOUS
    <3>1. CASE x # l
      BY <3>1, <1>9
    <3>2. CASE x = l
      <4>1. Head(q) # "close" /\ "close" \in Range(q)
        BY <3>2, <1>6, <1>7, <1>11
      <4> QED
        BY <4>1, <3>2, <1>8, <1>9
    <3> QED
      BY <3>1, <3>2
  <2>3. \A x \in Loops : ~Ahead(l, Post(x, "close"))
    BY <1>10, Kinds
  <2> QED
    BY <2>1, <2>2, <2>3 DEF KeepsCloses
<1>12. CASE Len(q) = 1
  <2>1. /\ owner' = [owner EXCEPT ![l] = None] /\ todo' = [todo EXCEPT ![l] = Tail(todo[l])]
        /\ UNCHANGED <<player, dials>>
    BY <1>6, <1>12 DEF DoPop
  <2>2. /\ Owners' /\ owner' \in [Locks -> Threads \cup {None}] /\ Undisturbed(l)
        /\ \A k \in Locks : owner'[k] = IF k = l THEN None ELSE owner[k]
    BY <2>1, <1>0, OwnLock
  <2>3. Held(l, owner') = 0 /\ owner'[Session] # l
    BY <2>2, <1>3, Names DEF Held, Outer
  <2>4. Tail(todo[l]) = <<>>
    <3>1. Tail(todo[l]) \in Seq(Operations) /\ Len(Tail(todo[l])) = 0
      BY <1>1, <1>2, <1>3, Dropped
    <3> QED
      BY <3>1, EmptySeq
  <2>5. PICK s \in Seq(Operations) : s = <<>> /\ Shape(l, s, owner') /\ Range(s) = {}
    BY <2>3, NoCall
  <2>6. PICK p : p = player[l]
    OBVIOUS
  <2>7. Follows(l, p) /\ Remains(l, s, p) /\ todo' = [todo EXCEPT ![l] = s]
    BY <2>1, <2>4, <2>5, <2>6, <1>0 DEF Follows, Remains, Types
  <2>8. Types'
    BY <2>1, <2>2, <1>0, <1>1, <1>9 DEF Types
  <2>9. \A x \in Threads \ {l} : todo'[x] = todo[x]
    BY <2>7, <1>0 DEF Shapes
  <2>10. Running'
    <3> SUFFICES ASSUME NEW x \in Loops, owner'[x] = x
                 PROVE  queue'[x] # <<>> /\ (Head(queue'[x]) = "close" => Len(todo'[x]) = 1 /\ player'[x] = "gone")
      BY DEF Running
    <3>1. x # l /\ x \in Threads /\ owner[x] = x
      BY <2>2, Names
    <3>2. todo'[x] = todo[x] /\ queue'[x] = queue[x] /\ player'[x] = player[x]
      BY <3>1, <2>1, <2>9, <1>9
    <3> QED
      BY <3>1, <3>2, <1>0 DEF Running
  <2>11. KeepsCloses(l, s)
    BY <2>1, <1>11
  <2> QED
    BY <2>2, <2>5, <2>7, <2>8, <2>10, <2>11, <1>1, LoopStep
<1>13. CASE Len(q) # 1
  <2> DEFINE f == q[2]
  <2>1. RunHere(l, f, <<PopFunction>>) /\ owner' = owner
    BY <1>5, <1>6, <1>13 DEF DoPop
  <2>2. f \in {"close", "drop", "connect"} /\ f \in Range(q) /\ Head(Tail(q)) = f /\ Tail(q) # <<>>
    <3>1. Len(q) >= 2 /\ DOMAIN q = 1 .. Len(q)
      BY <1>8, <1>13, LenProperties
    <3>2. 2 \in 1 .. Len(q) /\ 1 \in 1 .. Len(Tail(q))
      BY <3>1, <1>8
    <3>3. Tail(q) # <<>> /\ Head(Tail(q)) = Tail(q)[1] /\ Tail(q)[1] = q[2]
      <4>1. PICK r \in Seq({"close", "drop", "connect"}) : r = Tail(q)
        BY <1>8
      <4>2. Len(r) \in Nat /\ Len(r) > 0 /\ r[1] = q[2]
        BY <4>1, <3>1, <3>2, <1>8
      <4>3. r # <<>> /\ Head(r) = r[1]
        BY <4>2, EmptySeq
      <4> QED
        BY <4>1, <4>2, <4>3
    <3>4. q[2] \in {"close", "drop", "connect"}
      BY <3>2, ElementOfSeq
    <3>5. q[2] \in Range(q)
      BY <3>1, <3>2 DEF Range
    <3> QED
      BY <3>3, <3>4, <3>5
  <2>3. f = "close" => player[l] \in {"closing", "gone"}
    BY <2>2, <1>0, <1>6 DEF Linked
  <2> HIDE DEF f
  <2>4. PICK s, p : Runs(l, f, s, p, owner) /\ dials' \in 0 .. MaxDials
    BY <2>1, <2>2, <2>3, <1>0, <1>3, <1>4, RunHereRuns
  <2>5. /\ Follows(l, p) /\ Remains(l, s, p) /\ (player[l] = "gone" => p = "gone")
        /\ player' \in [Loops -> {"out", "in", "leaving", "closing", "gone"}]
        /\ \A x \in Loops : player'[x] = IF x = l THEN p ELSE player[x]
        /\ players \subseteq {x \in Loops : player'[x] \in {"in", "leaving"}}
    BY <1>0, <2>3, <2>4, RunsFollows
  <2>6. Types' /\ Owners' /\ Undisturbed(l)
    BY <2>1, <2>4, <2>5, <1>0, <1>1, <1>9 DEF Types, Owners, Undisturbed
  <2>7. /\ s \in Seq(Operations) /\ todo' = [todo EXCEPT ![l] = s] /\ Shape(l, s, owner')
        /\ f = "close" => Len(s) = 1 /\ p = "gone"
    BY <2>1, <2>4 DEF Runs
  <2>8. todo'[l] = s /\ \A x \in Threads \ {l} : todo'[x] = todo[x]
    BY <2>7, <1>0 DEF Shapes
  <2>9. Running'
    <3> SUFFICES ASSUME NEW x \in Loops, owner'[x] = x
                 PROVE  queue'[x] # <<>> /\ (Head(queue'[x]) = "close" => Len(todo'[x]) = 1 /\ player'[x] = "gone")
      BY DEF Running
    <3>1. CASE x = l
      BY <3>1, <2>2, <2>5, <2>7, <2>8, <1>9
    <3>2. CASE x # l
      <4>1. owner[x] = x /\ todo'[x] = todo[x] /\ player'[x] = player[x] /\ queue'[x] = queue[x]
        BY <3>2, <2>1, <2>5, <2>8, <1>9, Names
      <4> QED
        BY <4>1, <1>0 DEF Running
    <3> QED
      BY <3>1, <3>2
  <2>10. KeepsCloses(l, s)
    BY <2>5, <1>11
  <2> QED
    BY <2>5, <2>6, <2>7, <2>9, <2>10, <1>1, LoopStep
<1> QED
  BY <1>12, <1>13
-----------------------------------------------------------------------------
(* What Clear posts: the close of the publisher, and those of the players. *)
LEMMA ClearPosts ==
  ASSUME Types, NEW d \in Seq(Operations), \A i \in 1 .. Len(d) : d[i] \in SessionPosts,
         NEW posts, posts = close_publisher \o d
  PROVE  /\ posts \in Seq(Operations) /\ \A i \in 1 .. Len(posts) : posts[i] \in SessionPosts
         /\ Range(posts) = Range(close_publisher) \cup Range(d)
<1> DEFINE c == close_publisher
<1>3. c \in Seq(Operations) /\ \A i \in 1 .. Len(c) : c[i] \in SessionPosts
  BY ClosePublisherPosts
<1>5. posts = c \o d
  OBVIOUS
<1> HIDE DEF c
<1>6. c \in Seq(Operations) /\ d \in Seq(Operations) /\ Len(c) \in Nat /\ Len(d) \in Nat
  BY <1>3, LenProperties
<1>7. /\ posts \in Seq(Operations) /\ Len(posts) = Len(c) + Len(d)
      /\ \A i \in 1 .. Len(c) + Len(d) : posts[i] = IF i <= Len(c) THEN c[i] ELSE d[i - Len(c)]
  BY ONLY <1>5, <1>6, ConcatProperties
<1>8. Range(posts) = Range(c) \cup Range(d)
  BY <1>5, <1>6, RangeConcatenation
<1>9. ASSUME NEW i \in 1 .. Len(posts) PROVE posts[i] \in SessionPosts
  <2>1. CASE i <= Len(c)
    BY <2>1, <1>3, <1>6, <1>7
  <2>2. CASE i > Len(c)
    <3>1. i - Len(c) \in 1 .. Len(d) /\ posts[i] = d[i - Len(c)]
      BY <2>2, <1>6, <1>7
    <3> QED
      BY <3>1
  <2> QED
    BY <2>1, <2>2, <1>6
<1> QED
  BY <1>7, <1>8, <1>9 DEF c

(* Clear closes every player and the publisher of a session. *)
LEMMA ClearKeeps ==
  ASSUME IInv, NEW t \in Threads, DoClear(t)
  PROVE  IInv'
<1> DEFINE S == {l \in players : player[l] = "in"}
           q == SetToSeq(S)
           closes == [i \in DOMAIN q |-> Post(q[i], "close")]
<1>0. Shapes /\ Types /\ Linked /\ Running /\ S \in SUBSET Loops
  BY DEF IInv, ClosingIsUnderWay, TypeOK, Types
<1>1. /\ Enters(t, "clear", close_publisher \o closes \o <<Unlock(Session)>>)
      /\ player' = [l \in Loops |-> IF l \in players /\ player[l] = "in" THEN "closing" ELSE player[l]]
      /\ players' = {} /\ UNCHANGED <<queue, pulled, listed, dials>>
      /\ publisher' = IF close_publisher # <<>> /\ ~pulled THEN None ELSE publisher
  BY DEF DoClear
<1>2. PICK posts : posts = close_publisher \o closes
  OBVIOUS
<1>3. /\ posts \in Seq(Operations) /\ \A i \in 1 .. Len(posts) : posts[i] \in SessionPosts
      /\ Range(posts) = Range(close_publisher) \cup {Post(l, "close") : l \in S}
  <2>1. /\ closes \in Seq(Operations) /\ \A i \in 1 .. Len(closes) : closes[i] \in SessionPosts
        /\ Range(closes) = {Post(l, "close") : l \in S}
    <3> HIDE DEF S
    <3> QED
      BY <1>0, PostsOf
  <2> HIDE DEF closes
  <2> QED
    BY <2>1, <1>0, <1>2, ClearPosts
<1> HIDE DEF S, q, closes
<1>4. PICK ops : ops = posts \o <<Unlock(Session)>>
  OBVIOUS
<1>5. UnderLock(ops) /\ Range(ops) = Range(posts) \cup {Unlock(Session)}
  BY <1>3, <1>4, PostsThenUnlock
<1>6. Enters(t, "clear", ops)
  BY <1>1, <1>2, <1>4
<1>7. /\ Owners' /\ owner' \in [Locks -> Threads \cup {None}] /\ \A l \in Loops : owner'[l] = owner[l]
      /\ Undisturbed(t) /\ owner[Session] = None /\ first(t).op = "clear"
  BY <1>5, <1>6, EntersSession
<1>8. PICK s \in Seq(Operations) : Entered(t, posts, s)
  BY <1>5, <1>6, EntersSession
<1>9. \A l \in Loops : player'[l] = IF l \in S THEN "closing" ELSE player[l]
  BY <1>1 DEF S
<1>10. Types'
  <2>1. player' \in [Loops -> {"out", "in", "leaving", "closing", "gone"}]
    BY <1>0, <1>1 DEF Types
  <2>2. publisher' \in Loops \cup {None}
    BY <1>0, <1>1 DEF Types
  <2> QED
    BY <2>1, <2>2, <1>0, <1>1, <1>7 DEF Types
<1>11. /\ Shapes' /\ TypeOK'
       /\ todo'[t] = s /\ \A x \in Threads \ {t} : todo'[x] = todo[x]
  BY <1>7, <1>8, <1>10, Frame DEF Entered
<1>12. Running'
  <2>1. \A l \in Loops : player[l] = "gone" => player'[l] = "gone"
    BY <1>9 DEF S
  <2>2. first(t).op # "pop" /\ \A l \in Loops : queue'[l] = queue[l]
    BY <1>1, <1>7
  <2> QED
    BY <2>1, <2>2, <1>0, <1>7, <1>11, RunningStep
<1>13. \A x \in Threads : \A o : Ahead(x, o)' => \/ Ahead(x, o) \/ o = Unlock(Session)
                                                 \/ o \in Range(posts)
  BY <1>8, <1>11 DEF Ahead, Entered
<1>14. \A o \in Range(posts) : \/ publisher # None /\ o = Post(publisher, IF pulled THEN "drop" ELSE "unpublish")
                               \/ \E l \in S : o = Post(l, "close")
  BY <1>0, <1>3, ClosePublisherPosts
<1>15. Linked'
  <2>1. \A o \in Range(posts) \cup {Unlock(Session)} : o.op \in {"post", "unlock"}
    BY <1>14, Kinds
  <2>2. \A l \in Loops : /\ Ahead(l, AddPlayer)' => Ahead(l, AddPlayer)
                         /\ Ahead(l, CloseUser("player"))' => Ahead(l, CloseUser("player"))
    BY <2>1, <1>13, Kinds, Names
  <2>3. \A l \in Loops : l \in S => player[l] = "in"
    BY DEF S
  <2>4. \A l \in Loops : Ahead(l, AddPlayer)' => player'[l] = "out"
    BY <2>2, <2>3, <1>0, <1>9 DEF Linked
  <2>5. \A l \in Loops : Ahead(l, CloseUser("player"))' => player'[l] = "leaving"
    BY <2>2, <2>3, <1>0, <1>9 DEF Linked
  <2>6. ASSUME NEW x \in Threads, NEW l \in Loops, Ahead(x, Post(l, "close"))'
        PROVE  player'[l] \in {"closing", "gone"}
    <3>1. Post(l, "close") \in Range(posts)
      BY <2>6, <1>0, <1>7, <1>13, NothingToPost, Kinds
    <3>2. l \in S
      BY <3>1, <1>14, Kinds
    <3> QED
      BY <3>2, <1>9
  <2>7. ASSUME NEW x \in Threads, NEW l \in Loops, Ahead(x, Post(l, "drop"))'
        PROVE  publisher' # None
    <3>1. Post(l, "drop") \in Range(posts)
      BY <2>7, <1>0, <1>7, <1>13, NothingToPost, Kinds
    <3>2. publisher # None /\ pulled
      BY <3>1, <1>14, Kinds
    <3> QED
      BY <3>2, <1>1
  <2>8. \A l \in Loops : "close" \in Range(queue'[l]) => player'[l] \in {"closing", "gone"}
    BY <1>0, <1>1, <1>9 DEF Linked
  <2> QED
    BY <2>4, <2>5, <2>6, <2>7, <2>8 DEF Linked
<1>16. ASSUME NEW l \in Loops, player'[l] = "closing"
       PROVE  \/ "close" \in Range(queue'[l])
              \/ \E x \in Threads : Post(l, "close") \in Range(todo'[x])
  <2>1. CASE l \in S
    BY <2>1, <1>3, <1>8, <1>11 DEF Entered
  <2>2. CASE l \notin S
    BY <2>2, <1>0, <1>1, <1>7, <1>9, <1>16, NothingToPost DEF IInv, ClosingIsUnderWay, Ahead
  <2> QED
    BY <2>1, <2>2
<1> QED
  BY <1>7, <1>11, <1>12, <1>15, <1>16 DEF IInv, ClosingIsUnderWay
-----------------------------------------------------------------------------
(* A thread between two handlers holds no lock. *)
LEMMA Idle ==
  ASSUME Shapes, NEW t \in Threads, todo[t] = <<>>
  PROVE  Held(t, owner) = 0 /\ owner[Session] # t /\ \A o : ~Ahead(t, o)
<1>1. Shape(t, todo[t], owner) /\ Len(todo[t]) = 0 /\ Held(t, owner) \in 0 .. 1 /\ DOMAIN todo[t] = {}
  BY HeldIs, EmptySeq DEF Shapes
<1> QED
  BY <1>1 DEF Shape, Ahead, Range

(* The handlers of play and publish look for the session first. *)
LEMMA TwoCalls ==
  ASSUME NEW t \in Loops, NEW own, Held(t, own) = 0, own[Session] # t,
         NEW c \in {AddPlayer, SetPublisher("push")}
  PROVE  /\ <<CreateSession, c>> \in Seq(Operations) /\ Range(<<CreateSession, c>>) = {CreateSession, c}
         /\ Shape(t, <<CreateSession, c>>, own)
<1> DEFINE s == <<CreateSession, c>>
<1>1. c \in Operations /\ CreateSession \in Operations
  <2>1. CreateSession \in Operations
    BY Names DEF CreateSession, Op, Operations
  <2> QED
    BY <2>1, EventCallsAre DEF EventCalls
<1>2. s \in Seq(Operations) /\ Len(s) = 2 /\ s[1] = CreateSession /\ s[2] = c /\ DOMAIN s = {1, 2}
  BY <1>1
<1>3. Range(s) = {CreateSession, c}
  BY <1>2 DEF Range
<1> HIDE DEF s
<1>4. Shape(t, s, own)
  BY <1>2 DEF Shape
<1> QED
  BY <1>2, <1>3, <1>4 DEF s

(* A loop begins to handle an event. *)
LEMMA EventKeeps ==
  ASSUME IInv, NEW t \in Loops, NEW s, Handles(t, s), s \in Seq(Operations), Shape(t, s, owner),
         NEW p \in {"out", "in", "leaving", "closing", "gone"}, Follows(t, p), Remains(t, s, p),
         player[t] = "gone" => p = "gone", player[t] \in {"in", "leaving"} => p \in {"in", "leaving"}
  PROVE  IInv'
<1>0. Shapes /\ Types /\ t \in Threads
  BY Names DEF IInv, ClosingIsUnderWay, TypeOK, Types
<1>1. /\ todo[t] = <<>> /\ todo' = [todo EXCEPT ![t] = s]
      /\ UNCHANGED <<owner, queue, players, publisher, pulled, listed, dials>>
  BY DEF Handles
<1>2. \A l \in Loops : player'[l] = IF l = t THEN p ELSE player[l]
  BY <1>0 DEF Follows, Types
<1>3. Types'
  <2>1. player' \in [Loops -> {"out", "in", "leaving", "closing", "gone"}]
    BY <1>0 DEF Follows, Types
  <2>2. players' \subseteq {l \in Loops : player'[l] \in {"in", "leaving"}}
    BY <1>0, <1>1, <1>2 DEF Types
  <2> QED
    BY <2>1, <2>2, <1>0, <1>1 DEF Types
<1>4. \A l \in Loops : ~Ahead(t, Post(l, "close"))
  BY <1>0, <1>1, Idle
<1> QED
  BY <1>1, <1>3, <1>4, LoopCall

(* An event that does not concern the player. *)
LEMMA QuietEvent ==
  ASSUME IInv, NEW t \in Loops, NEW s, Handles(t, s), s \in Seq(Operations), Shape(t, s, owner),
         UNCHANGED player, Remains(t, s, player[t])
  PROVE  IInv'
<1>0. Types
  BY DEF IInv, ClosingIsUnderWay, TypeOK, Types
<1>1. PICK p \in {"out", "in", "leaving", "closing", "gone"} : p = player[t]
  BY <1>0 DEF Types
<1>2. Follows(t, p)
  BY <1>0, <1>1 DEF Follows, Types
<1>3. /\ Remains(t, s, p) /\ (player[t] = "gone" => p = "gone")
      /\ player[t] \in {"in", "leaving"} => p \in {"in", "leaving"}
  BY <1>1
<1> QED
  BY <1>2, <1>3, EventKeeps

(* Every event of a loop begins a handler that is in shape. *)
LEMMA EventsKeep ==
  ASSUME IInv, NEW l \in Loops,
         \/ OnPlay(l) \/ OnPublish(l) \/ OnPullStart(l) \/ OnPullClose(l) \/ OnRecv(l)
         \/ OnPlayerClose(l) \/ OnPublisherClose(l)
  PROVE  IInv'
<1>0. Shapes /\ Types /\ l \in Threads
  BY Names DEF IInv, ClosingIsUnderWay, TypeOK, Types
<1>1. todo[l] = <<>>
  BY DEF OnPlay, OnPublish, OnPullStart, OnPullClose, OnRecv, OnPlayerClose, OnPublisherClose, Handles
<1>2. Held(l, owner) = 0 /\ owner[Session] # l
  BY <1>0, <1>1, Idle
<1>3. ASSUME NEW c \in EventCalls
      PROVE  <<c>> \in Seq(Operations) /\ Range(<<c>>) = {c} /\ Shape(l, <<c>>, owner)
  BY <1>2, EventCallsAre, OneCall
<1>4. /\ Harmless(CreateSession) /\ Harmless(CallPull) /\ Harmless(ActiveAllPlayers)
      /\ \A how : Harmless(SetPublisher(how))
      /\ Harmless(CloseUser("publisher"))
  BY Kinds DEF Harmless
<1>5. CASE OnPlay(l)
  <2>1. /\ <<CreateSession, AddPlayer>> \in Seq(Operations) /\ Shape(l, <<CreateSession, AddPlayer>>, owner)
        /\ Range(<<CreateSession, AddPlayer>>) = {CreateSession, AddPlayer}
    BY <1>2, TwoCalls
  <2>2. PICK s : s = <<CreateSession, AddPlayer>>
    OBVIOUS
  <2>3. Remains(l, s, player[l])
    BY <1>4, <1>5, <2>1, <2>2 DEF Remains, OnPlay
  <2>4. Handles(l, s) /\ player' = player
    BY <1>5, <2>2 DEF OnPlay
  <2> QED
    BY <2>1, <2>2, <2>3, <2>4, QuietEvent
<1>6. CASE OnPublish(l)
  <2> DEFINE c == SetPublisher("push")
  <2>1. /\ <<CreateSession, c>> \in Seq(Operations) /\ Shape(l, <<CreateSession, c>>, owner)
        /\ Range(<<CreateSession, c>>) = {CreateSession, c}
    BY <1>2, TwoCalls
  <2>2. PICK s : s = <<CreateSession, c>>
    OBVIOUS
  <2>3. Remains(l, s, player[l])
    BY <1>4, <2>1, <2>2 DEF Remains
  <2>4. Handles(l, s) /\ player' = player
    BY <1>6, <2>2 DEF OnPublish
  <2> QED
    BY <2>1, <2>2, <2>3, <2>4, QuietEvent
<1>7. ASSUME NEW c \in EventCalls, Harmless(c), Handles(l, <<c>>), UNCHANGED player
      PROVE  IInv'
  <2>1. PICK s : s = <<c>>
    OBVIOUS
  <2>2. s \in Seq(Operations) /\ Shape(l, s, owner) /\ Remains(l, s, player[l]) /\ Handles(l, s)
    BY <1>3, <1>7, <2>1 DEF Remains
  <2> QED
    BY <1>7, <2>2, QuietEvent
<1>8. CASE OnPullStart(l) \/ OnPullClose(l) \/ OnRecv(l) \/ OnPublisherClose(l)
  <2>1. \E c \in EventCalls : Harmless(c) /\ Handles(l, <<c>>) /\ UNCHANGED player
    BY <1>4, <1>8 DEF OnPullStart, OnPullClose, OnRecv, OnPublisherClose, EventCalls
  <2> QED
    BY <2>1, <1>7
<1>9. CASE OnPlayerClose(l)
  <2>1. CASE player[l] = "in"
    <3>1. PICK s : s = <<CloseUser("player")>>
      OBVIOUS
    <3>2. Handles(l, s) /\ player' = [player EXCEPT ![l] = "leaving"]
      BY <1>9, <2>1, <3>1 DEF OnPlayerClose
    <3>3. CloseUser("player") \in EventCalls
      BY DEF EventCalls
    <3>4. PICK p \in {"out", "in", "leaving", "closing", "gone"} : p = "leaving"
      OBVIOUS
    <3>5. Follows(l, p)
      BY <2>1, <3>2, <3>4 DEF Follows
    <3>6. s \in Seq(Operations) /\ Shape(l, s, owner) /\ Remains(l, s, p)
      BY <1>3, <3>1, <3>3, <3>4 DEF Remains
    <3> QED
      BY <2>1, <3>2, <3>4, <3>5, <3>6, EventKeeps
  <2>2. CASE player[l] = "closing"
    <3>1. PICK s : s = <<>>
      OBVIOUS
    <3>2. Handles(l, s) /\ player' = [player EXCEPT ![l] = "gone"]
      BY <1>9, <2>2, <3>1 DEF OnPlayerClose
    <3>3. PICK p \in {"out", "in", "leaving", "closing", "gone"} : p = "gone"
      OBVIOUS
    <3>4. Follows(l, p)
      BY <3>2, <3>3 DEF Follows
    <3>5. s \in Seq(Operations) /\ Shape(l, s, owner) /\ Remains(l, s, p)
      BY <1>2, <3>1, NoCall DEF Remains
    <3> QED
      BY <2>2, <3>2, <3>3, <3>4, <3>5, EventKeeps
  <2> QED
    BY <1>9, <2>1, <2>2 DEF OnPlayerClose
<1> QED
  BY <1>5, <1>6, <1>8, <1>9

(* The task thread begins OnTimer. *)
LEMMA TimeoutKeeps ==
  ASSUME IInv, OnTimeout
  PROVE  IInv'
<1>0. Shapes /\ Types /\ Task \in Threads
  BY Names DEF IInv, ClosingIsUnderWay, TypeOK, Types
<1>1. /\ todo[Task] = <<>> /\ todo' = [todo EXCEPT ![Task] = <<OnTimer>>]
      /\ UNCHANGED <<owner, queue, player, players, publisher, pulled, listed, dials>>
  BY DEF OnTimeout, Handles
<1>2. Held(Task, owner) = 0 /\ owner[Session] # Task /\ \A l \in Loops : ~Ahead(Task, Post(l, "close"))
  BY <1>0, <1>1, Idle
<1>3. OnTimer \in Operations /\ Harmless(OnTimer) /\ OnTimer \in Calls(Task, 0)
  BY Kinds, Names DEF OnTimer, Op, Operations, Harmless, AddPlayer, CloseUser, Calls
<1>4. PICK s : s = <<OnTimer>> /\ s \in Seq(Operations)
  <2>1. <<OnTimer>> \in Seq(Operations)
    BY <1>3
  <2> QED
    BY <2>1
<1>5. Len(s) = 1 /\ s[1] = OnTimer /\ DOMAIN s = {1}
  BY <1>4
<1>6. Shape(Task, s, owner)
  BY <1>2, <1>3, <1>4, <1>5 DEF Shape
<1>7. \A o \in Range(s) : Harmless(o)
  BY <1>3, <1>5 DEF Range
<1>8. todo' = [todo EXCEPT ![Task] = s] /\ listed' \in BOOLEAN /\ dials' \in 0 .. MaxDials
  BY <1>0, <1>1, <1>4 DEF Types
<1> QED
  BY <1>0, <1>1, <1>2, <1>4, <1>6, <1>7, <1>8, QuietCall

-----------------------------------------------------------------------------
(* At first no lock is held and nothing is to be done. *)
LEMMA InitHolds == Init => IInv
<1> SUFFICES ASSUME Init PROVE IInv
  OBVIOUS
<1>1. /\ \A k \in Locks : owner[k] = None
      /\ \A t \in Threads : todo[t] = <<>> /\ \A o : ~Ahead(t, o)
      /\ \A l \in Loops : queue[l] = <<>> /\ player[l] = "out"
      /\ todo \in [Threads -> Seq(Operations)]
  <2>1. DOMAIN <<>> = {} /\ <<>> \in Seq(Operations)
    OBVIOUS
  <2> QED
    BY <2>1 DEF Init, Ahead, Range
<1>2. Owners /\ Running
  BY <1>1, Names DEF Owners, Running
<1>3. Shapes
  <2> SUFFICES ASSUME NEW t \in Threads PROVE Shape(t, todo[t], owner)
    BY <1>1 DEF Shapes
  <2>1. Held(t, owner) = 0 /\ owner[Session] # t
    BY <1>1, Names DEF Held
  <2>2. todo[t] \in Seq(Operations) /\ Len(todo[t]) = 0
    BY <1>1, EmptySeq
  <2> QED
    BY <2>1, <2>2 DEF Shape
<1>4. Types
  <2>1. queue \in [Loops -> Seq({"close", "drop", "connect"})]
    <3>1. <<>> \in Seq({"close", "drop", "connect"})
      OBVIOUS
    <3> QED
      BY <3>1 DEF Init
  <2>2. owner \in [Locks -> Threads \cup {None}]
    BY DEF Init
  <2>3. player \in [Loops -> {"out", "in", "leaving", "closing", "gone"}] /\ players = {}
    BY DEF Init
  <2>4. publisher = None /\ pulled = FALSE /\ listed = TRUE /\ dials = 0
    BY DEF Init
  <2>5. dials \in 0 .. MaxDials
    BY <2>4, LocksAssumption
  <2>6. {pulled, listed} \subseteq BOOLEAN
    BY <2>4, Zenon
  <2> QED
    BY <2>1, <2>2, <2>3, <2>4, <2>5, <2>6 DEF Types
<1>5. TypeOK
  BY <1>2, <1>3, <1>4, HoldersAreBusy
<1>6. Linked
  <2>1. \A l \in Loops : Range(queue[l]) = {}
    <3>1. DOMAIN <<>> = {}
      OBVIOUS
    <3> QED
      BY <3>1, <1>1 DEF Range
  <2> QED
    BY <2>1, <1>1, Names DEF Linked
<1> QED
  BY <1>1, <1>2, <1>3, <1>5, <1>6 DEF IInv, ClosingIsUnderWay

(* Every step keeps the inductive invariant. *)
LEMMA NextKeeps == IInv /\ [Next]_vars => IInv'
<1> SUFFICES ASSUME IInv, [Next]_vars PROVE IInv'
  OBVIOUS
<1>1. ASSUME NEW t \in Threads, Step(t) PROVE IInv'
  BY <1>1, UnlockKeeps, RunInLoopKeeps, CreateSessionKeeps, CloseSessionKeeps, OnTimerKeeps,
     AddPlayerKeeps, PullKeeps, ActiveAllKeeps, SetPublisherKeeps, CloseUserKeeps, ClearKeeps DEF Step
<1>2. ASSUME NEW l \in Loops, RunFuctions(l) \/ DoPop(l) PROVE IInv'
  BY <1>2, RunFuctionsKeeps, PopKeeps
<1>3. ASSUME NEW l \in Loops,
             \/ OnPlay(l) \/ OnPublish(l) \/ OnPullStart(l) \/ OnPullClose(l) \/ OnRecv(l)
             \/ OnPlayerClose(l) \/ OnPublisherClose(l)
      PROVE  IInv'
  BY <1>3, EventsKeep
<1>4. CASE UNCHANGED vars
  BY <1>4 DEF vars, IInv, ClosingIsUnderWay, TypeOK, Owners, Shapes, Linked, Running, Ahead
<1> QED
  BY <1>1, <1>2, <1>3, <1>4, TimeoutKeeps DEF Next

(* Whatever the threads are doing and whichever functions the loops have   *)
(* queued, threads that wait for each other in a circle include a loop     *)
(* that runs a failed pull under its own lock (EventLoop::RunFuctions).    *)
THEOREM CircleNeedsPull == Spec => []DeadlockOnlyInPull
<1>1. IInv => DeadlockOnlyInPull
  BY LockOrder DEF IInv, ClosingIsUnderWay
<1> QED
  BY <1>1, InitHolds, NextKeeps, PTL DEF Spec

(* The forced close of a player that Session::Clear has marked is queued   *)
(* in its loop or about to be posted, until the connection is closed.      *)
THEOREM NoCloseIsLost == Spec => []ClosingIsUnderWay
<1>1. IInv => ClosingIsUnderWay
  BY DEF IInv
<1> QED
  BY <1>1, InitHolds, NextKeeps, PTL DEF Spec
============================================================================
