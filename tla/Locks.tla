-------------------------------- MODULE Locks --------------------------------
(***************************************************************************)
(* Who waits for whose lock: LiveService::lock_, the lock_ of one session, *)
(* and the lock_ of every EventLoop.                                       *)
(*                                                                         *)
(* The threads are the loops and the task thread.  What a thread has still *)
(* to do in the handler it is in is a sequence of operations on locks and  *)
(* queues.  A section that waits for nothing while it holds its lock is    *)
(* one step, which needs the lock to be free: RunInLoop pushes a function  *)
(* in such a step, while RunFuctions holds the loop's lock for as long as  *)
(* it runs functions.                                                      *)
(* The lock of the stream and those inside a connection are taken last     *)
(* everywhere and left out.                                                *)
(***************************************************************************)
EXTENDS Integers, Sequences, FiniteSets, SequencesExt

CONSTANTS
  Loops,     (* event loops, each with at most one player of the session     *)
  MaxDials   (* bound on the connections that a relay opens                  *)

ASSUME LocksAssumption == MaxDials \in Nat

Task == "task"
None == "none"
Threads == Loops \cup {Task}
Service == "service"
Session == "session"
Locks   == Loops \cup {Service, Session}

ASSUME NamesAssumption ==
  /\ Loops \cap {Task, None, Service, Session} = {}
  /\ Loops # {} /\ IsFiniteSet(Loops)

VARIABLES
  owner,    (* lock -> the thread that holds it, or None                      *)
  todo,     (* thread -> the rest of its handler                              *)
  queue,    (* loop -> functions_                                             *)
  player,   (* loop -> its player: "out", "in", "leaving" or "closing"
               (destroyed_ was set by itself or by Clear), "gone"             *)
  players,  (* players_ of the session                                        *)
  publisher,(* loop of publisher_, or None                                    *)
  pulled,   (* the publisher was pulled                                       *)
  listed,   (* the session is in sessions_                                    *)
  dials     (* connections that relays have opened                            *)

vars == <<owner, todo, queue, player, players, publisher, pulled, listed, dials>>

(***************************************************************************)
(* The operations of a handler.  "post" is RunInLoop of f in loop k.  The  *)
(* others need the lock k; those that keep it end in an unlock.            *)
(***************************************************************************)
Op(name, k, f)    == [op |-> name, k |-> k, f |-> f]
Unlock(k)         == Op("unlock", k, None)
Post(k, f)        == Op("post", k, f)
CallPull          == Op("pull", None, None)
CreateSession     == Op("create", Service, None)
CloseSession      == Op("close_session", Service, None)
OnTimer           == Op("on_timer", Service, None)
AddPlayer         == Op("add_player", Session, None)
ActiveAllPlayers  == Op("active_all", Session, None)
SetPublisher(how) == Op("set_publisher", Session, how)
CloseUser(who)    == Op("close_user", Session, who)
Clear             == Op("clear", Session, None)
PopFunction       == Op("pop", None, None)

Init ==
  /\ owner = [k \in Locks |-> None]
  /\ todo = [t \in Threads |-> <<>>]
  /\ queue = [l \in Loops |-> <<>>]
  /\ player = [l \in Loops |-> "out"] /\ players = {}
  /\ publisher = None /\ pulled = FALSE
  /\ listed = TRUE /\ dials = 0

-----------------------------------------------------------------------------
(***************************************************************************)
(* The functions that are given to loops, as what loop l does in them.     *)
(* "active" sends frames and takes no lock of these.  "close" and          *)
(* "unpublish" close a player and a pushing publisher that are destroyed_  *)
(* already, so that their CloseUser takes none either.  "drop" closes a    *)
(* pulled connection and "connect" opens one, which may fail at once; both *)
(* lead to OnPullClose.                                                    *)
(***************************************************************************)
(* Pull returns if there is a publisher, else it waits for a timer, gives  *)
(* up, or has another loop or its own connect.                             *)
pulls ==
  IF publisher # None THEN {<<>>}
  ELSE {<<>>, <<CloseSession>>}
       \cup {<<Post(k, "connect")>> : k \in {l \in Loops : dials < MaxDials}}

bodiesLockFirst(f) ==
  CASE f = "close" -> {<<CloseUser("player")>>}
    [] f \in {"drop", "connect"} -> {<<>>} \cup pulls
    [] OTHER -> {<<>>}

bodies(f) == IF f \in {"drop", "connect"} THEN {<<>>} \cup pulls ELSE {<<>>}

(* Running f in loop l closes the player's connection, or dials.           *)
player_after(l, f) == IF f = "close" /\ player[l] = "closing"
                      THEN [player EXCEPT ![l] = "gone"] ELSE player
dials_after(body) == IF \E i \in DOMAIN body : body[i].f = "connect" THEN dials + 1 ELSE dials

RunHere(l, f, rest) ==
  /\ player' = player_after(l, f)
  /\ \E body \in bodies(f) : /\ todo' = [todo EXCEPT ![l] = body \o rest]
                             /\ dials' = dials_after(body)

-----------------------------------------------------------------------------
(* The steps of thread t: the first operation of todo[t].                   *)
first(t) == Head(todo[t])
At(t, name) == todo[t] # <<>> /\ first(t).op = name

(* A call takes its lock, keeps it, and turns into the operations ops.     *)
Enters(t, name, ops) ==
  /\ At(t, name) /\ owner[first(t).k] = None
  /\ owner' = [owner EXCEPT ![first(t).k] = t]
  /\ todo' = [todo EXCEPT ![t] = ops \o Tail(@)]

(* A call finds its lock free, and goes on with the operations ops.        *)
Passes(t, name, ops) ==
  /\ At(t, name) /\ owner[first(t).k] = None
  /\ todo' = [todo EXCEPT ![t] = ops]
  /\ UNCHANGED owner

DoUnlock(t) ==
  /\ At(t, "unlock")
  /\ owner' = [owner EXCEPT ![first(t).k] = None]
  /\ todo' = [todo EXCEPT ![t] = Tail(@)]
  /\ UNCHANGED <<queue, player, players, publisher, pulled, listed, dials>>

(* functions_ after a push.  Of the functions that take no lock only the   *)
(* close of a player is followed further, and nothing is queued twice.     *)
pushed(fs, f) ==
  IF f \in {"active", "unpublish"} \/ f \in Range(fs) THEN fs ELSE Append(fs, f)

(* EventLoop::RunInLoop: at once in its own loop, else pushed.             *)
RunInLoop(t) ==
  /\ At(t, "post")
  /\ LET k == first(t).k
         f == first(t).f
     IN  \/ /\ k = t
            /\ RunHere(t, f, Tail(todo[t]))
            /\ UNCHANGED queue
         \/ /\ k # t /\ owner[k] = None
            /\ queue' = [queue EXCEPT ![k] = pushed(@, f)]
            /\ todo' = [todo EXCEPT ![t] = Tail(@)]
            /\ UNCHANGED <<player, dials>>
  /\ UNCHANGED <<owner, players, publisher, pulled, listed>>

(* LiveService::CreateSession: a session that is not listed is another     *)
(* one, which is not followed.                                             *)
DoCreateSession(t) ==
  /\ Passes(t, "create", IF listed THEN Tail(todo[t]) ELSE <<>>)
  /\ UNCHANGED <<queue, player, players, publisher, pulled, listed, dials>>

(* LiveService::CloseSession erases under the lock and clears after it.    *)
DoCloseSession(t) ==
  /\ At(t, "close_session")
  /\ Passes(t, "close_session", (IF listed THEN <<Clear>> ELSE <<>>) \o Tail(todo[t]))
  /\ listed' = FALSE
  /\ UNCHANGED <<queue, player, players, publisher, pulled, dials>>

(* LiveService::OnTimer clears a session that timed out under the lock.    *)
DoOnTimer(t) ==
  /\ Enters(t, "on_timer", (IF listed THEN <<Clear>> ELSE <<>>) \o <<Unlock(Service)>>)
  /\ listed' = FALSE
  /\ UNCHANGED <<queue, player, players, publisher, pulled, dials>>

(* Session::AddPlayer: then, without the lock, it may start to pull.       *)
DoAddPlayer(t) ==
  /\ Passes(t, "add_player", <<CallPull>>)
  /\ players' = players \cup {t}
  /\ player' = [player EXCEPT ![t] = "in"]
  /\ UNCHANGED <<queue, publisher, pulled, listed, dials>>

DoPull(t) ==
  /\ At(t, "pull")
  /\ \E body \in pulls : /\ todo' = [todo EXCEPT ![t] = body \o Tail(@)]
                         /\ dials' = dials_after(body)
  /\ UNCHANGED <<owner, queue, player, players, publisher, pulled, listed>>

(* Session::ActiveAllPlayers.                                              *)
DoActiveAllPlayers(t) ==
  LET players_seq == SetToSeq(players)
  IN  /\ Enters(t, "active_all",
                [i \in DOMAIN players_seq |-> Post(players_seq[i], "active")]
                  \o <<Unlock(Session)>>)
      /\ UNCHANGED <<queue, player, players, publisher, pulled, listed, dials>>

(* The publisher's own CloseUser has set destroyed_.                       *)
publisher_leaves == \E i \in DOMAIN todo[publisher] : todo[publisher][i] = CloseUser("publisher")

(* User::Close for the publisher, if nobody else has closed it.            *)
close_publisher ==
  IF publisher = None \/ publisher_leaves THEN <<>>
  ELSE <<Post(publisher, IF pulled THEN "drop" ELSE "unpublish")>>

(* Session::SetPublisher closes the publisher it replaces.                 *)
DoSetPublisher(t) ==
  /\ At(t, "set_publisher")
  /\ Enters(t, "set_publisher", close_publisher \o <<Unlock(Session)>>)
  /\ publisher' = t /\ pulled' = (first(t).f = "pull")
  /\ UNCHANGED <<queue, player, players, listed, dials>>

(* Session::CloseUser of a user that leaves by itself.                     *)
DoCloseUser(t) ==
  /\ At(t, "close_user")
  /\ Passes(t, "close_user", Tail(todo[t]))
  /\ IF first(t).f = "publisher"
     THEN publisher' = None /\ pulled' = FALSE /\ UNCHANGED <<player, players>>
     ELSE /\ players' = players \ {t}
          /\ player' = [player EXCEPT ![t] = "gone"]
          /\ UNCHANGED <<publisher, pulled>>
  /\ UNCHANGED <<queue, listed, dials>>

(* Session::Clear.  A pulled publisher has the type of a player and stays. *)
DoClear(t) ==
  LET closed == SetToSeq({l \in players : player[l] = "in"})
  IN  /\ Enters(t, "clear",
                close_publisher
                  \o [i \in DOMAIN closed |-> Post(closed[i], "close")] \o <<Unlock(Session)>>)
      /\ player' = [l \in Loops |-> IF l \in players /\ player[l] = "in" THEN "closing"
                                    ELSE player[l]]
      /\ players' = {}
      /\ publisher' = IF close_publisher # <<>> /\ ~pulled THEN None ELSE publisher
      /\ UNCHANGED <<queue, pulled, listed, dials>>

-----------------------------------------------------------------------------
(* EventLoop::RunFuctions holds the lock from the first function to the     *)
(* last.                                                                    *)
RunFuctions(l) ==
  /\ todo[l] = <<>> /\ queue[l] # <<>> /\ owner[l] = None
  /\ owner' = [owner EXCEPT ![l] = l]
  /\ RunHere(l, Head(queue[l]), <<PopFunction>>)
  /\ UNCHANGED <<queue, players, publisher, pulled, listed>>

(* Mutant: functions pushed meanwhile are dropped with the last one.       *)
DoPopAll(l) ==
  /\ At(l, "pop")
  /\ queue' = [queue EXCEPT ![l] = <<>>]
  /\ owner' = [owner EXCEPT ![l] = None]
  /\ todo' = [todo EXCEPT ![l] = Tail(@)]
  /\ UNCHANGED <<player, players, publisher, pulled, listed, dials>>

(* The lock is released after the last function of the list.               *)
DoPop(l) ==
  /\ At(l, "pop")
  /\ queue' = [queue EXCEPT ![l] = Tail(@)]
  /\ IF Len(queue[l]) = 1
     THEN /\ owner' = [owner EXCEPT ![l] = None]
          /\ todo' = [todo EXCEPT ![l] = Tail(@)]
          /\ UNCHANGED <<player, dials>>
     ELSE RunHere(l, queue[l][2], todo[l]) /\ UNCHANGED owner
  /\ UNCHANGED <<players, publisher, pulled, listed>>

-----------------------------------------------------------------------------
(* The events that idle threads handle.                                     *)
Handles(t, ops) ==
  /\ todo[t] = <<>>
  /\ todo' = [todo EXCEPT ![t] = ops]
  /\ UNCHANGED <<owner, queue, players, publisher, pulled, listed, dials>>

OnPlay(l) ==
  /\ player[l] = "out"
  /\ Handles(l, <<CreateSession, AddPlayer>>) /\ UNCHANGED player

OnPublish(l) ==
  /\ publisher # l /\ Handles(l, <<CreateSession, SetPublisher("push")>>)
  /\ UNCHANGED player

(* A pulled stream starts, or an attempt fails, later than at once.        *)
OnPullStart(l) ==
  /\ dials > 0 /\ publisher # l
  /\ Handles(l, <<SetPublisher("pull")>>) /\ UNCHANGED player

OnPullClose(l) ==
  /\ dials > 0 /\ Handles(l, <<CallPull>>) /\ UNCHANGED player

(* The publisher sends a packet: AddPacket, then ActiveAllPlayers.         *)
OnRecv(l) ==
  /\ publisher = l /\ Handles(l, <<ActiveAllPlayers>>) /\ UNCHANGED player

(* The peer closes the connection of a player, or of a pushing publisher.  *)
OnPlayerClose(l) ==
  /\ player[l] \in {"in", "closing"}
  /\ Handles(l, IF player[l] = "in" THEN <<CloseUser("player")>> ELSE <<>>)
  /\ player' = [player EXCEPT ![l] = IF @ = "in" THEN "leaving" ELSE "gone"]

OnPublisherClose(l) ==
  /\ publisher = l /\ ~pulled
  /\ Handles(l, <<CloseUser("publisher")>>) /\ UNCHANGED player

OnTimeout == listed /\ Handles(Task, <<OnTimer>>) /\ UNCHANGED player

Step(t) ==
  \/ DoUnlock(t) \/ RunInLoop(t)
  \/ DoCreateSession(t) \/ DoCloseSession(t) \/ DoOnTimer(t)
  \/ DoAddPlayer(t) \/ DoPull(t) \/ DoActiveAllPlayers(t)
  \/ DoSetPublisher(t) \/ DoCloseUser(t) \/ DoClear(t)

Next ==
  \/ \E t \in Threads : Step(t)
  \/ \E l \in Loops :
       \/ RunFuctions(l) \/ DoPop(l)
       \/ OnPlay(l) \/ OnPublish(l) \/ OnPullStart(l) \/ OnPullClose(l) \/ OnRecv(l)
       \/ OnPlayerClose(l) \/ OnPublisherClose(l)
  \/ OnTimeout

Spec == Init /\ [][Next]_vars

-----------------------------------------------------------------------------
(* Properties.                                                              *)

(* Locks are held by threads that are in a handler, queues hold functions, *)
(* and players and publishers are where the code can put them.             *)
TypeOK ==
  /\ owner \in [Locks -> Threads \cup {None}]
  /\ \A k \in Locks : owner[k] # None => todo[owner[k]] # <<>>
  /\ queue \in [Loops -> Seq({"close", "drop", "connect"})]
  /\ player \in [Loops -> {"out", "in", "leaving", "closing", "gone"}]
  /\ players \subseteq {l \in Loops : player[l] \in {"in", "leaving"}}
  /\ publisher \in Loops \cup {None} /\ {pulled, listed} \subseteq BOOLEAN
  /\ dials \in 0 .. MaxDials

(* The thread that thread t has to wait for, if any.                       *)
waitsFor(t) ==
  IF todo[t] = <<>> \/ first(t).op \in {"unlock", "pull", "pop"} THEN None
  ELSE IF first(t).op = "post" /\ first(t).k = t THEN None
  ELSE owner[first(t).k]

Deadlocked(C) == C # {} /\ \A t \in C : waitsFor(t) \in C

(* Loop l runs a failed pull under its own lock.                           *)
PullsUnderLock(l) == owner[l] = l /\ Head(queue[l]) \in {"connect", "drop"}

(***************************************************************************)
(* Threads wait for each other in a circle only if one of the loops in it  *)
(* runs a failed pull in RunFuctions: activations, forced closes, timeouts *)
(* and all handlers of events keep to one order of the locks.              *)
(***************************************************************************)
DeadlockOnlyInPull ==
  \A C \in SUBSET Threads : Deadlocked(C) => \E l \in C \cap Loops : PullsUnderLock(l)

(* A player that Clear has marked is still to be closed: its loop has the  *)
(* function in its queue, or the thread in Clear is about to post it.  No  *)
(* order of the threads loses a forced close.                              *)
ClosingIsUnderWay ==
  /\ TypeOK
  /\ \A l \in Loops : player[l] = "closing" =>
       \/ "close" \in Range(queue[l])
       \/ \E t \in Threads : Post(l, "close") \in Range(todo[t])
============================================================================
