-------------------------------- MODULE Relay --------------------------------
(***************************************************************************)
(* Pulling a stream from other servers: live/relay/PullerRelay,            *)
(* live/relay/pull/RtmpPuller, and what mmedia/rtmp/RtmpClient and         *)
(* network/TcpClient do for them.                                          *)
(*                                                                         *)
(* One session is followed.  It shares the list of targets, and with it    *)
(* the count of retries and the stream name of each, with the other        *)
(* sessions of the application.  It makes one puller per target, each with *)
(* a client that is replaced on every attempt; nothing here is locked.     *)
(* Pull runs in the loop of the player that joins or in the loop of the    *)
(* puller whose connection closed; a call of it is one step.  What the     *)
(* remote servers do, and when, is nondeterministic.                       *)
(*                                                                         *)
(* The session is never freed once it pulls: OnDestroyed takes the context *)
(* of RTMP or HTTP off the connection of a player, but not the user, so    *)
(* that the two keep each other, and the user keeps the session.  This is  *)
(* why it does not matter here when a player leaves.                       *)
(***************************************************************************)
EXTENDS Integers, FiniteSets

CONSTANTS
  NumTargets,  (* servers listed under "pull"                                *)
  Delayed,     (* targets whose interval is not zero                         *)
  MaxRetry,    (* Target::max_retry                                          *)
  MaxJoins,    (* bound on the players that join                             *)
  MaxTimers    (* bound on the timers of one puller                          *)

Targets == 1 .. NumTargets

ASSUME RelayAssumption ==
  /\ NumTargets \in Nat \ {0} /\ Delayed \subseteq Targets
  /\ {MaxRetry, MaxJoins, MaxTimers} \subseteq Nat

(* publisher_ is nobody, somebody who pushes, or what a target sends.      *)
Nobody == 0
Pusher == NumTargets + 1

Open == {"connecting", "connected", "refused", "playing"}

VARIABLES
  rtmp,       (* targets whose protocol is rtmp                               *)
  retry,      (* target -> Target::retry                                      *)
  name,       (* target -> Target::stream_name: "none", "own" or "other"      *)
  sess,       (* the session: "new", "listed" or "unlisted"                   *)
  joins,      (* players that have joined                                     *)
  publisher,  (* publisher_                                                   *)
  index,      (* cur_target_index_ + 1; past the targets, it has given up     *)
  puller,     (* target -> "none", "live", "doomed" (its deletion is queued
                 in its loop) or "freed"                                      *)
  client,     (* target -> the connection of the puller's rtmp_client_        *)
  orphans,    (* target -> connections of clients the puller has deleted      *)
  timers,     (* target -> retries that wait for the interval                 *)
  tried,      (* targets that were dialled: history                           *)
  touched     (* what was used after it was freed: history                    *)

targetVars == <<rtmp, retry, name>>
sessVars   == <<sess, joins, publisher>>
pullVars   == <<index, puller, client, orphans, timers, tried, touched>>
vars == <<targetVars, sessVars, pullVars>>

Init ==
  /\ rtmp \in SUBSET Targets
  /\ retry = [t \in Targets |-> 0] /\ name = [t \in Targets |-> "none"]
  /\ sess = "new" /\ joins = 0 /\ publisher = Nobody
  /\ index = 0
  /\ puller = [t \in Targets |-> "none"]
  /\ client = [t \in Targets |-> "none"]
  /\ orphans = [t \in Targets |-> {}]
  /\ timers = [t \in Targets |-> 0]
  /\ tried = {} /\ touched = {}

(* current_target_, once there is one: it stays when there is no next.     *)
current == IF index > NumTargets THEN NumTargets ELSE index

-----------------------------------------------------------------------------
(***************************************************************************)
(* SelectTarget: the current target again while it has retries left, else  *)
(* the next one, else none and the session is closed.                      *)
(***************************************************************************)
again == index > 0 /\ retry[current] < MaxRetry
nextMissesLast == ~again /\ index + 1 < NumTargets
next == ~again /\ index < NumTargets
gives_up == ~again /\ ~next

(* cur_target_index_ + 1 after it; it counts on with every failure after   *)
(* the last target, which is not told apart.                               *)
selected ==
  CASE again    -> index
    [] next     -> index + 1
    [] gives_up -> NumTargets + 1

(* Pull calls the puller of u, which has been retried r times, at once or  *)
(* when the interval is over.  A target that is not RTMP has no puller.    *)
dialsWithoutPause(u, r) == u \in rtmp
dials(u, r) == u \in rtmp /\ (r = 0 \/ u \notin Delayed)
waits(u, r) == u \in rtmp /\ ~dials(u, r)

(* The connection of a client that is deleted stays open in its loop.      *)
orphaned(t, cl, gone) == IF t \in gone THEN {cl} \cap Open ELSE {}

(***************************************************************************)
(* Pull, in the loop of the puller of target t, or of a player (t is 0),   *)
(* when the clients and the orphans are cl and orph; failed says that the  *)
(* client of t is in its close callback and never connected.               *)
(*                                                                         *)
(* A new target replaces the puller; the old one is deleted on the spot if *)
(* this is its loop, else its loop is told to.  The last line of a close   *)
(* callback uses the connection, which only its client keeps if it never   *)
(* connected.  Pull goes on with the last target after CloseSession.       *)
(***************************************************************************)
Pull(t, cl, orph, failed) ==
  LET u     == IF next THEN index + 1 ELSE current
      r     == IF again THEN retry[u] + 1 ELSE retry[u]
      drops == {x \in Targets : x = current /\ puller[x] = "live" /\ next}
      now   == {x \in {u} : dials(u, r)}
      later == {x \in {u} : waits(u, r)}
  IN  \E gone \in IF t = current THEN {drops} ELSE {drops, {}} :
        /\ retry' = [retry EXCEPT ![u] = r]
        /\ name' = [name EXCEPT ![u] = IF next /\ @ = "none" THEN "own" ELSE @]
        /\ index' = selected
        /\ sess' = IF gives_up THEN "unlisted" ELSE sess
        /\ puller' = [x \in Targets |->
                        CASE x \in gone -> "freed"
                          [] x \in drops \ gone -> "doomed"
                          [] x = u /\ next /\ u \in rtmp -> "live"
                          [] OTHER -> puller[x]]
        /\ client' = [x \in Targets |-> CASE x \in now  -> "connecting"
                                          [] x \in gone \ now -> "none"
                                          [] OTHER -> cl[x]]
        /\ orphans' = [x \in Targets |-> orph[x] \cup orphaned(x, cl[x], gone \cup now)]
        /\ timers' = [x \in Targets |-> IF x \in later THEN timers[x] + 1 ELSE timers[x]]
        /\ tried' = tried \cup now
        /\ touched' = touched \cup {x \in {"client"} : failed /\ t \in gone \cup now}

(* Pull does nothing when somebody publishes.                              *)
MayPull(t, cl, orph, failed) ==
  IF publisher = Nobody
  THEN Pull(t, cl, orph, failed)
  ELSE /\ client' = cl /\ orphans' = orph
       /\ UNCHANGED <<retry, name, sess, index, puller, timers, tried, touched>>

-----------------------------------------------------------------------------
(* The other sessions of the application select targets and retry them.     *)
SelectedElsewhere(t) ==
  /\ name' = [name EXCEPT ![t] = IF @ = "none" THEN "other" ELSE @]
  /\ retry' = [retry EXCEPT ![t] = IF @ < MaxRetry THEN @ + 1 ELSE @]
  /\ UNCHANGED <<rtmp, sessVars, pullVars>>

-----------------------------------------------------------------------------
(* Players and publishers of this session.                                  *)

CreateSession ==
  /\ sess = "new"
  /\ sess' = "listed"
  /\ UNCHANGED <<targetVars, joins, publisher, pullVars>>

(* AddPlayer: every player that finds no publisher calls StartPullStream.  *)
AddPlayer ==
  /\ sess = "listed" /\ joins < MaxJoins
  /\ joins' = joins + 1
  /\ MayPull(0, client, orphans, FALSE)
  /\ UNCHANGED <<rtmp, publisher>>

(* OnTimer finds the session timed out.  Clear removes a publisher that    *)
(* pushes; one that was pulled has the type of a player and stays.         *)
Timeout ==
  /\ sess = "listed"
  /\ sess' = "unlisted"
  /\ publisher' = IF publisher = Pusher THEN Nobody ELSE publisher
  /\ UNCHANGED <<targetVars, joins, pullVars>>

(* SetPublisher for a user that pushes; the one it replaces is closed.     *)
Publish ==
  /\ sess = "listed" /\ publisher # Pusher
  /\ publisher' = Pusher
  /\ UNCHANGED <<targetVars, sess, joins, pullVars>>

Unpublish ==
  /\ publisher = Pusher
  /\ publisher' = Nobody
  /\ UNCHANGED <<targetVars, sess, joins, pullVars>>

-----------------------------------------------------------------------------
(***************************************************************************)
(* The connections of the puller of target t: its client's, or an orphan.  *)
(* Their callbacks go to the puller without asking whether it still        *)
(* exists.                                                                 *)
(***************************************************************************)
has(t, own, state) == IF own THEN client[t] = state ELSE state \in orphans[t]

(* The clients and the orphans when a connection changes its state.        *)
clients_after(t, own, to) == IF own THEN [client EXCEPT ![t] = to] ELSE client
orphans_after(t, own, from, to) ==
  IF own THEN orphans ELSE [orphans EXCEPT ![t] = (@ \ {from}) \cup ({to} \cap Open)]

(* What is gone of that which a callback of the puller of t uses.          *)
missing(t) == IF puller[t] = "freed" THEN {"puller"} ELSE {}

(* A step of a connection that only moves it, and uses what is in gone.    *)
Moves(t, own, from, to, gone) ==
  /\ client' = clients_after(t, own, to)
  /\ orphans' = orphans_after(t, own, from, to)
  /\ touched' = touched \cup gone
  /\ UNCHANGED <<retry, name, sess, index, puller, timers, tried>>

(* OnConnection(true): the client, if it still exists, starts to play.     *)
Connected(t, own) ==
  /\ has(t, own, "connecting")
  /\ Moves(t, own, "connecting", "connected",
           missing(t) \cup (IF own THEN {} ELSE {"client"}))
  /\ UNCHANGED <<rtmp, joins, publisher>>

OnPlayAnyName(t, own) ==
  /\ has(t, own, "connected")
  /\ Moves(t, own, "connected", "playing", missing(t))
  /\ publisher' = IF missing(t) = {} THEN t ELSE publisher
  /\ UNCHANGED <<rtmp, joins>>

(***************************************************************************)
(* The remote server starts the stream: RtmpPuller::OnPlay.  A stream that *)
(* is not the session's counts as a closed connection, but stays open.     *)
(***************************************************************************)
OnPlay(t, own) ==
  /\ has(t, own, "connected")
  /\ IF missing(t) # {}
     THEN Moves(t, own, "connected", "playing", missing(t)) /\ UNCHANGED publisher
     ELSE IF name[t] = "own"
     THEN Moves(t, own, "connected", "playing", {}) /\ publisher' = t
     ELSE /\ timers[current] < MaxTimers
          /\ MayPull(t, clients_after(t, own, "refused"),
                     orphans_after(t, own, "connected", "refused"), FALSE)
          /\ UNCHANGED publisher
  /\ UNCHANGED <<rtmp, joins>>

OnPullCloseOncePlayed(t, own, from) ==
  /\ has(t, own, from) /\ from \in Open
  /\ Moves(t, own, from, "closed", missing(t))
  /\ UNCHANGED <<rtmp, joins, publisher>>

(* The connection cannot be made, or either side closes it.                *)
OnPullClose(t, own, from) ==
  /\ has(t, own, from) /\ from \in Open
  /\ own \/ timers[current] < MaxTimers
  /\ IF missing(t) # {}
     THEN Moves(t, own, from, "closed", missing(t))
     ELSE MayPull(t, clients_after(t, own, "closed"),
                  orphans_after(t, own, from, "closed"), own /\ from = "connecting")
  /\ UNCHANGED <<rtmp, joins, publisher>>

(* The interval is over: RtmpPuller::Pull, through the pointer the timer   *)
(* has kept, makes a new client.                                           *)
TimerFires(t) ==
  /\ timers[t] > 0
  /\ timers' = [timers EXCEPT ![t] = @ - 1]
  /\ IF puller[t] = "freed"
     THEN touched' = touched \cup {"puller"} /\ UNCHANGED <<client, orphans, tried>>
     ELSE /\ client' = [client EXCEPT ![t] = "connecting"]
          /\ orphans' = [orphans EXCEPT ![t] = @ \cup orphaned(t, client[t], {t})]
          /\ tried' = tried \cup {t}
          /\ UNCHANGED touched
  /\ UNCHANGED <<targetVars, sessVars, index, puller>>

(* The queued deletion of a puller runs in its loop.                       *)
DeletePuller(t) ==
  /\ puller[t] = "doomed"
  /\ puller' = [puller EXCEPT ![t] = "freed"]
  /\ client' = [client EXCEPT ![t] = "none"]
  /\ orphans' = [orphans EXCEPT ![t] = @ \cup orphaned(t, client[t], {t})]
  /\ UNCHANGED <<targetVars, sessVars, index, timers, tried, touched>>

(* Nothing is claimed of a process that has used a puller after it was     *)
(* freed: it is not followed further.                                      *)
Intact == touched \subseteq {"client"}

Next ==
  /\ Intact
  /\ \/ CreateSession \/ AddPlayer \/ Timeout
     \/ Publish \/ Unpublish
     \/ \E t \in Targets :
          \/ SelectedElsewhere(t) \/ TimerFires(t) \/ DeletePuller(t)
          \/ \E own \in BOOLEAN :
               \/ Connected(t, own) \/ OnPlay(t, own)
               \/ \E from \in Open : OnPullClose(t, own, from)

(***************************************************************************)
(* Timers fire, and an attempt to connect succeeds or fails: the kernel    *)
(* gives up on a server that does not answer.  The remote server owes      *)
(* nothing once it is connected.                                           *)
(***************************************************************************)
Fairness ==
  \A t \in Targets :
    /\ WF_vars(Intact /\ TimerFires(t))
    /\ WF_vars(Intact /\ (Connected(t, TRUE) \/ OnPullClose(t, TRUE, "connecting")))

Spec == Init /\ [][Next]_vars /\ Fairness

-----------------------------------------------------------------------------
(* Properties.                                                              *)

(* Every variable of the relay has the values the code can give it.        *)
TypeOK ==
  /\ rtmp \subseteq Targets
  /\ retry \in [Targets -> 0 .. MaxRetry]
  /\ name \in [Targets -> {"none", "own", "other"}]
  /\ sess \in {"new", "listed", "unlisted"} /\ joins \in 0 .. MaxJoins
  /\ publisher \in 0 .. Pusher /\ index \in 0 .. NumTargets + 1
  /\ puller \in [Targets -> {"none", "live", "doomed", "freed"}]
  /\ client \in [Targets -> Open \cup {"none", "closed"}]
  /\ orphans \in [Targets -> SUBSET Open]
  /\ timers \in [Targets -> Nat]
  /\ tried \subseteq Targets
  /\ touched \subseteq {"client", "puller"}

(* The session publishes only what was pulled under its own name, although *)
(* the first session that selects a target names the stream for all.       *)
PullsOwnStream == TypeOK /\ (publisher \in Targets => name[publisher] = "own")

(* The session has been joined once, is still listed, and has named the    *)
(* streams of the targets it has selected.                                 *)
Alone == joins = 1 /\ sess = "listed" /\ \A t \in 1 .. current : name[t] = "own"

OneAttemptAtATime ==
  Cardinality({x \in Targets \X Open : client[x[1]] = x[2] \/ x[2] \in orphans[x[1]]})
    + Cardinality({x \in Targets \X (1 .. MaxTimers) : x[2] <= timers[x[1]]}) <= 1

(***************************************************************************)
(* A relay that nobody starts a second time has at most one attempt under  *)
(* way: one timer, or one connection.  It never uses a puller that is      *)
(* gone; a client that is gone only in its own close callback, and only    *)
(* when the next attempt follows at once or the relay has moved to another *)
(* target.                                                                 *)
(***************************************************************************)
AloneIsSafe ==
  Alone => /\ OneAttemptAtATime
           /\ touched \subseteq {"client"}
           /\ index = 1 /\ 1 \in Delayed => touched = {}

(* The relay of a lone player gives up only after it has dialled every     *)
(* target.                                                                 *)
GivesUpAfterAll == joins = 1 /\ index > NumTargets => tried = Targets

(* If all targets speak RTMP and nobody pushes the stream meanwhile, a     *)
(* player that joins sees the session get a connection to a server, a      *)
(* pulled publisher (lost or not), or an end.                              *)
RelayDecides ==
  \/ <>(publisher = Pusher)
  \/ (joins > 0 /\ rtmp = Targets) ~>
       \/ publisher # Nobody \/ sess # "listed" \/ ~Intact
       \/ \E t \in Targets : client[t] \in Open \ {"connecting"}
============================================================================
