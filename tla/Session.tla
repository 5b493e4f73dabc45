------------------------------- MODULE Session -------------------------------
(***************************************************************************)
(* Sessions of one name and the users that join and leave them:            *)
(* live/Session, live/LiveService and live/user/User.                      *)
(*                                                                         *)
(* Every connection has a user and a loop thread of its own, and the task  *)
(* thread runs LiveService::OnTimer.  A section under Session::lock_ is    *)
(* one step.  LiveService::lock_ is held by OnTimer across several steps   *)
(* and by CreateSession and CloseSession in one.                           *)
(***************************************************************************)
EXTENDS Integers, FiniteSets

CONSTANTS
  Publishers,   (* connections that publish                                  *)
  Players,      (* connections that play                                     *)
  HasTargets,   (* the application has servers to pull the stream from       *)
  MaxSessions   (* bound on the sessions created under the name              *)

ASSUME SessionAssumption ==
  /\ Publishers \cap Players = {}
  /\ HasTargets \in BOOLEAN
  /\ MaxSessions \in Nat \ {0}

Users    == Publishers \cup Players
Sessions == 1 .. MaxSessions
NoUser   == "none"
NoSession == 0

ASSUME NoUserAssumption == NoUser \notin Users

VARIABLES
  current,    (* LiveService::sessions_: the session listed under the name    *)
  created,    (* sessions made so far                                         *)
  publisher,  (* session -> publisher_                                        *)
  players,    (* session -> players_                                          *)
  silent,     (* session -> no packet for the stream's timeout                *)
  idle,       (* session -> no player has left for stream_idle_time           *)
  at,         (* user -> the session it holds                                 *)
  pc,         (* user -> what its loop is doing                               *)
  destroyed,  (* user -> User::destroyed_                                     *)
  open,       (* user -> its connection is not closed                         *)
  forced,     (* user -> ForceClose was called                                *)
  victim,     (* user -> session that its CloseSession took off the list      *)
  timer       (* OnTimer: "rest", or "clear", then "erase", the listed session *)

sessVars == <<publisher, players, silent, idle>>
userVars == <<at, pc, destroyed, open, forced, victim>>
vars == <<current, created, sessVars, userVars, timer>>

Init ==
  /\ current = NoSession /\ created = 0
  /\ publisher = [s \in Sessions |-> NoUser]
  /\ players = [s \in Sessions |-> {}]
  /\ silent = [s \in Sessions |-> FALSE]
  /\ idle = [s \in Sessions |-> FALSE]
  /\ at = [u \in Users |-> NoSession]
  /\ pc = [u \in Users |-> "new"]
  /\ destroyed = [u \in Users |-> FALSE]
  /\ open = [u \in Users |-> TRUE]
  /\ forced = [u \in Users |-> FALSE]
  /\ victim = [u \in Users |-> NoSession]
  /\ timer = "rest"

ServiceLockFree == timer = "rest"

-----------------------------------------------------------------------------
(* OnPublish and OnPlay, in the loop of connection u.                       *)

(* CreateSession: the listed session, or a new one.                        *)
CreateSession(u) ==
  /\ pc[u] = "new" /\ open[u]
  /\ ServiceLockFree
  /\ \/ /\ current # NoSession
        /\ at' = [at EXCEPT ![u] = current]
        /\ UNCHANGED <<current, created>>
     \/ /\ current = NoSession /\ created < MaxSessions
        /\ created' = created + 1
        /\ current' = created + 1
        /\ at' = [at EXCEPT ![u] = created + 1]
  /\ pc' = [pc EXCEPT ![u] = "created"]
  /\ UNCHANGED <<sessVars, destroyed, open, forced, victim, timer>>

(* SetPublisher closes the publisher it replaces.                          *)
SetPublisher(u) ==
  LET old == publisher[at[u]]
      closes(v) == v = old /\ ~destroyed[v]
  IN  /\ pc[u] = "created" /\ u \in Publishers
      /\ destroyed' = [v \in Users |-> destroyed[v] \/ closes(v)]
      /\ forced' = [v \in Users |-> forced[v] \/ closes(v)]
      /\ publisher' = [publisher EXCEPT ![at[u]] = u]
      /\ pc' = [pc EXCEPT ![u] = "on"]
      /\ UNCHANGED <<current, created, players, silent, idle, at, open, victim, timer>>

(* AddPlayer inserts the player under the lock ...                         *)
InsertPlayerOfAnyType(u) ==
  /\ pc[u] = "created"
  /\ players' = [players EXCEPT ![at[u]] = @ \cup {u}]
  /\ pc' = [pc EXCEPT ![u] = "inserted"]
  /\ UNCHANGED <<current, created, publisher, silent, idle, at, destroyed, open,
                 forced, victim, timer>>

InsertPlayer(u) ==
  /\ pc[u] = "created" /\ u \in Players
  /\ players' = [players EXCEPT ![at[u]] = @ \cup {u}]
  /\ pc' = [pc EXCEPT ![u] = "inserted"]
  /\ UNCHANGED <<current, created, publisher, silent, idle, at, destroyed, open,
                 forced, victim, timer>>

(* ... and then looks for a publisher without it.  With none, and nowhere  *)
(* to pull the stream from, it closes the session of that name.            *)
FindPublisher(u) ==
  /\ pc[u] = "inserted"
  /\ pc' = [pc EXCEPT ![u] =
              IF publisher[at[u]] = NoUser /\ ~HasTargets THEN "close" ELSE "on"]
  /\ UNCHANGED <<current, created, sessVars, at, destroyed, open, forced, victim, timer>>

(* CloseSession takes whatever session is listed off the list ...          *)
EraseSessionWaits(u) ==
  /\ pc[u] = "close"
  /\ ServiceLockFree /\ current # NoSession
  /\ victim' = [victim EXCEPT ![u] = current]
  /\ current' = NoSession
  /\ pc' = [pc EXCEPT ![u] = "clear"]
  /\ UNCHANGED <<created, sessVars, at, destroyed, open, forced, timer>>

EraseSession(u) ==
  /\ pc[u] = "close"
  /\ ServiceLockFree
  /\ victim' = [victim EXCEPT ![u] = current]
  /\ current' = NoSession
  /\ pc' = [pc EXCEPT ![u] = IF current = NoSession THEN "on" ELSE "clear"]
  /\ UNCHANGED <<created, sessVars, at, destroyed, open, forced, timer>>

(***************************************************************************)
(* Session::Clear closes everyone in session s.  A publisher that is       *)
(* already being closed is left in publisher_: its own CloseUser will      *)
(* remove it.                                                              *)
(***************************************************************************)
ClearForgetsClose(s) ==
  LET members == players[s] \cup ({publisher[s]} \cap Users)
  IN  /\ destroyed' = [v \in Users |-> destroyed[v] \/ v \in members]
      /\ publisher' = [publisher EXCEPT ![s] = NoUser]
      /\ players' = [players EXCEPT ![s] = {}]
      /\ UNCHANGED <<forced, idle>>

Clear(s) ==
  LET members   == players[s] \cup ({publisher[s]} \cap Users)
      closes(v) == v \in members /\ ~destroyed[v]
  IN  /\ destroyed' = [v \in Users |-> destroyed[v] \/ closes(v)]
      /\ forced' = [v \in Users |-> forced[v] \/ closes(v)]
      /\ publisher' = [publisher EXCEPT ![s] =
                         IF @ \in Users /\ destroyed[@] THEN @ ELSE NoUser]
      /\ players' = [players EXCEPT ![s] = {}]
      /\ idle' = [idle EXCEPT ![s] = @ /\ ~\E v \in players[s] : closes(v)]

(* ... and clears that one.                                                *)
ClearSession(u) ==
  /\ pc[u] = "clear"
  /\ Clear(victim[u])
  /\ pc' = [pc EXCEPT ![u] = "on"]
  /\ UNCHANGED <<current, created, silent, at, open, victim, timer>>

-----------------------------------------------------------------------------
(* Leaving.  The connection closes because the peer left, timed out, or     *)
(* ForceClose was called; OnConnectionDestroy then calls CloseUser.         *)

OnClose(u) ==
  /\ open[u] /\ pc[u] \in {"new", "on"}
  /\ open' = [open EXCEPT ![u] = FALSE]
  /\ IF at[u] = NoSession \/ destroyed[u]
     THEN pc' = [pc EXCEPT ![u] = "gone"] /\ UNCHANGED destroyed
     ELSE /\ destroyed' = [destroyed EXCEPT ![u] = TRUE]
          /\ pc' = [pc EXCEPT ![u] = "leaving"]
  /\ UNCHANGED <<current, created, sessVars, at, forced, victim, timer>>

(* The locked part of CloseUser.                                           *)
CloseUserForgetsPlayer(u) ==
  /\ pc[u] = "leaving"
  /\ publisher' = IF u \in Publishers
                  THEN [publisher EXCEPT ![at[u]] = NoUser] ELSE publisher
  /\ pc' = [pc EXCEPT ![u] = "gone"]
  /\ UNCHANGED <<current, created, players, silent, idle, at, destroyed, open,
                 forced, victim, timer>>

CloseUser(u) ==
  /\ pc[u] = "leaving"
  /\ IF u \in Publishers
     THEN /\ publisher' = [publisher EXCEPT ![at[u]] = NoUser]
          /\ UNCHANGED <<players, idle>>
     ELSE /\ players' = [players EXCEPT ![at[u]] = @ \ {u}]
          /\ idle' = [idle EXCEPT ![at[u]] = FALSE]
          /\ UNCHANGED publisher
  /\ pc' = [pc EXCEPT ![u] = "gone"]
  /\ UNCHANGED <<current, created, silent, at, destroyed, open, forced, victim, timer>>

-----------------------------------------------------------------------------
(* LiveService::OnTimer, and time.                                          *)

IsTimeout(s) == silent[s] \/ (players[s] = {} /\ idle[s])

CheckTimeout ==
  /\ timer = "rest" /\ current # NoSession
  /\ IsTimeout(current)
  /\ timer' = "clear"
  /\ UNCHANGED <<current, created, sessVars, userVars>>

TimerClear ==
  /\ timer = "clear"
  /\ Clear(current)
  /\ timer' = "erase"
  /\ UNCHANGED <<current, created, silent, at, pc, open, victim>>

TimerErase ==
  /\ timer = "erase"
  /\ current' = NoSession
  /\ timer' = "rest"
  /\ UNCHANGED <<created, sessVars, userVars>>

(* The publisher's packets keep the stream of its session from timing out. *)
OnRecv(u) ==
  /\ u \in Publishers /\ pc[u] = "on" /\ open[u]
  /\ silent' = [silent EXCEPT ![at[u]] = FALSE]
  /\ UNCHANGED <<current, created, publisher, players, idle, userVars, timer>>

TimePasses(s) ==
  /\ s <= created
  /\ \/ silent' = [silent EXCEPT ![s] = TRUE] /\ UNCHANGED idle
     \/ idle' = [idle EXCEPT ![s] = TRUE] /\ UNCHANGED silent
  /\ UNCHANGED <<current, created, publisher, players, userVars, timer>>

-----------------------------------------------------------------------------
UserStep(u) ==
  \/ CreateSession(u) \/ SetPublisher(u) \/ InsertPlayer(u) \/ FindPublisher(u)
  \/ EraseSession(u) \/ ClearSession(u) \/ CloseUser(u)

TimerStep == CheckTimeout \/ TimerClear \/ TimerErase

Next ==
  \/ \E u \in Users : UserStep(u) \/ OnClose(u) \/ OnRecv(u)
  \/ TimerStep
  \/ \E s \in Sessions : TimePasses(s)

(***************************************************************************)
(* Fairness: a loop that is inside a handler goes on, a queued ForceClose  *)
(* is run, and OnTimer goes on once it has started.                        *)
(***************************************************************************)
Fairness ==
  /\ \A u \in Users :
       /\ WF_vars(UserStep(u) /\ pc[u] # "new")
       /\ SF_vars(EraseSession(u))
       /\ WF_vars(OnClose(u) /\ forced[u])
  /\ WF_vars(TimerClear \/ TimerErase)

Spec == Init /\ [][Next]_vars /\ Fairness

-----------------------------------------------------------------------------
(* Properties                                                               *)

(* The type of every variable. *)
TypeOK ==
  /\ current \in 0 .. created /\ created \in 0 .. MaxSessions
  /\ publisher \in [Sessions -> Publishers \cup {NoUser}]
  /\ players \in [Sessions -> SUBSET Players]
  /\ silent \in [Sessions -> BOOLEAN] /\ idle \in [Sessions -> BOOLEAN]
  /\ at \in [Users -> 0 .. created]
  /\ pc \in [Users -> {"new", "created", "inserted", "close", "clear", "on",
                       "leaving", "gone"}]
  /\ destroyed \in [Users -> BOOLEAN] /\ open \in [Users -> BOOLEAN]
  /\ forced \in [Users -> BOOLEAN]
  /\ victim \in [Users -> 0 .. created]
  /\ timer \in {"rest", "clear", "erase"}

(***************************************************************************)
(* A session holds no user that is destroyed, but for one whose own loop   *)
(* is about to remove it: CloseUser, SetPublisher and Clear may run for    *)
(* the same user at once, and whoever sets destroyed_ first does the rest. *)
(***************************************************************************)
RegisteredAreLive ==
  \A s \in Sessions :
    /\ publisher[s] # NoUser /\ destroyed[publisher[s]] => pc[publisher[s]] = "leaving"
    /\ \A u \in players[s] : destroyed[u] => pc[u] = "leaving"

(***************************************************************************)
(* Nobody is destroyed and left connected: a destroyed user whose          *)
(* connection is open has a ForceClose on its way.  (The others find       *)
(* destroyed_ set and do nothing.)                                         *)
(***************************************************************************)
DestroyedAreClosed == \A u \in Users : (destroyed[u] /\ open[u]) => forced[u]

(* Whoever is destroyed leaves for good. *)
DestroyedLeave == \A u \in Users : destroyed[u] ~> (pc[u] = "gone")

=============================================================================
