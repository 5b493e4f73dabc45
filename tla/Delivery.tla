------------------------------ MODULE Delivery ------------------------------
(***************************************************************************)
(* How a packet of the publisher gets a player's loop to send: the active_ *)
(* flag and the loop's function queue (network/net/Connection, EventLoop), *)
(* PostFrames step by step (live/user/RtmpPlayerUser), the sending_ flag   *)
(* of the context (mmedia/rtmp/RtmpContext) and the edge-triggered events  *)
(* of the player's socket (EventLoop::Loop, TcpConnection).                *)
(*                                                                         *)
(* Two threads: the publisher's, which adds packets and activates the      *)
(* player, and the player's loop.  The packets themselves are those of     *)
(* module Stream; here they are a number, backlog.                         *)
(***************************************************************************)
EXTENDS Integers

CONSTANTS
  StartUp,      (* packets that always activate (300 in the code)            *)
  Period,       (* afterwards every Period-th packet activates (5)           *)
  BatchSize,    (* packets one GetFrames takes (10)                          *)
  MaxFunctions, (* bound on the activations queued in functions_             *)
  MaxBacklog,   (* bound on backlog; beyond it the player is overrun         *)
  PeerSends     (* whether a peer sends data of its own (acknowledgements)   *)

ASSUME DeliveryAssumption ==
  /\ Period \in Nat \ {0}
  /\ StartUp \in Nat /\ StartUp % Period = 0
  /\ BatchSize \in Nat \ {0}
  /\ MaxFunctions \in Nat \ {0}
  /\ MaxBacklog \in Nat /\ MaxBacklog > Period
  /\ PeerSends \subseteq BOOLEAN

VARIABLES
  frame,      (* frame_index_, counted up to StartUp and then modulo Period   *)
  keyed,      (* Stream::ready_: there has been a key frame                   *)
  media,      (* Stream::HasMedia: there has been a codec header              *)
  recent,     (* the newest GOP is within content_latency of latest_timestamp *)
  located,    (* PlayerUser::out_index_ is set: LocateGop has found a GOP     *)
  backlog,    (* packets in the ring the player's cursor has not reached      *)
  pub,        (* publisher thread: "idle", "load" active_, "push" a function  *)
  active,     (* Connection::active_                                          *)
  functions,  (* activations queued in EventLoop::functions_                  *)
  pc,         (* player's loop thread                                         *)
  locked,     (* the loop holds EventLoop::lock_, in RunFuctions              *)
  held,       (* what the PlayerUser holds: up to three headers, and frames   *)
  sending,    (* RtmpContext::sending_                                        *)
  writing,    (* the socket's write interest (Event::event_)                  *)
  full,       (* the socket's send buffer is full                             *)
  unread,     (* the peer's data is waiting in the socket                     *)
  queued,     (* the socket is on epoll's ready list                          *)
  talks,      (* this peer sends data of its own                              *)
  since       (* history: packets added since the player was deactivated      *)

streamVars == <<frame, keyed, media, recent, located, backlog>>
pubVars  == <<streamVars, pub, since, talks>>
sockVars == <<writing, full, unread, queued, talks>>
vars     == <<pubVars, active, functions, pc, locked, held, sending, sockVars>>

Min2(a, b) == IF a < b THEN a ELSE b

(* What PostFrames asks of the stream first.                               *)
Ready == keyed /\ media

(* The player joins a stream that may have had any packets before.         *)
Init ==
  /\ frame \in 0 .. StartUp + Period - 1 /\ backlog \in 0 .. MaxBacklog
  /\ keyed \in BOOLEAN /\ media \in BOOLEAN /\ recent \in BOOLEAN
  /\ (keyed \/ media => backlog > 0) /\ (recent => keyed)
  /\ located = FALSE /\ pub = "idle"
  /\ since = 0 /\ talks \in PeerSends
  /\ active = FALSE
  /\ functions = 1             \* the Active() of Session::AddPlayer
  /\ pc = "wait" /\ locked = FALSE
  /\ held = 0 /\ sending = FALSE
  /\ writing = FALSE /\ full = FALSE /\ unread = FALSE /\ queued = FALSE

-----------------------------------------------------------------------------
(* The publisher's thread                                                   *)

ActivatesAtStartUp == frame < StartUp

Activates == frame < StartUp \/ frame % Period = 0
NextFrame == IF frame + 1 = StartUp + Period THEN StartUp ELSE frame + 1

(* The locked part of Stream::AddPacket.  A key frame begins a GOP of its  *)
(* own timestamp; after any other packet the newest GOP may be too old for *)
(* GetGopByLatency, or expired, or, the clock having gone back, good again. *)
AddPacket(key, header) ==
  /\ pub = "idle"
  /\ keyed' = (keyed \/ key)
  /\ media' = (media \/ header)
  /\ recent' \in IF key THEN {TRUE} ELSE IF keyed THEN BOOLEAN ELSE {FALSE}
  /\ backlog' = Min2(backlog + 1, MaxBacklog)
  /\ since' = Min2(since + 1, MaxBacklog)
  /\ pub' = IF Activates THEN "load" ELSE "idle"
  /\ frame' = NextFrame
  /\ UNCHANGED <<located, active, functions, pc, locked, held, sending, sockVars>>

(* Connection::Active: nothing to do for an active player.                 *)
LoadActive ==
  /\ pub = "load"
  /\ pub' = IF active THEN "idle" ELSE "push"
  /\ UNCHANGED <<streamVars, since, active, functions, pc, locked, held, sending,
                 sockVars>>

(* EventLoop::RunInLoop from another thread: needs EventLoop::lock_.       *)
PushFunction ==
  /\ pub = "push"
  /\ ~locked
  /\ functions < MaxFunctions
  /\ functions' = functions + 1
  /\ pub' = "idle"
  /\ UNCHANGED <<streamVars, since, active, pc, locked, held, sending, sockVars>>

-----------------------------------------------------------------------------
(* The player's loop.  epoll_wait also returns after its timeout, so the    *)
(* loop never waits for good.                                               *)

(* The ready list holds the socket: the mask is what is true of it now.    *)
CanWrite == writing /\ ~full

(* EPOLLIN first and EPOLLOUT in an else: one handler per event.           *)
Dispatch(readable, writable) ==
  IF readable THEN "read" ELSE IF writable THEN "write" ELSE "run"

EpollWait ==
  /\ pc = "wait"
  /\ pc' = IF queued THEN Dispatch(unread, CanWrite) ELSE "run"
  /\ queued' = FALSE
  /\ UNCHANGED <<pubVars, active, functions, locked, held, sending, writing,
                 full, unread>>

(* TcpConnection::OnRead reads until the socket is empty.                  *)
OnRead ==
  /\ pc = "read"
  /\ unread' = FALSE
  /\ pc' = "run"
  /\ UNCHANGED <<pubVars, active, functions, locked, held, sending, writing,
                 full, queued>>

(* TcpConnection::OnWrite writes until all is written, which clears the    *)
(* write interest and calls CheckAndSend and so PostFrames ...             *)
OnWriteAllStillSending ==
  /\ pc = "write"
  /\ writing' = FALSE
  /\ queued' = unread
  /\ pc' = "check"
  /\ UNCHANGED <<pubVars, active, functions, locked, held, sending, full, unread>>

OnWriteAll ==
  /\ pc = "write"
  /\ writing' = FALSE
  /\ queued' = unread          \* EPOLL_CTL_MOD looks at the socket again
  /\ sending' = FALSE
  /\ pc' = "check"
  /\ UNCHANGED <<pubVars, active, functions, locked, held, full, unread>>

(* ... or until the send buffer is full.                                   *)
OnWriteSome ==
  /\ pc = "write"
  /\ full' = TRUE
  /\ pc' = "run"
  /\ UNCHANGED <<pubVars, active, functions, locked, held, sending, writing,
                 unread, queued>>

(* EventLoop::RunFuctions runs the queue to its end under lock_; each      *)
(* function is the one Connection::Active queued.                          *)
LockFunctions ==
  /\ pc = "run" /\ ~locked
  /\ locked' = TRUE
  /\ UNCHANGED <<pubVars, active, functions, pc, held, sending, sockVars>>

RunFunctionOfEmpty ==
  /\ pc = "run" /\ locked
  /\ functions' = functions - 1
  /\ active' = TRUE
  /\ pc' = "check"
  /\ UNCHANGED <<pubVars, locked, held, sending, sockVars>>

RunFunction ==
  /\ pc = "run" /\ locked
  /\ functions > 0
  /\ functions' = functions - 1
  /\ active' = TRUE
  /\ pc' = "check"
  /\ UNCHANGED <<pubVars, locked, held, sending, sockVars>>

UnlockFunctions ==
  /\ pc = "run" /\ locked
  /\ functions = 0
  /\ locked' = FALSE
  /\ pc' = "wait"
  /\ UNCHANGED <<pubVars, active, functions, held, sending, sockVars>>

(* PostFrames reads Stream::Ready without a lock ...                       *)
CheckReadyNoDeactive ==
  /\ pc = "check"
  /\ pc' = IF Ready THEN "get" ELSE "run"
  /\ UNCHANGED <<pubVars, active, functions, locked, held, sending, sockVars>>

CheckReady ==
  /\ pc = "check"
  /\ pc' = IF Ready THEN "get" ELSE "deactivate"
  /\ UNCHANGED <<pubVars, active, functions, locked, held, sending, sockVars>>

(* ... takes frames under Stream::lock_, unless it still holds some or     *)
(* LocateGop finds no GOP that is recent enough.  LocateGop and SkipFrame  *)
(* may move the cursor and give headers; which ones is in module Stream,   *)
(* where LocateIsAllOrNothing excludes that LocateGop misses a header ...  *)
Take ==
  \E left \in 1 .. backlog, headers \in 0 .. 3 :
    /\ backlog' = IF left > BatchSize THEN left - BatchSize ELSE 0
    /\ held' = headers + 1
    /\ located' = TRUE

GetFrames ==
  /\ pc = "get"
  /\ IF held = 0 /\ backlog > 0 /\ (located \/ recent)
     THEN Take
     ELSE UNCHANGED <<backlog, held, located>>
  /\ pc' = IF held' > 0 THEN "act" ELSE "deactivate"
  /\ UNCHANGED <<frame, keyed, media, recent, pub, since, active, functions, locked,
                 sending, sockVars>>

(* ... and hands one header, or all frames, to the connection if the       *)
(* context is not sending.                                                 *)
PushFramesNoWriting ==
  /\ pc = "act"
  /\ pc' = "run"
  /\ IF sending
     THEN UNCHANGED <<held, sending>>
     ELSE held' = held - 1 /\ sending' = TRUE
  /\ UNCHANGED <<pubVars, active, functions, locked, sockVars>>

PushFrames ==
  /\ pc = "act"
  /\ pc' = "run"
  /\ IF sending
     THEN UNCHANGED <<held, sending, writing, queued>>
     ELSE /\ held' = held - 1
          /\ sending' = TRUE
          /\ writing' = TRUE
          /\ queued' = (queued \/ unread \/ ~full)
  /\ UNCHANGED <<pubVars, active, functions, locked, full, unread>>

Deactive ==
  /\ pc = "deactivate"
  /\ active' = FALSE
  /\ since' = 0
  /\ pc' = "run"
  /\ UNCHANGED <<streamVars, pub, functions, locked, held, sending, sockVars>>

-----------------------------------------------------------------------------
(* The peer                                                                 *)

PeerWrites ==
  /\ talks
  /\ unread' = TRUE
  /\ queued' = TRUE
  /\ UNCHANGED <<pubVars, active, functions, pc, locked, held, sending, writing, full>>

(* The peer takes what was sent: room again in a full send buffer.         *)
PeerDrains ==
  /\ full
  /\ full' = FALSE
  /\ queued' = (queued \/ writing)
  /\ UNCHANGED <<pubVars, active, functions, pc, locked, held, sending, writing, unread>>

LoopStep ==
  \/ EpollWait \/ OnRead \/ OnWriteAll \/ OnWriteSome
  \/ LockFunctions \/ RunFunction \/ UnlockFunctions
  \/ CheckReady \/ GetFrames \/ PushFrames \/ Deactive

Next ==
  \/ \E key, header \in BOOLEAN : AddPacket(key, header)
  \/ LoadActive \/ PushFunction
  \/ LoopStep
  \/ PeerWrites \/ PeerDrains

(***************************************************************************)
(* Fairness: the loop thread and the publisher's thread keep running, a    *)
(* thread that waits for EventLoop::lock_ gets it in the end, the          *)
(* publisher keeps sending packets, the peer keeps reading, and a finite   *)
(* list of buffers is not written in infinitely many pieces.  Nothing is   *)
(* assumed of how often a packet is a key frame.                           *)
(***************************************************************************)
Fairness ==
  /\ WF_vars(LoopStep)
  /\ WF_vars(LoadActive) /\ SF_vars(PushFunction)
  /\ WF_vars(\E key, header \in BOOLEAN : AddPacket(key, header))
  /\ WF_vars(PeerDrains)
  /\ SF_vars(OnWriteAll)

Spec == Init /\ [][Next]_vars /\ Fairness

-----------------------------------------------------------------------------
(* Properties                                                               *)

(* The type of every variable. *)
TypeOK ==
  /\ frame \in 0 .. StartUp + Period - 1
  /\ backlog \in 0 .. MaxBacklog /\ since \in 0 .. MaxBacklog
  /\ pub \in {"idle", "load", "push"}
  /\ functions \in 0 .. MaxFunctions
  /\ pc \in {"wait", "read", "write", "run", "check", "get", "act", "deactivate"}
  /\ keyed \in BOOLEAN /\ media \in BOOLEAN /\ recent \in BOOLEAN
  /\ located \in BOOLEAN /\ active \in BOOLEAN /\ locked \in BOOLEAN
  /\ held \in 0 .. 4 /\ sending \in BOOLEAN
  /\ writing \in BOOLEAN /\ full \in BOOLEAN
  /\ unread \in BOOLEAN /\ queued \in BOOLEAN /\ talks \in BOOLEAN

(***************************************************************************)
(* A player whose loop is at rest is active only while a write is under    *)
(* way, whose completion posts the next frames.  Otherwise the publisher   *)
(* would find active_ set for ever and never wake the player again, which  *)
(* is why PostFrames has to call Deactive on every path that sends nothing.*)
(***************************************************************************)
AtRest == pc = "wait" /\ functions = 0

ActiveMeansSending == (AtRest /\ active) => sending

(***************************************************************************)
(* The activation that finds active_ still set, just before the loop calls *)
(* Deactive, is lost with its packet.  The next activating packet makes it *)
(* good: a deactivated player at rest has been left alone by fewer than    *)
(* Period packets.                                                         *)
(***************************************************************************)
LostWakeupBounded ==
  (AtRest /\ ~active /\ pub = "idle") => since < Period

(***************************************************************************)
(* With a peer that only reads, a write under way always has an event on   *)
(* its way: the socket is on the ready list, or its buffer is full and     *)
(* will drain, or the loop is about to write.                              *)
(***************************************************************************)
WriteWillComplete ==
  (~talks /\ sending) => (writing /\ (queued \/ full \/ pc = "write"))

(***************************************************************************)
(* A player whose peer only reads gets what is published.  Once it has     *)
(* been located, packets in the ring of a ready stream make it take some,  *)
(* and what it holds is handed to its connection, headers and frames.      *)
(* Before that it may wait for good, in a stream whose GOPs are longer     *)
(* than content_latency; it is located if from some moment on the newest   *)
(* key frame is always recent enough, however its activations and the      *)
(* publisher's packets interleave.                                         *)
(***************************************************************************)
PacketsAreSent ==
  /\ (~talks /\ Ready /\ located /\ backlog > 0) ~> held > 0
  /\ (~talks /\ held > 0) ~> held = 0
  /\ (~talks /\ <>[](Ready /\ recent)) => <>located

=============================================================================
