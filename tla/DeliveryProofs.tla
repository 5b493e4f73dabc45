--------------------------- MODULE DeliveryProofs ---------------------------
(***************************************************************************)
(* Proofs about module Delivery for every start-up, period, batch and      *)
(* queue bound.                                                            *)
(***************************************************************************)
EXTENDS Delivery, TLAPS

(* The values that Init and Deactive give the counters are in range. *)
LEMMA InitialValues ==
  /\ 0 \in 0 .. StartUp + Period - 1
  /\ 0 \in 0 .. MaxBacklog
  /\ 1 \in 0 .. MaxFunctions
BY DeliveryAssumption

(* The two halves of the type: what is counted, and where things stand.    *)
Counts ==
  /\ frame \in 0 .. StartUp + Period - 1
  /\ backlog \in 0 .. MaxBacklog /\ since \in 0 .. MaxBacklog
  /\ functions \in 0 .. MaxFunctions /\ held \in 0 .. 4
  /\ pc = "act" => held > 0

Places ==
  /\ pub \in {"idle", "load", "push"}
  /\ pc \in {"wait", "read", "write", "run", "check", "get", "act", "deactivate"}

Flags ==
  /\ keyed \in BOOLEAN /\ media \in BOOLEAN /\ recent \in BOOLEAN
  /\ located \in BOOLEAN /\ active \in BOOLEAN /\ locked \in BOOLEAN
  /\ sending \in BOOLEAN /\ writing \in BOOLEAN /\ full \in BOOLEAN
  /\ unread \in BOOLEAN /\ queued \in BOOLEAN /\ talks \in BOOLEAN

LEMMA TypeParts == Counts /\ Places /\ Flags => TypeOK
BY Zenon DEF TypeOK, Counts, Places, Flags

(* What one GetFrames takes leaves a backlog within its bound. *)
LEMMA TakeCounts ==
  ASSUME backlog \in 0 .. MaxBacklog, Take
  PROVE  backlog' \in 0 .. MaxBacklog /\ held' \in 0 .. 4 /\ located' = TRUE
BY DeliveryAssumption DEF Take

(* Every step keeps the counters within their bounds. *)
LEMMA CountsKept == Counts /\ [Next]_vars => Counts'
<1> SUFFICES ASSUME Counts, [Next]_vars PROVE Counts'
  OBVIOUS
<1> USE DEF Counts, pubVars, streamVars
<1>1. ASSUME NEW key \in BOOLEAN, NEW header \in BOOLEAN, AddPacket(key, header)
      PROVE  Counts'
  <2>1. NextFrame \in 0 .. StartUp + Period - 1
    BY DeliveryAssumption DEF NextFrame
  <2>2. /\ Min2(backlog + 1, MaxBacklog) \in 0 .. MaxBacklog
        /\ Min2(since + 1, MaxBacklog) \in 0 .. MaxBacklog
    BY DeliveryAssumption DEF Min2
  <2>3. /\ frame' = NextFrame
        /\ backlog' = Min2(backlog + 1, MaxBacklog)
        /\ since' = Min2(since + 1, MaxBacklog)
        /\ functions' = functions /\ held' = held
    BY <1>1 DEF AddPacket
  <2>4. pc' = pc
    BY <1>1 DEF AddPacket
  <2> QED
    BY <2>1, <2>2, <2>3, <2>4
<1>2. CASE LoadActive \/ EpollWait \/ OnRead \/ OnWriteAll \/ OnWriteSome
  BY <1>2 DEF LoadActive, EpollWait, Dispatch, OnRead, OnWriteAll, OnWriteSome
<1>3. CASE PushFunction
  BY <1>3, DeliveryAssumption DEF PushFunction
<1>4. CASE RunFunction
  BY <1>4, DeliveryAssumption DEF RunFunction
<1>5. CASE LockFunctions \/ UnlockFunctions \/ CheckReady \/ PeerWrites \/ PeerDrains
  BY <1>5 DEF LockFunctions, UnlockFunctions, CheckReady, PeerWrites, PeerDrains
<1>6. CASE GetFrames
  <2>1. frame' = frame /\ since' = since /\ functions' = functions
    BY <1>6 DEF GetFrames
  <2>2. Take \/ (backlog' = backlog /\ held' = held)
    BY <1>6, Zenon DEF GetFrames
  <2>3. pc' = "act" => held' > 0
    BY <1>6 DEF GetFrames
  <2> QED
    BY <2>1, <2>2, <2>3, TakeCounts
<1>7. CASE PushFrames
  <2>1. /\ frame' = frame /\ backlog' = backlog /\ since' = since
        /\ functions' = functions
    BY <1>7 DEF PushFrames
  <2>2. pc = "act" /\ (held' = held \/ held' = held - 1)
    BY <1>7 DEF PushFrames
  <2>3. pc' = "run"
    BY <1>7 DEF PushFrames
  <2> QED
    BY <2>1, <2>2, <2>3
<1>8. CASE Deactive
  BY <1>8, InitialValues DEF Deactive
<1>9. CASE UNCHANGED vars
  BY <1>9 DEF vars
<1> QED
  BY <1>1, <1>2, <1>3, <1>4, <1>5, <1>6, <1>7, <1>8, <1>9 DEF Next, LoopStep

(* Every step leaves the publisher's and the player's thread at a place of *)
(* theirs.                                                                 *)
LEMMA PlacesKept == Places /\ [Next]_vars => Places'
<1> SUFFICES ASSUME Places, [Next]_vars PROVE Places'
  OBVIOUS
<1> USE DEF Places, pubVars
<1>1. CASE (\E key, header \in BOOLEAN : AddPacket(key, header)) \/ LoadActive \/ PushFunction
  BY <1>1 DEF AddPacket, LoadActive, PushFunction
<1>2. CASE EpollWait \/ OnRead \/ OnWriteAll \/ OnWriteSome
  BY <1>2 DEF EpollWait, Dispatch, OnRead, OnWriteAll, OnWriteSome
<1>3. CASE LockFunctions \/ RunFunction \/ UnlockFunctions
  BY <1>3 DEF LockFunctions, RunFunction, UnlockFunctions
<1>4. CASE CheckReady \/ Deactive
  BY <1>4 DEF CheckReady, Deactive
<1>5. CASE GetFrames
  <2>1. pub' = pub /\ pc' \in {"act", "deactivate"}
    BY <1>5 DEF GetFrames
  <2> QED
    BY <2>1
<1>6. CASE PushFrames
  <2>1. pub' = pub /\ pc' = "run"
    BY <1>6 DEF PushFrames
  <2> QED
    BY <2>1
<1>7. CASE PeerWrites \/ PeerDrains
  BY <1>7 DEF PeerWrites, PeerDrains
<1>8. CASE UNCHANGED vars
  BY <1>8 DEF vars
<1> QED
  BY <1>1, <1>2, <1>3, <1>4, <1>5, <1>6, <1>7, <1>8 DEF Next, LoopStep

(* Every step keeps the flags Boolean. *)
LEMMA FlagsKept == Flags /\ [Next]_vars => Flags'
<1> SUFFICES ASSUME Flags, [Next]_vars PROVE Flags'
  OBVIOUS
<1> USE DEF Flags, pubVars, streamVars, sockVars
<1>1. ASSUME NEW key \in BOOLEAN, NEW header \in BOOLEAN, AddPacket(key, header)
      PROVE  Flags'
  <2>1. keyed' \in BOOLEAN /\ media' \in BOOLEAN
    BY <1>1 DEF AddPacket
  <2>2. recent' \in BOOLEAN
    BY <1>1, Zenon DEF AddPacket
  <2>3. UNCHANGED <<located, active, locked, sending, sockVars>>
    BY <1>1 DEF AddPacket
  <2> QED
    BY <2>1, <2>2, <2>3, Zenon
<1>2. CASE LoadActive \/ PushFunction
  BY <1>2 DEF LoadActive, PushFunction
<1>3. CASE EpollWait \/ OnRead \/ OnWriteAll \/ OnWriteSome
  <2>1. CASE EpollWait
    BY <2>1, Zenon DEF EpollWait
  <2>2. CASE OnRead
    BY <2>2, Zenon DEF OnRead
  <2>3. CASE OnWriteAll
    BY <2>3, Zenon DEF OnWriteAll
  <2>4. CASE OnWriteSome
    BY <2>4, Zenon DEF OnWriteSome
  <2> QED
    BY <1>3, <2>1, <2>2, <2>3, <2>4
<1>4. CASE LockFunctions \/ RunFunction \/ UnlockFunctions
  <2>1. CASE LockFunctions
    BY <2>1, Zenon DEF LockFunctions
  <2>2. CASE RunFunction
    BY <2>2, Zenon DEF RunFunction
  <2>3. CASE UnlockFunctions
    BY <2>3, Zenon DEF UnlockFunctions
  <2> QED
    BY <1>4, <2>1, <2>2, <2>3
<1>5. CASE CheckReady \/ Deactive
  <2>1. CASE CheckReady
    BY <2>1 DEF CheckReady
  <2>2. CASE Deactive
    BY <2>2, Zenon DEF Deactive
  <2> QED
    BY <1>5, <2>1, <2>2
<1>6. CASE GetFrames
  <2>1. located' \in BOOLEAN
    BY <1>6, Zenon DEF GetFrames, Take
  <2> QED
    BY <1>6, <2>1, Zenon DEF GetFrames
<1>7. CASE PushFrames
  <2>1. sending' \in BOOLEAN /\ writing' \in BOOLEAN /\ queued' \in BOOLEAN
    BY <1>7, Zenon DEF PushFrames
  <2> QED
    BY <1>7, <2>1, Zenon DEF PushFrames
<1>8. CASE PeerWrites \/ PeerDrains
  <2>1. unread' \in BOOLEAN /\ full' \in BOOLEAN /\ queued' \in BOOLEAN
    BY <1>8, Zenon DEF PeerWrites, PeerDrains
  <2>2. UNCHANGED <<pubVars, active, locked, sending, writing>>
    BY <1>8, Zenon DEF PeerWrites, PeerDrains
  <2> QED
    BY <2>1, <2>2, Zenon
<1>9. CASE UNCHANGED vars
  BY <1>9 DEF vars
<1> QED
  BY <1>1, <1>2, <1>3, <1>4, <1>5, <1>6, <1>7, <1>8, <1>9, Zenon DEF Next, LoopStep

(* The type of Delivery is preserved by every step of both threads and of  *)
(* the peer.  That PushFrames, which hands over one header or all frames,  *)
(* finds something to hand over is part of the induction.                  *)
THEOREM TypeCorrect == Spec => []TypeOK
<1>1. Init => Counts
  BY InitialValues, DeliveryAssumption DEF Init, Counts
<1>2. Init => Places
  BY DEF Init, Places
<1>3. Init => Flags
  BY DeliveryAssumption, Zenon DEF Init, Flags
<1> QED
  BY <1>1, <1>2, <1>3, CountsKept, PlacesKept, FlagsKept, TypeParts, PTL DEF Spec
-----------------------------------------------------------------------------
(* Inside PostFrames the loop has not decided yet whether it will send.    *)
Posting == pc \in {"check", "get", "act", "deactivate"}

ActiveInv == active => (sending \/ Posting)

(***************************************************************************)
(* An active player has a write under way or its loop is inside PostFrames *)
(* (which ends by sending or by Deactive).  So the publisher's Active,     *)
(* which does nothing for an active player, never leaves a player that     *)
(* nothing else will wake.                                                 *)
(***************************************************************************)
THEOREM ActiveSends == Spec => []ActiveMeansSending
<1>1. Init => ActiveInv
  BY DEF Init, ActiveInv
<1>2. TypeOK /\ ActiveInv /\ [Next]_vars => ActiveInv'
  <2> SUFFICES ASSUME TypeOK, ActiveInv, [Next]_vars PROVE ActiveInv'
    OBVIOUS
  <2> USE DEF TypeOK, ActiveInv, Posting, pubVars, streamVars, sockVars
  <2>1. ASSUME NEW key \in BOOLEAN, NEW header \in BOOLEAN, AddPacket(key, header) PROVE ActiveInv'
    BY <2>1 DEF AddPacket
  <2>2. CASE LoadActive \/ PushFunction
    BY <2>2 DEF LoadActive, PushFunction
  <2>3. CASE EpollWait \/ OnRead \/ OnWriteSome
    BY <2>3 DEF EpollWait, OnRead, OnWriteSome
  <2>4. CASE OnWriteAll
    BY <2>4 DEF OnWriteAll
  <2>5. CASE LockFunctions \/ RunFunction \/ UnlockFunctions
    BY <2>5 DEF LockFunctions, RunFunction, UnlockFunctions
  <2>6. CASE CheckReady \/ GetFrames
    BY <2>6 DEF CheckReady, GetFrames, Take
  <2>7. CASE PushFrames \/ Deactive
    BY <2>7 DEF PushFrames, Deactive
  <2>8. CASE PeerWrites \/ PeerDrains
    BY <2>8 DEF PeerWrites, PeerDrains
  <2>9. CASE UNCHANGED vars
    BY <2>9 DEF vars
  <2> QED
    BY <2>1, <2>2, <2>3, <2>4, <2>5, <2>6, <2>7, <2>8, <2>9 DEF Next, LoopStep
<1>3. ActiveInv => ActiveMeansSending
  BY DEF ActiveInv, ActiveMeansSending, AtRest, Posting
<1> QED
  BY <1>1, <1>2, <1>3, TypeCorrect, PTL DEF Spec
-----------------------------------------------------------------------------
(* A bound on the packets that came after the last activating one.         *)
SinceActivation == IF frame > StartUp THEN frame - StartUp - 1 ELSE Period - 1

Unwoken == ~active /\ functions = 0 /\ pub = "idle"

WakeInv == Unwoken => since <= SinceActivation

(***************************************************************************)
(* The wake-up that Active loses by reading active_ just before the loop's *)
(* Deactive costs fewer than Period packets: the next activating packet    *)
(* finds active_ clear and queues a function.                              *)
(***************************************************************************)
THEOREM WakeupBounded == Spec => []LostWakeupBounded
<1>1. Init => WakeInv
  BY DEF Init, WakeInv, Unwoken
<1>2. TypeOK /\ WakeInv /\ [Next]_vars => WakeInv'
  <2> SUFFICES ASSUME TypeOK, WakeInv, [Next]_vars PROVE WakeInv'
    OBVIOUS
  <2> USE DeliveryAssumption DEF TypeOK, WakeInv, Unwoken, SinceActivation,
          pubVars, streamVars, sockVars
  <2>1. ASSUME NEW key \in BOOLEAN, NEW header \in BOOLEAN, AddPacket(key, header) PROVE WakeInv'
    <3>1. CASE Activates
      BY <2>1, <3>1, DeliveryAssumption DEF AddPacket
    <3>2. CASE ~Activates
      <4>1. frame > StartUp
        BY <3>2 DEF Activates
      <4>2. since' <= since + 1
        BY <2>1 DEF AddPacket, Min2
      <4> QED
        BY <2>1, <4>1, <4>2 DEF AddPacket, NextFrame, Min2
    <3> QED
      BY <3>1, <3>2
  <2>2. CASE LoadActive
    BY <2>2, DeliveryAssumption DEF LoadActive
  <2>3. CASE PushFunction
    BY <2>3, DeliveryAssumption DEF PushFunction
  <2>4. CASE EpollWait \/ OnRead \/ OnWriteAll \/ OnWriteSome
    BY <2>4 DEF EpollWait, OnRead, OnWriteAll, OnWriteSome
  <2>5. CASE LockFunctions \/ RunFunction \/ UnlockFunctions
    BY <2>5 DEF LockFunctions, RunFunction, UnlockFunctions
  <2>6. CASE CheckReady \/ GetFrames \/ PushFrames
    BY <2>6 DEF CheckReady, GetFrames, Take, PushFrames
  <2>7. CASE Deactive
    BY <2>7 DEF Deactive
  <2>8. CASE PeerWrites \/ PeerDrains
    BY <2>8 DEF PeerWrites, PeerDrains
  <2>9. CASE UNCHANGED vars
    BY <2>9 DEF vars
  <2> QED
    BY <2>1, <2>2, <2>3, <2>4, <2>5, <2>6, <2>7, <2>8, <2>9 DEF Next, LoopStep
<1>3. TypeOK /\ WakeInv => LostWakeupBounded
  BY DeliveryAssumption
     DEF TypeOK, WakeInv, Unwoken, SinceActivation, LostWakeupBounded, AtRest
<1> QED
  BY <1>1, <1>2, <1>3, TypeCorrect, PTL DEF Spec
-----------------------------------------------------------------------------
WriteInv == (~talks => ~unread /\ pc # "read") /\ WriteWillComplete

(***************************************************************************)
(* While the peer only reads, a write under way always has its completion  *)
(* event coming.  For a peer that also sends this does not hold: the loop  *)
(* may handle the read event of a report and drop its write event.          *)
(***************************************************************************)
THEOREM QuietWriteCompletes == Spec => []WriteWillComplete
<1>1. Init => WriteInv
  BY DEF Init, WriteInv, WriteWillComplete
<1>2. TypeOK /\ WriteInv /\ [Next]_vars => WriteInv'
  <2> SUFFICES ASSUME TypeOK, WriteInv, [Next]_vars PROVE WriteInv'
    OBVIOUS
  <2> USE DEF TypeOK, WriteInv, WriteWillComplete, pubVars, streamVars,
          sockVars
  <2>1. ASSUME NEW key \in BOOLEAN, NEW header \in BOOLEAN, AddPacket(key, header) PROVE WriteInv'
    BY <2>1 DEF AddPacket
  <2>2. CASE LoadActive \/ PushFunction
    BY <2>2 DEF LoadActive, PushFunction
  <2>3. CASE EpollWait
    BY <2>3 DEF EpollWait, Dispatch, CanWrite
  <2>4. CASE OnRead \/ OnWriteAll \/ OnWriteSome
    BY <2>4 DEF OnRead, OnWriteAll, OnWriteSome
  <2>5. CASE LockFunctions \/ RunFunction \/ UnlockFunctions
    BY <2>5 DEF LockFunctions, RunFunction, UnlockFunctions
  <2>6. CASE CheckReady \/ GetFrames \/ Deactive
    BY <2>6 DEF CheckReady, GetFrames, Take, Deactive
  <2>7. CASE PushFrames
    BY <2>7 DEF PushFrames
  <2>8. CASE PeerWrites \/ PeerDrains
    BY <2>8 DEF PeerWrites, PeerDrains
  <2>9. CASE UNCHANGED vars
    BY <2>9 DEF vars
  <2> QED
    BY <2>1, <2>2, <2>3, <2>4, <2>5, <2>6, <2>7, <2>8, <2>9 DEF Next, LoopStep
<1>3. WriteInv => WriteWillComplete
  BY DEF WriteInv
<1> QED
  BY <1>1, <1>2, <1>3, TypeCorrect, PTL DEF Spec
=============================================================================
