----------------------------- MODULE TimingWheel -----------------------------
(***************************************************************************)
(* The timers of an EventLoop: four wheels of slots (TimingWheel), timers  *)
(* that are run once or periodically, and the idle timeout of connections. *)
(*                                                                         *)
(* A slot holds shared pointers.  A timer runs in the destructor of its    *)
(* entry, when the last slot that refers to it is emptied; an entry of a   *)
(* coarse wheel is wrapped in one whose destructor inserts it again for    *)
(* the rest of its delay.  A tick is one effective call of OnTimer: at     *)
(* most one a second.                                                      *)
(***************************************************************************)
EXTENDS Integers, Sequences, FiniteSets

CONSTANTS
  Seconds, Minutes, Hours, Days,  (* slots of the wheels: 60, 60, 24, 30      *)
  Timers,                         (* entries of RunAfter                      *)
  Periodics,                      (* entries of RunEvery                      *)
  Conns,                          (* TimeoutEntry of a connection             *)
  Delays,                         (* delays that are asked for                *)
  MaxTick                         (* bound on the ticks                       *)

ASSUME WheelAssumption ==
  /\ Seconds \in Nat \ {0, 1} /\ Minutes \in Nat \ {0, 1}
  /\ Hours \in Nat \ {0, 1} /\ Days \in Nat \ {0, 1}
  /\ Delays \subseteq Nat /\ MaxTick \in Nat

(* The entries of the three kinds are different objects. *)
ASSUME EntriesAssumption ==
  Timers \cap Periodics = {} /\ Timers \cap Conns = {} /\ Periodics \cap Conns = {}

Entries == Timers \cup Periodics \cup Conns

(* kTimingMinute, kTimingHour, kTimingDay *)
Minute == Seconds
Hour   == Minute * Minutes
Day    == Hour * Hours

Levels == 1 .. 4
Size == <<Seconds, Minutes, Hours, Days>>
Unit == <<1, Minute, Hour, Day>>

VARIABLES
  tick,       (* tick_                                                       *)
  wheels,     (* level -> slot -> the entries it refers to, and for how long *)
  pending,    (* the entries that exist                                      *)
  asked,      (* entry -> tick of its last insertion (0 if it does not exist) *)
  delay,      (* entry -> its delay (0 if it does not exist)                 *)
  open,       (* the connections that are not closed                         *)
  fired,      (* the entries that ran in the last step                       *)
  wild        (* an index outside a wheel was used                           *)

wheelVars == <<tick, wheels, pending, asked, delay, open, fired, wild>>

WheelInit ==
  /\ tick = 0
  /\ wheels = [l \in Levels |-> [i \in 1 .. Size[l] |-> {}]]
  /\ pending = {} /\ open = Conns /\ fired = {} /\ wild = FALSE
  /\ asked = [e \in Entries |-> 0]
  /\ delay = [e \in Entries |-> 0]

-----------------------------------------------------------------------------
(* InsertEntry: the wheel, the slot and the rest of a delay.                *)

LevelOf(d) ==
  IF d < Minute THEN 1 ELSE IF d < Hour THEN 2 ELSE IF d < Day THEN 3 ELSE 4

SlotOf(d) == d \div Unit[LevelOf(d)]

RestOf(d) == d % Unit[LevelOf(d)]

(* A delay of 0 lets go of the entry and goes on to slot 0; more than Days *)
(* days is reported and inserted all the same.                             *)
InRange(d) == SlotOf(d) \in 1 .. Size[LevelOf(d)]

(* InsertEntry for each [e, d] of a set. *)
InsertEntries(ws, S) ==
  [l \in Levels |-> [i \in 1 .. Size[l] |->
     ws[l][i] \cup {[e |-> s.e, rest |-> RestOf(s.d)] :
                      s \in {t \in S : LevelOf(t.d) = l /\ SlotOf(t.d) = i}}]]

(* PopUp drops the first slot of a wheel. *)
PopUp(ws, l) ==
  [ws EXCEPT ![l] = [i \in 1 .. Size[l] |-> IF i < Size[l] THEN ws[l][i + 1] ELSE {}]]

(* The wheel of level l has a turn at tick t. *)
Turns(l, t) == t % Unit[l] = 0

(* What the wrappers in the first slot of a coarse wheel insert. *)
UnwrappedLong(ws, l) == {[e |-> c.e, d |-> c.rest] : c \in {x \in ws[l][1] : x.rest >= Minute}}

Unwrapped(ws, l) == {[e |-> c.e, d |-> c.rest] : c \in ws[l][1]}

(* PopUp and the destructors that it runs, for a coarse wheel at tick t. *)
Dropped(ws, l, t) == IF Turns(l, t) THEN Unwrapped(ws, l) ELSE {}

PopUpCoarse(ws, l, t) ==
  IF Turns(l, t) THEN InsertEntries(PopUp(ws, l), Dropped(ws, l, t)) ELSE ws

RefersTo(ws, e) == \E l \in Levels : \E i \in 1 .. Size[l] : \E c \in ws[l][i] : c.e = e

-----------------------------------------------------------------------------

(* An entry is inserted, for the first time or again. *)
Insert(e, d) ==
  IF InRange(d)
  THEN /\ wheels' = InsertEntries(wheels, {[e |-> e, d |-> d]})
       /\ pending' = pending \cup {e}
       /\ asked' = [asked EXCEPT ![e] = tick]
       /\ delay' = [delay EXCEPT ![e] = d]
       /\ fired' = {}
       /\ UNCHANGED <<tick, open, wild>>
  ELSE wild' = TRUE /\ fired' = {} /\ UNCHANGED <<tick, wheels, pending, asked, delay, open>>

RunAfter(e, d) ==
  /\ e \in Timers \ pending
  /\ Insert(e, d)

RunEvery(e, d) ==
  /\ e \in Periodics \ pending
  /\ Insert(e, d)

EnableCheckIdleTimeout(c, d) ==
  /\ c \in open \ pending
  /\ Insert(c, d)

(* OnRead and OnWrite: the entry is inserted again, if there still is one. *)
ExtendLifeNotInserted(c) ==
  /\ c \in open /\ c \in pending
  /\ fired' = {}
  /\ asked' = [asked EXCEPT ![c] = tick]
  /\ UNCHANGED <<tick, wheels, pending, delay, open, wild>>

ExtendLife(c) ==
  /\ c \in open /\ c \in pending
  /\ Insert(c, delay[c])

(* The connection is closed otherwise; its entry stays in the wheel. *)
OnClose(c) ==
  /\ c \in open /\ c \in pending
  /\ open' = open \ {c}
  /\ fired' = {}
  /\ UNCHANGED <<tick, wheels, pending, asked, delay, wild>>

(***************************************************************************)
(* OnTimer.  Entries in the first slot of the finest wheel run, unless     *)
(* another slot refers to them.  RunEvery inserts the next one, a timer    *)
(* may be asked for again by what it runs (again), and OnTimeout closes a  *)
(* connection.  Then the coarse wheels have their turns.                   *)
(***************************************************************************)
OnTimer(again, d) ==
  LET now    == tick + 1
      rest   == PopUp(wheels, 1)
      runs   == {c.e : c \in {x \in wheels[1][1] : ~RefersTo(rest, x.e)}}
      next   == {[e |-> e, d |-> delay[e]] : e \in runs \cap Periodics}
                  \cup {[e |-> e, d |-> d] : e \in again}
      ws1    == InsertEntries(rest, next)
      ws2    == PopUpCoarse(ws1, 2, now)
      ws3    == PopUpCoarse(ws2, 3, now)
      insert == next \cup Dropped(ws1, 2, now) \cup Dropped(ws2, 3, now)
                  \cup Dropped(ws3, 4, now)
  IN  /\ again \subseteq runs \cap Timers
      /\ IF \A x \in insert : InRange(x.d)
         THEN /\ tick' = now
              /\ wheels' = PopUpCoarse(ws3, 4, now)
              /\ fired' = runs
              /\ pending' = (pending \ runs) \cup {x.e : x \in next}
              /\ asked' = [e \in Entries |->
                             IF \E x \in next : x.e = e THEN now
                             ELSE IF e \in runs THEN 0 ELSE asked[e]]
              /\ delay' = [e \in Entries |->
                             IF e \in again THEN d
                             ELSE IF e \in runs \ Periodics THEN 0 ELSE delay[e]]
              /\ open' = open \ runs
              /\ UNCHANGED wild
         ELSE wild' = TRUE /\ fired' = {} /\ UNCHANGED <<tick, wheels, pending, asked, delay, open>>

Tick ==
  /\ tick < MaxTick
  /\ \E again \in SUBSET Timers, d \in Delays : OnTimer(again, d)

WheelNext ==
  /\ ~wild
  /\ \/ Tick
     \/ \E e \in Entries, d \in Delays :
          RunAfter(e, d) \/ RunEvery(e, d) \/ EnableCheckIdleTimeout(e, d)
     \/ \E c \in Conns : ExtendLife(c) \/ OnClose(c)

WheelSpec == WheelInit /\ [][WheelNext]_wheelVars

-----------------------------------------------------------------------------
(* Properties                                                               *)

(* The type of the wheels and of what is known of the entries. *)
WheelType ==
  /\ tick \in 0 .. MaxTick
  /\ DOMAIN wheels = Levels
  /\ \A l \in Levels :
       /\ DOMAIN wheels[l] = 1 .. Size[l]
       /\ \A i \in 1 .. Size[l] : wheels[l][i] \subseteq [e : Entries, rest : 0 .. Unit[l] - 1]
  /\ pending \subseteq Entries /\ fired \subseteq Entries /\ open \subseteq Conns
  /\ asked \in [Entries -> Nat] /\ delay \in [Entries -> Nat] /\ wild \in BOOLEAN

(***************************************************************************)
(* An entry that was asked for is in some slot until it runs, and nowhere  *)
(* afterwards: PopUp and the wrappers neither lose it nor keep it.         *)
(***************************************************************************)
PendingAreInWheel == \A e \in Entries : e \in pending <=> RefersTo(wheels, e)

(* The tick an entry is due, and how much earlier it may run. *)
Due(e) == asked[e] + delay[e]

Slack(d) == IF d < Minute THEN 0 ELSE Unit[LevelOf(d)]

(***************************************************************************)
(* Nothing runs late, a short delay is kept to the tick, and a longer one  *)
(* is cut short by less than one unit of its wheel, or by one unit if it   *)
(* was asked for by a timer that ran just before the wheel's turn.  For a  *)
(* connection this says that it is closed when it has been idle that long  *)
(* since the last time it was read or written, however many entries of     *)
(* former times there are.                                                 *)
(***************************************************************************)
RunsInTime ==
  [][\A e \in fired' : tick' <= Due(e) /\ tick' >= Due(e) - Slack(delay[e])]_wheelVars

(***************************************************************************)
(* The wheels are never used outside their slots, unless a delay is a      *)
(* whole number of minutes, or reaches past the last wheel: then           *)
(* InsertEntry is called with a rest of 0, lets go of the entry, and goes  *)
(* on to store it before the first slot, or finds no slot at all.          *)
(***************************************************************************)
StaysInWheels ==
  (\A d \in Delays : d % Minute # 0 /\ d \div Day <= Days) => ~wild

(* The wheels hold what was asked for and has not run, each in a slot.     *)
WheelsSound == WheelType /\ PendingAreInWheel /\ StaysInWheels

=============================================================================
