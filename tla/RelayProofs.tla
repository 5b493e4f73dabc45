----------------------------- MODULE RelayProofs -----------------------------
(***************************************************************************)
(* For any number of targets, retries and players: the session publishes   *)
(* only its own stream, and a relay that is started once makes one attempt *)
(* after the other, dials every target before it gives up, and uses no     *)
(* puller that is gone.                                                    *)
(***************************************************************************)
EXTENDS Relay, FiniteSetTheorems, TLAPS

(* Nobody joins before the session is listed.                              *)
JoinedAreCounted == sess = "new" => joins = 0

(* SelectTarget has named the stream of every target it has selected.      *)
SelectedAreNamed == \A t \in Targets : t <= index => name[t] # "none"

(* An attempt to pull from t is under way: a connection or a timer.        *)
Dialled(t)   == client[t] \in Open \/ orphans[t] # {}
Attempted(t) == Dialled(t) \/ timers[t] > 0

(***************************************************************************)
(* A relay that was started once.  Before a target is selected there is    *)
(* nothing of it; after it, its puller is gone.  The current target has a  *)
(* puller while an attempt is under way.                                   *)
(***************************************************************************)
NotSelected(t) == puller[t] = "none" /\ client[t] = "none" /\ orphans[t] = {} /\ timers[t] = 0

OneAfterTheOther ==
  joins <= 1 =>
    /\ joins = 0 => index = 0
    /\ index = 0 => touched = {}
    /\ \A t \in Targets : t > index => NotSelected(t)
    /\ \A t \in Targets : t < index /\ index <= NumTargets => puller[t] = "freed"
    /\ \A t \in Targets : t < NumTargets /\ index > NumTargets => puller[t] = "freed"
    /\ \A t \in Targets : t < index => t \in tried
    /\ \A t \in Targets : Dialled(t) => t \in tried
    /\ \A t \in Targets : t = current /\ Attempted(t) => puller[t] = "live"

(* When the names are its own as well, there is one attempt at a time, of  *)
(* the current target, and no connection without its client.               *)
OneAttempt ==
  Alone =>
    /\ \A t \in Targets : orphans[t] = {}
    /\ \A t \in Targets : t # current => ~Attempted(t)
    /\ \A t \in Targets : timers[t] <= 1 /\ (timers[t] = 1 => client[t] \notin Open)
    /\ touched \subseteq {"client"}
    /\ index = 1 /\ 1 \in Delayed => touched = {}

IInv ==
  /\ PullsOwnStream /\ JoinedAreCounted /\ SelectedAreNamed
  /\ OneAfterTheOther /\ OneAttempt

-----------------------------------------------------------------------------
States == Open \cup {"none", "closed"}

(* The constants, and where the relay is among its targets. *)
LEMMA Bounds ==
  ASSUME TypeOK
  PROVE  /\ NumTargets \in Nat \ {0} /\ MaxRetry \in Nat /\ MaxJoins \in Nat /\ MaxTimers \in Nat
         /\ Delayed \subseteq Targets /\ Targets = 1 .. NumTargets
         /\ index \in 0 .. NumTargets + 1
         /\ current = IF index > NumTargets THEN NumTargets ELSE index
         /\ index > 0 => current \in Targets
         /\ 0 \notin Targets /\ Nobody = 0 /\ Pusher = NumTargets + 1
BY RelayAssumption DEF TypeOK, Targets, current, Nobody, Pusher

(* SelectTarget goes one of three ways. *)
LEMMA Selects ==
  ASSUME TypeOK
  PROVE  /\ again => index > 0 /\ current \in Targets /\ retry[current] < MaxRetry /\ selected = index
         /\ next => ~again /\ index + 1 \in Targets /\ selected = index + 1 /\ current = index
         /\ gives_up => ~again /\ ~next /\ current = NumTargets /\ index >= NumTargets
                        /\ selected = NumTargets + 1
         /\ again \/ next \/ gives_up
<1>1. again => index > 0 /\ current \in Targets /\ retry[current] < MaxRetry /\ selected = index
  BY Bounds DEF again, selected, next, gives_up
<1>2. next => ~again /\ index + 1 \in Targets /\ selected = index + 1 /\ current = index
  BY Bounds DEF next, selected, gives_up
<1>3. gives_up => ~again /\ ~next /\ current = NumTargets /\ index >= NumTargets
                   /\ selected = NumTargets + 1
  BY Bounds DEF gives_up, next, selected
<1> QED
  BY <1>1, <1>2, <1>3 DEF gives_up

(* Pull, with names for the target u and its retries r, the pullers that   *)
(* it drops and deletes at once, and the targets that it dials now or      *)
(* later.                                                                  *)
PullsTo(t, cl, orph, failed, u, r, drops, gone, now, later) ==
  /\ u = IF next THEN index + 1 ELSE current
  /\ again => r > 0
  /\ drops = {x \in Targets : x = current /\ puller[x] = "live" /\ next}
  /\ gone \subseteq drops /\ (t = current => gone = drops)
  /\ now = {x \in {u} : dials(u, r)}
  /\ later = {x \in {u} : waits(u, r)}
  /\ retry' = [retry EXCEPT ![u] = r]
  /\ name' = [name EXCEPT ![u] = IF next /\ @ = "none" THEN "own" ELSE @]
  /\ index' = selected
  /\ sess' = IF gives_up THEN "unlisted" ELSE sess
  /\ puller' = [x \in Targets |->
                  IF x \in gone THEN "freed"
                  ELSE IF x \in drops THEN "doomed"
                  ELSE IF x = u /\ next /\ u \in rtmp THEN "live"
                  ELSE puller[x]]
  /\ client' = [x \in Targets |-> IF x \in now THEN "connecting"
                                   ELSE IF x \in gone THEN "none" ELSE cl[x]]
  /\ orphans' = [x \in Targets |-> orph[x] \cup orphaned(x, cl[x], gone \cup now)]
  /\ timers' = [x \in Targets |-> IF x \in later THEN timers[x] + 1 ELSE timers[x]]
  /\ tried' = tried \cup now
  /\ touched' = touched \cup {x \in {"client"} : failed /\ t \in gone \cup now}

(* Every call of Pull is such a step. *)
LEMMA PullUnfolds ==
  ASSUME TypeOK, NEW t \in 0 .. NumTargets, NEW cl, NEW orph, NEW failed \in BOOLEAN,
         Pull(t, cl, orph, failed)
  PROVE  \E u \in Targets, r \in 0 .. MaxRetry, drops \in SUBSET Targets, gone \in SUBSET Targets,
            now \in SUBSET Targets, later \in SUBSET Targets :
           PullsTo(t, cl, orph, failed, u, r, drops, gone, now, later)
<1> DEFINE u     == IF next THEN index + 1 ELSE current
           r     == IF again THEN retry[u] + 1 ELSE retry[u]
           drops == {x \in Targets : x = current /\ puller[x] = "live" /\ next}
           now   == {x \in {u} : dials(u, r)}
           later == {x \in {u} : waits(u, r)}
<1>1. PICK gone \in IF t = current THEN {drops} ELSE {drops, {}} :
        /\ retry' = [retry EXCEPT ![u] = r]
        /\ name' = [name EXCEPT ![u] = IF next /\ @ = "none" THEN "own" ELSE @]
        /\ index' = selected
        /\ sess' = IF gives_up THEN "unlisted" ELSE sess
        /\ puller' = [x \in Targets |->
                        CASE x \in gone -> "freed"
                          [] x \in drops \ gone -> "doomed"
                          [] x = u /\ next /\ u \in rtmp -> "live"
                          [] OTHER -> puller[x]]
        /\ client' = [x \in Targets |-> CASE x \in now  -> "connecting"
                                          [] x \in gone \ now -> "none"
                                          [] OTHER -> cl[x]]
        /\ orphans' = [x \in Targets |-> orph[x] \cup orphaned(x, cl[x], gone \cup now)]
        /\ timers' = [x \in Targets |-> IF x \in later THEN timers[x] + 1 ELSE timers[x]]
        /\ tried' = tried \cup now
        /\ touched' = touched \cup {x \in {"client"} : failed /\ t \in gone \cup now}
  BY Zenon DEF Pull
<1>2. u \in Targets
  BY Selects, Bounds
<1>3. r \in 0 .. MaxRetry /\ (again => r > 0)
  <2>1. retry[u] \in 0 .. MaxRetry /\ MaxRetry \in Nat
    BY <1>2, Bounds DEF TypeOK
  <2>2. again => retry[u] < MaxRetry
    BY Selects
  <2> HIDE DEF u
  <2> QED
    BY <2>1, <2>2
<1>4. gone \subseteq drops /\ (t = current => gone = drops)
  BY <1>1
<1>5. /\ drops \in SUBSET Targets /\ gone \in SUBSET Targets
      /\ now \in SUBSET Targets /\ later \in SUBSET Targets
  BY <1>2, <1>4
<1>7. drops = {x \in Targets : x = current /\ puller[x] = "live" /\ next}
  OBVIOUS
<1>8. now = {x \in {u} : dials(u, r)} /\ later = {x \in {u} : waits(u, r)}
  OBVIOUS
<1>10. u = IF next THEN index + 1 ELSE current
  OBVIOUS
<1> HIDE DEF u, r, drops, now, later
<1>11. sess' = IF gives_up THEN "unlisted" ELSE sess
  BY <1>1
<1>12. puller' = [x \in Targets |->
                   IF x \in gone THEN "freed"
                   ELSE IF x \in drops THEN "doomed"
                   ELSE IF x = u /\ next /\ u \in rtmp THEN "live"
                   ELSE puller[x]]
  <2>1. ASSUME NEW x \in Targets
        PROVE  (CASE x \in gone -> "freed"
                  [] x \in drops \ gone -> "doomed"
                  [] x = u /\ next /\ u \in rtmp -> "live"
                  [] OTHER -> puller[x])
               = (IF x \in gone THEN "freed"
                  ELSE IF x \in drops THEN "doomed"
                  ELSE IF x = u /\ next /\ u \in rtmp THEN "live"
                  ELSE puller[x])
    <3>1. x \in drops => ~(x = u /\ next)
      BY <1>7, <1>10, Selects, Bounds
    <3> QED
      BY <1>4, <3>1
  <2> QED
    BY <1>1, <2>1
<1>13. client' = [x \in Targets |-> IF x \in now THEN "connecting"
                                     ELSE IF x \in gone THEN "none" ELSE cl[x]]
  BY <1>1
<1> QED
  <2>1. PullsTo(t, cl, orph, failed, u, r, drops, gone, now, later)
    BY <1>1, <1>3, <1>4, <1>7, <1>8, <1>10, <1>11, <1>12, <1>13, Zenon DEF PullsTo
  <2> HIDE DEF PullsTo
  <2>2. \E later_ \in SUBSET Targets :
          PullsTo(t, cl, orph, failed, u, r, drops, gone, now, later_)
    BY <1>5, <2>1, Zenon
  <2>3. \E gone_ \in SUBSET Targets, now_ \in SUBSET Targets, later_ \in SUBSET Targets :
          PullsTo(t, cl, orph, failed, u, r, drops, gone_, now_, later_)
    BY <1>5, <2>2, Zenon
  <2> QED
    BY <1>2, <1>3, <1>5, <2>3, Zenon

-----------------------------------------------------------------------------
(* Pull keeps the types, the names it has given, and names what it selects. *)
LEMMA PullTypes ==
  ASSUME IInv, NEW t \in 0 .. NumTargets, NEW cl \in [Targets -> States],
         NEW orph \in [Targets -> SUBSET Open], NEW failed \in BOOLEAN,
         Pull(t, cl, orph, failed)
  PROVE  /\ retry' \in [Targets -> 0 .. MaxRetry]
         /\ name' \in [Targets -> {"none", "own", "other"}]
         /\ sess' \in {"new", "listed", "unlisted"} /\ index' \in 0 .. NumTargets + 1
         /\ puller' \in [Targets -> {"none", "live", "doomed", "freed"}]
         /\ client' \in [Targets -> Open \cup {"none", "closed"}]
         /\ orphans' \in [Targets -> SUBSET Open]
         /\ timers' \in [Targets -> Nat]
         /\ tried' \subseteq Targets /\ touched' \subseteq {"client", "puller"}
         /\ sess' \in {sess, "unlisted"}
         /\ \A x \in Targets : /\ name[x] = "own" => name'[x] = "own"
                               /\ name[x] # "none" => name'[x] = name[x]
                               /\ x <= index' => name'[x] # "none"
         /\ index <= index' /\ index' > 0
<1>1. TypeOK
  BY DEF IInv, PullsOwnStream
<1>2. PICK u \in Targets, r \in 0 .. MaxRetry, drops \in SUBSET Targets, gone \in SUBSET Targets,
           now \in SUBSET Targets, later \in SUBSET Targets :
        PullsTo(t, cl, orph, failed, u, r, drops, gone, now, later)
  BY <1>1, PullUnfolds, Zenon
<1>3. retry' \in [Targets -> 0 .. MaxRetry]
  BY <1>1, <1>2 DEF TypeOK, PullsTo
<1>4. name' \in [Targets -> {"none", "own", "other"}]
  BY <1>1, <1>2 DEF TypeOK, PullsTo
<1>5. index' \in 0 .. NumTargets + 1 /\ index <= index' /\ index' > 0
  <2>1. index' = selected
    BY <1>2 DEF PullsTo
  <2> QED
    BY <1>1, <2>1, Selects, Bounds
<1>6. sess' \in {"new", "listed", "unlisted"} /\ sess' \in {sess, "unlisted"}
  BY <1>1, <1>2 DEF TypeOK, PullsTo
<1>7. puller' \in [Targets -> {"none", "live", "doomed", "freed"}]
  BY <1>1, <1>2 DEF TypeOK, PullsTo
<1>8. client' \in [Targets -> Open \cup {"none", "closed"}]
  BY <1>2 DEF PullsTo, States, Open
<1>9. orphans' \in [Targets -> SUBSET Open]
  BY <1>2 DEF PullsTo, orphaned
<1>10. timers' \in [Targets -> Nat]
  BY <1>1, <1>2 DEF TypeOK, PullsTo
<1>11. tried' \subseteq Targets /\ touched' \subseteq {"client", "puller"}
  BY <1>1, <1>2 DEF TypeOK, PullsTo
<1>12. ASSUME NEW x \in Targets
       PROVE  /\ name[x] = "own" => name'[x] = "own"
              /\ name[x] # "none" => name'[x] = name[x]
              /\ x <= index' => name'[x] # "none"
  <2>1. name' = [name EXCEPT ![u] = IF next /\ @ = "none" THEN "own" ELSE @]
        /\ u = (IF next THEN index + 1 ELSE current) /\ index' = selected
    BY <1>2 DEF PullsTo
  <2>2. name[x] # "none" => name'[x] = name[x]
    BY <1>1, <2>1 DEF TypeOK
  <2>3. CASE x <= index
    BY <2>2, <2>3 DEF IInv, SelectedAreNamed
  <2>4. CASE ~(x <= index)
    <3>1. x <= index' => next /\ x = u
      BY <1>1, <2>1, <2>4, Selects, Bounds
    <3> QED
      BY <1>1, <2>1, <2>2, <3>1 DEF TypeOK
  <2> QED
    BY <2>2, <2>3, <2>4
<1> QED
  BY <1>3, <1>4, <1>5, <1>6, <1>7, <1>8, <1>9, <1>10, <1>11, <1>12

(***************************************************************************)
(* Pull in a relay that was started once: by its first player, or by the   *)
(* puller of the current target, which has been dialled.                   *)
(***************************************************************************)
StartedOnce(t, cl, orph) ==
  /\ joins' = 1 /\ joins <= 1
  /\ t = 0 => index = 0
  /\ t # 0 => t = current /\ puller[t] = "live" /\ t \in tried
  /\ \A x \in Targets : cl[x] \in Open \/ orph[x] # {} => x \in tried
  /\ \A x \in Targets : x > index => cl[x] = "none" /\ orph[x] = {}

(* Pull keeps the order of the targets. *)
LEMMA PullOneAfterTheOther ==
  ASSUME IInv, NEW t \in 0 .. NumTargets, NEW cl \in [Targets -> States],
         NEW orph \in [Targets -> SUBSET Open], NEW failed \in BOOLEAN,
         Pull(t, cl, orph, failed), StartedOnce(t, cl, orph)
  PROVE  OneAfterTheOther'
<1>1. TypeOK
  BY DEF IInv, PullsOwnStream
<1>2. PICK u \in Targets, r \in 0 .. MaxRetry, drops \in SUBSET Targets, gone \in SUBSET Targets,
           now \in SUBSET Targets, later \in SUBSET Targets :
        PullsTo(t, cl, orph, failed, u, r, drops, gone, now, later)
  BY <1>1, PullUnfolds, Zenon
<1>3. /\ u = IF next THEN index + 1 ELSE current
      /\ drops = {x \in Targets : x = current /\ puller[x] = "live" /\ next}
          /\ gone \subseteq drops /\ (t = current => gone = drops)
      /\ now \subseteq {u} /\ later \subseteq {u}
      /\ (u \in now \/ u \in later) => u \in rtmp
      /\ index' = selected
  BY <1>2 DEF PullsTo, dials, waits
<1>4. \A x \in Targets :
        /\ puller'[x] = IF x \in gone THEN "freed"
                        ELSE IF x \in drops THEN "doomed"
                        ELSE IF x = u /\ next /\ u \in rtmp THEN "live"
                        ELSE puller[x]
        /\ client'[x] = IF x \in now THEN "connecting" ELSE IF x \in gone THEN "none" ELSE cl[x]
        /\ orphans'[x] = orph[x] \cup orphaned(x, cl[x], gone \cup now)
        /\ timers'[x] = IF x \in later THEN timers[x] + 1 ELSE timers[x]
  BY <1>2 DEF PullsTo
<1>5. tried' = tried \cup now
  BY <1>2 DEF PullsTo
<1>6. /\ \A x \in Targets : x > index => NotSelected(x)
      /\ \A x \in Targets : x < index /\ index <= NumTargets => puller[x] = "freed"
      /\ \A x \in Targets : x < NumTargets /\ index > NumTargets => puller[x] = "freed"
      /\ \A x \in Targets : x < index => x \in tried
  BY DEF IInv, OneAfterTheOther, StartedOnce
<1>7. /\ index \in Int /\ index' \in Int /\ index' > 0 /\ index <= index'
      /\ NumTargets \in Nat \ {0} /\ Targets = 1 .. NumTargets
  BY <1>1, <1>3, Selects, Bounds
<1>8. ASSUME NEW x \in Targets, x > index' PROVE NotSelected(x)'
  <2>1. x # u /\ x # current /\ x > index
    BY <1>1, <1>3, <1>7, <1>8, Selects, Bounds
  <2>2. x \notin now /\ x \notin later /\ x \notin gone /\ x \notin drops
    BY <1>3, <2>1
  <2>3. cl[x] = "none" /\ orph[x] = {}
    BY <2>1 DEF StartedOnce
  <2> QED
    BY <1>4, <1>6, <2>1, <2>2, <2>3 DEF NotSelected, orphaned
<1>9. ASSUME NEW x \in Targets, x < index', index' <= NumTargets PROVE puller'[x] = "freed"
  <2>1. CASE x < index
    <3>1. puller[x] = "freed"
      BY <1>6, <1>7, <1>9, <2>1
    <3>2. x # u \/ ~next
      BY <1>3, <1>7, <2>1
    <3> QED
      BY <1>3, <1>4, <3>1, <3>2
  <2>2. CASE x >= index
    <3>1. next /\ x = index /\ x = current
      BY <1>1, <1>3, <1>7, <1>9, <2>2, Selects
    <3>2. t = current /\ puller[x] = "live"
      BY <1>7, <3>1 DEF StartedOnce
    <3> QED
      BY <1>3, <1>4, <3>1, <3>2
  <2> QED
    BY <1>7, <2>1, <2>2
<1>10. ASSUME NEW x \in Targets, x < NumTargets, index' > NumTargets PROVE puller'[x] = "freed"
  <2>1. index >= NumTargets /\ ~next
    BY <1>1, <1>3, <1>7, <1>10, Selects, Bounds
  <2>2. puller[x] = "freed"
    BY <1>6, <1>7, <1>10, <2>1
  <2> QED
    BY <1>3, <1>4, <2>1, <2>2
<1>11. ASSUME NEW x \in Targets, x < index' PROVE x \in tried'
  <2>1. CASE x < index
    BY <1>5, <1>6, <2>1
  <2>2. CASE x >= index
    <3>1. x = current
      BY <1>1, <1>3, <1>7, <1>11, <2>2, Selects, Bounds
    <3>2. t # 0
      BY <1>1, <1>3, <1>7, <1>11, <2>2, <3>1, Bounds DEF StartedOnce
    <3> QED
      BY <1>5, <3>1, <3>2 DEF StartedOnce
  <2> QED
    BY <1>7, <2>1, <2>2
<1>12. ASSUME NEW x \in Targets, Dialled(x)' PROVE x \in tried'
  <2>1. CASE x \in now
    BY <1>5, <2>1
  <2>2. CASE x \notin now
    <3>1. cl[x] \in Open \/ orph[x] # {}
      BY <1>4, <1>12, <2>2 DEF Dialled, orphaned, Open
    <3> QED
      BY <1>5, <3>1 DEF StartedOnce
  <2> QED
    BY <2>1, <2>2
<1>13. ASSUME NEW x \in Targets, x = current', Attempted(x)'
       PROVE  puller'[x] = "live"
  <2>2. current' = IF index' > NumTargets THEN NumTargets ELSE index'
    BY DEF current
  <2>3. CASE next
    <3>1. x = u /\ x = index + 1 /\ x # current
      BY <1>1, <1>3, <1>7, <1>13, <2>2, <2>3, Selects, Bounds
    <3>2. cl[x] = "none" /\ orph[x] = {} /\ timers[x] = 0
      BY <1>6, <1>7, <3>1 DEF StartedOnce, NotSelected
    <3>3. x \notin gone /\ x \notin drops
      BY <1>3, <3>1
    <3>4. x \in now \/ x \in later
      BY <1>4, <1>13, <3>2, <3>3 DEF Attempted, Dialled, orphaned, Open
    <3> QED
      BY <1>3, <1>4, <2>3, <3>1, <3>3, <3>4
  <2>4. CASE ~next
    <3>1. x = current /\ index > 0
      BY <1>1, <1>3, <1>7, <1>13, <2>2, <2>4, Selects, Bounds
    <3>2. t = x /\ puller[x] = "live"
      BY <1>7, <3>1 DEF StartedOnce
    <3>3. x \notin gone /\ x \notin drops
      BY <1>3, <2>4
    <3> QED
      BY <1>4, <2>4, <3>2, <3>3
  <2> QED
    BY <2>3, <2>4
<1>14. joins' = 1 /\ index' # 0
  BY <1>7 DEF StartedOnce
<1> QED
  BY <1>8, <1>9, <1>10, <1>11, <1>12, <1>13, <1>14 DEF OneAfterTheOther

(* Pull when nothing is under way: it starts the one attempt of the target *)
(* it selects.  It uses the client it has deleted if that one failed to    *)
(* connect, unless it is still at a first target that waits.               *)
LEMMA PullAlone ==
  ASSUME IInv, Intact, NEW t \in 0 .. NumTargets, NEW cl \in [Targets -> States],
         NEW orph \in [Targets -> SUBSET Open], NEW failed \in BOOLEAN,
         Pull(t, cl, orph, failed), joins <= 1,
         t = 0 => index = 0 /\ ~failed,
         t # 0 => t = current /\ Alone,
         \A x \in Targets : cl[x] \notin Open /\ orph[x] = {} /\ timers[x] = 0
  PROVE  OneAttempt'
<1> SUFFICES ASSUME Alone' PROVE OneAttempt'
  BY DEF OneAttempt
<1>1. TypeOK
  BY DEF IInv, PullsOwnStream
<1>2. PICK u \in Targets, r \in 0 .. MaxRetry, drops \in SUBSET Targets, gone \in SUBSET Targets,
           now \in SUBSET Targets, later \in SUBSET Targets :
        PullsTo(t, cl, orph, failed, u, r, drops, gone, now, later)
  BY <1>1, PullUnfolds
<1>3. /\ u = IF next THEN index + 1 ELSE current
      /\ again => r > 0
      /\ drops = {x \in Targets : x = current /\ puller[x] = "live" /\ next}
      /\ gone \subseteq drops
      /\ now = {x \in {u} : dials(u, r)}
      /\ later = {x \in {u} : waits(u, r)}
      /\ index' = selected
      /\ sess' = IF gives_up THEN "unlisted" ELSE sess
  BY <1>2 DEF PullsTo
<1>4. \A x \in Targets :
        /\ client'[x] = IF x \in now THEN "connecting" ELSE IF x \in gone THEN "none" ELSE cl[x]
        /\ orphans'[x] = orph[x] \cup orphaned(x, cl[x], gone \cup now)
        /\ timers'[x] = IF x \in later THEN timers[x] + 1 ELSE timers[x]
  BY <1>2 DEF PullsTo
<1>5. touched' = touched \cup {x \in {"client"} : failed /\ t \in gone \cup now}
  BY <1>2 DEF PullsTo
<1>6. ~gives_up
  BY <1>3 DEF Alone
<1>7. again \/ next
  BY <1>6 DEF gives_up
<1>8. current' = u
  <2>1. current' = IF index' > NumTargets THEN NumTargets ELSE index'
    BY DEF current
  <2> QED
    BY <1>1, <1>3, <1>7, <2>1, Selects, Bounds
<1>9. \A x \in Targets : orphans'[x] = {}
  BY <1>4 DEF orphaned
<1>10. ASSUME NEW x \in Targets, x # current' PROVE ~Attempted(x)'
  <2>1. x \notin now /\ x \notin later
    BY <1>3, <1>8, <1>10
  <2> QED
    BY <1>4, <1>9, <2>1 DEF Attempted, Dialled, Open
<1>11. ASSUME NEW x \in Targets
       PROVE  timers'[x] <= 1 /\ (timers'[x] = 1 => client'[x] \notin Open)
  <2>1. CASE x \in later
    <3>1. x \notin now
      BY <1>3, <2>1 DEF waits
    <3> QED
      BY <1>4, <2>1, <3>1 DEF Open
  <2>2. CASE x \notin later
    BY <1>4, <2>2
  <2> QED
    BY <2>1, <2>2
<1>12. touched' \subseteq {"client"}
  BY <1>5, <1>6 DEF Intact
<1>13. ASSUME index' = 1, 1 \in Delayed PROVE touched' = {}
  <2>1. CASE next
    <3>1. index = 0 /\ current = 0
      BY <1>1, <1>3, <1>13, <2>1, Selects, Bounds
    <3>2. t = 0 /\ touched = {}
      BY <3>1 DEF IInv, OneAfterTheOther
    <3> QED
      BY <1>5, <1>6, <3>1, <3>2
  <2>2. CASE again
    <3>1. index = 1 /\ ~next
      BY <1>1, <1>3, <1>13, <2>2, Selects
    <3>2. touched = {}
      BY <1>13, <3>1 DEF IInv, OneAttempt
    <3>3. gone = {}
      BY <1>3, <1>6, <3>1
    <3>4. now = {}
      BY <1>1, <1>3, <1>13, <2>2, <3>1, Bounds DEF dials
    <3> QED
      BY <1>5, <1>6, <3>2, <3>3, <3>4
  <2> QED
    BY <1>7, <2>1, <2>2
<1> QED
  BY <1>9, <1>10, <1>11, <1>12, <1>13 DEF OneAttempt

-----------------------------------------------------------------------------
(* The first state. *)
LEMMA InitIInv == Init => IInv
<1> SUFFICES ASSUME Init PROVE IInv
  OBVIOUS
<1>1. TypeOK
  BY RelayAssumption DEF Init, TypeOK, Targets, Nobody, Pusher
<1>2. 0 \notin Targets /\ \A t \in Targets : t > index
  BY RelayAssumption DEF Init, Targets
<1>3. PullsOwnStream
  BY <1>1, <1>2 DEF Init, PullsOwnStream, Nobody
<1>4. JoinedAreCounted /\ SelectedAreNamed
  BY <1>2, RelayAssumption DEF Init, JoinedAreCounted, SelectedAreNamed, Targets
<1>5. OneAfterTheOther
  BY <1>2, RelayAssumption
     DEF Init, OneAfterTheOther, NotSelected, Attempted, Dialled, Targets, Open
<1>6. OneAttempt
  BY DEF Init, OneAttempt, Alone
<1> QED
  BY <1>3, <1>4, <1>5, <1>6 DEF IInv

(* Pull, or nothing, leaves what is said of types and names. *)
LEMMA MayPullKeeps ==
  ASSUME IInv, NEW t \in 0 .. NumTargets, NEW cl \in [Targets -> States],
         NEW orph \in [Targets -> SUBSET Open], NEW failed \in BOOLEAN,
         MayPull(t, cl, orph, failed), UNCHANGED <<rtmp, publisher>>,
         joins' \in 0 .. MaxJoins
  PROVE  /\ PullsOwnStream' /\ SelectedAreNamed'
         /\ sess' \in {sess, "unlisted"}
         /\ \A x \in Targets : name[x] # "none" => name'[x] = name[x]
         /\ index <= index' /\ current <= current'
<1>1. TypeOK
  BY DEF IInv, PullsOwnStream
<1>2. current' = IF index' > NumTargets THEN NumTargets ELSE index'
  BY DEF current
<1>3. CASE publisher = Nobody
  <2>1. Pull(t, cl, orph, failed)
    BY <1>3 DEF MayPull
  <2>2. TypeOK'
    BY <1>1, <2>1, PullTypes DEF TypeOK, Pusher, Targets
  <2>3. /\ sess' \in {sess, "unlisted"}
        /\ \A x \in Targets : /\ name[x] = "own" => name'[x] = "own"
                              /\ name[x] # "none" => name'[x] = name[x]
                              /\ x <= index' => name'[x] # "none"
        /\ index <= index' /\ index' \in 0 .. NumTargets + 1
    BY <2>1, PullTypes
  <2>4. PullsOwnStream'
    BY <2>2, <2>3 DEF IInv, PullsOwnStream
  <2>5. SelectedAreNamed'
    BY <2>3 DEF SelectedAreNamed
  <2>6. current <= current'
    BY <1>1, <1>2, <2>3, Bounds
  <2> QED
    BY <2>3, <2>4, <2>5, <2>6
<1>4. CASE publisher # Nobody
  <2>1. client' = cl /\ orphans' = orph
        /\ UNCHANGED <<retry, name, sess, index, puller, timers, tried, touched>>
    BY <1>4 DEF MayPull
  <2>2. TypeOK'
    BY <1>1, <2>1 DEF TypeOK, Pusher, Targets, States
  <2> QED
    BY <1>1, <1>2, <2>1, <2>2, Bounds DEF IInv, PullsOwnStream, SelectedAreNamed
<1> QED
  BY <1>3, <1>4

(* The relay has named what it has selected: if it is alone, it was. *)
LEMMA AloneBefore ==
  ASSUME IInv, joins' = joins, sess' \in {sess, "unlisted"}, current <= current',
         current' \in Int,
         \A x \in Targets : name[x] # "none" => name'[x] = name[x],
         Alone'
  PROVE  Alone
<1>1. TypeOK
  BY DEF IInv, PullsOwnStream
<1>2. ASSUME NEW x \in 1 .. current PROVE name[x] = "own"
  <2>1. x \in Targets /\ x <= index
    BY <1>1, Bounds
  <2>2. name[x] # "none"
    BY <2>1 DEF IInv, SelectedAreNamed
  <2>3. x \in 1 .. current'
    BY <1>1, <1>2, Bounds
  <2> QED
    BY <2>1, <2>2, <2>3 DEF Alone
<1> QED
  BY <1>2 DEF Alone

(***************************************************************************)
(* A connection of the puller of t, and the relay after it has moved: its  *)
(* puller, if nothing is gone, is that of the current target, and if the   *)
(* relay is alone it is the only one.                                      *)
(***************************************************************************)
LEMMA ConnectionAt ==
  ASSUME IInv, NEW t \in Targets, NEW own \in BOOLEAN, NEW from \in Open,
         NEW to \in Open \cup {"closed"}, has(t, own, from)
  PROVE  LET cl   == clients_after(t, own, to)
             orph == orphans_after(t, own, from, to)
         IN  /\ cl \in [Targets -> States] /\ orph \in [Targets -> SUBSET Open]
             /\ joins <= 1 =>
                  /\ t <= index /\ t \in tried
                  /\ missing(t) = {} => t = current /\ puller[t] = "live"
                  /\ \A x \in Targets : cl[x] \in Open \/ orph[x] # {} => x \in tried
                  /\ \A x \in Targets : x > index => cl[x] = "none" /\ orph[x] = {}
                  /\ \A x \in Targets : cl[x] \in Open \/ orph[x] # {} => Dialled(x)
             /\ Alone =>
                  /\ own /\ t = current /\ missing(t) = {} /\ cl[t] = to
                  /\ \A x \in Targets : orph[x] = {} /\ timers[x] = 0
                  /\ \A x \in Targets : x # t => cl[x] \notin Open
<1> DEFINE cl   == clients_after(t, own, to)
           orph == orphans_after(t, own, from, to)
<1>1. TypeOK
  BY DEF IInv, PullsOwnStream
<1>2. Dialled(t) /\ Attempted(t)
  BY DEF has, Dialled, Attempted
<1>3. cl \in [Targets -> States] /\ orph \in [Targets -> SUBSET Open]
  BY <1>1 DEF clients_after, orphans_after, States, TypeOK
<1>4. /\ \A x \in Targets : x # t => cl[x] = client[x] /\ orph[x] = orphans[x]
      /\ own => cl[t] = to /\ orph = orphans
      /\ ~own => cl = client
  BY <1>1 DEF clients_after, orphans_after, TypeOK
<1>5. ASSUME NEW x \in Targets, cl[x] \in Open \/ orph[x] # {} PROVE Dialled(x)
  BY <1>2, <1>4, <1>5 DEF Dialled
<1>6. ASSUME joins <= 1
      PROVE  /\ t <= index /\ t \in tried
             /\ missing(t) = {} => t = current /\ puller[t] = "live"
             /\ \A x \in Targets : cl[x] \in Open \/ orph[x] # {} => x \in tried
             /\ \A x \in Targets : x > index => cl[x] = "none" /\ orph[x] = {}
  <2>1. /\ \A x \in Targets : x > index => NotSelected(x)
        /\ \A x \in Targets : x < index /\ index <= NumTargets => puller[x] = "freed"
        /\ \A x \in Targets : x < NumTargets /\ index > NumTargets => puller[x] = "freed"
        /\ \A x \in Targets : Dialled(x) => x \in tried
        /\ \A x \in Targets : x = current /\ Attempted(x) => puller[x] = "live"
    BY <1>6 DEF IInv, OneAfterTheOther
  <2>2. t <= index
    BY <1>1, <1>2, <2>1, Bounds DEF NotSelected, Dialled, Open
  <2>3. ASSUME missing(t) = {} PROVE t = current /\ puller[t] = "live"
    <3>1. puller[t] # "freed"
      BY <2>3 DEF missing
    <3>2. t = current
      BY <1>1, <2>1, <2>2, <3>1, Bounds
    <3> QED
      BY <1>2, <2>1, <3>1, <3>2
  <2>4. ASSUME NEW x \in Targets, x > index PROVE cl[x] = "none" /\ orph[x] = {}
    <3>1. x # t
      BY <1>1, <2>2, <2>4, Bounds
    <3> QED
      BY <1>4, <2>1, <2>4, <3>1 DEF NotSelected
  <2> QED
    BY <1>2, <1>5, <2>1, <2>2, <2>3, <2>4
<1>7. ASSUME Alone
      PROVE  /\ own /\ t = current /\ missing(t) = {} /\ cl[t] = to
             /\ \A x \in Targets : orph[x] = {} /\ timers[x] = 0
             /\ \A x \in Targets : x # t => cl[x] \notin Open
  <2>1. /\ \A x \in Targets : orphans[x] = {}
        /\ \A x \in Targets : x # current => ~Attempted(x)
        /\ \A x \in Targets : timers[x] <= 1 /\ (timers[x] = 1 => client[x] \notin Open)
    BY <1>7 DEF IInv, OneAttempt
  <2>2. own /\ t = current /\ client[t] \in Open
    BY <1>2, <2>1 DEF has
  <2>3. puller[t] = "live" /\ sess = "listed"
    BY <1>2, <1>7, <2>2 DEF IInv, OneAfterTheOther, Alone
  <2>4. missing(t) = {}
    BY <2>3 DEF missing
  <2>5. ASSUME NEW x \in Targets PROVE timers[x] = 0
    <3>1. timers[x] \in Nat /\ ~(timers[x] > 0 /\ timers[x] # 1)
      BY <1>1, <2>1 DEF TypeOK
    <3>2. timers[x] # 1
      BY <2>1, <2>2 DEF Attempted
    <3> QED
      BY <3>1, <3>2
  <2> QED
    BY <1>4, <2>1, <2>2, <2>4, <2>5 DEF Attempted, Dialled
<1> QED
  BY <1>3, <1>5, <1>6, <1>7

-----------------------------------------------------------------------------
(* A connection moves, and the relay with it does nothing. *)
LEMMA MoveKeeps ==
  ASSUME IInv, NEW t \in Targets, NEW own \in BOOLEAN, NEW from \in Open,
         NEW to \in Open \cup {"closed"}, NEW gone \in SUBSET {"client", "puller"},
         has(t, own, from), Moves(t, own, from, to, gone), Alone => gone = {},
         UNCHANGED <<rtmp, joins>>,
         publisher' = publisher \/ (publisher' = t /\ name[t] = "own")
  PROVE  IInv'
<1> DEFINE cl   == clients_after(t, own, to)
           orph == orphans_after(t, own, from, to)
<1>1. TypeOK
  BY DEF IInv, PullsOwnStream
<1>2. /\ client' = cl /\ orphans' = orph /\ touched' = touched \cup gone
      /\ retry' = retry /\ name' = name /\ sess' = sess /\ index' = index
      /\ puller' = puller /\ timers' = timers /\ tried' = tried
      /\ rtmp' = rtmp /\ joins' = joins
  BY DEF Moves
<1>3. /\ cl \in [Targets -> States] /\ orph \in [Targets -> SUBSET Open]
      /\ joins <= 1 =>
           /\ t <= index
           /\ \A x \in Targets : cl[x] \in Open \/ orph[x] # {} => x \in tried
           /\ \A x \in Targets : x > index => cl[x] = "none" /\ orph[x] = {}
           /\ \A x \in Targets : cl[x] \in Open \/ orph[x] # {} => Dialled(x)
      /\ Alone =>
           /\ own /\ t = current /\ cl[t] = to
           /\ \A x \in Targets : orph[x] = {} /\ timers[x] = 0
           /\ \A x \in Targets : x # t => cl[x] \notin Open
  BY ConnectionAt
<1> HIDE DEF cl, orph
<1>4. TypeOK' /\ Alone' = Alone /\ current' = current
  <2>1. publisher' \in 0 .. Pusher
    BY <1>1, Bounds DEF TypeOK
  <2>2. TypeOK'
    BY <1>1, <1>2, <1>3, <2>1 DEF TypeOK, States
  <2>3. current' = current
    BY <1>2 DEF current
  <2>4. Alone' = Alone
    BY <1>2, <2>3 DEF Alone
  <2> QED
    BY <2>2, <2>3, <2>4
<1>5. PullsOwnStream' /\ JoinedAreCounted' /\ SelectedAreNamed'
  BY <1>2, <1>4 DEF IInv, PullsOwnStream, JoinedAreCounted, SelectedAreNamed
<1>6. OneAfterTheOther'
  <2>1. SUFFICES ASSUME joins <= 1 PROVE OneAfterTheOther'
    BY <1>2 DEF OneAfterTheOther
  <2>2. /\ joins = 0 => index = 0
        /\ \A x \in Targets : x > index => NotSelected(x)
        /\ \A x \in Targets : x < index /\ index <= NumTargets => puller[x] = "freed"
        /\ \A x \in Targets : x < NumTargets /\ index > NumTargets => puller[x] = "freed"
        /\ \A x \in Targets : x < index => x \in tried
        /\ \A x \in Targets : x = current /\ Attempted(x) => puller[x] = "live"
    BY <2>1 DEF IInv, OneAfterTheOther
  <2>3. index # 0
    BY <1>1, <1>3, <2>1, Bounds
  <2>4. \A x \in Targets : x > index => NotSelected(x)'
    BY <1>2, <1>3, <2>1, <2>2 DEF NotSelected
  <2>5. \A x \in Targets : Dialled(x)' => x \in tried /\ Dialled(x)
    BY <1>2, <1>3, <2>1 DEF Dialled
  <2>6. \A x \in Targets : Attempted(x)' => Attempted(x)
    BY <1>2, <2>5 DEF Attempted
  <2> QED
    BY <1>2, <1>4, <2>2, <2>3, <2>4, <2>5, <2>6 DEF OneAfterTheOther
<1>7. OneAttempt'
  <2>1. SUFFICES ASSUME Alone PROVE OneAttempt'
    BY <1>4 DEF OneAttempt
  <2>2. \A x \in Targets : x # current => ~Attempted(x)'
    BY <1>2, <1>3, <2>1 DEF Attempted, Dialled
  <2>3. touched' = touched
    BY <1>2, <2>1
  <2> QED
    BY <1>2, <1>3, <1>4, <2>1, <2>2, <2>3 DEF IInv, OneAttempt
<1> QED
  BY <1>5, <1>6, <1>7 DEF IInv

(* A connection closes, or is refused because the stream has another name, *)
(* and its puller, which still has its relay, has it pull again.           *)
LEMMA CallbackPulls ==
  ASSUME IInv, Intact, NEW t \in Targets, NEW own \in BOOLEAN, NEW from \in Open,
         NEW to \in {"refused", "closed"}, NEW failed \in BOOLEAN,
         has(t, own, from), missing(t) = {}, to = "refused" => name[t] # "own",
         MayPull(t, clients_after(t, own, to), orphans_after(t, own, from, to), failed),
         UNCHANGED <<rtmp, joins, publisher>>
  PROVE  IInv'
<1> DEFINE cl   == clients_after(t, own, to)
           orph == orphans_after(t, own, from, to)
<1>1. TypeOK
  BY DEF IInv, PullsOwnStream
<1>2. to \in Open \cup {"closed"} /\ t \in 0 .. NumTargets
  BY Bounds, <1>1 DEF Open
<1>3. /\ cl \in [Targets -> States] /\ orph \in [Targets -> SUBSET Open]
      /\ joins <= 1 =>
           /\ t <= index /\ t \in tried
           /\ t = current /\ puller[t] = "live"
           /\ \A x \in Targets : cl[x] \in Open \/ orph[x] # {} => x \in tried
           /\ \A x \in Targets : x > index => cl[x] = "none" /\ orph[x] = {}
           /\ \A x \in Targets : cl[x] \in Open \/ orph[x] # {} => Dialled(x)
      /\ Alone =>
           /\ own /\ t = current /\ cl[t] = to
           /\ \A x \in Targets : orph[x] = {} /\ timers[x] = 0
           /\ \A x \in Targets : x # t => cl[x] \notin Open
  BY <1>2, ConnectionAt
<1>4. MayPull(t, cl, orph, failed)
  OBVIOUS
<1> HIDE DEF cl, orph
<1>5. joins' \in 0 .. MaxJoins
  BY <1>1 DEF TypeOK
<1>6. /\ PullsOwnStream' /\ SelectedAreNamed'
      /\ sess' \in {sess, "unlisted"}
      /\ \A x \in Targets : name[x] # "none" => name'[x] = name[x]
      /\ index <= index' /\ current <= current'
  BY <1>2, <1>3, <1>4, <1>5, MayPullKeeps
<1>7. JoinedAreCounted'
  BY <1>6 DEF IInv, JoinedAreCounted
<1>8. OneAfterTheOther' /\ OneAttempt'
  <2>1. CASE joins > 1
    BY <1>1, <2>1 DEF OneAfterTheOther, OneAttempt, Alone, TypeOK
  <2>2. CASE joins <= 1
    <3>1. joins = 1
      BY <1>1, <1>3, <2>2, Bounds DEF IInv, OneAfterTheOther, TypeOK
    <3>2. ASSUME Alone'
          PROVE  Alone /\ \A x \in Targets : cl[x] \notin Open /\ orph[x] = {} /\ timers[x] = 0
      <4>1. current' \in Int
        <5>1. TypeOK'
          BY <1>6 DEF PullsOwnStream
        <5> QED
          BY <1>1, <5>1, Bounds DEF TypeOK, current
      <4>2. Alone
        BY <1>6, <3>2, <4>1, AloneBefore
      <4>3. name[t] = "own"
        BY <1>1, <1>3, <2>2, <4>2, Bounds DEF Alone
      <4>4. to \notin Open
        BY <4>3 DEF Open
      <4> QED
        BY <1>3, <4>2, <4>4
    <3>3. CASE publisher = Nobody
      <4>1. Pull(t, cl, orph, failed)
        BY <1>4, <3>3 DEF MayPull
      <4>2. StartedOnce(t, cl, orph)
        BY <1>1, <1>3, <2>2, <3>1, Bounds DEF StartedOnce
      <4>3. OneAfterTheOther'
        BY <1>2, <1>3, <4>1, <4>2, PullOneAfterTheOther
      <4>4. OneAttempt'
        <5>1. CASE Alone'
          <6>1. /\ t # 0 => t = current /\ Alone
                /\ \A x \in Targets : cl[x] \notin Open /\ orph[x] = {} /\ timers[x] = 0
            BY <1>3, <3>2, <5>1
          <6>2. t \in 0 .. NumTargets /\ t # 0
            BY <1>1, Bounds
          <6> QED
            BY <1>2, <1>3, <2>2, <4>1, <6>1, <6>2, PullAlone
        <5>2. CASE ~Alone'
          BY <5>2 DEF OneAttempt
        <5> QED
          BY <5>1, <5>2
      <4> QED
        BY <4>3, <4>4
    <3>4. CASE publisher # Nobody
      <4>1. /\ client' = cl /\ orphans' = orph
            /\ name' = name /\ sess' = sess /\ index' = index /\ puller' = puller
            /\ timers' = timers /\ tried' = tried /\ touched' = touched
            /\ joins' = joins
        BY <1>4, <3>4 DEF MayPull
      <4>2. current' = current
        BY <4>1 DEF current
      <4>3. OneAfterTheOther'
        <5>1. /\ \A x \in Targets : x > index => NotSelected(x)
              /\ \A x \in Targets : x < index /\ index <= NumTargets => puller[x] = "freed"
              /\ \A x \in Targets : x < NumTargets /\ index > NumTargets => puller[x] = "freed"
              /\ \A x \in Targets : x < index => x \in tried
              /\ \A x \in Targets : x = current /\ Attempted(x) => puller[x] = "live"
          BY <2>2 DEF IInv, OneAfterTheOther
        <5>2. index # 0
          BY <1>1, <1>3, <2>2, Bounds
        <5>3. \A x \in Targets : x > index => NotSelected(x)'
          BY <1>3, <2>2, <4>1, <5>1 DEF NotSelected
        <5>4. \A x \in Targets : Dialled(x)' => x \in tried /\ Dialled(x)
          BY <1>3, <2>2, <4>1 DEF Dialled
        <5>5. \A x \in Targets : Attempted(x)' => Attempted(x)
          BY <4>1, <5>4 DEF Attempted
        <5> QED
          BY <3>1, <4>1, <4>2, <5>1, <5>2, <5>3, <5>4, <5>5 DEF OneAfterTheOther
      <4>4. OneAttempt'
        <5>1. CASE Alone'
          <6>1. \A x \in Targets : ~Attempted(x)'
            BY <3>2, <4>1, <5>1 DEF Attempted, Dialled
          <6> QED
            BY <3>2, <4>1, <5>1, <6>1 DEF IInv, OneAttempt
        <5>2. CASE ~Alone'
          BY <5>2 DEF OneAttempt
        <5> QED
          BY <5>1, <5>2
      <4> QED
        BY <4>3, <4>4
    <3> QED
      BY <3>3, <3>4
  <2> QED
    BY <1>1, <2>1, <2>2 DEF TypeOK
<1> QED
  BY <1>6, <1>7, <1>8 DEF IInv

-----------------------------------------------------------------------------
(* The actions of players, publishers and the timer of the session. *)
LEMMA AddPlayerKeeps == IInv /\ AddPlayer => IInv'
<1> SUFFICES ASSUME IInv, AddPlayer PROVE IInv'
  OBVIOUS
<1>1. TypeOK
  BY DEF IInv, PullsOwnStream
<1>2. /\ sess = "listed" /\ joins < MaxJoins
      /\ joins' = joins + 1
      /\ MayPull(0, client, orphans, FALSE)
      /\ rtmp' = rtmp /\ publisher' = publisher
  BY DEF AddPlayer
<1>3. joins' \in 0 .. MaxJoins
  BY <1>1, <1>2, Bounds DEF TypeOK, IInv, JoinedAreCounted
<1>4. client \in [Targets -> States] /\ orphans \in [Targets -> SUBSET Open]
      /\ 0 \in 0 .. NumTargets
  BY <1>1, Bounds DEF TypeOK, States
<1>5. PullsOwnStream' /\ SelectedAreNamed' /\ sess' \in {sess, "unlisted"}
  BY <1>2, <1>3, <1>4, MayPullKeeps
<1>6. JoinedAreCounted'
  BY <1>1, <1>2, <1>5 DEF IInv, JoinedAreCounted, TypeOK
<1>7. OneAfterTheOther' /\ OneAttempt'
  <2>1. CASE joins # 0
    <3>1. joins' > 1
      BY <1>1, <1>2, <2>1 DEF TypeOK
    <3> QED
      BY <1>3, <3>1 DEF OneAfterTheOther, OneAttempt, Alone
  <2>2. CASE joins = 0
    <3>1. /\ joins' = 1 /\ joins <= 1 /\ index = 0 /\ current = 0 /\ touched = {}
          /\ \A x \in Targets : x > index /\ NotSelected(x)
      BY <1>1, <1>2, <2>2, Bounds DEF IInv, OneAfterTheOther
    <3>2. \A x \in Targets : client[x] \notin Open /\ orphans[x] = {} /\ timers[x] = 0
      BY <3>1 DEF NotSelected, Open
    <3>3. CASE publisher = Nobody
      <4>1. Pull(0, client, orphans, FALSE)
        BY <1>2, <3>3 DEF MayPull
      <4>2. StartedOnce(0, client, orphans)
        BY <1>2, <3>1, <3>2 DEF StartedOnce, NotSelected
      <4>3. OneAfterTheOther'
        BY <1>4, <4>1, <4>2, PullOneAfterTheOther
      <4>4. Intact
        BY <3>1 DEF Intact
      <4>5. OneAttempt'
        BY <1>4, <3>1, <3>2, <4>1, <4>4, PullAlone
      <4> QED
        BY <4>3, <4>5
    <3>4. CASE publisher # Nobody
      <4>1. UNCHANGED <<client, orphans, retry, name, sess, index, puller, timers, tried, touched>>
        BY <1>2, <3>4 DEF MayPull
      <4>2. \A x \in Targets : NotSelected(x)' /\ ~Attempted(x)' /\ ~Dialled(x)'
        BY <3>1, <3>2, <4>1 DEF NotSelected, Attempted, Dialled, Open
      <4>3. OneAfterTheOther'
        BY <1>1, <3>1, <4>1, <4>2, Bounds DEF OneAfterTheOther
      <4>4. OneAttempt'
        BY <3>1, <3>2, <4>1, <4>2 DEF OneAttempt
      <4> QED
        BY <4>3, <4>4
    <3> QED
      BY <3>3, <3>4
  <2> QED
    BY <2>1, <2>2
<1> QED
  BY <1>5, <1>6, <1>7 DEF IInv

(* A step that leaves the relay and the players as they are. *)
LEMMA OthersKeep ==
  ASSUME IInv, UNCHANGED <<targetVars, joins, pullVars>>,
         publisher' \in {publisher, Nobody, Pusher},
         \/ sess' = sess
         \/ sess = "new" /\ sess' = "listed"
         \/ sess = "listed" /\ sess' = "unlisted"
  PROVE  IInv'
<1>1. TypeOK
  BY DEF IInv, PullsOwnStream
<1>2. /\ rtmp' = rtmp /\ retry' = retry /\ name' = name /\ joins' = joins /\ index' = index
      /\ puller' = puller /\ client' = client /\ orphans' = orphans /\ timers' = timers
      /\ tried' = tried /\ touched' = touched
  BY DEF targetVars, pullVars
<1>3. publisher' \in 0 .. Pusher /\ (publisher' \in Targets => publisher' = publisher)
  BY <1>1, Bounds DEF TypeOK
<1>4. TypeOK' /\ current' = current
  BY <1>1, <1>2, <1>3 DEF TypeOK, current
<1>5. PullsOwnStream' /\ SelectedAreNamed' /\ JoinedAreCounted'
  BY <1>2, <1>3, <1>4 DEF IInv, PullsOwnStream, SelectedAreNamed, JoinedAreCounted
<1>6. \A x \in Targets : /\ NotSelected(x)' = NotSelected(x)
                         /\ Attempted(x)' = Attempted(x) /\ Dialled(x)' = Dialled(x)
  BY <1>2 DEF NotSelected, Attempted, Dialled
<1>8. OneAfterTheOther'
  BY <1>2, <1>4, <1>6 DEF IInv, OneAfterTheOther
<1>9. Alone' => Alone
  BY <1>2, <1>4 DEF IInv, JoinedAreCounted, Alone
<1>10. OneAttempt'
  BY <1>2, <1>4, <1>6, <1>9 DEF IInv, OneAttempt
<1> QED
  BY <1>5, <1>8, <1>10 DEF IInv

(* What happens to the session and its pushing publisher. *)
LEMMA SessionKeeps ==
  IInv /\ (CreateSession \/ Timeout \/ Publish \/ Unpublish) => IInv'
<1> SUFFICES ASSUME IInv, CreateSession \/ Timeout \/ Publish \/ Unpublish
             PROVE  IInv'
  OBVIOUS
<1>1. TypeOK
  BY DEF IInv, PullsOwnStream
<1>2. CASE CreateSession
  BY <1>2, OthersKeep DEF CreateSession
<1>3. CASE Timeout
  BY <1>3, OthersKeep DEF Timeout
<1>4. CASE Publish \/ Unpublish
  BY <1>4, OthersKeep DEF Publish, Unpublish
<1> QED
  BY <1>2, <1>3, <1>4

-----------------------------------------------------------------------------
(* What the other sessions name, this one has not. *)
LEMMA SelectedElsewhereKeeps ==
  ASSUME IInv, NEW t \in Targets, SelectedElsewhere(t) PROVE IInv'
<1>1. TypeOK
  BY DEF IInv, PullsOwnStream
<1>2. /\ rtmp' = rtmp /\ sess' = sess /\ joins' = joins /\ publisher' = publisher
      /\ index' = index /\ puller' = puller /\ client' = client /\ orphans' = orphans
      /\ timers' = timers /\ tried' = tried /\ touched' = touched
      /\ name' = [name EXCEPT ![t] = IF @ = "none" THEN "other" ELSE @]
      /\ retry' = [retry EXCEPT ![t] = IF @ < MaxRetry THEN @ + 1 ELSE @]
  BY DEF SelectedElsewhere, sessVars, pullVars
<1>3. \A x \in Targets : /\ name[x] # "none" => name'[x] = name[x]
                         /\ name'[x] = "own" => name[x] = "own"
  BY <1>1, <1>2 DEF TypeOK
<1>4. TypeOK' /\ current' = current
  <2>1. name' \in [Targets -> {"none", "own", "other"}]
    BY <1>1, <1>2 DEF TypeOK
  <2>2. retry' \in [Targets -> 0 .. MaxRetry]
    <3>1. retry \in [Targets -> 0 .. MaxRetry] /\ MaxRetry \in Nat
      BY <1>1, Bounds DEF TypeOK
    <3>2. \A n \in 0 .. MaxRetry : (IF n < MaxRetry THEN n + 1 ELSE n) \in 0 .. MaxRetry
      BY <3>1
    <3> QED
      BY ONLY <3>1, <3>2, <1>2
  <2> QED
    BY <1>1, <1>2, <2>1, <2>2 DEF TypeOK, current
<1>5. PullsOwnStream' /\ SelectedAreNamed' /\ JoinedAreCounted'
  BY <1>2, <1>3, <1>4 DEF IInv, PullsOwnStream, SelectedAreNamed, JoinedAreCounted
<1>6. \A x \in Targets : /\ NotSelected(x)' = NotSelected(x)
                         /\ Attempted(x)' = Attempted(x) /\ Dialled(x)' = Dialled(x)
  BY <1>2 DEF NotSelected, Attempted, Dialled
<1>7. OneAfterTheOther'
  BY <1>2, <1>4, <1>6 DEF IInv, OneAfterTheOther
<1>8. Alone' => Alone
  BY <1>1, <1>2, <1>3, <1>4, Bounds DEF Alone
<1>9. OneAttempt'
  BY <1>2, <1>4, <1>6, <1>8 DEF IInv, OneAttempt
<1> QED
  BY <1>5, <1>7, <1>9 DEF IInv

(***************************************************************************)
(* A step of target t alone, which leaves the session and the names, and   *)
(* makes no attempt where there was none.                                  *)
(***************************************************************************)
TargetStep(t) ==
  /\ t \in Targets /\ UNCHANGED <<targetVars, sessVars, index>>
  /\ TypeOK'
  /\ \A x \in Targets : x # t => /\ puller'[x] = puller[x] /\ client'[x] = client[x]
                                 /\ orphans'[x] = orphans[x] /\ timers'[x] = timers[x]
  /\ tried \subseteq tried' /\ (Dialled(t)' => t \in tried' \/ Dialled(t))
  /\ puller[t] # "none" \/ Attempted(t)
  /\ puller[t] = "freed" => puller'[t] = "freed"
  /\ Attempted(t)' => Attempted(t) /\ (puller[t] = "live" => puller'[t] = "live")

(* A step that concerns one target and selects no other. *)
LEMMA TargetStepKeeps ==
  ASSUME IInv, NEW t \in Targets, TargetStep(t),
         Alone => /\ orphans'[t] = {} /\ touched' = touched
                  /\ timers'[t] <= 1 /\ (timers'[t] = 1 => client'[t] \notin Open),
         joins <= 1 /\ index = 0 => touched' = touched
  PROVE  IInv'
<1>1. TypeOK
  BY DEF IInv, PullsOwnStream
<1>2. /\ rtmp' = rtmp /\ retry' = retry /\ name' = name /\ index' = index
      /\ sess' = sess /\ joins' = joins /\ publisher' = publisher
  BY DEF TargetStep, targetVars, sessVars
<1>3. current' = current /\ Alone' = Alone
  BY <1>2 DEF current, Alone
<1>4. PullsOwnStream' /\ SelectedAreNamed' /\ JoinedAreCounted'
  BY <1>2 DEF TargetStep, IInv, PullsOwnStream, SelectedAreNamed, JoinedAreCounted
<1>5. \A x \in Targets : x # t => /\ NotSelected(x)' = NotSelected(x)
                                  /\ Attempted(x)' = Attempted(x) /\ Dialled(x)' = Dialled(x)
                                  /\ puller'[x] = puller[x]
  BY DEF TargetStep, NotSelected, Attempted, Dialled
<1>6. OneAfterTheOther'
  <2>1. SUFFICES ASSUME joins <= 1 PROVE OneAfterTheOther'
    BY <1>2 DEF OneAfterTheOther
  <2>2. /\ joins = 0 => index = 0
        /\ index = 0 => touched = {}
        /\ \A x \in Targets : x > index => NotSelected(x)
        /\ \A x \in Targets : x < index /\ index <= NumTargets => puller[x] = "freed"
        /\ \A x \in Targets : x < NumTargets /\ index > NumTargets => puller[x] = "freed"
        /\ \A x \in Targets : x < index => x \in tried
        /\ \A x \in Targets : Dialled(x) => x \in tried
        /\ \A x \in Targets : x = current /\ Attempted(x) => puller[x] = "live"
    BY <2>1 DEF IInv, OneAfterTheOther
  <2>3. \A x \in Targets : x > index => NotSelected(x)'
    <3>1. ~(t > index)
      BY <1>1, <2>2 DEF TargetStep, NotSelected, Attempted, Dialled, Open, TypeOK
    <3> QED
      BY <1>5, <2>2, <3>1
  <2>4. \A x \in Targets : puller[x] = "freed" => puller'[x] = "freed"
    BY <1>5 DEF TargetStep
  <2>5. \A x \in Targets : Dialled(x)' => x \in tried'
    BY <1>5, <2>2 DEF TargetStep
  <2>6. tried \subseteq tried'
    BY DEF TargetStep
  <2>7. \A x \in Targets : x = current /\ Attempted(x)' => puller'[x] = "live"
    BY <1>5, <2>2 DEF TargetStep
  <2> QED
    BY <1>2, <1>3, <2>1, <2>2, <2>3, <2>4, <2>5, <2>6, <2>7 DEF OneAfterTheOther
<1>7. OneAttempt'
  <2>1. SUFFICES ASSUME Alone PROVE OneAttempt'
    BY <1>3 DEF OneAttempt
  <2>2. /\ \A x \in Targets : orphans[x] = {}
        /\ \A x \in Targets : x # current => ~Attempted(x)
        /\ \A x \in Targets : timers[x] <= 1 /\ (timers[x] = 1 => client[x] \notin Open)
        /\ touched \subseteq {"client"}
        /\ index = 1 /\ 1 \in Delayed => touched = {}
    BY <2>1 DEF IInv, OneAttempt
  <2>3. \A x \in Targets : orphans'[x] = {}
    BY <2>1, <2>2 DEF TargetStep
  <2>4. \A x \in Targets : x # current => ~Attempted(x)'
    BY <1>5, <2>2 DEF TargetStep
  <2>5. \A x \in Targets : timers'[x] <= 1 /\ (timers'[x] = 1 => client'[x] \notin Open)
    BY <2>1, <2>2 DEF TargetStep
  <2> QED
    BY <1>2, <1>3, <2>1, <2>2, <2>3, <2>4, <2>5 DEF OneAttempt
<1> QED
  BY <1>4, <1>6, <1>7 DEF IInv

(* A retry timer fires, and the target is dialled again or not. *)
LEMMA TimerFiresKeeps ==
  ASSUME IInv, NEW t \in Targets, TimerFires(t) PROVE IInv'
<1>1. TypeOK
  BY DEF IInv, PullsOwnStream
<1>2. Attempted(t) /\ UNCHANGED <<targetVars, sessVars, index, puller>>
      /\ timers' = [timers EXCEPT ![t] = @ - 1] /\ timers[t] > 0
  BY DEF TimerFires, Attempted
<1>3. joins <= 1 => index # 0
  BY <1>1, <1>2, Bounds DEF IInv, OneAfterTheOther, NotSelected
<1>4. Alone => /\ timers[t] = 1 /\ client[t] \notin Open /\ orphans[t] = {} /\ puller[t] = "live"
  <2>1. Alone => joins = 1 /\ sess = "listed"
    BY DEF Alone
  <2>2. Alone => t = current /\ timers[t] <= 1 /\ orphans[t] = {} /\ (timers[t] = 1 => client[t] \notin Open)
    BY <1>2 DEF IInv, OneAttempt
  <2>3. Alone => puller[t] = "live"
    BY <1>2, <2>1, <2>2 DEF IInv, OneAfterTheOther
  <2> QED
    BY <1>1, <1>2, <2>2, <2>3 DEF TypeOK
<1>5. timers' \in [Targets -> Nat] /\ timers'[t] = timers[t] - 1
      /\ \A x \in Targets : x # t => timers'[x] = timers[x]
  BY <1>1, <1>2 DEF TypeOK
<1>6. CASE puller[t] = "freed"
  <2>1. touched' = touched \cup {"puller"} /\ UNCHANGED <<client, orphans, tried>>
    BY <1>6 DEF TimerFires
  <2>2. TypeOK'
    BY <1>1, <1>2, <1>5, <2>1 DEF TypeOK, targetVars, sessVars
  <2>3. TargetStep(t)
    BY <1>2, <1>5, <1>6, <2>1, <2>2 DEF TargetStep, Dialled, Attempted
  <2> QED
    BY <1>3, <1>4, <1>6, <2>3, TargetStepKeeps
<1>7. CASE puller[t] # "freed"
  <2>1. /\ client' = [client EXCEPT ![t] = "connecting"]
        /\ orphans' = [orphans EXCEPT ![t] = @ \cup orphaned(t, client[t], {t})]
        /\ tried' = tried \cup {t}
        /\ touched' = touched
    BY <1>7 DEF TimerFires
  <2>2. client' \in [Targets -> Open \cup {"none", "closed"}] /\ orphans' \in [Targets -> SUBSET Open]
    BY <1>1, <2>1 DEF TypeOK, orphaned, Open
  <2>3. TypeOK'
    BY <1>1, <1>2, <1>5, <2>1, <2>2 DEF TypeOK, targetVars, sessVars
  <2>4. \A x \in Targets : x # t => client'[x] = client[x] /\ orphans'[x] = orphans[x]
    <3>1. client \in [Targets -> States] /\ orphans \in [Targets -> SUBSET Open]
      BY <1>1 DEF TypeOK, States
    <3>2. \A x \in Targets : x # t => client'[x] = client[x]
      BY ONLY <2>1, <3>1
    <3>3. \A x \in Targets : x # t => orphans'[x] = orphans[x]
      BY ONLY <2>1, <3>1
    <3> QED
      BY <3>2, <3>3
  <2>5. TargetStep(t)
    BY <1>2, <1>5, <2>1, <2>3, <2>4 DEF TargetStep
  <2>6. Alone => orphans'[t] = {} /\ timers'[t] = 0
    BY <1>1, <1>4, <1>5, <2>1 DEF orphaned, TypeOK
  <2>7. Alone => /\ orphans'[t] = {} /\ touched' = touched
                 /\ timers'[t] <= 1 /\ (timers'[t] = 1 => client'[t] \notin Open)
    BY <2>1, <2>6
  <2> QED
    BY <2>1, <2>5, <2>7, TargetStepKeeps
<1> QED
  BY <1>6, <1>7

(* A puller that was replaced is deleted, and its client with it. *)
LEMMA DeletePullerKeeps ==
  ASSUME IInv, NEW t \in Targets, DeletePuller(t) PROVE IInv'
<1>1. TypeOK
  BY DEF IInv, PullsOwnStream
<1>2. /\ puller[t] = "doomed"
      /\ puller' = [puller EXCEPT ![t] = "freed"]
      /\ client' = [client EXCEPT ![t] = "none"]
      /\ orphans' = [orphans EXCEPT ![t] = @ \cup orphaned(t, client[t], {t})]
      /\ UNCHANGED <<targetVars, sessVars, index>>
      /\ timers' = timers /\ tried' = tried /\ touched' = touched
  BY DEF DeletePuller
<1>3. /\ puller' \in [Targets -> {"none", "live", "doomed", "freed"}]
      /\ client' \in [Targets -> Open \cup {"none", "closed"}]
      /\ orphans' \in [Targets -> SUBSET Open]
  BY <1>1, <1>2 DEF TypeOK, orphaned
<1>4. TypeOK'
  BY <1>1, <1>2, <1>3 DEF TypeOK, targetVars, sessVars
<1>5. \A x \in Targets : x # t => puller'[x] = puller[x] /\ client'[x] = client[x] /\ orphans'[x] = orphans[x]
  BY <1>1, <1>2 DEF TypeOK
<1>6. client'[t] = "none" /\ orphans'[t] = orphans[t] \cup orphaned(t, client[t], {t})
  BY <1>1, <1>2 DEF TypeOK
<1>7. (Dialled(t)' => Dialled(t)) /\ (Attempted(t)' => Attempted(t))
  BY <1>2, <1>6 DEF Dialled, Attempted, orphaned, Open
<1>8. TargetStep(t)
  BY <1>2, <1>4, <1>5, <1>7 DEF TargetStep
<1>9. Alone => ~Attempted(t)
  <2>1. Alone => joins = 1 /\ sess = "listed"
    BY DEF Alone
  <2>2. Alone /\ Attempted(t) => t = current
    BY DEF IInv, OneAttempt
  <2> QED
    BY <1>2, <2>1, <2>2 DEF IInv, OneAfterTheOther
<1>10. Alone => orphans'[t] = {} /\ timers'[t] <= 1 /\ client'[t] \notin Open
  BY <1>1, <1>2, <1>6, <1>9 DEF Attempted, Dialled, orphaned, Open, TypeOK
<1> QED
  BY <1>2, <1>8, <1>10, TargetStepKeeps

-----------------------------------------------------------------------------
(* The callbacks of the connections. *)
LEMMA MissingIs ==
  ASSUME NEW t PROVE missing(t) \in SUBSET {"client", "puller"}
BY DEF missing

(* The connection to a target is there. *)
LEMMA ConnectedKeeps ==
  ASSUME IInv, NEW t \in Targets, NEW own \in BOOLEAN, Connected(t, own) PROVE IInv'
<1> DEFINE gone == missing(t) \cup (IF own THEN {} ELSE {"client"})
<1>1. /\ has(t, own, "connecting") /\ Moves(t, own, "connecting", "connected", gone)
      /\ UNCHANGED <<rtmp, joins>> /\ publisher' = publisher
  BY DEF Connected
<1>2. "connecting" \in Open /\ "connected" \in Open \cup {"closed"}
  BY DEF Open
<1>3. Alone => own /\ missing(t) = {}
  BY <1>1, <1>2, ConnectionAt
<1>4. gone \in SUBSET {"client", "puller"} /\ (Alone => gone = {})
  BY <1>3, MissingIs
<1> HIDE DEF gone
<1> QED
  BY <1>1, <1>2, <1>4, MoveKeeps

(* The remote server plays: the puller becomes the publisher. *)
LEMMA OnPlayKeeps ==
  ASSUME IInv, Intact, NEW t \in Targets, NEW own \in BOOLEAN, OnPlay(t, own) PROVE IInv'
<1>1. has(t, own, "connected") /\ UNCHANGED <<rtmp, joins>>
  BY DEF OnPlay
<1>2. "connected" \in Open /\ "playing" \in Open \cup {"closed"}
  BY DEF Open
<1>3. Alone => missing(t) = {}
  BY <1>1, <1>2, ConnectionAt
<1>4. CASE missing(t) # {}
  <2>1. Moves(t, own, "connected", "playing", missing(t)) /\ publisher' = publisher
    BY <1>4 DEF OnPlay
  <2> QED
    BY <1>1, <1>2, <1>3, <2>1, MissingIs, MoveKeeps
<1>5. CASE missing(t) = {} /\ name[t] = "own"
  <2>1. Moves(t, own, "connected", "playing", {}) /\ publisher' = t
    BY <1>5 DEF OnPlay
  <2> QED
    BY <1>1, <1>2, <1>5, <2>1, MoveKeeps
<1>6. CASE missing(t) = {} /\ name[t] # "own"
  <2>1. /\ MayPull(t, clients_after(t, own, "refused"),
                   orphans_after(t, own, "connected", "refused"), FALSE)
        /\ publisher' = publisher
    BY <1>6 DEF OnPlay
  <2> QED
    BY <1>1, <1>2, <1>6, <2>1, CallbackPulls
<1> QED
  BY <1>4, <1>5, <1>6

(* A connection is closed or refused: retry, or the next target. *)
LEMMA OnPullCloseKeeps ==
  ASSUME IInv, Intact, NEW t \in Targets, NEW own \in BOOLEAN, NEW from \in Open,
         OnPullClose(t, own, from)
  PROVE  IInv'
<1>1. has(t, own, from) /\ UNCHANGED <<rtmp, joins, publisher>>
  BY DEF OnPullClose
<1>2. Alone => missing(t) = {}
  BY <1>1, ConnectionAt
<1>3. CASE missing(t) # {}
  <2>1. Moves(t, own, from, "closed", missing(t))
    BY <1>3 DEF OnPullClose
  <2> QED
    BY <1>1, <1>2, <2>1, MissingIs, MoveKeeps
<1>4. CASE missing(t) = {}
  <2> DEFINE failed == own /\ from = "connecting"
  <2>1. MayPull(t, clients_after(t, own, "closed"), orphans_after(t, own, from, "closed"), failed)
    BY <1>4 DEF OnPullClose
  <2>2. failed \in BOOLEAN
    OBVIOUS
  <2> HIDE DEF failed
  <2> QED
    BY <1>1, <1>4, <2>1, <2>2, CallbackPulls
<1> QED
  BY <1>3, <1>4

(* The invariant is inductive. *)
LEMMA NextIInv == IInv /\ [Next]_vars => IInv'
<1> SUFFICES ASSUME IInv, [Next]_vars PROVE IInv'
  OBVIOUS
<1>1. CASE CreateSession \/ Timeout \/ Publish \/ Unpublish
  BY <1>1, SessionKeeps
<1>2. CASE AddPlayer
  BY <1>2, AddPlayerKeeps
<1>3. ASSUME NEW t \in Targets, SelectedElsewhere(t) \/ TimerFires(t) \/ DeletePuller(t)
      PROVE  IInv'
  BY <1>3, SelectedElsewhereKeeps, TimerFiresKeeps, DeletePullerKeeps
<1>4. ASSUME Intact, NEW t \in Targets, NEW own \in BOOLEAN,
             \/ Connected(t, own) \/ OnPlay(t, own)
             \/ \E from \in Open : OnPullClose(t, own, from)
      PROVE  IInv'
  BY <1>4, ConnectedKeeps, OnPlayKeeps, OnPullCloseKeeps
<1>5. CASE UNCHANGED vars
  BY <1>5, OthersKeep DEF vars, sessVars
<1> QED
  BY <1>1, <1>2, <1>3, <1>4, <1>5 DEF Next

(* The inductive invariant holds in every reachable state. *)
LEMMA AlwaysIInv == Spec => []IInv
BY InitIInv, NextIInv, PTL DEF Spec

-----------------------------------------------------------------------------
(***************************************************************************)
(* The session publishes only what was pulled under its own name, whatever *)
(* the other sessions of the application name, and however many timers,    *)
(* connections and pullers of the relay answer late.                       *)
(***************************************************************************)
THEOREM PublishesOwnStream == Spec => []PullsOwnStream
<1>1. IInv => PullsOwnStream
  BY DEF IInv
<1> QED
  BY <1>1, AlwaysIInv, PTL

(* A relay that was started once has dialled every target when it gives up. *)
THEOREM EveryTargetIsDialled == Spec => []GivesUpAfterAll
<1>1. IInv => GivesUpAfterAll
  <2> SUFFICES ASSUME IInv, joins = 1, index > NumTargets PROVE tried = Targets
    BY DEF GivesUpAfterAll
  <2>1. TypeOK
    BY DEF IInv, PullsOwnStream
  <2>2. \A t \in Targets : t < index => t \in tried
    BY DEF IInv, OneAfterTheOther
  <2>3. \A t \in Targets : t < index
    BY <2>1, Bounds
  <2>4. tried \subseteq Targets
    BY <2>1 DEF TypeOK
  <2> QED
    BY <2>2, <2>3, <2>4
<1> QED
  BY <1>1, AlwaysIInv, PTL

(***************************************************************************)
(* A relay that was started once, is listed and has named its streams has  *)
(* at most one timer or connection, and uses no puller that is gone.       *)
(***************************************************************************)
THEOREM OneAttemptIsSafe == Spec => []AloneIsSafe
<1>1. IInv => AloneIsSafe
  <2> SUFFICES ASSUME IInv, Alone PROVE OneAttemptAtATime
    BY DEF AloneIsSafe, IInv, OneAttempt
  <2> DEFINE conns == {x \in Targets \X Open : client[x[1]] = x[2] \/ x[2] \in orphans[x[1]]}
             waiting == {x \in Targets \X (1 .. MaxTimers) : x[2] <= timers[x[1]]}
  <2>1. TypeOK
    BY DEF IInv, PullsOwnStream
  <2>2. /\ \A t \in Targets : orphans[t] = {}
        /\ \A t \in Targets : t # current => ~Attempted(t)
        /\ \A t \in Targets : timers[t] <= 1 /\ (timers[t] = 1 => client[t] \notin Open)
    BY DEF IInv, OneAttempt
  <2>3. conns \subseteq {<<current, client[current]>>}
    BY <2>2 DEF Attempted, Dialled
  <2>4. waiting \subseteq {<<current, 1>>}
    <3>1. ASSUME NEW t \in Targets, NEW n \in 1 .. MaxTimers, n <= timers[t]
          PROVE  t = current /\ n = 1
      BY <2>1, <2>2, <3>1 DEF Attempted, TypeOK
    <3> QED
      BY <3>1
  <2>5. conns = {} \/ waiting = {}
    <3>1. SUFFICES ASSUME conns # {}, waiting # {} PROVE FALSE
      OBVIOUS
    <3>2. current \in Targets /\ client[current] \in Open
      BY <2>2, <2>3, <3>1
    <3>3. timers[current] >= 1
      BY <2>1, <2>4, <3>1 DEF TypeOK
    <3> QED
      BY <2>1, <2>2, <3>2, <3>3 DEF TypeOK
  <2>6. Cardinality({}) = 0 /\ \A x : Cardinality({x}) = 1
    BY FS_EmptySet, FS_Singleton
  <2>7. conns \in {{}, {<<current, client[current]>>}} /\ waiting \in {{}, {<<current, 1>>}}
    BY <2>3, <2>4
  <2>8. Cardinality(conns) + Cardinality(waiting) <= 1
    <3> HIDE DEF conns, waiting
    <3>1. CASE conns = {}
      <4>1. Cardinality(waiting) \in {0, 1}
        BY <2>6, <2>7
      <4> QED
        BY <2>6, <3>1, <4>1
    <3>2. CASE waiting = {}
      <4>1. Cardinality(conns) \in {0, 1}
        BY <2>6, <2>7
      <4> QED
        BY <2>6, <3>2, <4>1
    <3> QED
      BY <2>5, <3>1, <3>2
  <2> QED
    BY <2>8 DEF OneAttemptAtATime
<1> QED
  BY <1>1, AlwaysIInv, PTL

=============================================================================
