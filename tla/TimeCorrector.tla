--------------------------- MODULE TimeCorrector ---------------------------
(***************************************************************************)
(* live/base/TimeCorrector.  A packet passes two of them: the one of the   *)
(* Stream when it arrives (Stream::AddPacket) and, with the timestamp that *)
(* one gave it, the one of every player that it is sent to                 *)
(* (RtmpPlayerUser::PushFrames).  A player that skips misses packets.      *)
(* Codec headers get timestamp 0 and leave the corrector alone, so only    *)
(* audio and video frames are steps here.                                  *)
(*                                                                         *)
(* A timestamp is a uint32_t and a corrector's clock an int64_t, returned  *)
(* as a uint32_t; one difference is stored in an int32_t.                  *)
(***************************************************************************)
EXTENDS Integers

CONSTANTS
  MaxDelta,        (* kMaxVideoDeltaTime = kMaxAudioDeltaTime (100)           *)
  DefaultVideo,    (* kDefaultVideoDeltaTime (40)                             *)
  DefaultAudio,    (* kDefaultAudioDeltaTime (20)                             *)
  Word,            (* how many values a uint32_t has (2^32)                   *)
  MaxTime          (* bound on the clocks                                     *)

ASSUME TimeAssumption ==
  /\ MaxDelta \in Nat /\ MaxTime \in Nat
  /\ DefaultVideo \in Nat /\ DefaultVideo < MaxDelta
  /\ DefaultAudio \in Nat /\ DefaultAudio < MaxDelta
  /\ Word \in Nat \ {0} /\ Word % 2 = 0 /\ Word >= 2 * MaxDelta

Media  == {"audio", "video"}
Stamps == 0 .. Word - 1

VARIABLES
  stream,   (* the Stream's corrector                                         *)
  player,   (* a player's corrector                                           *)
  gap,      (* history: the player missed a packet since it was first sent one *)
  wrapped   (* history: a clock of the stream has passed the last uint32_t    *)

vars == <<stream, player, gap, wrapped>>

NotSeen == -1

NewCorrector == [original  |-> [m \in Media |-> NotSeen],
                 corrected |-> [m \in Media |-> 0]]

(* A jump of MaxDelta or more is replaced by the medium's default step.    *)
Fine(delta) == -MaxDelta < delta /\ delta < MaxDelta

AdvanceNoFloor(c, m, t, default) ==
  LET delta == IF Fine(t - c.original[m]) THEN t - c.original[m] ELSE default
  IN  [original  |-> [c.original EXCEPT ![m] = t],
       corrected |-> [c.corrected EXCEPT ![m] = @ + delta]]

AdvanceByAnyJump(c, m, t, default) ==
  LET moved == c.corrected[m] + t - c.original[m]
  IN  [original  |-> [c.original EXCEPT ![m] = t],
       corrected |-> [c.corrected EXCEPT ![m] = IF moved < 0 THEN 0 ELSE moved]]

Advance(c, m, t, default) ==
  LET delta == IF Fine(t - c.original[m]) THEN t - c.original[m] ELSE default
      moved == c.corrected[m] + delta
  IN  [original  |-> [c.original EXCEPT ![m] = t],
       corrected |-> [c.corrected EXCEPT ![m] = IF moved < 0 THEN 0 ELSE moved]]

(* A number as an unsigned and as a signed word.                           *)
Unsigned(n) == n % Word
Narrow(n)   == Unsigned(n + Word \div 2) - Word \div 2

(* The medium's clock starts at original and corrected.                    *)
StartAt(c, m, original, corrected) ==
  [original  |-> [c.original EXCEPT ![m] = original],
   corrected |-> [c.corrected EXCEPT ![m] = corrected]]

CorrectAudioFromZero(c, t) ==
  IF c.original["audio"] = NotSeen THEN StartAt(c, "audio", t, 0)
  ELSE Advance(c, "audio", t, DefaultAudio)

CorrectAudioTimeStampByAudio(c, t) ==
  IF c.original["audio"] = NotSeen THEN StartAt(c, "audio", t, t)
  ELSE Advance(c, "audio", t, DefaultAudio)

(* The first video frame takes over the audio clock when it is far off it, *)
(* as far as the int32_t shows.                                            *)
FirstVideoAsItIs(c, t) == StartAt(c, "video", t, t)

FirstVideo(c, t) ==
  IF c.original["audio"] # NotSeen /\ ~Fine(Narrow(c.original["audio"] - t))
  THEN StartAt(c, "video", c.original["audio"], c.corrected["audio"])
  ELSE StartAt(c, "video", t, t)

CorrectVideoTimeStampByVideo(c, t) ==
  LET started == IF c.original["video"] = NotSeen THEN FirstVideo(c, t) ELSE c
  IN  Advance(started, "video", t, DefaultVideo)

Correct(c, m, t) ==
  IF m = "video" THEN CorrectVideoTimeStampByVideo(c, t)
  ELSE CorrectAudioTimeStampByAudio(c, t)

-----------------------------------------------------------------------------
Init ==
  /\ stream = NewCorrector /\ player = NewCorrector
  /\ gap = FALSE /\ wrapped = FALSE

(* A packet of medium m, stamped t by the publisher, reaches the stream;   *)
(* the player is sent it, or skips it.                                     *)
Packet(m, t, sent) ==
  LET s == Correct(stream, m, t)
      p == IF sent THEN Correct(player, m, Unsigned(s.corrected[m])) ELSE player
  IN  /\ s.corrected[m] <= MaxTime /\ p.corrected[m] <= MaxTime
      /\ stream' = s
      /\ player' = p
      /\ gap' = (gap \/ (~sent /\ player # NewCorrector))
      /\ wrapped' = (wrapped \/ s.corrected[m] >= Word)

Next == \E m \in Media, t \in Stamps, sent \in BOOLEAN : Packet(m, t, sent)

Spec == Init /\ [][Next]_vars

-----------------------------------------------------------------------------
(* Properties                                                               *)

Corrector == [original : [Media -> Stamps \cup {NotSeen}], corrected : [Media -> Nat]]

(* Every clock stays a natural number: no correction takes it below zero. *)
TypeOK ==
  /\ stream \in Corrector /\ player \in Corrector
  /\ gap \in BOOLEAN /\ wrapped \in BOOLEAN

(***************************************************************************)
(* Once a medium has started, no packet moves its corrected clock by       *)
(* MaxDelta or more, whatever the publisher's timestamps and whatever the  *)
(* player missed.  This is what module Stream assumes of the corrector.    *)
(***************************************************************************)
SmoothStep(c, cc) ==
  \A m \in Media :
    c.original[m] # NotSeen => Fine(cc.corrected[m] - c.corrected[m])

ClocksAreSmooth ==
  [][SmoothStep(stream, stream') /\ SmoothStep(player, player')]_vars

(***************************************************************************)
(* Correcting twice is correcting once: a player that has missed nothing   *)
(* since its first packet shows audio at the stream's own time, although   *)
(* its corrector sees only corrected timestamps and starts in mid-stream,  *)
(* until the stream's clock wraps as a uint32_t.  (From then on the player *)
(* takes the jump back for one to be corrected, and may drift.)            *)
(***************************************************************************)
PlayerKeepsStreamTime ==
  (~gap /\ ~wrapped /\ player.original["audio"] # NotSeen)
    => player.corrected["audio"] = stream.corrected["audio"]

(***************************************************************************)
(* The first video frame is aligned with the audio when the two are too    *)
(* far apart: after it the corrected clocks are less than MaxDelta apart,  *)
(* if no audio timestamp has been corrected before.  Otherwise it need not *)
(* be: the video is compared with the audio's original timestamp and not   *)
(* with its corrected clock.  And it is not when the two timestamps are so *)
(* far apart, almost the whole range of a uint32_t, that the int32_t in    *)
(* which their difference is stored makes it small: then, and only then,   *)
(* the video keeps its own time.                                           *)
(***************************************************************************)
LooksNear(n) == Fine(n - Word) \/ Fine(n + Word)

FirstVideoAligned ==
  [][ (/\ stream.original["video"] = NotSeen /\ stream'.original["video"] # NotSeen
       /\ stream.original["audio"] # NotSeen
       /\ stream.original["audio"] = stream.corrected["audio"])
      => (Fine(stream'.corrected["video"] - stream'.corrected["audio"])
            <=> ~LooksNear(stream.original["audio"] - stream'.original["video"])) ]_vars

=============================================================================
