----------------------------- MODULE TimeProofs -----------------------------
(***************************************************************************)
(* Proofs about the two modules that reckon with time.  Of TimeCorrector,  *)
(* for every limit, every default step, every word size and every bound;   *)
(* of TimingWheel, for wheels of every size, every set of delays and every *)
(* number of timers and connections.                                       *)
(***************************************************************************)
EXTENDS TimeCorrector, TimingWheel, TLAPS

-----------------------------------------------------------------------------
(* Words.                                                                   *)

(* Quotient and remainder are determined by the equation they solve. *)
LEMMA DivUnique ==
  ASSUME NEW a \in Nat \ {0}, NEW n \in Int, NEW q \in Int, NEW r \in 0 .. a - 1,
         n = a * q + r
  PROVE  n \div a = q /\ n % a = r
<1>1. PICK p \in Int : p = n \div a
  OBVIOUS
<1>2. PICK s \in 0 .. a - 1 : s = n % a
  OBVIOUS
<1>3. n = a * p + s
  BY <1>1, <1>2
<1>4. a * (p - q) = r - s
  <2>1. a * (p - q) = a * p - a * q
    BY <1>1
  <2> QED
    BY <2>1, <1>2, <1>3
<1>5. CASE p - q >= 1
  <2>1. a * (p - q) >= a
    BY <1>5
  <2> QED
    BY <2>1, <1>2, <1>4
<1>6. CASE p - q <= -1
  <2>1. a * (q - p) >= a
    BY <1>6
  <2>2. a * (q - p) = s - r
    BY <1>2, <1>4
  <2> QED
    BY <2>1, <2>2, <1>2
<1>7. CASE p = q
  BY <1>1, <1>2, <1>3, <1>7
<1> QED
  BY <1>1, <1>5, <1>6, <1>7

(* A timestamp is a number, and never the mark of a medium not yet seen.   *)
LEMMA StampsAreNumbers == \A n \in Stamps : n \in Nat /\ n < Word /\ n # NotSeen
BY TimeAssumption DEF Stamps, NotSeen

(* A clock is returned as a timestamp, unchanged while it is one. *)
LEMMA UnsignedFacts ==
  ASSUME NEW n \in Int
  PROVE  Unsigned(n) \in Stamps /\ (n \in Stamps => Unsigned(n) = n)
<1>1. Word \in Nat \ {0}
  BY TimeAssumption
<1>2. n % Word \in 0 .. Word - 1
  BY <1>1
<1>3. n \in 0 .. Word - 1 => n % Word = n
  BY <1>1, DivUnique, n = Word * 0 + n
<1> QED
  BY <1>2, <1>3 DEF Unsigned, Stamps

(* The difference of two timestamps looks small in an int32_t when it is   *)
(* small, or when it is almost the whole range of a uint32_t.              *)
LEMMA NarrowFine ==
  ASSUME NEW n \in Int, -Word < n, n < Word
  PROVE  /\ Fine(Narrow(n)) <=> (Fine(n) \/ LooksNear(n))
         /\ ~(Fine(n) /\ LooksNear(n))
<1> DEFINE half == Word \div 2
<1>1. /\ Word \in Nat \ {0} /\ MaxDelta \in Nat
      /\ half \in Nat /\ Word = 2 * half /\ half >= MaxDelta
  BY TimeAssumption
<1> HIDE DEF half
<1>2. CASE n + half \in Stamps
  <2>1. Narrow(n) = n
    BY <1>1, <1>2, UnsignedFacts DEF Narrow, half
  <2> QED
    BY <1>1, <1>2, <2>1 DEF Fine, LooksNear, Stamps
<1>3. CASE n + half >= Word
  <2>1. n + half - Word \in 0 .. Word - 1
    BY <1>1, <1>3
  <2>2. n + half = Word * 1 + (n + half - Word)
    BY <1>1
  <2>3. (n + half) % Word = n + half - Word
    BY <1>1, <2>1, <2>2, DivUnique
  <2>4. Narrow(n) = n - Word
    BY <1>1, <2>3 DEF Narrow, Unsigned, half
  <2> QED
    BY <1>1, <1>3, <2>4 DEF Fine, LooksNear
<1>4. CASE n + half < 0
  <2>1. n + half + Word \in 0 .. Word - 1
    BY <1>1, <1>4
  <2>2. n + half = Word * (-1) + (n + half + Word)
    BY <1>1
  <2>3. (n + half) % Word = n + half + Word
    BY <1>1, <2>1, <2>2, DivUnique
  <2>4. Narrow(n) = n + Word
    BY <1>1, <2>3 DEF Narrow, Unsigned, half
  <2> QED
    BY <1>1, <1>4, <2>4 DEF Fine, LooksNear
<1> QED
  BY <1>1, <1>2, <1>3, <1>4 DEF Stamps

-----------------------------------------------------------------------------
(* What one correction does to a corrector.                                 *)

(* Advance keeps the type, moves the medium's clock by less than MaxDelta  *)
(* and leaves the other medium alone.                                      *)
LEMMA AdvanceSmooth ==
  ASSUME NEW c \in Corrector, NEW m \in Media, NEW t \in Stamps,
         NEW default \in Nat, default < MaxDelta
  PROVE  LET a == Advance(c, m, t, default) IN
         /\ a \in Corrector
         /\ a.original[m] = t
         /\ Fine(a.corrected[m] - c.corrected[m])
         /\ \A n \in Media \ {m} : /\ a.original[n] = c.original[n]
                                   /\ a.corrected[n] = c.corrected[n]
<1> DEFINE delta == IF Fine(t - c.original[m]) THEN t - c.original[m] ELSE default
           moved == c.corrected[m] + delta
           clock == IF moved < 0 THEN 0 ELSE moved
<1>1. /\ c.original \in [Media -> Stamps \cup {NotSeen}]
      /\ c.corrected \in [Media -> Nat]
      /\ c.corrected[m] \in Nat /\ c.original[m] \in Int /\ t \in Nat
  BY StampsAreNumbers DEF Corrector, NotSeen
<1>2. delta \in Int /\ Fine(delta)
  BY <1>1, TimeAssumption DEF Fine
<1> HIDE DEF delta
<1>3. clock \in Nat /\ Fine(clock - c.corrected[m])
  BY <1>1, <1>2, TimeAssumption DEF Fine
<1>4. Advance(c, m, t, default) =
        [original  |-> [c.original EXCEPT ![m] = t],
         corrected |-> [c.corrected EXCEPT ![m] = clock]]
  BY DEF Advance, delta
<1> HIDE DEF clock
<1> QED
  BY <1>1, <1>3, <1>4 DEF Corrector

(* The first video frame starts its medium at the frame or at the audio.   *)
LEMMA FirstVideoType ==
  ASSUME NEW c \in Corrector, NEW t \in Stamps
  PROVE  LET f == FirstVideo(c, t) IN
         /\ f \in Corrector
         /\ f.original["audio"] = c.original["audio"]
         /\ f.corrected["audio"] = c.corrected["audio"]
<1>1. /\ c.original \in [Media -> Stamps \cup {NotSeen}]
      /\ c.corrected \in [Media -> Nat] /\ t \in Nat
  BY StampsAreNumbers DEF Corrector
<1> QED
  BY <1>1 DEF FirstVideo, StartAt, Corrector, Media

(* A correction keeps the type; it moves a clock that has started by less  *)
(* than MaxDelta and leaves the other medium alone.                        *)
LEMMA CorrectSmooth ==
  ASSUME NEW c \in Corrector, NEW m \in Media, NEW t \in Stamps
  PROVE  LET r == Correct(c, m, t) IN
         /\ r \in Corrector
         /\ r.original[m] = t
         /\ SmoothStep(c, r)
         /\ \A n \in Media \ {m} : /\ r.original[n] = c.original[n]
                                   /\ r.corrected[n] = c.corrected[n]
<1> USE TimeAssumption
<1>0. Fine(0)
  BY DEF Fine
<1>1. /\ c.original \in [Media -> Stamps \cup {NotSeen}]
      /\ c.corrected \in [Media -> Nat]
      /\ \A n \in Media : c.corrected[n] - c.corrected[n] = 0
  BY DEF Corrector
<1>2. CASE m = "video"
  <2> DEFINE started == IF c.original["video"] = NotSeen THEN FirstVideo(c, t)
                        ELSE c
  <2>1. /\ started \in Corrector
        /\ started.original["audio"] = c.original["audio"]
        /\ started.corrected["audio"] = c.corrected["audio"]
        /\ c.original["video"] # NotSeen => started = c
    BY FirstVideoType
  <2>2. Correct(c, m, t) = Advance(started, "video", t, DefaultVideo)
    BY <1>2 DEF Correct, CorrectVideoTimeStampByVideo
  <2> HIDE DEF started
  <2> DEFINE a == Advance(started, "video", t, DefaultVideo)
  <2>3. /\ a \in Corrector
        /\ a.original["video"] = t
        /\ Fine(a.corrected["video"] - started.corrected["video"])
        /\ \A n \in Media \ {"video"} :
             /\ a.original[n] = started.original[n]
             /\ a.corrected[n] = started.corrected[n]
    <3>1. "video" \in Media /\ DefaultVideo \in Nat /\ DefaultVideo < MaxDelta
      BY DEF Media
    <3> QED
      BY ONLY <2>1, <3>1, t \in Stamps, AdvanceSmooth
  <2> HIDE DEF a
  <2> QED
    BY <1>0, <1>1, <1>2, <2>1, <2>2, <2>3 DEF a, SmoothStep, Media
<1>3. CASE m = "audio" /\ c.original["audio"] # NotSeen
  <2> DEFINE a == Advance(c, "audio", t, DefaultAudio)
  <2>1. Correct(c, m, t) = a
    BY <1>3 DEF Correct, CorrectAudioTimeStampByAudio
  <2>2. /\ a \in Corrector
        /\ a.original["audio"] = t
        /\ Fine(a.corrected["audio"] - c.corrected["audio"])
        /\ \A n \in Media \ {"audio"} :
             /\ a.original[n] = c.original[n]
             /\ a.corrected[n] = c.corrected[n]
    <3>1. "audio" \in Media /\ DefaultAudio \in Nat /\ DefaultAudio < MaxDelta
      BY DEF Media
    <3> QED
      BY ONLY <3>1, c \in Corrector, t \in Stamps, AdvanceSmooth
  <2> HIDE DEF a
  <2> QED
    BY <1>0, <1>1, <1>3, <2>1, <2>2 DEF SmoothStep, Media
<1>4. CASE m = "audio" /\ c.original["audio"] = NotSeen
  <2>1. Correct(c, m, t) = StartAt(c, "audio", t, t)
    BY <1>4 DEF Correct, CorrectAudioTimeStampByAudio
  <2> QED
    BY <1>0, <1>1, <1>4, <2>1, StampsAreNumbers DEF StartAt, SmoothStep, Corrector, Media
<1> QED
  BY <1>2, <1>3, <1>4 DEF Media
-----------------------------------------------------------------------------
(* No correction takes a clock below zero, whatever the timestamps.        *)
THEOREM ClocksAreNatural == Spec => []TypeOK
<1>1. Init => TypeOK
  <2>1. NewCorrector \in Corrector
    BY DEF NewCorrector, Corrector, NotSeen
  <2> QED
    BY <2>1 DEF Init, TypeOK
<1>2. TypeOK /\ [Next]_vars => TypeOK'
  <2>1. ASSUME TypeOK, NEW m \in Media, NEW t \in Stamps,
               NEW sent \in BOOLEAN, Packet(m, t, sent)
        PROVE  TypeOK'
    <3>2. Correct(stream, m, t) \in Corrector
      BY <2>1, CorrectSmooth DEF TypeOK
    <3>3. Unsigned(Correct(stream, m, t).corrected[m]) \in Stamps
      BY <3>2, UnsignedFacts DEF Corrector
    <3>4. Correct(player, m, Unsigned(Correct(stream, m, t).corrected[m])) \in Corrector
      BY <2>1, <3>3, CorrectSmooth DEF TypeOK
    <3> QED
      BY <2>1, <3>2, <3>4 DEF TypeOK, Packet
  <2>2. TypeOK /\ UNCHANGED vars => TypeOK'
    BY DEF TypeOK, vars
  <2> QED
    BY <2>1, <2>2 DEF Next
<1> QED
  BY <1>1, <1>2, PTL DEF Spec

(***************************************************************************)
(* Once started, neither the stream's nor a player's clock ever jumps by   *)
(* MaxDelta or more, whatever the publisher sends and the player misses.   *)
(***************************************************************************)
THEOREM NeverJumps == Spec => ClocksAreSmooth
<1> DEFINE Smooth == SmoothStep(stream, stream') /\ SmoothStep(player, player')
<1>1. TypeOK => SmoothStep(stream, stream) /\ SmoothStep(player, player)
  BY TimeAssumption DEF TypeOK, Corrector, SmoothStep, Fine
<1>2. TypeOK /\ [Next]_vars => [Smooth]_vars
  <2>1. ASSUME TypeOK, NEW m \in Media, NEW t \in Stamps,
               NEW sent \in BOOLEAN, Packet(m, t, sent)
        PROVE  Smooth
    <3>2. /\ Correct(stream, m, t) \in Corrector
          /\ SmoothStep(stream, Correct(stream, m, t))
      BY <2>1, CorrectSmooth DEF TypeOK
    <3>3. Unsigned(Correct(stream, m, t).corrected[m]) \in Stamps
      BY <3>2, UnsignedFacts DEF Corrector
    <3>4. SmoothStep(player, Correct(player, m, Unsigned(Correct(stream, m, t).corrected[m])))
      BY <2>1, <3>3, CorrectSmooth DEF TypeOK
    <3> QED
      BY <1>1, <2>1, <3>2, <3>4 DEF Packet
  <2> QED
    BY <2>1 DEF Next
<1> QED
  BY <1>2, ClocksAreNatural, PTL DEF Spec, ClocksAreSmooth
-----------------------------------------------------------------------------
(* A player that has heard audio and missed nothing since stands where the *)
(* stream's corrector stands, and so does the timestamp it saw last, while *)
(* the stream's clock is a timestamp.                                      *)
InStep ==
  (~gap /\ ~wrapped /\ player.original["audio"] # NotSeen)
    => /\ stream.original["audio"] # NotSeen
       /\ player.original["audio"] = stream.corrected["audio"]
       /\ player.corrected["audio"] = stream.corrected["audio"]

(* An audio clock that has started and sees a timestamp less than MaxDelta *)
(* from the last one moves by just that difference, but not below zero.    *)
LEMMA FineIsKept ==
  ASSUME NEW c \in Corrector, NEW t \in Stamps,
         c.original["audio"] # NotSeen, Fine(t - c.original["audio"]),
         c.original["audio"] = c.corrected["audio"]
  PROVE  Correct(c, "audio", t).corrected["audio"] = t
<1>1. /\ c.corrected \in [Media -> Nat]
      /\ c.corrected["audio"] \in Nat /\ t \in Nat
  BY StampsAreNumbers DEF Corrector, Media
<1>2. Correct(c, "audio", t) = Advance(c, "audio", t, DefaultAudio)
  BY DEF Correct, CorrectAudioTimeStampByAudio
<1> QED
  BY <1>1, <1>2 DEF Advance, Media

(***************************************************************************)
(* The player's second correction of the audio is the identity while the   *)
(* player misses nothing and the stream's clock does not wrap.             *)
(***************************************************************************)
THEOREM PlayerInStep == Spec => []PlayerKeepsStreamTime
<1>1. Init => InStep
  BY DEF Init, InStep, NewCorrector, Media
<1>2. TypeOK /\ InStep /\ [Next]_vars => InStep'
  <2>1. ASSUME TypeOK, InStep, NEW m \in Media, NEW t \in Stamps,
               NEW sent \in BOOLEAN, Packet(m, t, sent)
        PROVE  InStep'
    <3> DEFINE s == Correct(stream, m, t)
               p == Correct(player, m, Unsigned(s.corrected[m]))
    <3>1. \A n \in Stamps : n # NotSeen
      BY StampsAreNumbers
    <3>2. /\ s \in Corrector
          /\ s.original[m] = t
          /\ SmoothStep(stream, s)
          /\ \A n \in Media \ {m} : /\ s.original[n] = stream.original[n]
                                    /\ s.corrected[n] = stream.corrected[n]
      BY <2>1, CorrectSmooth DEF TypeOK
    <3>3. s.corrected[m] \in Nat /\ Unsigned(s.corrected[m]) \in Stamps
      BY <3>2, UnsignedFacts DEF Corrector
    <3>4. /\ p \in Corrector
          /\ p.original[m] = Unsigned(s.corrected[m])
          /\ \A n \in Media \ {m} : /\ p.original[n] = player.original[n]
                                    /\ p.corrected[n] = player.corrected[n]
      BY <2>1, <3>3, CorrectSmooth DEF TypeOK
    <3>5. /\ stream' = s
          /\ player' = IF sent THEN p ELSE player
          /\ gap' = (gap \/ (~sent /\ player # NewCorrector))
          /\ wrapped' = (wrapped \/ s.corrected[m] >= Word)
      BY <2>1 DEF Packet
    <3>6. CASE wrapped'
      BY <3>6 DEF InStep
    <3>7. CASE ~sent
      <4>1. NewCorrector.original["audio"] = NotSeen
        BY DEF NewCorrector, Media
      <4> QED
        BY <3>5, <3>7, <4>1, <2>1 DEF InStep, TypeOK
    <3>8. CASE ~wrapped' /\ sent
      <4>1. ~wrapped /\ Unsigned(s.corrected[m]) = s.corrected[m]
        <5>1. ~wrapped /\ ~(s.corrected[m] >= Word)
          BY <3>5, <3>8, Zenon
        <5>2. s.corrected[m] \in Stamps
          BY <3>3, <5>1, TimeAssumption DEF Stamps
        <5> QED
          BY <5>1, <5>2, UnsignedFacts DEF Stamps
      <4>2. CASE m = "video"
        BY <2>1, <3>2, <3>4, <3>5, <3>8, <4>1, <4>2 DEF InStep, Media
      <4>3. CASE m = "audio" /\ player.original["audio"] = NotSeen
        <5>1. p.corrected["audio"] = Unsigned(s.corrected["audio"])
          BY <4>3, <2>1
             DEF Correct, CorrectAudioTimeStampByAudio, StartAt, TypeOK, Corrector, Media
        <5> QED
          BY <3>1, <3>2, <3>4, <3>5, <3>8, <4>1, <4>3, <5>1 DEF InStep
      <4>4. CASE m = "audio" /\ player.original["audio"] # NotSeen /\ ~gap
        <5>1. /\ stream.original["audio"] # NotSeen
              /\ player.original["audio"] = stream.corrected["audio"]
              /\ player.corrected["audio"] = stream.corrected["audio"]
          BY <2>1, <4>1, <4>4 DEF InStep
        <5>2. Fine(s.corrected["audio"] - player.original["audio"])
          BY <3>2, <5>1 DEF SmoothStep, Media
        <5>3. p.corrected["audio"] = s.corrected["audio"]
          BY <2>1, <3>3, <4>1, <4>4, <5>1, <5>2, FineIsKept DEF TypeOK
        <5> QED
          BY <3>1, <3>2, <3>4, <3>5, <3>8, <4>1, <4>4, <5>3 DEF InStep
      <4>5. CASE gap
        BY <3>5, <4>5 DEF InStep
      <4> QED
        BY <4>2, <4>3, <4>4, <4>5 DEF Media
    <3> QED
      BY <3>6, <3>7, <3>8
  <2>2. InStep /\ UNCHANGED vars => InStep'
    BY DEF InStep, vars
  <2> QED
    BY <2>1, <2>2 DEF Next
<1>3. InStep => PlayerKeepsStreamTime
  BY DEF InStep, PlayerKeepsStreamTime
<1> QED
  BY <1>1, <1>2, <1>3, ClocksAreNatural, PTL DEF Spec

(***************************************************************************)
(* The first video frame lands less than MaxDelta from an audio clock that *)
(* was never corrected, but for the timestamps whose difference an int32_t *)
(* makes small: for those, and only those, it does not.                    *)
(***************************************************************************)
THEOREM FirstVideoIsAligned == Spec => FirstVideoAligned
<1> DEFINE Aligned ==
      (/\ stream.original["video"] = NotSeen /\ stream'.original["video"] # NotSeen
       /\ stream.original["audio"] # NotSeen
       /\ stream.original["audio"] = stream.corrected["audio"])
      => (Fine(stream'.corrected["video"] - stream'.corrected["audio"])
            <=> ~LooksNear(stream.original["audio"] - stream'.original["video"]))
<1>1. TypeOK /\ [Next]_vars => [Aligned]_vars
  <2> SUFFICES ASSUME TypeOK, NEW m \in Media, NEW t \in Stamps,
                      NEW sent \in BOOLEAN, Packet(m, t, sent),
                      stream.original["video"] = NotSeen, stream'.original["video"] # NotSeen,
                      stream.original["audio"] # NotSeen,
                      stream.original["audio"] = stream.corrected["audio"]
               PROVE  Fine(stream'.corrected["video"] - stream'.corrected["audio"])
                        <=> ~LooksNear(stream.original["audio"] - stream'.original["video"])
    BY DEF Next
  <2> DEFINE a == stream.corrected["audio"]
             first == FirstVideo(stream, t)
  <2>1. t \in Stamps /\ stream \in Corrector /\ a \in Stamps
    BY DEF TypeOK, Corrector, Media
  <2>2. stream' = Correct(stream, m, t)
    BY DEF Packet
  <2>3. m = "video"
    <3>1. CASE m = "audio"
      <4>1. stream' = Advance(stream, "audio", t, DefaultAudio)
        BY <2>2, <3>1 DEF Correct, CorrectAudioTimeStampByAudio
      <4>2. \A n \in Media \ {"audio"} : stream'.original[n] = stream.original[n]
        <5>1. "audio" \in Media /\ DefaultAudio \in Nat /\ DefaultAudio < MaxDelta
          BY TimeAssumption DEF Media
        <5>2. \A n \in Media \ {"audio"} :
                 Advance(stream, "audio", t, DefaultAudio).original[n] = stream.original[n]
          BY ONLY <2>1, <5>1, AdvanceSmooth
        <5> QED
          BY <4>1, <5>2
      <4>3. "video" \in Media \ {"audio"}
        BY DEF Media
      <4> QED
        BY <4>2, <4>3
    <3> QED
      BY <3>1 DEF Media
  <2>4. stream' = Advance(first, "video", t, DefaultVideo)
    BY <2>2, <2>3 DEF Correct, CorrectVideoTimeStampByVideo
  <2>5. first \in Corrector /\ first.corrected["audio"] = a
    BY <2>1, FirstVideoType
  <2>6. IF Fine(Narrow(a - t)) THEN first.original["video"] = t /\ first.corrected["video"] = t
                               ELSE first.original["video"] = a /\ first.corrected["video"] = a
    BY <2>1 DEF FirstVideo, StartAt, Corrector, Media
  <2> HIDE DEF first
  <2>7. stream'.corrected["audio"] = a
    <3>1. "video" \in Media /\ DefaultVideo \in Nat /\ DefaultVideo < MaxDelta
      BY TimeAssumption DEF Media
    <3>2. \A n \in Media \ {"video"} : stream'.corrected[n] = first.corrected[n]
      <4>1. t \in Stamps /\ first \in Corrector
        BY <2>1, <2>5
      <4> QED
        BY ONLY <2>4, <3>1, <4>1, AdvanceSmooth
    <3>3. "audio" \in Media \ {"video"}
      BY DEF Media
    <3> QED
      BY <2>5, <3>2, <3>3
  <2>8. stream'.corrected["video"] =
          LET delta == IF Fine(t - first.original["video"]) THEN t - first.original["video"]
                       ELSE DefaultVideo
              moved == first.corrected["video"] + delta
          IN  IF moved < 0 THEN 0 ELSE moved
    BY <2>4, <2>5 DEF Advance, Corrector, Media
  <2> DEFINE d == a - t
  <2>11. stream'.original["video"] = t /\ stream.original["audio"] = a
    BY <2>4, <2>5 DEF Advance, Corrector, Media
  <2> HIDE DEF a
  <2>12. /\ t \in Nat /\ a \in Nat /\ d \in Int /\ -Word < d /\ d < Word
         /\ MaxDelta \in Nat /\ DefaultVideo \in Nat /\ DefaultVideo < MaxDelta
    BY <2>1, TimeAssumption DEF Stamps
  <2>13. /\ Fine(Narrow(d)) <=> (Fine(d) \/ LooksNear(d))
         /\ ~(Fine(d) /\ LooksNear(d))
    BY <2>12, NarrowFine
  <2>9. CASE Fine(Narrow(d))
    <3>1. stream'.corrected["video"] = t
      BY <2>12, <2>6, <2>8, <2>9 DEF Fine
    <3>2. Fine(t - a) <=> Fine(d)
      BY <2>12 DEF Fine
    <3> QED
      BY <2>7, <2>9, <2>11, <2>13, <3>1, <3>2
  <2>10. CASE ~Fine(Narrow(d))
    <3>1. ~Fine(t - a)
      BY <2>10, <2>12, <2>13 DEF Fine
    <3>2. stream'.corrected["video"] = a + DefaultVideo
      BY <2>12, <2>6, <2>8, <2>10, <3>1
    <3>3. Fine(stream'.corrected["video"] - a)
      BY <2>12, <3>2 DEF Fine
    <3> QED
      BY <2>7, <2>10, <2>11, <2>13, <3>3
  <2> QED
    BY <2>9, <2>10
<1> QED
  BY <1>1, ClocksAreNatural, PTL DEF Spec, FirstVideoAligned

-----------------------------------------------------------------------------
(***************************************************************************)
(* TimingWheel.  A reference in slot i of wheel l is due at its alarm: the *)
(* last turn of the wheel, i units and the rest.  A turn of a wheel moves  *)
(* its references and inserts the rests of the first slot into finer       *)
(* wheels, and leaves every alarm where it was; so an entry runs at the    *)
(* last of the alarms it had when it was inserted.                         *)
(***************************************************************************)

(* A number is its quotient times the divisor and a remainder. *)
LEMMA Divided ==
  ASSUME NEW a \in Nat \ {0}, NEW n \in Nat
  PROVE  /\ n \div a \in Nat /\ n % a \in 0 .. a - 1
         /\ n = a * (n \div a) + (n % a)
<1>1. PICK p \in Int : p = n \div a
  OBVIOUS
<1>2. PICK s \in 0 .. a - 1 : s = n % a
  OBVIOUS
<1>3. n = a * p + s
  BY <1>1, <1>2
<1>4. CASE p <= -1
  <2>1. a * (-p) >= a
    BY <1>4
  <2>2. a * (-p) = -(a * p)
    OBVIOUS
  <2> QED
    BY <2>1, <2>2, <1>2, <1>3
<1> QED
  BY <1>1, <1>2, <1>3, <1>4

(* Each unit is so many of the next finer ones. *)
LEMMA Units ==
  /\ Unit[1] = 1 /\ Unit[2] = Minute /\ Unit[3] = Hour /\ Unit[4] = Day
  /\ Size[1] = Seconds /\ Size[2] = Minutes /\ Size[3] = Hours /\ Size[4] = Days
  /\ Minute \in Nat \ {0} /\ Hour \in Nat \ {0} /\ Day \in Nat \ {0}
  /\ Minute > 1 /\ Hour > Minute /\ Day > Hour
  /\ Hour = Minute * Minutes /\ Day = Hour * Hours /\ Day = Minute * (Minutes * Hours)
  /\ \A l \in Levels : Unit[l] \in Nat \ {0} /\ Size[l] \in Nat \ {0, 1}
<1>1. /\ Unit[1] = 1 /\ Unit[2] = Minute /\ Unit[3] = Hour /\ Unit[4] = Day
      /\ Size[1] = Seconds /\ Size[2] = Minutes /\ Size[3] = Hours /\ Size[4] = Days
  BY DEF Unit, Size
<1>2. Minute \in Nat \ {0} /\ Minute > 1
  BY WheelAssumption DEF Minute
<1>3. Minutes \in Nat /\ Minutes >= 2 /\ Hours \in Nat /\ Hours >= 2 /\ Days \in Nat /\ Days >= 2
  BY WheelAssumption
<1>4. Hour = Minute * Minutes /\ Hour \in Nat \ {0} /\ Hour > Minute
  BY <1>2, <1>3 DEF Hour
<1>5. Day = Hour * Hours /\ Day \in Nat \ {0} /\ Day > Hour
  BY <1>3, <1>4 DEF Day
<1>6. Day = Minute * (Minutes * Hours)
  BY <1>2, <1>3, <1>4, <1>5
<1>7. \A l \in Levels : l = 1 \/ l = 2 \/ l = 3 \/ l = 4
  BY DEF Levels
<1> QED
  BY <1>1, <1>2, <1>4, <1>5, <1>6, <1>7, WheelAssumption

(* What InsertEntry makes of a delay. *)
LEMMA InsertFacts ==
  ASSUME NEW d \in Nat
  PROVE  /\ LevelOf(d) \in Levels /\ SlotOf(d) \in Nat
         /\ RestOf(d) \in 0 .. Unit[LevelOf(d)] - 1
         /\ SlotOf(d) * Unit[LevelOf(d)] + RestOf(d) = d
<1>1. LevelOf(d) \in Levels
  BY DEF LevelOf, Levels
<1>2. Unit[LevelOf(d)] \in Nat \ {0}
  BY <1>1, Units
<1>3. PICK u \in Nat \ {0} : u = Unit[LevelOf(d)]
  BY <1>2
<1>4. PICK q \in Nat, r \in 0 .. u - 1 : q = d \div u /\ r = d % u /\ d = u * q + r
  BY Divided
<1>5. SlotOf(d) = q /\ RestOf(d) = r
  BY <1>3, <1>4 DEF SlotOf, RestOf
<1>6. q * u + r = d
  BY <1>4
<1> QED
  BY <1>1, <1>3, <1>4, <1>5, <1>6

(***************************************************************************)
(* The last turn of a wheel, and the tick at which an entry in a slot is   *)
(* due, seen at tick tm[l] for the wheel of level l.                       *)
(***************************************************************************)
Base(l, t) == (t \div Unit[l]) * Unit[l]

Alarm(ws, tm, e, at) ==
  \E l \in Levels : \E i \in 1 .. Size[l] : \E c \in ws[l][i] :
    c.e = e /\ at = Base(l, tm[l]) + i * Unit[l] + c.rest

(* The base is the last multiple of the unit, as quotient and remainder say. *)
LEMMA BaseFacts ==
  ASSUME NEW l \in Levels, NEW t \in Nat
  PROVE  /\ Base(l, t) \in Nat /\ Base(l, t) <= t /\ t < Base(l, t) + Unit[l]
         /\ Base(l, t) = Unit[l] * (t \div Unit[l]) /\ t \div Unit[l] \in Nat
         /\ t = Base(l, t) + (t % Unit[l]) /\ t % Unit[l] \in 0 .. Unit[l] - 1
<1>1. PICK u \in Nat \ {0} : u = Unit[l]
  BY Units
<1>2. PICK q \in Nat, r \in 0 .. u - 1 : q = t \div u /\ r = t % u /\ t = u * q + r
  BY Divided
<1>3. PICK b \in Nat : b = u * q
  OBVIOUS
<1>4. Base(l, t) = b
  <2>1. q * u = b
    BY <1>3
  <2> QED
    BY <1>1, <1>2, <2>1 DEF Base
<1>5. t = b + r
  BY <1>2, <1>3
<1>6. b <= t /\ t < b + u
  BY <1>5
<1> QED
  BY <1>1, <1>2, <1>3, <1>4, <1>5, <1>6

(* A turn moves the base to the tick. *)
LEMMA BaseTurns ==
  ASSUME NEW l \in Levels, NEW t \in Nat, Turns(l, t + 1)
  PROVE  Base(l, t + 1) = t + 1 /\ Base(l, t) + Unit[l] = t + 1
<1>1. PICK u \in Nat \ {0} : u = Unit[l]
  BY Units
<1>2. /\ Base(l, t + 1) = u * ((t + 1) \div u) /\ (t + 1) \div u \in Nat
      /\ t + 1 = Base(l, t + 1) + ((t + 1) % u) /\ Base(l, t + 1) \in Nat
  BY <1>1, BaseFacts, t + 1 \in Nat
<1>3. (t + 1) % u = 0
  BY <1>1 DEF Turns
<1>4. PICK q \in Nat : q = (t + 1) \div u
  BY <1>2
<1>5. Base(l, t + 1) = t + 1 /\ t + 1 = u * q
  BY <1>2, <1>3, <1>4
<1>6. u * (q - 1) = u * q - u
  OBVIOUS
<1>7. t = u * (q - 1) + (u - 1) /\ u - 1 \in 0 .. u - 1 /\ q - 1 \in Int
  BY <1>5, <1>6
<1>8. t \div u = q - 1
  <2>1. PICK p \in Int, r \in 0 .. u - 1 : p = q - 1 /\ r = u - 1 /\ t = u * p + r
    BY <1>7
  <2>2. t \div u = p
    <3>1. t \in Int /\ t = u * p + r
      BY <2>1
    <3> QED
      BY <3>1, DivUnique, Zenon
  <2> QED
    BY <2>1, <2>2
<1>9. Base(l, t) = u * (q - 1)
  BY <1>1, <1>8, BaseFacts
<1> QED
  BY <1>1, <1>5, <1>6, <1>9

(* Between turns it stays. *)
LEMMA BaseStays ==
  ASSUME NEW l \in Levels, NEW t \in Nat, ~Turns(l, t + 1)
  PROVE  Base(l, t + 1) = Base(l, t)
<1>1. PICK u \in Nat \ {0} : u = Unit[l]
  BY Units
<1>2. PICK q \in Nat : q = t \div u
  BY <1>1, BaseFacts
<1>3. PICK r \in 0 .. u - 1 : r = t % u
  BY <1>1, BaseFacts
<1>4. t = u * q + r /\ Base(l, t) = u * q
  <2>1. Base(l, t) = u * q
    BY <1>1, <1>2, BaseFacts
  <2>2. t = Base(l, t) + r
    BY <1>1, <1>3, BaseFacts
  <2> QED
    BY <2>1, <2>2
<1>5. CASE r = u - 1
  <2>1. u * (q + 1) = u * q + u
    OBVIOUS
  <2>2. t + 1 = u * (q + 1) + 0 /\ 0 \in 0 .. u - 1 /\ q + 1 \in Int /\ t + 1 \in Int
    BY <1>4, <1>5, <2>1
  <2>3. (t + 1) % u = 0
    BY <2>2, DivUnique
  <2> QED
    BY <1>1, <2>3 DEF Turns
<1>6. CASE r # u - 1
  <2>1. t + 1 = u * q + (r + 1) /\ r + 1 \in 0 .. u - 1 /\ q \in Int /\ t + 1 \in Int
    BY <1>4, <1>6
  <2>2. (t + 1) \div u = q
    BY <2>1, DivUnique
  <2>3. Base(l, t + 1) = u * ((t + 1) \div u)
    BY <1>1, BaseFacts, t + 1 \in Nat
  <2> QED
    BY <1>4, <2>2, <2>3
<1> QED
  BY <1>5, <1>6

(* When a wheel turns, so do the finer ones. *)
LEMMA FinerTurn ==
  ASSUME NEW l \in Levels, NEW m \in Levels, m <= l, NEW t \in Nat, Turns(l, t)
  PROVE  Turns(m, t)
<1>1. PICK k \in Nat : Unit[l] = Unit[m] * k
  <2>1. Minutes \in Nat /\ Hours \in Nat /\ Minutes * Hours \in Nat
    BY WheelAssumption
  <2>2. CASE m = l
    BY <2>2, Units, Unit[l] = Unit[l] * 1
  <2>3. CASE m = 1
    BY <2>3, Units
  <2>4. CASE m = 2 /\ l = 3
    BY <2>1, <2>4, Units
  <2>5. CASE m = 2 /\ l = 4
    BY <2>1, <2>5, Units
  <2>6. CASE m = 3 /\ l = 4
    BY <2>1, <2>6, Units, WheelAssumption
  <2> QED
    BY <2>2, <2>3, <2>4, <2>5, <2>6 DEF Levels
<1>2. PICK u \in Nat \ {0} : u = Unit[m]
  BY Units
<1>3. PICK q \in Nat : q = t \div Unit[l]
  BY BaseFacts
<1>4. t = (u * k) * q
  <2>1. t = Base(l, t) + 0 /\ Base(l, t) \in Nat
    BY BaseFacts DEF Turns
  <2>2. Base(l, t) = Unit[l] * q
    BY <1>3, BaseFacts
  <2>3. Base(l, t) = (u * k) * q
    BY <1>1, <1>2, <2>2
  <2> QED
    BY <2>1, <2>3
<1>5. t = u * (k * q) + 0 /\ k * q \in Int /\ 0 \in 0 .. u - 1
  BY <1>4
<1>6. t % u = 0
  BY <1>5, DivUnique
<1> QED
  BY <1>2, <1>6 DEF Turns
-----------------------------------------------------------------------------
(* The wheels.                                                              *)

Shape(ws) ==
  /\ DOMAIN ws = Levels
  /\ \A l \in Levels :
       /\ DOMAIN ws[l] = 1 .. Size[l]
       /\ \A i \in 1 .. Size[l] : ws[l][i] \subseteq [e : Entries, rest : 0 .. Unit[l] - 1]

(* Entries with their delays. *)
Askings == [e : Entries, d : Nat]

(* PopUp moves each slot of one wheel and keeps the others. *)
LEMMA PopUpAt ==
  ASSUME NEW ws, Shape(ws), NEW l \in Levels
  PROVE  /\ Shape(PopUp(ws, l))
         /\ \A m \in Levels : \A i \in 1 .. Size[m] :
              PopUp(ws, l)[m][i] = IF m # l THEN ws[m][i]
                                   ELSE IF i < Size[m] THEN ws[m][i + 1] ELSE {}
<1> DEFINE F == [i \in 1 .. Size[l] |-> IF i < Size[l] THEN ws[l][i + 1] ELSE {}]
           p == PopUp(ws, l)
<1>1. DOMAIN p = Levels /\ \A m \in Levels : p[m] = IF m = l THEN F ELSE ws[m]
  BY DEF PopUp, Shape
<1>2. Size[l] \in Nat
  BY Units
<1>3. \A m \in Levels : \A i \in 1 .. Size[m] :
        p[m][i] = IF m # l THEN ws[m][i] ELSE IF i < Size[m] THEN ws[m][i + 1] ELSE {}
  BY <1>1
<1>4. DOMAIN F = 1 .. Size[l]
  OBVIOUS
<1> HIDE DEF F, p
<1>5. \A m \in Levels : DOMAIN p[m] = 1 .. Size[m]
  BY <1>1, <1>4 DEF Shape
<1>6. \A m \in Levels : \A i \in 1 .. Size[m] :
        p[m][i] \subseteq [e : Entries, rest : 0 .. Unit[m] - 1]
  <2> SUFFICES ASSUME NEW m \in Levels, NEW i \in 1 .. Size[m]
               PROVE  p[m][i] \subseteq [e : Entries, rest : 0 .. Unit[m] - 1]
    OBVIOUS
  <2>1. Size[m] \in Nat
    BY Units
  <2>2. i < Size[m] => i + 1 \in 1 .. Size[m]
    BY <2>1
  <2> QED
    BY <1>3, <2>2 DEF Shape
<1> QED
  BY <1>1, <1>3, <1>5, <1>6 DEF Shape, p

(* InsertEntry adds each entry, with its rest, to its slot. *)
LEMMA InsertAt ==
  ASSUME NEW ws, Shape(ws), NEW S, S \subseteq Askings
  PROVE  /\ Shape(InsertEntries(ws, S))
         /\ \A m \in Levels : \A i \in 1 .. Size[m] :
              InsertEntries(ws, S)[m][i]
                = ws[m][i] \cup {[e |-> s.e, rest |-> RestOf(s.d)] :
                                   s \in {t \in S : LevelOf(t.d) = m /\ SlotOf(t.d) = i}}
<1> DEFINE New(m, i) == {[e |-> s.e, rest |-> RestOf(s.d)] :
                           s \in {t \in S : LevelOf(t.d) = m /\ SlotOf(t.d) = i}}
           p == InsertEntries(ws, S)
<1>1. /\ DOMAIN p = Levels
      /\ \A m \in Levels : DOMAIN p[m] = 1 .. Size[m]
      /\ \A m \in Levels : \A i \in 1 .. Size[m] : p[m][i] = ws[m][i] \cup New(m, i)
  BY DEF InsertEntries
<1>2. ASSUME NEW m \in Levels, NEW i \in 1 .. Size[m]
      PROVE  New(m, i) \subseteq [e : Entries, rest : 0 .. Unit[m] - 1]
  <2>1. ASSUME NEW s \in S, LevelOf(s.d) = m
        PROVE  [e |-> s.e, rest |-> RestOf(s.d)] \in [e : Entries, rest : 0 .. Unit[m] - 1]
    <3>1. s.e \in Entries /\ s.d \in Nat
      BY DEF Askings
    <3>2. RestOf(s.d) \in 0 .. Unit[m] - 1
      BY <2>1, <3>1, InsertFacts
    <3> QED
      BY <3>1, <3>2
  <2> QED
    BY <2>1
<1> HIDE DEF New, p
<1>3. \A m \in Levels : \A i \in 1 .. Size[m] :
        p[m][i] \subseteq [e : Entries, rest : 0 .. Unit[m] - 1]
  BY <1>1, <1>2 DEF Shape
<1> QED
  BY <1>1, <1>3 DEF Shape, p, New

(* An insertion adds its own alarms. *)
LEMMA InsertAlarm ==
  ASSUME NEW ws, Shape(ws), NEW tm, \A l \in Levels : tm[l] \in Nat,
         NEW S, S \subseteq Askings, \A s \in S : InRange(s.d), NEW e, NEW at
  PROVE  Alarm(InsertEntries(ws, S), tm, e, at)
           <=> \/ Alarm(ws, tm, e, at)
               \/ \E s \in S : s.e = e /\ at = Base(LevelOf(s.d), tm[LevelOf(s.d)]) + s.d
<1> DEFINE p == InsertEntries(ws, S)
<1>1. /\ Shape(p)
      /\ \A m \in Levels : \A i \in 1 .. Size[m] :
           p[m][i] = ws[m][i] \cup {[e |-> s.e, rest |-> RestOf(s.d)] :
                                     s \in {t \in S : LevelOf(t.d) = m /\ SlotOf(t.d) = i}}
  BY InsertAt
<1> HIDE DEF p
<1>2. ASSUME NEW s \in S
      PROVE  /\ s.d \in Nat /\ LevelOf(s.d) \in Levels
             /\ SlotOf(s.d) \in 1 .. Size[LevelOf(s.d)]
             /\ Base(LevelOf(s.d), tm[LevelOf(s.d)]) + SlotOf(s.d) * Unit[LevelOf(s.d)] + RestOf(s.d)
                  = Base(LevelOf(s.d), tm[LevelOf(s.d)]) + s.d
  <2>1. s.d \in Nat
    BY DEF Askings
  <2>2. PICK m \in Levels : m = LevelOf(s.d)
    BY <2>1, InsertFacts
  <2>3. PICK x \in Int, q \in Int : x = SlotOf(s.d) * Unit[m] /\ q = RestOf(s.d)
    <3>1. Unit[m] \in Int
      BY Units
    <3>2. SlotOf(s.d) \in Int /\ RestOf(s.d) \in Int
      BY <2>1, <2>2, <3>1, InsertFacts
    <3>3. SlotOf(s.d) * Unit[m] \in Int
      BY <3>1, <3>2
    <3> QED
      BY <3>2, <3>3
  <2>4. x + q = s.d
    BY <2>1, <2>2, <2>3, InsertFacts
  <2>5. PICK b \in Int : b = Base(m, tm[m])
    BY BaseFacts
  <2>6. b + x + q = b + s.d
    BY <2>1, <2>3, <2>4, <2>5
  <2> QED
    BY <2>1, <2>2, <2>3, <2>5, <2>6 DEF InRange
<1>3. ASSUME Alarm(p, tm, e, at)
      PROVE  \/ Alarm(ws, tm, e, at)
             \/ \E s \in S : s.e = e /\ at = Base(LevelOf(s.d), tm[LevelOf(s.d)]) + s.d
  <2>1. PICK l \in Levels : \E i \in 1 .. Size[l] : \E c \in p[l][i] :
               c.e = e /\ at = Base(l, tm[l]) + i * Unit[l] + c.rest
    BY <1>3 DEF Alarm
  <2>2. PICK i \in 1 .. Size[l] : \E c \in p[l][i] :
               c.e = e /\ at = Base(l, tm[l]) + i * Unit[l] + c.rest
    BY <2>1
  <2>3. PICK c \in p[l][i] : c.e = e /\ at = Base(l, tm[l]) + i * Unit[l] + c.rest
    BY <2>2
  <2>4. CASE c \in ws[l][i]
    BY <2>3, <2>4 DEF Alarm
  <2>5. CASE c \notin ws[l][i]
    <3>1. PICK s \in S : /\ LevelOf(s.d) = l /\ SlotOf(s.d) = i
                         /\ c = [e |-> s.e, rest |-> RestOf(s.d)]
      BY <1>1, <2>5
    <3>2. s.e = e /\ c.rest = RestOf(s.d)
      BY <2>3, <3>1
    <3>3. at = Base(LevelOf(s.d), tm[LevelOf(s.d)]) + s.d
      BY <1>2, <2>3, <3>1, <3>2
    <3> QED
      BY <3>2, <3>3
  <2> QED
    BY <2>4, <2>5
<1>4. ASSUME Alarm(ws, tm, e, at) PROVE Alarm(p, tm, e, at)
  <2>1. \A m \in Levels : \A i \in 1 .. Size[m] : ws[m][i] \subseteq p[m][i]
    BY <1>1
  <2> QED
    BY <1>4, <2>1 DEF Alarm
<1>5. ASSUME NEW s \in S, s.e = e, at = Base(LevelOf(s.d), tm[LevelOf(s.d)]) + s.d
      PROVE  Alarm(p, tm, e, at)
  <2>1. PICK l \in Levels : l = LevelOf(s.d)
    BY <1>2
  <2>2. PICK i \in 1 .. Size[l] : i = SlotOf(s.d)
    BY <1>2, <2>1
  <2>3. PICK c : c = [e |-> s.e, rest |-> RestOf(s.d)]
    OBVIOUS
  <2>4. c \in p[l][i]
    BY <1>1, <2>1, <2>2, <2>3
  <2>5. c.e = e /\ at = Base(l, tm[l]) + i * Unit[l] + c.rest
    BY <1>2, <1>5, <2>1, <2>2, <2>3
  <2> QED
    BY <2>4, <2>5 DEF Alarm
<1> QED
  BY <1>3, <1>4, <1>5 DEF p

(* The wheels up to level k have had their turns at tick t + 1. *)
Times(k, t) == [l \in Levels |-> IF l <= k THEN t + 1 ELSE t]

(* When a wheel turns, what was in its first slot is due now and for the   *)
(* rest of its delay, and everything else when it was.                     *)
LEMMA PopUpAlarm ==
  ASSUME NEW ws, Shape(ws), NEW l \in Levels, NEW t \in Nat, Turns(l, t + 1), NEW e, NEW at
  PROVE  Alarm(ws, Times(l - 1, t), e, at)
           <=> \/ Alarm(PopUp(ws, l), Times(l, t), e, at)
               \/ \E c \in ws[l][1] : c.e = e /\ at = t + 1 + c.rest
<1> DEFINE p == PopUp(ws, l)
<1>1. \A m \in Levels : \A i \in 1 .. Size[m] :
        p[m][i] = IF m # l THEN ws[m][i] ELSE IF i < Size[m] THEN ws[m][i + 1] ELSE {}
  BY PopUpAt
<1>2. PICK u \in Nat \ {0}, n \in Nat : u = Unit[l] /\ n = Size[l] /\ n >= 2
  BY Units
<1>3. PICK b \in Int : b = Base(l, t) /\ b + u = t + 1 /\ Base(l, t + 1) = t + 1
  <2>1. Base(l, t) \in Int
    BY BaseFacts
  <2>2. Base(l, t + 1) = t + 1 /\ Base(l, t) + Unit[l] = t + 1
    BY BaseTurns
  <2> QED
    BY <1>2, <2>1, <2>2
<1>4. /\ \A m \in Levels : m # l => Times(l - 1, t)[m] = Times(l, t)[m]
      /\ Times(l - 1, t)[l] = t /\ Times(l, t)[l] = t + 1
  BY DEF Times, Levels
<1>5. \A i \in 1 .. n : \A c \in ws[l][i] : c.rest \in Int
  BY <1>2, Units DEF Shape
<1> HIDE DEF p
<1>6. ASSUME Alarm(ws, Times(l - 1, t), e, at)
      PROVE  \/ Alarm(p, Times(l, t), e, at)
             \/ \E c \in ws[l][1] : c.e = e /\ at = t + 1 + c.rest
  <2>1. PICK m \in Levels : \E i \in 1 .. Size[m] : \E c \in ws[m][i] :
               c.e = e /\ at = Base(m, Times(l - 1, t)[m]) + i * Unit[m] + c.rest
    BY <1>6 DEF Alarm
  <2>0. PICK i \in 1 .. Size[m] : \E c \in ws[m][i] :
               c.e = e /\ at = Base(m, Times(l - 1, t)[m]) + i * Unit[m] + c.rest
    BY <2>1
  <2>2. PICK c \in ws[m][i] :
               c.e = e /\ at = Base(m, Times(l - 1, t)[m]) + i * Unit[m] + c.rest
    BY <2>0
  <2>3. CASE m # l
    <3>1. c \in p[m][i] /\ at = Base(m, Times(l, t)[m]) + i * Unit[m] + c.rest
      BY <1>1, <1>4, <2>2, <2>3
    <3> QED
      BY <2>2, <3>1 DEF Alarm
  <2>4. CASE m = l /\ i = 1
    <3>1. at = b + 1 * u + c.rest /\ c \in ws[l][1]
      BY <1>2, <1>3, <1>4, <2>2, <2>4
    <3>2. at = t + 1 + c.rest
      BY <1>3, <3>1
    <3> QED
      BY <2>2, <3>1, <3>2
  <2>5. CASE m = l /\ i # 1
    <3>1. i \in Int /\ i - 1 \in 1 .. n /\ i - 1 < n /\ (i - 1) + 1 = i
      BY <1>2, <2>5
    <3>2. c \in p[l][i - 1]
      BY <1>1, <1>2, <2>5, <3>1
    <3>3. at = b + i * u + c.rest /\ c.rest \in Int
      BY <1>2, <1>3, <1>4, <1>5, <2>2, <2>5
    <3>4. (i - 1) * u = i * u - u /\ i * u \in Int
      BY <3>1
    <3>5. at = (t + 1) + (i - 1) * u + c.rest
      BY <1>3, <3>3, <3>4
    <3>6. at = Base(l, Times(l, t)[l]) + (i - 1) * Unit[l] + c.rest
      BY <1>2, <1>3, <1>4, <3>5
    <3> QED
      BY <1>2, <2>2, <3>1, <3>2, <3>6 DEF Alarm
  <2> QED
    BY <2>3, <2>4, <2>5
<1>7. ASSUME Alarm(p, Times(l, t), e, at) PROVE Alarm(ws, Times(l - 1, t), e, at)
  <2>1. PICK m \in Levels : \E i \in 1 .. Size[m] : \E c \in p[m][i] :
               c.e = e /\ at = Base(m, Times(l, t)[m]) + i * Unit[m] + c.rest
    BY <1>7 DEF Alarm
  <2>0. PICK i \in 1 .. Size[m] : \E c \in p[m][i] :
               c.e = e /\ at = Base(m, Times(l, t)[m]) + i * Unit[m] + c.rest
    BY <2>1
  <2>2. PICK c \in p[m][i] :
               c.e = e /\ at = Base(m, Times(l, t)[m]) + i * Unit[m] + c.rest
    BY <2>0
  <2>3. CASE m # l
    <3>1. c \in ws[m][i] /\ at = Base(m, Times(l - 1, t)[m]) + i * Unit[m] + c.rest
      BY <1>1, <1>4, <2>2, <2>3
    <3> QED
      BY <2>2, <3>1 DEF Alarm
  <2>4. CASE m = l
    <3>1. i < n /\ c \in ws[l][i + 1] /\ i + 1 \in 1 .. n /\ i \in Int
      BY <1>1, <1>2, <2>2, <2>4
    <3>2. at = (t + 1) + i * u + c.rest /\ c.rest \in Int
      BY <1>2, <1>3, <1>4, <1>5, <2>2, <2>4, <3>1
    <3>3. (i + 1) * u = i * u + u /\ i * u \in Int
      BY <3>1
    <3>4. at = b + (i + 1) * u + c.rest
      BY <1>3, <3>2, <3>3
    <3>5. at = Base(l, Times(l - 1, t)[l]) + (i + 1) * Unit[l] + c.rest
      BY <1>2, <1>3, <1>4, <3>4
    <3> QED
      BY <1>2, <2>2, <3>1, <3>5 DEF Alarm
  <2> QED
    BY <2>3, <2>4
<1>8. ASSUME NEW c \in ws[l][1], c.e = e, at = t + 1 + c.rest
      PROVE  Alarm(ws, Times(l - 1, t), e, at)
  <2>1. c.rest \in Int /\ 1 \in 1 .. Size[l]
    BY <1>2, <1>5
  <2>2. at = b + 1 * u + c.rest
    BY <1>3, <1>8, <2>1
  <2>3. at = Base(l, Times(l - 1, t)[l]) + 1 * Unit[l] + c.rest
    BY <1>2, <1>3, <1>4, <2>2
  <2> QED
    BY <1>8, <2>1, <2>3 DEF Alarm
<1> QED
  BY <1>6, <1>7, <1>8 DEF p

(* The turn of a coarse wheel changes no alarm. *)
LEMMA CoarseAlarm ==
  ASSUME NEW ws, Shape(ws), NEW l \in 2 .. 4, NEW t \in Nat,
         \A x \in Dropped(ws, l, t + 1) : InRange(x.d)
  PROVE  /\ Shape(PopUpCoarse(ws, l, t + 1))
         /\ \A e, at : Alarm(PopUpCoarse(ws, l, t + 1), Times(l, t), e, at)
                         <=> Alarm(ws, Times(l - 1, t), e, at)
<1> DEFINE D == Dropped(ws, l, t + 1)
           p == PopUp(ws, l)
<1>0. l \in Levels /\ t + 1 \in Nat
  BY DEF Levels
<1>1. CASE ~Turns(l, t + 1)
  <2>1. PopUpCoarse(ws, l, t + 1) = ws
    BY <1>1 DEF PopUpCoarse
  <2>2. \A m \in Levels : Base(m, Times(l, t)[m]) = Base(m, Times(l - 1, t)[m])
    <3>1. \A m \in Levels : m # l => Times(l - 1, t)[m] = Times(l, t)[m]
      BY DEF Times, Levels
    <3>2. Times(l - 1, t)[l] = t /\ Times(l, t)[l] = t + 1
      BY <1>0 DEF Times, Levels
    <3> QED
      BY <1>0, <1>1, <3>1, <3>2, BaseStays
  <2> QED
    BY <2>1, <2>2 DEF Alarm
<1>2. CASE Turns(l, t + 1)
  <2>1. \A c \in ws[l][1] : c.e \in Entries /\ c.rest \in Nat /\ c.rest < Unit[l]
    BY <1>0, Units DEF Shape
  <2>2. D = {[e |-> c.e, d |-> c.rest] : c \in ws[l][1]}
    BY <1>2 DEF Dropped, Unwrapped
  <2>3. D \subseteq Askings
    BY <2>1, <2>2 DEF Askings
  <2>4. PopUpCoarse(ws, l, t + 1) = InsertEntries(p, D)
    BY <1>2 DEF PopUpCoarse
  <2>5. Shape(p)
    BY <1>0, PopUpAt
  <2>6. \A m \in Levels : Times(l, t)[m] \in Nat
    BY <1>0 DEF Times
  <2> HIDE DEF D, p
  <2>7. Shape(InsertEntries(p, D))
    BY <2>3, <2>5, InsertAt
  <2>8. ASSUME NEW d \in Nat, d < Unit[l]
        PROVE  Base(LevelOf(d), Times(l, t)[LevelOf(d)]) = t + 1
    <3>1. LevelOf(d) \in Levels /\ LevelOf(d) <= l
      BY <1>0, <2>8, Units DEF LevelOf, Levels
    <3>2. Times(l, t)[LevelOf(d)] = t + 1
      BY <3>1 DEF Times
    <3>3. Turns(LevelOf(d), t + 1)
      BY <1>0, <1>2, <3>1, FinerTurn
    <3> QED
      BY <3>1, <3>2, <3>3, BaseTurns
  <2>9. ASSUME NEW e, NEW at
        PROVE  Alarm(InsertEntries(p, D), Times(l, t), e, at) <=> Alarm(ws, Times(l - 1, t), e, at)
    <3>1. Alarm(InsertEntries(p, D), Times(l, t), e, at)
            <=> \/ Alarm(p, Times(l, t), e, at)
                \/ \E x \in D : x.e = e /\ at = Base(LevelOf(x.d), Times(l, t)[LevelOf(x.d)]) + x.d
      <4>1. \A x \in D : InRange(x.d)
        BY DEF D
      <4> QED
        BY <2>3, <2>5, <2>6, <4>1, InsertAlarm
    <3>2. Alarm(ws, Times(l - 1, t), e, at)
            <=> \/ Alarm(p, Times(l, t), e, at)
                \/ \E c \in ws[l][1] : c.e = e /\ at = t + 1 + c.rest
      BY <1>0, <1>2, PopUpAlarm DEF p
    <3>3. (\E x \in D : x.e = e /\ at = Base(LevelOf(x.d), Times(l, t)[LevelOf(x.d)]) + x.d)
            <=> (\E c \in ws[l][1] : c.e = e /\ at = t + 1 + c.rest)
      <4>1. ASSUME NEW x \in D, x.e = e, at = Base(LevelOf(x.d), Times(l, t)[LevelOf(x.d)]) + x.d
            PROVE  \E c \in ws[l][1] : c.e = e /\ at = t + 1 + c.rest
        <5>1. PICK c \in ws[l][1] : x = [e |-> c.e, d |-> c.rest]
          BY <2>2
        <5>2. x.e = c.e /\ x.d = c.rest /\ c.rest \in Nat /\ c.rest < Unit[l]
          BY <2>1, <5>1
        <5>3. Base(LevelOf(x.d), Times(l, t)[LevelOf(x.d)]) = t + 1
          BY <2>8, <5>2
        <5> QED
          BY <4>1, <5>2, <5>3
      <4>2. ASSUME NEW c \in ws[l][1], c.e = e, at = t + 1 + c.rest
            PROVE  \E x \in D : x.e = e /\ at = Base(LevelOf(x.d), Times(l, t)[LevelOf(x.d)]) + x.d
        <5>1. PICK x \in D : x = [e |-> c.e, d |-> c.rest]
          BY <2>2
        <5>2. x.e = c.e /\ x.d = c.rest /\ c.rest \in Nat /\ c.rest < Unit[l]
          BY <2>1, <5>1
        <5>3. Base(LevelOf(x.d), Times(l, t)[LevelOf(x.d)]) = t + 1
          BY <2>8, <5>2
        <5> QED
          BY <4>2, <5>2, <5>3
      <4> QED
        BY <4>1, <4>2
    <3> QED
      BY <3>1, <3>2, <3>3
  <2> QED
    BY <2>4, <2>7, <2>9
<1> QED
  BY <1>1, <1>2
-----------------------------------------------------------------------------
(* Delays that keep the wheels inside their slots.                          *)

Good(d) == d % Minute # 0 /\ d \div Day <= Days

(* No rest in a coarse wheel is a whole number of minutes. *)
RestsGood(ws) ==
  \A l \in 2 .. 4 : \A i \in 1 .. Size[l] : \A c \in ws[l][i] : c.rest % Minute # 0

(* A number from u to less than n times u has a quotient of 1 to n. *)
LEMMA QuotientRange ==
  ASSUME NEW u \in Nat \ {0}, NEW n \in Nat, NEW d \in Nat, u <= d, d < u * n
  PROVE  d \div u \in 1 .. n
<1>1. PICK q \in Nat, r \in 0 .. u - 1 : q = d \div u /\ d = u * q + r
  BY Divided
<1>2. CASE q = 0
  <2>1. u * q = 0
    BY <1>2
  <2> QED
    BY <1>1, <2>1
<1>3. CASE q > n
  <2>1. u * (q - n) >= u
    BY <1>3
  <2>2. u * (q - n) = u * q - u * n
    OBVIOUS
  <2> QED
    BY <1>1, <2>1, <2>2
<1> QED
  BY <1>1, <1>2, <1>3

(* A multiple of minutes and a rest are whole minutes if the rest is. *)
LEMMA MinutesAdd ==
  ASSUME NEW d \in Nat, NEW k \in Nat, NEW q \in Nat, NEW r \in Nat,
         d = (Minute * k) * q + r, r % Minute = 0
  PROVE  d % Minute = 0
<1>1. Minute \in Nat \ {0}
  BY Units
<1>2. PICK p \in Nat : r = Minute * p + 0
  BY <1>1, Divided
<1>3. (Minute * k) * q + Minute * p = Minute * (k * q + p)
  BY <1>1
<1>4. PICK x \in Nat : x = k * q + p
  OBVIOUS
<1>5. d = Minute * x + 0
  BY <1>1, <1>2, <1>3, <1>4
<1>6. 0 \in 0 .. Minute - 1
  BY <1>1
<1> QED
  BY <1>1, <1>5, <1>6, DivUnique

(* A good delay has a slot, and leaves a good rest in a coarse wheel. *)
LEMMA GoodInRange ==
  ASSUME NEW d \in Nat, Good(d)
  PROVE  /\ InRange(d)
         /\ LevelOf(d) \in 2 .. 4 => RestOf(d) % Minute # 0
<1> USE Units
<1>1. d # 0
  <2>1. 0 = Minute * 0 + 0 /\ 0 \in 0 .. Minute - 1
    OBVIOUS
  <2>2. 0 % Minute = 0
    BY <2>1, DivUnique
  <2> QED
    BY <2>2 DEF Good
<1>2. ASSUME LevelOf(d) = 1 PROVE InRange(d)
  <2>1. d < Minute
    BY <1>2 DEF LevelOf
  <2>2. d = 1 * d + 0 /\ 0 \in 0 .. 1 - 1 /\ 1 \in Nat \ {0}
    OBVIOUS
  <2>3. d \div 1 = d
    BY <2>2, DivUnique
  <2>4. SlotOf(d) = d /\ Size[LevelOf(d)] = Minute
    BY <1>2, <2>3 DEF SlotOf, Minute
  <2> QED
    BY <1>1, <1>2, <2>1, <2>4 DEF InRange
<1>3. ASSUME LevelOf(d) = 2 PROVE InRange(d)
  <2>1. Minute <= d /\ d < Minute * Minutes
    BY <1>3 DEF LevelOf
  <2>2. d \div Minute \in 1 .. Minutes
    BY <2>1, QuotientRange, WheelAssumption
  <2> QED
    BY <1>3, <2>2 DEF InRange, SlotOf
<1>4. ASSUME LevelOf(d) = 3 PROVE InRange(d)
  <2>1. Hour <= d /\ d < Hour * Hours
    BY <1>4 DEF LevelOf
  <2>2. d \div Hour \in 1 .. Hours
    BY <2>1, QuotientRange, WheelAssumption
  <2> QED
    BY <1>4, <2>2 DEF InRange, SlotOf
<1>5. ASSUME LevelOf(d) = 4 PROVE InRange(d)
  <2>1. Day <= d
    BY <1>5 DEF LevelOf
  <2>2. PICK q \in Nat, r \in 0 .. Day - 1 : q = d \div Day /\ d = Day * q + r
    <3>1. Day \in Nat \ {0}
      OBVIOUS
    <3> QED
      BY ONLY <3>1, Divided, d \in Nat
  <2>3. q # 0
    <3>1. q = 0 => Day * q = 0
      OBVIOUS
    <3> QED
      BY <2>1, <2>2, <3>1
  <2>4. q \in 1 .. Days
    BY <2>2, <2>3, WheelAssumption DEF Good
  <2> QED
    BY <1>5, <2>2, <2>4 DEF InRange, SlotOf
<1>6. ASSUME LevelOf(d) \in 2 .. 4 PROVE RestOf(d) % Minute # 0
  <2>1. PICK k \in Nat : Unit[LevelOf(d)] = Minute * k
    <3>1. Minutes \in Nat /\ Minutes * Hours \in Nat /\ Minute = Minute * 1
      BY WheelAssumption
    <3> QED
      BY <1>6, <3>1
  <2>2. PICK q \in Nat : q = SlotOf(d)
    BY InsertFacts
  <2>3. PICK x \in Nat : x = RestOf(d)
    BY InsertFacts
  <2>4. d = (Minute * k) * q + x
    <3>1. q * (Minute * k) + x = d
      BY <2>1, <2>2, <2>3, InsertFacts
    <3> QED
      BY <3>1
  <2>5. x % Minute = 0 => d % Minute = 0
    BY <2>4, MinutesAdd
  <2> QED
    BY <2>3, <2>5 DEF Good
<1> QED
  BY <1>2, <1>3, <1>4, <1>5, <1>6, InsertFacts DEF Levels

(* Good delays find a slot, and leave no rest of whole minutes. *)
LEMMA RestsInsert ==
  ASSUME NEW ws, Shape(ws), RestsGood(ws), NEW S, S \subseteq Askings,
         \A s \in S : Good(s.d)
  PROVE  RestsGood(InsertEntries(ws, S)) /\ \A s \in S : InRange(s.d)
<1> DEFINE p == InsertEntries(ws, S)
<1>1. \A m \in Levels : \A i \in 1 .. Size[m] :
        p[m][i] = ws[m][i] \cup {[e |-> s.e, rest |-> RestOf(s.d)] :
                                  s \in {t \in S : LevelOf(t.d) = m /\ SlotOf(t.d) = i}}
  BY InsertAt
<1>2. \A s \in S : InRange(s.d) /\ (LevelOf(s.d) \in 2 .. 4 => RestOf(s.d) % Minute # 0)
  BY GoodInRange DEF Askings
<1> HIDE DEF p
<1>3. ASSUME NEW l \in 2 .. 4, NEW i \in 1 .. Size[l], NEW c \in p[l][i]
      PROVE  c.rest % Minute # 0
  <2>0. l \in Levels
    BY DEF Levels
  <2>1. CASE c \in ws[l][i]
    BY <2>1 DEF RestsGood
  <2>2. CASE c \notin ws[l][i]
    <3>1. PICK s \in S : LevelOf(s.d) = l /\ c = [e |-> s.e, rest |-> RestOf(s.d)]
      BY <1>1, <2>0, <2>2
    <3> QED
      BY <1>2, <3>1
  <2> QED
    BY <2>1, <2>2
<1> QED
  BY <1>2, <1>3 DEF RestsGood, p

(* PopUp changes no rest. *)
LEMMA RestsPopUp ==
  ASSUME NEW ws, Shape(ws), RestsGood(ws), NEW l \in Levels
  PROVE  RestsGood(PopUp(ws, l))
<1>1. ASSUME NEW m \in 2 .. 4, NEW i \in 1 .. Size[m], NEW c \in PopUp(ws, l)[m][i]
      PROVE  c.rest % Minute # 0
  <2>1. m \in Levels /\ Size[m] \in Nat
    BY Units DEF Levels
  <2>2. c \in ws[m][i] \/ (i < Size[m] /\ c \in ws[m][i + 1])
    BY <2>1, PopUpAt
  <2>3. i < Size[m] => i + 1 \in 1 .. Size[m]
    BY <2>1
  <2> QED
    BY <2>2, <2>3 DEF RestsGood
<1> QED
  BY <1>1 DEF RestsGood

(* A coarse wheel's turn hands on rests that find a slot. *)
LEMMA RestsCoarse ==
  ASSUME NEW ws, Shape(ws), RestsGood(ws), NEW l \in 2 .. 4, NEW t
  PROVE  RestsGood(PopUpCoarse(ws, l, t)) /\ \A x \in Dropped(ws, l, t) : InRange(x.d)
<1> DEFINE D == Dropped(ws, l, t)
<1>0. l \in Levels /\ 1 \in 1 .. Size[l]
  BY Units DEF Levels
<1>1. \A x \in D : \E c \in ws[l][1] : x = [e |-> c.e, d |-> c.rest]
  BY DEF Dropped, Unwrapped
<1>2. ASSUME NEW c \in ws[l][1]
      PROVE  c.e \in Entries /\ c.rest \in Nat /\ Good(c.rest)
  <2>1. c.e \in Entries /\ c.rest \in Nat /\ c.rest < Unit[l]
    BY <1>0, Units DEF Shape
  <2>2. c.rest % Minute # 0
    BY <1>0 DEF RestsGood
  <2>3. c.rest < Day
    BY <2>1, Units
  <2>4. PICK n \in Nat : n = c.rest
    BY <2>1
  <2>5. n = Day * 0 + n /\ n \in 0 .. Day - 1
    BY <2>3, <2>4, Units
  <2>6. n \div Day = 0
    BY <2>5, DivUnique, Units
  <2> QED
    BY <2>1, <2>2, <2>4, <2>6, WheelAssumption DEF Good
<1>3. D \subseteq Askings /\ \A x \in D : Good(x.d)
  BY <1>1, <1>2 DEF Askings
<1>4. Shape(PopUp(ws, l)) /\ RestsGood(PopUp(ws, l))
  BY <1>0, PopUpAt, RestsPopUp
<1> HIDE DEF D
<1>5. RestsGood(InsertEntries(PopUp(ws, l), D)) /\ \A x \in D : InRange(x.d)
  BY <1>3, <1>4, RestsInsert
<1> QED
  BY <1>5 DEF PopUpCoarse, D
-----------------------------------------------------------------------------
(* The inductive invariant.                                                 *)

Now(t) == [l \in Levels |-> t]

(* Every reference is due in time, and the last one not too early. *)
InTime ==
  \A e, at : Alarm(wheels, Now(tick), e, at) => e \in pending /\ at <= asked[e] + delay[e]

LastInTime ==
  \A e \in pending : \E at :
    Alarm(wheels, Now(tick), e, at) /\ at >= asked[e] + delay[e] - Slack(delay[e])

AskedBefore == \A e \in pending : asked[e] <= tick /\ delay[e] \in Delays

InSlots == (\A d \in Delays : Good(d)) => ~wild /\ RestsGood(wheels)

WheelInv == WheelType /\ InTime /\ LastInTime /\ AskedBefore /\ InSlots

(* An alarm is an integer, and refers to an entry. *)
LEMMA AlarmRefers ==
  ASSUME NEW ws, Shape(ws), NEW tm, \A l \in Levels : tm[l] \in Nat
  PROVE  /\ \A e, at : Alarm(ws, tm, e, at) => at \in Int /\ e \in Entries /\ RefersTo(ws, e)
         /\ \A e : RefersTo(ws, e) => \E at : Alarm(ws, tm, e, at)
<1>1. ASSUME NEW e, NEW at, Alarm(ws, tm, e, at)
      PROVE  at \in Int /\ e \in Entries /\ RefersTo(ws, e)
  <2>1. PICK l \in Levels : \E i \in 1 .. Size[l] : \E c \in ws[l][i] :
               c.e = e /\ at = Base(l, tm[l]) + i * Unit[l] + c.rest
    BY <1>1 DEF Alarm
  <2>2. PICK i \in 1 .. Size[l] : \E c \in ws[l][i] :
               c.e = e /\ at = Base(l, tm[l]) + i * Unit[l] + c.rest
    BY <2>1
  <2>3. PICK c \in ws[l][i] : c.e = e /\ at = Base(l, tm[l]) + i * Unit[l] + c.rest
    BY <2>2
  <2>4. c.e \in Entries /\ c.rest \in Int
    BY Units DEF Shape
  <2>5. Base(l, tm[l]) \in Int
    BY BaseFacts
  <2>6. i * Unit[l] \in Int
    <3>1. i \in Int /\ Unit[l] \in Int
      BY Units
    <3> QED
      BY <3>1
  <2>7. at \in Int
    BY <2>3, <2>4, <2>5, <2>6
  <2> QED
    BY <2>3, <2>4, <2>7 DEF RefersTo
<1>2. ASSUME NEW e, RefersTo(ws, e) PROVE \E at : Alarm(ws, tm, e, at)
  BY <1>2 DEF RefersTo, Alarm
<1> QED
  BY <1>1, <1>2

(* What a fresh insertion promises: seen at a tick n of the wheels that    *)
(* have turned and n - 1 of those that have not, or at n of all.           *)
LEMMA InsertInTime ==
  ASSUME NEW n \in Nat, NEW t \in Nat, t = n \/ t + 1 = n, NEW d \in Nat,
         LevelOf(d) = 1 => t = n
  PROVE  /\ Base(LevelOf(d), t) + d <= n + d
         /\ Base(LevelOf(d), t) + d >= n + d - Slack(d)
         /\ Base(LevelOf(d), t) + d \in Int
<1>1. PICK l \in Levels : l = LevelOf(d)
  BY InsertFacts
<1>2. PICK b \in Nat : b = Base(l, t) /\ b <= t /\ t < b + Unit[l]
  BY BaseFacts
<1>3. Unit[l] \in Nat
  BY Units
<1>4. l = 1 <=> d < Minute
  BY <1>1, Units DEF LevelOf
<1>5. CASE l = 1
  <2>1. b = t /\ t = n
    BY <1>1, <1>2, <1>5, Units
  <2> QED
    BY <1>1, <1>2, <1>4, <1>5, <2>1 DEF Slack
<1>6. CASE l # 1
  BY <1>1, <1>2, <1>3, <1>4, <1>6 DEF Slack
<1> QED
  BY <1>5, <1>6

(* The wheels have their shape, and time is a natural number. *)
LEMMA ShapeNow == WheelType => Shape(wheels) /\ tick \in Nat /\ \A l \in Levels : Now(tick)[l] \in Nat
BY WheelAssumption DEF WheelType, Shape, Now

(* Empty wheels satisfy the inductive invariant. *)
LEMMA InitWheel == WheelInit => WheelInv
<1> SUFFICES ASSUME WheelInit PROVE WheelInv
  OBVIOUS
<1>0. \A l \in Levels : \A i \in 1 .. Size[l] : wheels[l][i] = {}
  BY DEF WheelInit
<1>1. WheelType
  <2>1. DOMAIN wheels = Levels /\ \A l \in Levels : DOMAIN wheels[l] = 1 .. Size[l]
    BY DEF WheelInit
  <2>2. tick \in 0 .. MaxTick /\ asked \in [Entries -> Nat] /\ delay \in [Entries -> Nat]
    BY WheelAssumption DEF WheelInit
  <2>3. pending \subseteq Entries /\ fired \subseteq Entries /\ open \subseteq Conns /\ wild \in BOOLEAN
    BY DEF WheelInit
  <2> QED
    BY <1>0, <2>1, <2>2, <2>3 DEF WheelType
<1>2. InTime
  BY <1>0 DEF InTime, Alarm
<1>3. LastInTime /\ AskedBefore
  BY DEF WheelInit, LastInTime, AskedBefore
<1>4. RestsGood(wheels)
  <2>1. 2 .. 4 \subseteq Levels
    BY DEF Levels
  <2> QED
    BY <1>0, <2>1 DEF RestsGood
<1>5. InSlots
  BY <1>4 DEF WheelInit, InSlots
<1> QED
  BY <1>1, <1>2, <1>3, <1>5 DEF WheelInv

(* An entry is inserted for the first time, or again with its own delay. *)
LEMMA InsertKeeps ==
  ASSUME WheelInv, ~wild, NEW e \in Entries, NEW d \in Delays, Insert(e, d),
         e \in pending => d = delay[e]
  PROVE  WheelInv' /\ fired' = {}
<1> DEFINE S == {[e |-> e, d |-> d]}
<1>0. /\ Shape(wheels) /\ tick \in Nat /\ d \in Nat /\ pending \subseteq Entries
      /\ asked \in [Entries -> Nat] /\ delay \in [Entries -> Nat]
      /\ \A l \in Levels : Now(tick)[l] \in Nat
  BY ShapeNow, WheelAssumption DEF WheelInv, WheelType
<1>1. CASE ~InRange(d)
  <2>1. /\ wild' = TRUE /\ fired' = {}
        /\ UNCHANGED <<tick, wheels, pending, asked, delay, open>>
    BY <1>1 DEF Insert
  <2>2. ~(\A x \in Delays : Good(x))
    BY <1>0, <1>1, GoodInRange
  <2>3. InSlots'
    BY <2>2 DEF InSlots, Good
  <2>4. WheelType'
    BY <2>1 DEF WheelInv, WheelType
  <2>5. (InTime /\ LastInTime /\ AskedBefore)'
    BY <2>1 DEF WheelInv, InTime, LastInTime, AskedBefore, Alarm
  <2> QED
    BY <2>1, <2>3, <2>4, <2>5 DEF WheelInv
<1>2. CASE InRange(d)
  <2>1. /\ wheels' = InsertEntries(wheels, S) /\ pending' = pending \cup {e}
        /\ asked' = [asked EXCEPT ![e] = tick] /\ delay' = [delay EXCEPT ![e] = d]
        /\ fired' = {} /\ UNCHANGED <<tick, open, wild>>
    BY <1>2 DEF Insert
  <2>2. S \subseteq Askings /\ \A s \in S : InRange(s.d)
    BY <1>0, <1>2 DEF Askings
  <2>3. \A s \in S : s.e = e /\ s.d = d
    OBVIOUS
  <2>4. \E s \in S : s.e = e /\ s.d = d
    OBVIOUS
  <2> HIDE DEF S
  <2>5. Shape(wheels')
    BY <1>0, <2>1, <2>2, InsertAt
  <2>6. WheelType'
    BY <1>0, <2>1, <2>5 DEF WheelInv, WheelType, Shape
  <2>7. PICK new \in Int : /\ new = Base(LevelOf(d), tick) + d
                           /\ new <= tick + d /\ new >= tick + d - Slack(d)
    <3>1. tick = tick \/ tick + 1 = tick
      OBVIOUS
    <3> QED
      BY <1>0, <3>1, InsertInTime
  <2>8. ASSUME NEW x, NEW at
        PROVE  Alarm(wheels, Now(tick), x, at)'
                 <=> Alarm(wheels, Now(tick), x, at) \/ (x = e /\ at = new)
    <3>1. Alarm(wheels, Now(tick), x, at)' <=> Alarm(wheels', Now(tick), x, at)
      BY <2>1 DEF Alarm, Now
    <3>2. Alarm(InsertEntries(wheels, S), Now(tick), x, at)
            <=> \/ Alarm(wheels, Now(tick), x, at)
                \/ \E s \in S : s.e = x /\ at = Base(LevelOf(s.d), Now(tick)[LevelOf(s.d)]) + s.d
      BY <1>0, <2>2, InsertAlarm
    <3>3. Now(tick)[LevelOf(d)] = tick
      BY <1>0, InsertFacts DEF Now
    <3> QED
      BY <2>1, <2>3, <2>4, <2>7, <3>1, <3>2, <3>3
  <2>9. \A x \in Entries :
          /\ asked'[x] = IF x = e THEN tick ELSE asked[x]
          /\ delay'[x] = IF x = e THEN d ELSE delay[x]
    BY <1>0, <2>1
  <2>10. InTime'
    <3> SUFFICES ASSUME NEW x, NEW at, Alarm(wheels, Now(tick), x, at)'
                 PROVE  x \in pending' /\ at <= asked'[x] + delay'[x]
      BY DEF InTime
    <3>1. CASE x = e /\ at = new
      BY <2>1, <2>7, <2>9, <3>1
    <3>2. CASE Alarm(wheels, Now(tick), x, at)
      <4>1. x \in pending /\ at <= asked[x] + delay[x] /\ at \in Int /\ x \in Entries
        BY <1>0, <3>2, AlarmRefers DEF WheelInv, InTime
      <4>2. asked[x] \in Nat /\ delay[x] \in Nat /\ asked[x] <= tick
        BY <1>0, <4>1 DEF WheelInv, AskedBefore
      <4>3. CASE x = e
        <5>1. asked'[x] = tick /\ delay'[x] = delay[x]
          BY <2>9, <4>1, <4>3
        <5> QED
          BY <1>0, <2>1, <4>1, <4>2, <5>1
      <4>4. CASE x # e
        BY <2>1, <2>9, <4>1, <4>4
      <4> QED
        BY <4>3, <4>4
    <3> QED
      BY <2>8, <3>1, <3>2
  <2>11. LastInTime'
    <3> SUFFICES ASSUME NEW x \in pending'
                 PROVE  \E at : /\ Alarm(wheels, Now(tick), x, at)'
                                /\ at >= asked'[x] + delay'[x] - Slack(delay'[x])
      BY DEF LastInTime, Slack
    <3>1. CASE x = e
      <4>1. asked'[x] = tick /\ delay'[x] = d
        BY <2>9, <3>1
      <4> QED
        BY <2>7, <2>8, <3>1, <4>1
    <3>2. CASE x # e
      <4>1. x \in pending /\ asked'[x] = asked[x] /\ delay'[x] = delay[x]
        BY <1>0, <2>1, <2>9, <3>2
      <4> QED
        BY <2>8, <4>1 DEF WheelInv, LastInTime
    <3> QED
      BY <3>1, <3>2
  <2>12. AskedBefore'
    BY <1>0, <2>1, <2>9 DEF WheelInv, AskedBefore
  <2>13. InSlots'
    <3>1. ASSUME \A x \in Delays : Good(x) PROVE RestsGood(wheels')
      <4>1. RestsGood(wheels)
        BY <3>1 DEF WheelInv, InSlots
      <4>2. \A s \in S : Good(s.d)
        BY <2>3, <3>1
      <4> QED
        BY <1>0, <2>1, <2>2, <4>1, <4>2, RestsInsert
    <3> QED
      BY <2>1, <3>1 DEF InSlots, RestsGood, Good
  <2> QED
    BY <2>1, <2>6, <2>10, <2>11, <2>12, <2>13 DEF WheelInv
<1> QED
  BY <1>1, <1>2

(* The turns of the three coarse wheels at one tick. *)
LEMMA CoarseTurns ==
  ASSUME NEW t \in Nat, NEW ws1, Shape(ws1),
         NEW ws2, ws2 = PopUpCoarse(ws1, 2, t + 1), NEW ws3, ws3 = PopUpCoarse(ws2, 3, t + 1)
  PROVE  /\ (/\ \A x \in Dropped(ws1, 2, t + 1) : InRange(x.d)
             /\ \A x \in Dropped(ws2, 3, t + 1) : InRange(x.d)
             /\ \A x \in Dropped(ws3, 4, t + 1) : InRange(x.d))
            => /\ Shape(PopUpCoarse(ws3, 4, t + 1))
               /\ \A e, at : Alarm(PopUpCoarse(ws3, 4, t + 1), Now(t + 1), e, at)
                               <=> Alarm(ws1, Times(1, t), e, at)
         /\ RestsGood(ws1)
            => /\ \A x \in Dropped(ws1, 2, t + 1) : InRange(x.d)
               /\ \A x \in Dropped(ws2, 3, t + 1) : InRange(x.d)
               /\ \A x \in Dropped(ws3, 4, t + 1) : InRange(x.d)
               /\ RestsGood(PopUpCoarse(ws3, 4, t + 1))
<1>0. 2 \in 2 .. 4 /\ 3 \in 2 .. 4 /\ 4 \in 2 .. 4 /\ 2 - 1 = 1 /\ 3 - 1 = 2 /\ 4 - 1 = 3
  OBVIOUS
<1>1. ASSUME \A x \in Dropped(ws1, 2, t + 1) : InRange(x.d)
      PROVE  /\ Shape(ws2)
             /\ \A e, at : Alarm(ws2, Times(2, t), e, at) <=> Alarm(ws1, Times(1, t), e, at)
  BY <1>0, <1>1, CoarseAlarm
<1>2. ASSUME Shape(ws2), \A x \in Dropped(ws2, 3, t + 1) : InRange(x.d)
      PROVE  /\ Shape(ws3)
             /\ \A e, at : Alarm(ws3, Times(3, t), e, at) <=> Alarm(ws2, Times(2, t), e, at)
  BY <1>0, <1>2, CoarseAlarm
<1>3. ASSUME Shape(ws3), \A x \in Dropped(ws3, 4, t + 1) : InRange(x.d)
      PROVE  /\ Shape(PopUpCoarse(ws3, 4, t + 1))
             /\ \A e, at : Alarm(PopUpCoarse(ws3, 4, t + 1), Times(4, t), e, at)
                             <=> Alarm(ws3, Times(3, t), e, at)
  BY <1>0, <1>3, CoarseAlarm
<1>4. Times(4, t) = Now(t + 1)
  BY DEF Times, Now, Levels
<1>5. ASSUME /\ \A x \in Dropped(ws1, 2, t + 1) : InRange(x.d)
             /\ \A x \in Dropped(ws2, 3, t + 1) : InRange(x.d)
             /\ \A x \in Dropped(ws3, 4, t + 1) : InRange(x.d)
      PROVE  /\ Shape(PopUpCoarse(ws3, 4, t + 1))
             /\ \A e, at : Alarm(PopUpCoarse(ws3, 4, t + 1), Now(t + 1), e, at)
                             <=> Alarm(ws1, Times(1, t), e, at)
  BY <1>1, <1>2, <1>3, <1>4, <1>5
<1>6. ASSUME RestsGood(ws1)
      PROVE  /\ \A x \in Dropped(ws1, 2, t + 1) : InRange(x.d)
             /\ \A x \in Dropped(ws2, 3, t + 1) : InRange(x.d)
             /\ \A x \in Dropped(ws3, 4, t + 1) : InRange(x.d)
             /\ RestsGood(PopUpCoarse(ws3, 4, t + 1))
  <2>1. RestsGood(ws2) /\ \A x \in Dropped(ws1, 2, t + 1) : InRange(x.d)
    BY <1>0, <1>6, RestsCoarse
  <2>2. Shape(ws2)
    BY <1>1, <2>1
  <2>3. RestsGood(ws3) /\ \A x \in Dropped(ws2, 3, t + 1) : InRange(x.d)
    BY <1>0, <2>1, <2>2, RestsCoarse
  <2>4. Shape(ws3)
    BY <1>2, <2>2, <2>3
  <2>5. /\ RestsGood(PopUpCoarse(ws3, 4, t + 1))
        /\ \A x \in Dropped(ws3, 4, t + 1) : InRange(x.d)
    BY <1>0, <2>3, <2>4, RestsCoarse
  <2> QED
    BY <2>1, <2>3, <2>5
<1> QED
  BY <1>5, <1>6

(* No alarm has passed. *)
LEMMA AlarmLater ==
  ASSUME NEW ws, Shape(ws), NEW t \in Nat, NEW tm,
         \A l \in Levels : tm[l] \in Nat /\ tm[l] >= t,
         NEW e, NEW at, Alarm(ws, tm, e, at)
  PROVE  at \in Int /\ at > t
<1>1. PICK l \in Levels : \E i \in 1 .. Size[l] : \E c \in ws[l][i] :
             c.e = e /\ at = Base(l, tm[l]) + i * Unit[l] + c.rest
  BY DEF Alarm
<1>2. PICK i \in 1 .. Size[l] : \E c \in ws[l][i] :
             c.e = e /\ at = Base(l, tm[l]) + i * Unit[l] + c.rest
  BY <1>1
<1>3. PICK c \in ws[l][i] : c.e = e /\ at = Base(l, tm[l]) + i * Unit[l] + c.rest
  BY <1>2
<1>4. PICK u \in Nat \ {0} : u = Unit[l]
  BY Units
<1>5. PICK r \in Nat : r = c.rest
  BY <1>4 DEF Shape
<1>6. PICK b \in Nat : b = Base(l, tm[l]) /\ tm[l] < b + u
  BY <1>4, BaseFacts
<1>7. i \in Int /\ i >= 1
  OBVIOUS
<1>8. PICK x \in Int : x = i * u /\ x >= u
  BY <1>7
<1>9. at = b + x + r
  BY <1>3, <1>4, <1>5, <1>6, <1>8
<1>10. tm[l] \in Nat /\ tm[l] >= t
  OBVIOUS
<1> QED
  BY <1>6, <1>8, <1>9, <1>10

(* The finest wheel's turn: what was in its first slot is due now. *)
LEMMA FirstPopUp ==
  ASSUME WheelType, NEW e, NEW at
  PROVE  Alarm(wheels, Now(tick), e, at)
           <=> \/ Alarm(PopUp(wheels, 1), Times(1, tick), e, at)
               \/ at = tick + 1 /\ \E c \in wheels[1][1] : c.e = e
<1>1. Shape(wheels) /\ tick \in Nat /\ 1 \in Levels
  BY ShapeNow DEF Levels
<1>2. Turns(1, tick + 1)
  <2>1. /\ tick + 1 = 1 * (tick + 1) + 0 /\ 0 \in 0 .. 1 - 1 /\ 1 \in Nat \ {0}
        /\ tick + 1 \in Int
    BY <1>1
  <2>2. (tick + 1) % 1 = 0
    BY <2>1, DivUnique
  <2> QED
    BY <2>2, Units DEF Turns
<1>3. Times(1 - 1, tick) = Now(tick)
  BY DEF Times, Now, Levels
<1>4. Alarm(wheels, Times(1 - 1, tick), e, at)
        <=> \/ Alarm(PopUp(wheels, 1), Times(1, tick), e, at)
            \/ \E c \in wheels[1][1] : c.e = e /\ at = tick + 1 + c.rest
  BY <1>1, <1>2, PopUpAlarm
<1>5. \A c \in wheels[1][1] : tick + 1 + c.rest = tick + 1
  <2>1. 1 \in 1 .. Size[1] /\ Unit[1] = 1
    BY <1>1, Units
  <2>2. \A c \in wheels[1][1] : c.rest = 0
    BY <1>1, <2>1 DEF Shape
  <2> QED
    BY <1>1, <2>2
<1> QED
  BY <1>3, <1>4, <1>5

(* One tick: what runs is in time, and the rest stays so. *)
LEMMA TickKeeps ==
  ASSUME WheelInv, ~wild, tick < MaxTick, NEW again, NEW d \in Delays, OnTimer(again, d)
  PROVE  /\ WheelInv'
         /\ \A e \in fired' : /\ tick' <= asked[e] + delay[e]
                               /\ tick' >= asked[e] + delay[e] - Slack(delay[e])
<1> DEFINE now  == tick + 1
           rest == PopUp(wheels, 1)
           runs == {c.e : c \in {x \in wheels[1][1] : ~RefersTo(rest, x.e)}}
           next == {[e |-> e, d |-> delay[e]] : e \in runs \cap Periodics}
                     \cup {[e |-> e, d |-> d] : e \in again}
           ws1  == InsertEntries(rest, next)
           ws2  == PopUpCoarse(ws1, 2, now)
           ws3  == PopUpCoarse(ws2, 3, now)
           ws4  == PopUpCoarse(ws3, 4, now)
           insert == next \cup Dropped(ws1, 2, now) \cup Dropped(ws2, 3, now)
                       \cup Dropped(ws3, 4, now)
<1>0. /\ Shape(wheels) /\ tick \in Nat /\ now \in Nat /\ d \in Nat /\ pending \subseteq Entries
      /\ asked \in [Entries -> Nat] /\ delay \in [Entries -> Nat] /\ Delays \subseteq Nat
      /\ \A l \in Levels : Now(tick)[l] \in Nat
  BY ShapeNow, WheelAssumption DEF WheelInv, WheelType
<1>1. again \subseteq runs /\ again \subseteq Timers
  BY DEF OnTimer
<1>2. ASSUME ~(\A x \in insert : InRange(x.d))
      PROVE  /\ wild' = TRUE /\ fired' = {}
             /\ UNCHANGED <<tick, wheels, pending, asked, delay, open>>
  BY <1>2 DEF OnTimer
<1>3. ASSUME \A x \in insert : InRange(x.d)
      PROVE  /\ tick' = now /\ wheels' = ws4 /\ fired' = runs
             /\ pending' = (pending \ runs) \cup {x.e : x \in next}
             /\ asked' = [e \in Entries |->
                            IF \E x \in next : x.e = e THEN now
                            ELSE IF e \in runs THEN 0 ELSE asked[e]]
             /\ delay' = [e \in Entries |->
                            IF e \in again THEN d
                            ELSE IF e \in runs \ Periodics THEN 0 ELSE delay[e]]
             /\ open' = open \ runs /\ wild' = wild
  BY <1>3 DEF OnTimer
<1>4. \A e : e \in runs <=> (\E c \in wheels[1][1] : c.e = e) /\ ~RefersTo(rest, e)
  OBVIOUS
<1>5. /\ \A x \in next : \/ x.e \in runs \cap Periodics /\ x.d = delay[x.e]
                         \/ x.e \in again /\ x.d = d
      /\ \A e \in runs \cap Periodics : \E x \in next : x.e = e
      /\ \A e \in again : \E x \in next : x.e = e
  <2>1. ASSUME NEW x \in next
        PROVE  \/ x.e \in runs \cap Periodics /\ x.d = delay[x.e]
               \/ x.e \in again /\ x.d = d
    <3> HIDE DEF runs
    <3>1. CASE \E e \in runs \cap Periodics : x = [e |-> e, d |-> delay[e]]
      BY <3>1
    <3>2. CASE \E e \in again : x = [e |-> e, d |-> d]
      BY <3>2
    <3>3. \/ \E e \in runs \cap Periodics : x = [e |-> e, d |-> delay[e]]
          \/ \E e \in again : x = [e |-> e, d |-> d]
      OBVIOUS
    <3> QED
      BY <3>1, <3>2, <3>3
  <2>2. ASSUME NEW e \in runs \cap Periodics PROVE \E x \in next : x.e = e
    <3> HIDE DEF runs
    <3>1. [e |-> e, d |-> delay[e]] \in next
      OBVIOUS
    <3>2. [e |-> e, d |-> delay[e]].e = e
      OBVIOUS
    <3> HIDE DEF next
    <3> QED
      BY <3>1, <3>2
  <2>3. ASSUME NEW e \in again PROVE \E x \in next : x.e = e
    <3> HIDE DEF runs
    <3>1. [e |-> e, d |-> d] \in next
      OBVIOUS
    <3>2. [e |-> e, d |-> d].e = e
      OBVIOUS
    <3> HIDE DEF next
    <3> QED
      BY <3>1, <3>2
  <2> HIDE DEF runs, next
  <2> QED
    BY <2>1, <2>2, <2>3
<1>a. /\ \A e \in runs \cap Periodics : [e |-> e, d |-> delay[e]] \in next
      /\ \A x \in next : \E e, f : x = [e |-> e, d |-> f]
  OBVIOUS
<1>6. Shape(rest)
  BY <1>0, PopUpAt DEF Levels
<1>7. \A e \in runs : e \in pending
  <2>1. ASSUME NEW e, \E c \in wheels[1][1] : c.e = e PROVE e \in pending
    <3>1. Alarm(wheels, Now(tick), e, tick + 1)
      BY <2>1, FirstPopUp DEF WheelInv
    <3> QED
      BY <3>1 DEF WheelInv, InTime
  <2> QED
    BY <1>4, <2>1
<1> HIDE DEF runs, rest, next
<1>8. /\ next \subseteq Askings
      /\ \A x \in next : x.e \in runs /\ x.d \in Delays
  <2>1. ASSUME NEW x \in next
        PROVE  x \in Askings /\ x.e \in runs /\ x.d \in Delays
    <3>1. x.e \in runs /\ x.e \in Entries
      BY <1>0, <1>1, <1>5, <1>7
    <3>2. x.d \in Delays
      BY <1>5, <1>7 DEF WheelInv, AskedBefore
    <3>3. PICK e, f : x = [e |-> e, d |-> f]
      BY <1>a
    <3> QED
      BY <1>0, <3>1, <3>2, <3>3 DEF Askings
  <2> QED
    BY <2>1
<1>9. Shape(ws1)
  BY <1>6, <1>8, InsertAt
<1>10. \A l \in Levels : Times(1, tick)[l] = IF l = 1 THEN now ELSE tick
  BY DEF Times, Levels
<1> HIDE DEF ws1, now
<1>11. /\ (/\ \A x \in Dropped(ws1, 2, now) : InRange(x.d)
           /\ \A x \in Dropped(ws2, 3, now) : InRange(x.d)
           /\ \A x \in Dropped(ws3, 4, now) : InRange(x.d))
          => /\ Shape(ws4)
             /\ \A e, at : Alarm(ws4, Now(now), e, at) <=> Alarm(ws1, Times(1, tick), e, at)
       /\ RestsGood(ws1)
          => /\ \A x \in Dropped(ws1, 2, now) : InRange(x.d)
             /\ \A x \in Dropped(ws2, 3, now) : InRange(x.d)
             /\ \A x \in Dropped(ws3, 4, now) : InRange(x.d)
             /\ RestsGood(ws4)
  BY <1>0, <1>9, CoarseTurns DEF now
<1> HIDE DEF ws2, ws3, ws4
<1>12. (\A x \in Delays : Good(x)) => (\A x \in insert : InRange(x.d)) /\ RestsGood(ws4)
  <2> SUFFICES ASSUME \A x \in Delays : Good(x)
               PROVE  (\A x \in insert : InRange(x.d)) /\ RestsGood(ws4)
    OBVIOUS
  <2>1. RestsGood(wheels)
    BY DEF WheelInv, InSlots
  <2>2. RestsGood(rest)
    BY <1>0, <2>1, RestsPopUp DEF rest, Levels
  <2>3. RestsGood(ws1) /\ \A x \in next : InRange(x.d)
    BY <1>6, <1>8, <2>2, RestsInsert DEF ws1
  <2> QED
    BY <1>11, <2>3
<1>13. CASE ~(\A x \in insert : InRange(x.d))
  <2>1. /\ wild' = TRUE /\ fired' = {}
        /\ UNCHANGED <<tick, wheels, pending, asked, delay, open>>
    BY <1>2, <1>13
  <2>2. InSlots'
    BY <1>12, <1>13 DEF InSlots, Good
  <2>3. WheelType'
    BY <2>1 DEF WheelInv, WheelType
  <2>4. (InTime /\ LastInTime /\ AskedBefore)'
    BY <2>1 DEF WheelInv, InTime, LastInTime, AskedBefore, Alarm
  <2> QED
    BY <2>1, <2>2, <2>3, <2>4 DEF WheelInv
<1>14. CASE \A x \in insert : InRange(x.d)
  <2>1. /\ tick' = now /\ wheels' = ws4 /\ fired' = runs
        /\ pending' = (pending \ runs) \cup {x.e : x \in next}
        /\ asked' = [e \in Entries |->
                       IF \E x \in next : x.e = e THEN now
                       ELSE IF e \in runs THEN 0 ELSE asked[e]]
        /\ delay' = [e \in Entries |->
                       IF e \in again THEN d
                       ELSE IF e \in runs \ Periodics THEN 0 ELSE delay[e]]
        /\ open' = open \ runs /\ wild' = wild
    BY <1>3, <1>14
  <2>2. \A x \in next : InRange(x.d)
    BY <1>14
  <2>3. /\ Shape(ws4)
        /\ \A e, at : Alarm(ws4, Now(now), e, at) <=> Alarm(ws1, Times(1, tick), e, at)
    BY <1>11, <1>14
  <2>4. \A e, at : Alarm(wheels, Now(tick), e, at)' <=> Alarm(ws1, Times(1, tick), e, at)
    <3>1. \A e, at : Alarm(wheels, Now(tick), e, at)' <=> Alarm(ws4, Now(now), e, at)
      BY <2>1 DEF Alarm, Now
    <3> QED
      BY <2>3, <3>1
  <2>5. ASSUME NEW e, NEW at
        PROVE  Alarm(ws1, Times(1, tick), e, at)
                 <=> \/ Alarm(rest, Times(1, tick), e, at)
                     \/ \E x \in next : /\ x.e = e
                                        /\ at = Base(LevelOf(x.d), Times(1, tick)[LevelOf(x.d)]) + x.d
    <3>1. \A l \in Levels : Times(1, tick)[l] \in Nat
      BY <1>0, <1>10
    <3> QED
      BY <1>6, <1>8, <2>2, <3>1, InsertAlarm DEF ws1
  <2>6. ASSUME NEW x \in next
        PROVE  /\ asked'[x.e] = now /\ delay'[x.e] = x.d /\ x.e \in pending'
               /\ x.e \in Entries /\ x.d \in Nat
    <3>1. x.e \in Entries /\ x.d \in Nat
      BY <1>8 DEF Askings
    <3>2. delay'[x.e] = x.d
      <4>1. CASE x.e \in again /\ x.d = d
        BY <2>1, <3>1, <4>1
      <4>2. CASE x.e \in runs \cap Periodics /\ x.d = delay[x.e]
        <5>1. x.e \notin again
          BY <1>1, <4>2, EntriesAssumption
        <5> QED
          BY <2>1, <3>1, <4>2, <5>1
      <4> QED
        BY <1>5, <4>1, <4>2
    <3> QED
      BY <2>1, <3>1, <3>2
  <2>7. ASSUME NEW x \in next
        PROVE  LET new == Base(LevelOf(x.d), Times(1, tick)[LevelOf(x.d)]) + x.d
               IN  /\ new \in Int /\ new <= now + x.d /\ new >= now + x.d - Slack(x.d)
    <3>1. x.d \in Nat /\ LevelOf(x.d) \in Levels
      BY <2>6, InsertFacts
    <3>2. PICK t \in Nat : t = Times(1, tick)[LevelOf(x.d)]
      BY <1>0, <1>10, <3>1
    <3>3. (t = now \/ t + 1 = now) /\ (LevelOf(x.d) = 1 => t = now)
      BY <1>10, <3>1, <3>2 DEF now
    <3>4. /\ Base(LevelOf(x.d), t) + x.d <= now + x.d
          /\ Base(LevelOf(x.d), t) + x.d >= now + x.d - Slack(x.d)
          /\ Base(LevelOf(x.d), t) + x.d \in Int
      BY <1>0, <3>1, <3>3, InsertInTime
    <3> QED
      BY <3>2, <3>4
  <2>8. ASSUME NEW e \in pending, e \notin runs
        PROVE  /\ asked'[e] = asked[e] /\ delay'[e] = delay[e] /\ e \in pending'
               /\ e \in Entries
    BY <1>0, <1>1, <1>8, <2>1, <2>8
  <2>9. \A e, at : Alarm(rest, Times(1, tick), e, at) => e \in pending /\ e \notin runs
    <3>1. \A l \in Levels : Times(1, tick)[l] \in Nat
      BY <1>0, <1>10
    <3>2. ASSUME NEW e, NEW at, Alarm(rest, Times(1, tick), e, at)
          PROVE  e \in pending /\ e \notin runs
      <4>1. RefersTo(rest, e)
        BY <1>6, <3>1, <3>2, AlarmRefers
      <4>2. Alarm(wheels, Now(tick), e, at)
        BY <3>2, FirstPopUp DEF WheelInv, rest
      <4> QED
        BY <1>4, <4>1, <4>2 DEF WheelInv, InTime
    <3> QED
      BY <3>2
  <2>10. InTime'
    <3> SUFFICES ASSUME NEW e, NEW at, Alarm(wheels, Now(tick), e, at)'
                 PROVE  e \in pending' /\ at <= asked'[e] + delay'[e]
      BY DEF InTime
    <3>1. CASE Alarm(rest, Times(1, tick), e, at)
      <4>1. Alarm(wheels, Now(tick), e, at)
        BY <3>1, FirstPopUp DEF WheelInv, rest
      <4>2. at <= asked[e] + delay[e]
        BY <4>1 DEF WheelInv, InTime
      <4> QED
        BY <2>8, <2>9, <3>1, <4>2
    <3>2. ASSUME NEW x \in next, x.e = e,
                 at = Base(LevelOf(x.d), Times(1, tick)[LevelOf(x.d)]) + x.d
          PROVE  e \in pending' /\ at <= asked'[e] + delay'[e]
      BY <2>6, <2>7, <3>2
    <3> QED
      BY <2>4, <2>5, <3>1, <3>2
  <2>11. LastInTime'
    <3> SUFFICES ASSUME NEW e \in pending'
                 PROVE  \E at : /\ Alarm(wheels, Now(tick), e, at)'
                                /\ at >= asked'[e] + delay'[e] - Slack(delay'[e])
      BY DEF LastInTime, Slack
    <3>1. ASSUME NEW x \in next, x.e = e
          PROVE  \E at : /\ Alarm(wheels, Now(tick), e, at)'
                         /\ at >= asked'[e] + delay'[e] - Slack(delay'[e])
      <4>1. PICK at : at = Base(LevelOf(x.d), Times(1, tick)[LevelOf(x.d)]) + x.d
        OBVIOUS
      <4>2. Alarm(wheels, Now(tick), e, at)'
        BY <2>4, <2>5, <3>1, <4>1
      <4>3. at >= asked'[e] + delay'[e] - Slack(delay'[e])
        BY <2>6, <2>7, <3>1, <4>1
      <4> QED
        BY <4>2, <4>3
    <3>2. CASE e \in pending /\ e \notin runs
      <4>1. PICK at : /\ Alarm(wheels, Now(tick), e, at)
                      /\ at >= asked[e] + delay[e] - Slack(delay[e])
        BY <3>2 DEF WheelInv, LastInTime
      <4>2. CASE Alarm(rest, Times(1, tick), e, at)
        BY <2>4, <2>5, <2>8, <3>2, <4>1, <4>2
      <4>3. CASE ~Alarm(rest, Times(1, tick), e, at)
        <5>1. at = now /\ RefersTo(rest, e)
          BY <1>4, <3>2, <4>1, <4>3, FirstPopUp DEF WheelInv, rest, now
        <5>2. \A l \in Levels : Times(1, tick)[l] \in Nat /\ Times(1, tick)[l] >= tick
          BY <1>0, <1>10 DEF now
        <5>3. PICK later : Alarm(rest, Times(1, tick), e, later)
          BY <1>6, <5>1, <5>2, AlarmRefers
        <5>4. later \in Int /\ later > tick
          BY <1>0, <1>6, <5>2, <5>3, AlarmLater
        <5>5. later >= now
          BY <1>0, <5>4 DEF now
        <5>6. asked[e] + delay[e] - Slack(delay[e]) \in Int
          <6>1. asked[e] \in Nat /\ delay[e] \in Nat
            BY <1>0, <3>2
          <6>2. Slack(delay[e]) \in Nat
            BY <6>1, Units, InsertFacts DEF Slack
          <6> QED
            BY <6>1, <6>2
        <5>7. later >= asked[e] + delay[e] - Slack(delay[e])
          BY <1>0, <4>1, <5>1, <5>4, <5>5, <5>6
        <5> QED
          BY <2>4, <2>5, <2>8, <3>2, <5>3, <5>7
      <4> QED
        BY <4>2, <4>3
    <3> QED
      BY <2>1, <3>1, <3>2
  <2>12. AskedBefore'
    <3> SUFFICES ASSUME NEW e \in pending' PROVE asked'[e] <= tick' /\ delay'[e] \in Delays
      BY DEF AskedBefore
    <3>1. ASSUME NEW x \in next, x.e = e PROVE asked'[e] <= tick' /\ delay'[e] \in Delays
      BY <1>0, <1>8, <2>1, <2>6, <3>1
    <3>2. CASE e \in pending /\ e \notin runs
      <4>1. asked[e] <= tick /\ delay[e] \in Delays /\ asked[e] \in Nat
        BY <1>0, <3>2 DEF WheelInv, AskedBefore
      <4> QED
        BY <1>0, <2>1, <2>8, <3>2, <4>1 DEF now
    <3> QED
      BY <2>1, <3>1, <3>2
  <2>13. InSlots'
    BY <1>12, <2>1 DEF InSlots, RestsGood, Good
  <2>14. WheelType'
    <3>1. tick' \in 0 .. MaxTick
      BY <1>0, <2>1, WheelAssumption DEF now
    <3>2. runs \subseteq Entries /\ pending' \subseteq Entries
      BY <1>0, <1>7, <2>1, <2>6
    <3>3. asked' \in [Entries -> Nat] /\ delay' \in [Entries -> Nat]
      BY <1>0, <2>1
    <3> QED
      BY <2>1, <2>3, <3>1, <3>2, <3>3 DEF WheelInv, WheelType, Shape
  <2>15. ASSUME NEW e \in runs
         PROVE  /\ now <= asked[e] + delay[e]
                /\ now >= asked[e] + delay[e] - Slack(delay[e])
    <3>1. Alarm(wheels, Now(tick), e, now)
      BY <1>4, FirstPopUp DEF WheelInv, now
    <3>2. now <= asked[e] + delay[e]
      BY <3>1 DEF WheelInv, InTime
    <3>3. PICK at : /\ Alarm(wheels, Now(tick), e, at)
                    /\ at >= asked[e] + delay[e] - Slack(delay[e])
      BY <1>7 DEF WheelInv, LastInTime
    <3>4. at = now
      BY <2>9, <3>3, FirstPopUp DEF WheelInv, now, rest
    <3> QED
      BY <3>2, <3>3, <3>4
  <2> QED
    BY <2>1, <2>10, <2>11, <2>12, <2>13, <2>14, <2>15 DEF WheelInv
<1> QED
  BY <1>13, <1>14

(* Every step keeps the invariant, and what runs in it runs in time. *)
LEMMA NextKeeps ==
  ASSUME WheelInv, WheelNext
  PROVE  /\ WheelInv'
         /\ \A e \in fired' : /\ tick' <= asked[e] + delay[e]
                               /\ tick' >= asked[e] + delay[e] - Slack(delay[e])
<1>0. ~wild /\ Conns \subseteq Entries
  BY DEF WheelNext, Entries
<1>1. CASE Tick
  <2>1. PICK again \in SUBSET Timers, d \in Delays : OnTimer(again, d)
    BY <1>1 DEF Tick
  <2>2. tick < MaxTick
    BY <1>1 DEF Tick
  <2> QED
    BY <1>0, <2>1, <2>2, TickKeeps
<1>2. ASSUME NEW e \in Entries, NEW d \in Delays,
             RunAfter(e, d) \/ RunEvery(e, d) \/ EnableCheckIdleTimeout(e, d)
      PROVE  WheelInv' /\ fired' = {}
  <2>1. e \notin pending /\ Insert(e, d)
    BY <1>2 DEF RunAfter, RunEvery, EnableCheckIdleTimeout
  <2> QED
    BY <1>0, <2>1, InsertKeeps
<1>3. ASSUME NEW c \in Conns, ExtendLife(c) PROVE WheelInv' /\ fired' = {}
  <2>1. c \in pending /\ Insert(c, delay[c]) /\ c \in Entries
    BY <1>0, <1>3 DEF ExtendLife
  <2>2. delay[c] \in Delays
    BY <2>1 DEF WheelInv, AskedBefore
  <2> QED
    BY <1>0, <2>1, <2>2, InsertKeeps
<1>4. ASSUME NEW c \in Conns, OnClose(c) PROVE WheelInv' /\ fired' = {}
  <2>1. /\ open' = open \ {c} /\ fired' = {}
        /\ UNCHANGED <<tick, wheels, pending, asked, delay, wild>>
    BY <1>4 DEF OnClose
  <2>2. WheelType'
    BY <2>1 DEF WheelInv, WheelType
  <2>3. (InTime /\ LastInTime /\ AskedBefore /\ InSlots)'
    BY <2>1 DEF WheelInv, InTime, LastInTime, AskedBefore, InSlots, Alarm, RestsGood, Good
  <2> QED
    BY <2>1, <2>2, <2>3 DEF WheelInv
<1> QED
  BY <1>1, <1>2, <1>3, <1>4 DEF WheelNext

(* The inductive invariant holds in every reachable state. *)
LEMMA WheelInvariant == WheelSpec => []WheelInv
<1>1. WheelInv /\ UNCHANGED wheelVars => WheelInv'
  <2> SUFFICES ASSUME WheelInv, UNCHANGED wheelVars PROVE WheelInv'
    OBVIOUS
  <2>1. UNCHANGED <<tick, wheels, pending, asked, delay, open, fired, wild>>
    BY DEF wheelVars
  <2>2. WheelType'
    BY <2>1 DEF WheelInv, WheelType
  <2>3. (InTime /\ LastInTime /\ AskedBefore /\ InSlots)'
    BY <2>1 DEF WheelInv, InTime, LastInTime, AskedBefore, InSlots, Alarm, RestsGood, Good
  <2> QED
    BY <2>2, <2>3 DEF WheelInv
<1>2. WheelInv /\ [WheelNext]_wheelVars => WheelInv'
  BY <1>1, NextKeeps
<1> QED
  BY <1>2, InitWheel, PTL DEF WheelSpec

(***************************************************************************)
(* The wheels refer to exactly the entries that were asked for and have    *)
(* not run, in slots that exist, and no index leaves a wheel as long as no *)
(* delay is a whole number of minutes or reaches past the last wheel.      *)
(***************************************************************************)
THEOREM WheelsAreSound == WheelSpec => []WheelsSound
<1>1. WheelInv => WheelsSound
  <2> SUFFICES ASSUME WheelInv PROVE WheelsSound
    OBVIOUS
  <2>0. Shape(wheels) /\ \A l \in Levels : Now(tick)[l] \in Nat
    BY ShapeNow DEF WheelInv
  <2>1. PendingAreInWheel
    <3>1. ASSUME NEW e \in pending PROVE RefersTo(wheels, e)
      BY <2>0, <3>1, AlarmRefers DEF WheelInv, LastInTime
    <3>2. ASSUME NEW e, RefersTo(wheels, e) PROVE e \in pending
      BY <2>0, <3>2, AlarmRefers DEF WheelInv, InTime
    <3> QED
      BY <3>1, <3>2 DEF PendingAreInWheel
  <2>2. StaysInWheels
    BY DEF WheelInv, InSlots, Good, StaysInWheels
  <2> QED
    BY <2>1, <2>2 DEF WheelsSound, WheelInv
<1> QED
  BY <1>1, WheelInvariant, PTL

(***************************************************************************)
(* No timer runs and no connection is closed later than its delay after it *)
(* was last inserted, and none earlier than that by more than one unit of  *)
(* the wheel that the delay goes to.                                       *)
(***************************************************************************)
THEOREM TimersRunInTime == WheelSpec => RunsInTime
<1>1. WheelInv /\ [WheelNext]_wheelVars
        => [\A e \in fired' : tick' <= Due(e) /\ tick' >= Due(e) - Slack(delay[e])]_wheelVars
  <2> SUFFICES ASSUME WheelInv, WheelNext, NEW e \in fired'
               PROVE  tick' <= Due(e) /\ tick' >= Due(e) - Slack(delay[e])
    OBVIOUS
  <2>1. tick' <= asked[e] + delay[e] /\ tick' >= asked[e] + delay[e] - Slack(delay[e])
    BY NextKeeps
  <2>2. e \in Entries
    BY NextKeeps DEF WheelInv, WheelType
  <2>3. asked[e] \in Nat /\ delay[e] \in Nat
    BY <2>2 DEF WheelInv, WheelType
  <2>4. Slack(delay[e]) \in Nat
    BY <2>3, Units, InsertFacts DEF Slack
  <2> QED
    BY <2>1, <2>3, <2>4 DEF Due
<1> QED
  BY <1>1, WheelInvariant, PTL DEF WheelSpec, RunsInTime

=============================================================================
