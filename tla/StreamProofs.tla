---------------------------- MODULE StreamProofs ----------------------------
(***************************************************************************)
(* Proofs about module Stream for every ring size, batch size, latency,    *)
(* set of players and set of packet kinds.                                 *)
(***************************************************************************)
EXTENDS Stream, TLAPS, SequenceTheorems, WellFoundedInduction

-----------------------------------------------------------------------------
(* Arithmetic of the ring.                                                  *)

(* A positive multiple of n is at least n. *)
LEMMA ProductBound ==
  ASSUME NEW n \in Nat \ {0}, NEW k \in Int, k >= 1
  PROVE  n * k >= n
OBVIOUS

(* Two different indices less than a ring apart have different slots. *)
LEMMA SlotsDiffer ==
  ASSUME NEW a \in Nat, NEW b \in Nat, a < b, b - a < BufferSize
  PROVE  a % BufferSize # b % BufferSize
<1> USE StreamAssumption
<1> SUFFICES ASSUME a % BufferSize = b % BufferSize PROVE FALSE
  OBVIOUS
<1> DEFINE p == a \div BufferSize
           q == b \div BufferSize
<1>1. a = BufferSize * p + (a % BufferSize) /\ p \in Int
  OBVIOUS
<1>2. b = BufferSize * q + (b % BufferSize) /\ q \in Int
  OBVIOUS
<1> HIDE DEF p, q
<1>3. BufferSize * (q - p) = b - a
  <2>1. BufferSize * (q - p) = BufferSize * q - BufferSize * p
    BY <1>1, <1>2
  <2> QED
    BY <2>1, <1>1, <1>2
<1>4. CASE q - p >= 1
  BY <1>4, <1>3, <1>1, <1>2, ProductBound
<1>5. CASE q - p <= 0
  <2>1. BufferSize * (q - p) <= 0
    BY <1>5, <1>1, <1>2
  <2> QED
    BY <2>1, <1>3
<1> QED
  BY <1>4, <1>5, <1>1, <1>2

(* An index and the one a whole ring later share their slot. *)
LEMMA SlotShared ==
  ASSUME NEW a \in Nat
  PROVE  (a + BufferSize) % BufferSize = a % BufferSize
<1> USE StreamAssumption
<1> DEFINE p == a \div BufferSize
<1>1. a = BufferSize * p + (a % BufferSize) /\ p \in Int
  OBVIOUS
<1>2. a % BufferSize \in 0 .. BufferSize - 1
  OBVIOUS
<1> DEFINE r == a % BufferSize
           q == (a + BufferSize) \div BufferSize
           t == (a + BufferSize) % BufferSize
<1>3. a + BufferSize = BufferSize * q + t /\ q \in Int /\ t \in 0 .. BufferSize - 1
  OBVIOUS
<1> HIDE DEF p, q, r, t
<1>4. r \in 0 .. BufferSize - 1 /\ a = BufferSize * p + r
  BY <1>1, <1>2 DEF r
<1> DEFINE d == q - p - 1
<1>5. d \in Int /\ BufferSize * d = r - t
  <2>1. BufferSize * (q - p - 1) = BufferSize * q - BufferSize * p - BufferSize
    BY <1>1, <1>3
  <2> QED
    BY <2>1, <1>1, <1>3, <1>4
<1> HIDE DEF d
<1>6. CASE d >= 1
  BY <1>3, <1>4, <1>5, <1>6, ProductBound
<1>7. CASE d <= -1
  <2>1. BufferSize * (-d) >= BufferSize
    BY <1>5, <1>7, ProductBound
  <2>2. BufferSize * (-d) = t - r
    BY <1>3, <1>4, <1>5
  <2> QED
    BY <2>1, <2>2, <1>3, <1>4
<1>8. CASE d = 0
  BY <1>3, <1>4, <1>5, <1>8 DEF r, t
<1> QED
  BY <1>5, <1>6, <1>7, <1>8

(* The slot of an index is a slot, and the index itself in the first round.*)
LEMMA SlotRange ==
  ASSUME NEW a \in Nat
  PROVE  /\ a % BufferSize \in Slots
         /\ a < BufferSize => a % BufferSize = a
BY StreamAssumption DEF Slots
-----------------------------------------------------------------------------
(* Minimum and maximum.                                                     *)

(* A set of natural numbers that is not empty has a minimum. *)
LEMMA MinOfNats ==
  ASSUME NEW S, S \subseteq Nat, S # {}
  PROVE  Min(S) \in S /\ \A y \in S : Min(S) <= y
<1> DEFINE R == OpToRel(<, Nat)
<1>1. \A x \in Nat, y \in Nat : y < x => <<y, x>> \in R
  BY DEF OpToRel
<1>2. IsWellFoundedOn(R, Nat)
  BY NatLessThanWellFounded
<1> HIDE DEF R
<1>3. PICK x \in S : \A y \in S : ~ (<<y, x>> \in R)
  BY <1>2, WFMin
<1>4. \A y \in S : ~ (y < x)
  BY <1>1, <1>3
<1>5. \A y \in S : x <= y
  BY <1>4
<1> QED
  BY <1>5 DEF Min

(* A bounded set of natural numbers that is not empty has a maximum. *)
LEMMA MaxOfNats ==
  ASSUME NEW n \in Int, NEW S, S \subseteq 0 .. n, S # {}
  PROVE  Max(S) \in S /\ \A y \in S : Max(S) >= y
<1> DEFINE T == {n - x : x \in S}
<1>1. T \subseteq Nat /\ T # {}
  <2>1. PICK x \in S : TRUE
    OBVIOUS
  <2>2. \A y \in S : n - y \in Nat
    OBVIOUS
  <2> QED
    BY <2>1, <2>2
<1>2. PICK m \in T : \A y \in T : m <= y
  BY <1>1, MinOfNats
<1>3. \E x \in S : \A y \in S : x >= y
  <2>1. PICK x \in S : m = n - x
    BY <1>2
  <2>2. \A y \in S : n - x <= n - y
    BY <1>2, <2>1
  <2>3. \A y \in S : x >= y
    BY <2>2
  <2> QED
    BY <2>3
<1> QED
  BY <1>3 DEF Max

(* The smaller of two integers. *)
LEMMA MinOfTwo ==
  ASSUME NEW a \in Int, NEW b \in Int
  PROVE  Min({a, b}) = IF a <= b THEN a ELSE b
<1> DEFINE m == IF a <= b THEN a ELSE b
<1>1. m \in {a, b} /\ \A y \in {a, b} : m <= y
  OBVIOUS
<1>2. Min({a, b}) \in {a, b} /\ \A y \in {a, b} : Min({a, b}) <= y
  BY <1>1 DEF Min
<1> QED
  BY <1>1, <1>2

(* The larger of two integers. *)
LEMMA MaxOfTwo ==
  ASSUME NEW a \in Int, NEW b \in Int
  PROVE  Max({a, b}) = IF a >= b THEN a ELSE b
<1> DEFINE m == IF a >= b THEN a ELSE b
<1>1. m \in {a, b} /\ \A y \in {a, b} : m >= y
  OBVIOUS
<1>2. Max({a, b}) \in {a, b} /\ \A y \in {a, b} : Max({a, b}) >= y
  BY <1>1 DEF Max
<1> QED
  BY <1>1, <1>2
-----------------------------------------------------------------------------
(* The stream: what AddPacket maintains.                                    *)

StreamType ==
  /\ frame_index \in Nat \cup {-1}
  /\ packet_buffer \in [Slots -> Packet \cup {NoPacket}]
  /\ gops \in SUBSET [index : Nat, timestamp : Nat]
  /\ latest_timestamp \in Nat
  /\ codec_headers \in [HeaderKinds -> SUBSET Nat]
  /\ has \in SUBSET HeaderKinds
  /\ ready \in BOOLEAN
  /\ clock \in [Media -> Nat]

(* A packet in the ring is one of the last BufferSize, in its own slot. *)
RingRange ==
  \A s \in Slots : packet_buffer[s] # NoPacket =>
    /\ packet_buffer[s].index <= frame_index
    /\ packet_buffer[s].index > MinIdx
    /\ packet_buffer[s].index % BufferSize = s

(* has_* promises a saved header, and headers and GOPs are past packets. *)
HeadersSaved ==
  \A h \in HeaderKinds :
    /\ codec_headers[h] \subseteq 0 .. frame_index
    /\ h \in has => codec_headers[h] # {}

GopsPast == \A g \in gops : g.index <= frame_index

StreamInv ==
  /\ StreamType /\ RingRange /\ RingHoldsLastPackets
  /\ HeadersSaved /\ GopsPast /\ GopsBuffered

(* The empty stream. *)
LEMMA StreamInit == Init => StreamInv
<1> SUFFICES ASSUME Init PROVE StreamInv
  OBVIOUS
<1> USE StreamAssumption DEF Init
<1>1. StreamType
  BY DEF StreamType
<1>2. RingRange
  BY DEF RingRange
<1>3. RingHoldsLastPackets
  BY DEF RingHoldsLastPackets
<1>4. HeadersSaved
  BY DEF HeadersSaved
<1>5. GopsPast /\ GopsBuffered
  BY DEF GopsPast, GopsBuffered
<1> QED
  BY <1>1, <1>2, <1>3, <1>4, <1>5 DEF StreamInv

(* A corrected timestamp is never negative. *)
LEMMA TimestampType ==
  ASSUME StreamType, NEW k \in Kinds, NEW d \in Deltas
  PROVE  CorrectTimestamp(k, d) \in Nat
<1>1. clock[MediumOf(k)] \in Nat /\ d \in Int
  BY StreamAssumption DEF StreamType, MediumOf, Media
<1>2. Max({0, clock[MediumOf(k)] + d}) \in Nat
  BY <1>1, MaxOfTwo
<1> QED
  BY <1>2 DEF CorrectTimestamp

(***************************************************************************)
(* AddPacket: the new packet takes the slot of the one that is BufferSize  *)
(* older and of no other packet still wanted.                              *)
(***************************************************************************)
LEMMA StreamAddPacket ==
  ASSUME StreamInv, NEW k \in Kinds, NEW d \in Deltas, AddPacket(k, d)
  PROVE  StreamInv'
<1> DEFINE t     == CorrectTimestamp(k, d)
           index == frame_index + 1
           new   == [index |-> index, kind |-> k, timestamp |-> t]
           gs    == IF IsKeyFrame(k)
                    THEN gops \cup {[index |-> index, timestamp |-> t]} ELSE gops
<1> USE StreamAssumption
<1>1. /\ t \in Nat /\ index \in Nat
      /\ k \in HeaderKinds \cup FrameKinds
  BY TimestampType DEF StreamInv, StreamType
<1>2. new \in Packet
  BY <1>1 DEF Packet
<1>3. index % BufferSize \in Slots
  BY <1>1, SlotRange
<1>4. /\ frame_index' = index
      /\ packet_buffer' = [packet_buffer EXCEPT ![index % BufferSize] = new]
      /\ gops' = IF index - BufferSize > 0
                 THEN ClearExpiredGop(gs, index - BufferSize) ELSE gs
      /\ latest_timestamp' = t
      /\ ready' = (ready \/ IsKeyFrame(k))
      /\ codec_headers' = IF IsCodecHeader(k)
                          THEN [codec_headers EXCEPT ![k] = @ \cup {index}]
                          ELSE codec_headers
      /\ has' = IF IsCodecHeader(k) THEN has \cup {k} ELSE has
      /\ clock' = IF IsCodecHeader(k) THEN clock
                  ELSE [clock EXCEPT ![MediumOf(k)] = t]
  BY DEF AddPacket, Slot
<1> HIDE DEF t
<1>5. /\ packet_buffer'[index % BufferSize] = new
      /\ \A s \in Slots : s # index % BufferSize =>
           packet_buffer'[s] = packet_buffer[s]
  BY <1>3, <1>4 DEF StreamInv, StreamType
<1>6. gs \in SUBSET [index : Nat, timestamp : Nat]
  BY <1>1 DEF StreamInv, StreamType
<1>7. StreamType'
  <2>1. packet_buffer' \in [Slots -> Packet \cup {NoPacket}]
    BY <1>2, <1>4 DEF StreamInv, StreamType
  <2>2. gops' \in SUBSET [index : Nat, timestamp : Nat]
    BY <1>4, <1>6 DEF ClearExpiredGop
  <2>3. codec_headers' \in [HeaderKinds -> SUBSET Nat]
    BY <1>1, <1>4 DEF StreamInv, StreamType
  <2>4. has' \in SUBSET HeaderKinds
    BY <1>4 DEF StreamInv, StreamType, IsCodecHeader
  <2>5. clock' \in [Media -> Nat]
    BY <1>1, <1>4 DEF StreamInv, StreamType
  <2>6. ready' \in BOOLEAN
    BY <1>4 DEF StreamInv, StreamType
  <2> QED
    BY <1>1, <1>4, <2>1, <2>2, <2>3, <2>4, <2>5, <2>6 DEF StreamType
<1>8. RingRange'
  <2> SUFFICES ASSUME NEW s \in Slots, packet_buffer'[s] # NoPacket
               PROVE  /\ packet_buffer'[s].index <= index
                      /\ packet_buffer'[s].index > index - BufferSize
                      /\ packet_buffer'[s].index % BufferSize = s
    BY <1>4 DEF RingRange, MinIdx
  <2>1. CASE s = index % BufferSize
    BY <2>1, <1>1, <1>5
  <2>2. CASE s # index % BufferSize
    <3> DEFINE i == packet_buffer[s].index
    <3>1. /\ packet_buffer'[s] = packet_buffer[s]
          /\ i \in Nat /\ i <= frame_index /\ i > frame_index - BufferSize
          /\ i % BufferSize = s
      BY <2>2, <1>5 DEF StreamInv, StreamType, RingRange, MinIdx, Packet
    <3>2. i + BufferSize # index
      BY <3>1, <2>2, SlotShared
    <3> HIDE DEF i
    <3>3. i > index - BufferSize /\ i <= index
      BY <1>1, <3>1, <3>2 DEF StreamInv, StreamType
    <3> QED
      BY <3>1, <3>3 DEF i
  <2> QED
    BY <2>1, <2>2
<1>9. ASSUME NEW i \in Nat, i < index, i > index - BufferSize
      PROVE  packet_buffer'[i % BufferSize] = packet_buffer[i % BufferSize]
  <2>1. i % BufferSize # index % BufferSize
    BY <1>9, <1>1, SlotsDiffer
  <2> QED
    BY <2>1, <1>5, SlotRange
<1>10. RingHoldsLastPackets'
  <2>1. ASSUME NEW i \in 0 .. index, i > index - BufferSize
        PROVE  packet_buffer'[i % BufferSize].index = i
    <3>1. CASE i = index
      BY <3>1, <1>5
    <3>2. CASE i # index
      <4>1. i \in Nat /\ i < index /\ i \in 0 .. frame_index
             /\ i > frame_index - BufferSize
        BY <2>1, <3>2, <1>1 DEF StreamInv, StreamType
      <4>2. packet_buffer[i % BufferSize].index = i
        BY <4>1 DEF StreamInv, RingHoldsLastPackets, MinIdx
      <4> QED
        BY <4>1, <4>2, <2>1, <1>9
    <3> QED
      BY <3>1, <3>2
  <2>2. ASSUME NEW s \in Slots, s > index
        PROVE  packet_buffer'[s] = NoPacket
    <3>1. s # index % BufferSize
      BY <2>2, <1>1, SlotRange DEF Slots
    <3>2. s > frame_index
      BY <2>2, <1>1 DEF StreamInv, StreamType, Slots
    <3> QED
      BY <3>1, <3>2, <1>5 DEF StreamInv, RingHoldsLastPackets
  <2> QED
    BY <2>1, <2>2, <1>4 DEF RingHoldsLastPackets, MinIdx
<1>11. HeadersSaved'
  <2> SUFFICES ASSUME NEW h \in HeaderKinds
               PROVE  /\ codec_headers'[h] \subseteq 0 .. index
                      /\ h \in has' => codec_headers'[h] # {}
    BY <1>4 DEF HeadersSaved
  <2>1. /\ codec_headers[h] \subseteq 0 .. index
        /\ h \in has => codec_headers[h] # {}
    BY <1>1 DEF StreamInv, HeadersSaved, StreamType
  <2>2. CASE IsCodecHeader(k) /\ h = k
    <3>1. codec_headers'[h] = codec_headers[h] \cup {index}
      BY <1>4, <2>2 DEF StreamInv, StreamType
    <3>2. index \in 0 .. index
      BY <1>1
    <3> QED
      BY <2>1, <3>1, <3>2
  <2>3. CASE ~(IsCodecHeader(k) /\ h = k)
    <3>1. codec_headers'[h] = codec_headers[h] /\ (h \in has' => h \in has)
      BY <1>4, <2>3 DEF StreamInv, StreamType
    <3> QED
      BY <2>1, <3>1
  <2> QED
    BY <2>2, <2>3
<1>12. ASSUME NEW g \in gops'
       PROVE  /\ g \in gs
              /\ g.index > index - BufferSize \/ (g.index = 0 /\ index - BufferSize = 0)
  <2>1. CASE index - BufferSize > 0
    BY <2>1, <1>4 DEF ClearExpiredGop
  <2>2. CASE ~(index - BufferSize > 0)
    <3>1. g \in gs /\ g.index \in Nat
      BY <2>2, <1>4, <1>6
    <3> QED
      BY <3>1, <2>2, <1>1
  <2> QED
    BY <2>1, <2>2
<1>13. GopsPast'
  <2>1. ASSUME NEW g \in gs PROVE g.index <= index
    <3>1. CASE g \in gops
      <4>1. g.index \in Nat /\ g.index <= frame_index
        BY <3>1 DEF StreamInv, GopsPast, StreamType
      <4> QED
        BY <4>1, <1>1 DEF StreamInv, StreamType
    <3>2. CASE g = [index |-> index, timestamp |-> t]
      BY <3>2, <1>1
    <3> QED
      BY <3>1, <3>2
  <2> QED
    BY <2>1, <1>4, <1>12 DEF GopsPast
<1>14. GopsBuffered'
  <2> SUFFICES ASSUME NEW g \in gops', ~(g.index = 0 /\ index - BufferSize = 0)
               PROVE  Buffered(g)'
    BY <1>4 DEF GopsBuffered, MinIdx
  <2>1. g \in gs /\ g.index > index - BufferSize /\ g.index \in Nat
    BY <1>6, <1>12
  <2>2. CASE g \in gops
    <3>1. g.index < index
      BY <2>1, <2>2, <1>1 DEF StreamInv, GopsPast, StreamType
    <3>2. Buffered(g)
      BY <2>1, <2>2, <1>1 DEF StreamInv, StreamType, GopsBuffered, MinIdx
    <3>3. packet_buffer'[g.index % BufferSize] = packet_buffer[g.index % BufferSize]
      BY <2>1, <3>1, <1>9
    <3> QED
      BY <3>2, <3>3 DEF Buffered
  <2>3. CASE g \notin gops
    <3>1. IsKeyFrame(k) /\ g = [index |-> index, timestamp |-> t]
      BY <2>1, <2>3
    <3> QED
      BY <3>1, <1>5 DEF Buffered
  <2> QED
    BY <2>2, <2>3
<1> QED
  BY <1>7, <1>8, <1>10, <1>11, <1>13, <1>14 DEF StreamInv
-----------------------------------------------------------------------------
(* A player: what GetFrames maintains of its cursor.                        *)

UserSafe(us) ==
  /\ us \in UserType
  /\ us.wait = HeaderKinds
  /\ HeldRun(us)
  /\ us.out_index <= frame_index

(* Everything before the frames that us holds has been sent or dropped. *)
Behind(us) == us.out_index - Len(us.out_frames)

(* A kind of header that was ever saved is found for every index. *)
LEMMA HeaderFound ==
  ASSUME StreamInv, NEW h \in HeaderKinds, NEW idx \in Int
  PROVE  /\ CodecHeaderAt(h, idx) \in Nat \cup {None}
         /\ codec_headers[h] # {} => CodecHeaderAt(h, idx) \in Nat
<1> DEFINE upto == {i \in codec_headers[h] : i <= idx}
<1>1. /\ frame_index \in Int
      /\ codec_headers[h] \subseteq 0 .. frame_index
      /\ codec_headers[h] \subseteq Nat
  BY DEF StreamInv, StreamType, HeadersSaved
<1>2. upto # {} => Max(upto) \in Nat
  BY <1>1, MaxOfNats
<1>3. codec_headers[h] # {} => Max(codec_headers[h]) \in Nat
  BY <1>1, MaxOfNats
<1> QED
  BY <1>2, <1>3 DEF CodecHeaderAt

(* A GOP that is found is the GOP of a packet that was added. *)
LEMMA GopFound ==
  ASSUME StreamInv, GetGopByLatency # None
  PROVE  GetGopByLatency \in Nat /\ GetGopByLatency <= frame_index
<1> DEFINE reached == {g \in gops : \A h \in gops :
                                      h.index >= g.index => WithinLatency(h)}
           indices == {g.index : g \in reached}
<1>1. reached # {} /\ GetGopByLatency = Min(indices)
  BY DEF GetGopByLatency
<1>2. \A g \in gops : g.index \in Nat /\ g.index <= frame_index
  BY DEF StreamInv, StreamType, GopsPast
<1>3. indices \subseteq Nat /\ indices # {}
  BY <1>1, <1>2
<1>4. Min(indices) \in indices
  BY <1>3, MinOfNats
<1> QED
  BY <1>1, <1>2, <1>4

(* No header that LocateGop wants is ever missing. *)
LEMMA NothingMissing ==
  ASSUME StreamInv, NEW us, NEW idx \in Int
  PROVE  Missing(us, idx) = {}
<1>1. has \subseteq HeaderKinds /\ \A h \in has : codec_headers[h] # {}
  BY DEF StreamInv, StreamType, HeadersSaved
<1>2. \A h \in has : CodecHeaderAt(h, idx) # None
  BY <1>1, HeaderFound DEF None
<1> QED
  BY <1>2 DEF Missing, Wanted

(* Giving headers touches only the header fields. *)
LEMMA GiveHeadersSafe ==
  ASSUME StreamInv, NEW us \in UserType, NEW idx \in Int, NEW hs,
         \A h \in hs \cap HeaderKinds : CodecHeaderAt(h, idx) \in Nat
  PROVE  LET r == GiveHeaders(us, hs, idx) IN
         /\ r \in UserType
         /\ r.wait = us.wait /\ r.out_frames = us.out_frames
         /\ r.out_index = us.out_index
         /\ r.out_frame_timestamp = us.out_frame_timestamp
<1> DEFINE hd == [h \in HeaderKinds |->
                    IF h \in hs THEN CodecHeaderAt(h, idx) ELSE us.headers[h]]
           hi == [h \in HeaderKinds |->
                    IF h \in hs THEN CodecHeaderAt(h, idx) ELSE us.header_index[h]]
<1>1. hd \in [HeaderKinds -> Nat \cup {None}] /\ hi \in [HeaderKinds -> Nat]
  BY DEF UserType
<1>2. GiveHeaders(us, hs, idx) =
        [us EXCEPT !.headers = hd, !.header_index = hi]
  BY DEF GiveHeaders
<1> HIDE DEF hd, hi
<1> QED
  BY <1>1, <1>2 DEF UserType

(* What LocateGop and SkipFrame return: the cursor just before a GOP. *)
LEMMA JumpSafe ==
  ASSUME StreamInv, NEW us, UserSafe(us), us.out_frames = << >>,
         NEW idx \in Nat, idx <= frame_index, idx - 1 >= us.out_index, NEW hs,
         \A h \in hs \cap HeaderKinds : CodecHeaderAt(h, idx) \in Nat
  PROVE  LET r == [GiveHeaders(us, hs, idx) EXCEPT !.out_index = idx - 1]
         IN  /\ UserSafe(r)
             /\ r.out_frames = << >>
             /\ r.out_index >= us.out_index
<1> DEFINE g == GiveHeaders(us, hs, idx)
           r == [g EXCEPT !.out_index = idx - 1]
<1>1. /\ g \in UserType /\ g.wait = HeaderKinds /\ g.out_frames = << >>
  BY GiveHeadersSafe DEF UserSafe
<1> HIDE DEF g
<1>2. /\ r \in UserType /\ r.wait = HeaderKinds
      /\ r.out_frames = << >> /\ r.out_index = idx - 1
  BY <1>1 DEF UserType
<1>3. idx - 1 <= frame_index
  BY DEF StreamInv, StreamType
<1> HIDE DEF r
<1>4. UserSafe(r)
  BY <1>2, <1>3 DEF UserSafe, HeldRun
<1> QED
  BY <1>2, <1>4 DEF r, g

(* LocateGop gives every header the stream has and finishes its waiting. *)
LEMMA LocateSafe ==
  ASSUME StreamInv, NEW us, UserSafe(us), us.out_frames = << >>, us.out_index = -1
  PROVE  /\ UserSafe(LocateGop(us))
         /\ LocateGop(us).out_frames = << >>
         /\ LocateGop(us).out_index >= us.out_index
<1> DEFINE idx == GetGopByLatency
<1>1. CASE idx = None
  BY <1>1 DEF LocateGop, UserSafe
<1>2. CASE idx # None
  <2>1. idx \in Nat /\ idx <= frame_index /\ idx - 1 >= us.out_index
    BY <1>2, GopFound
  <2> DEFINE hs == Wanted(us)
             g  == GiveHeaders(us, hs, idx)
  <2>2. \A h \in hs \cap HeaderKinds : CodecHeaderAt(h, idx) \in Nat
    BY <2>1, HeaderFound DEF Wanted, StreamInv, HeadersSaved
  <2>3. g \in UserType /\ g.wait = HeaderKinds
    BY <2>1, <2>2, GiveHeadersSafe DEF UserSafe
  <2>4. Missing(us, idx) = {} /\ hs \ {} = hs
    BY <2>1, NothingMissing
  <2>5. LocateGop(us) = [g EXCEPT !.out_index = idx - 1, !.wait = HeaderKinds]
    BY <1>2, <2>4 DEF LocateGop
  <2> HIDE DEF g
  <2>6. [g EXCEPT !.out_index = idx - 1, !.wait = HeaderKinds]
          = [g EXCEPT !.out_index = idx - 1]
    BY <2>3 DEF UserType
  <2> QED
    BY <2>1, <2>2, <2>5, <2>6, JumpSafe DEF g
<1> QED
  BY <1>1, <1>2

(* SkipFrame never moves a cursor back. *)
LEMMA SkipSafe ==
  ASSUME StreamInv, NEW us, UserSafe(us), us.out_frames = << >>
  PROVE  /\ UserSafe(SkipFrame(us))
         /\ SkipFrame(us).out_frames = << >>
         /\ SkipFrame(us).out_index >= us.out_index
<1> DEFINE idx == GetGopByLatency
           newer == {h \in HeaderKinds : CodecHeaderAt(h, idx) > us.header_index[h]}
<1>0. us.out_index \in Int /\ us.header_index \in [HeaderKinds -> Nat]
  BY DEF UserSafe, UserType
<1>1. CASE idx = None \/ idx <= us.out_index
  BY <1>0, <1>1 DEF SkipFrame, UserSafe
<1>2. CASE ~(idx = None \/ idx <= us.out_index)
  <2>1. idx \in Nat /\ idx <= frame_index /\ idx - 1 >= us.out_index
    BY <1>0, <1>2, GopFound
  <2>2. \A h \in newer \cap HeaderKinds : CodecHeaderAt(h, idx) \in Nat
    <3>1. \A h \in HeaderKinds : CodecHeaderAt(h, idx) \in Nat \cup {None}
      BY <2>1, HeaderFound
    <3> QED
      BY <1>0, <3>1 DEF None
  <2>3. SkipFrame(us) = [GiveHeaders(us, newer, idx) EXCEPT !.out_index = idx - 1]
    BY <1>2 DEF SkipFrame
  <2> HIDE DEF newer
  <2> QED
    BY <2>1, <2>2, <2>3, JumpSafe
<1> QED
  BY <1>1, <1>2

(***************************************************************************)
(* GetNextFrame takes an unbroken run that starts at the cursor's next     *)
(* packet or, if that one was overwritten, at a later one.                 *)
(***************************************************************************)
LEMMA NextFrameSafe ==
  ASSUME StreamInv, NEW us, UserSafe(us), us.out_frames = << >>
  PROVE  /\ UserSafe(GetNextFrame(us))
         /\ Behind(GetNextFrame(us)) >= us.out_index
<1> USE StreamAssumption
<1> DEFINE idx   == us.out_index + 1
           first == packet_buffer[idx % BufferSize]
           n     == Min({BatchSize, frame_index - first.index + 1})
           batch == [i \in 1 .. n |->
                       packet_buffer[(first.index + i - 1) % BufferSize]]
           r     == [us EXCEPT !.out_frames = batch,
                               !.out_index  = batch[n].index,
                               !.out_frame_timestamp = batch[n].timestamp]
<1>1. /\ idx \in Nat /\ us.out_index \in Int /\ frame_index \in Int
      /\ us \in UserType /\ us.wait = HeaderKinds
  BY DEF UserSafe, UserType, StreamInv, StreamType
<1>2. CASE idx > frame_index \/ first = NoPacket
  <2>1. GetNextFrame(us) = us
    BY <1>2 DEF GetNextFrame, Slot
  <2>2. Len(us.out_frames) = 0
    OBVIOUS
  <2> QED
    BY <2>1, <2>2, <1>1 DEF Behind
<1>3. CASE ~(idx > frame_index \/ first = NoPacket)
  <2>1. idx % BufferSize \in Slots
    BY <1>1, SlotRange
  <2>2. /\ first \in Packet /\ first.index \in Nat
        /\ first.index <= frame_index /\ first.index > MinIdx
    BY <1>3, <2>1 DEF StreamInv, StreamType, RingRange, Packet
  <2>3. first.index >= idx
    <3>1. CASE idx > MinIdx
      BY <3>1, <1>1, <1>3 DEF StreamInv, RingHoldsLastPackets
    <3>2. CASE ~(idx > MinIdx)
      BY <3>2, <1>1, <2>2 DEF MinIdx
    <3> QED
      BY <3>1, <3>2
  <2> DEFINE f == first.index
  <2>4. /\ n \in Nat /\ n >= 1 /\ n <= frame_index - f + 1
    <3>1. frame_index - f + 1 \in Int /\ frame_index - f + 1 >= 1
      BY <1>1, <2>2
    <3>2. n = IF BatchSize <= frame_index - f + 1 THEN BatchSize
              ELSE frame_index - f + 1
      BY <3>1, MinOfTwo
    <3> QED
      BY <3>1, <3>2
  <2>5. ASSUME NEW i \in 1 .. n
        PROVE  /\ packet_buffer[(f + i - 1) % BufferSize] \in Packet
               /\ packet_buffer[(f + i - 1) % BufferSize].index = f + i - 1
    <3> DEFINE j == f + i - 1
    <3>1. /\ j \in Nat /\ j \in 0 .. frame_index /\ j > MinIdx
      <4>1. MinIdx \in Int
        BY <1>1 DEF MinIdx
      <4>2. f \in Nat /\ f > MinIdx /\ n \in Nat /\ n <= frame_index - f + 1
        BY <2>2, <2>4
      <4> HIDE DEF f, n
      <4> QED
        BY <4>1, <4>2, <1>1
    <3> HIDE DEF j
    <3>2. packet_buffer[j % BufferSize].index = j
      BY <3>1 DEF StreamInv, RingHoldsLastPackets
    <3>3. packet_buffer[j % BufferSize] \in Packet \cup {NoPacket}
      BY <3>1, SlotRange DEF StreamInv, StreamType
    <3> QED
      BY <3>1, <3>2, <3>3 DEF NoPacket, None, j
  <2>6. GetNextFrame(us) = r
    BY <1>3 DEF GetNextFrame, Slot
  <2> HIDE DEF n, f, first
  <2>7. /\ batch \in Seq(Packet) /\ Len(batch) = n /\ DOMAIN batch = 1 .. n
        /\ \A i \in 1 .. n : batch[i] \in Packet /\ batch[i].index = f + i - 1
    BY <2>4, <2>5 DEF f
  <2>8. n \in 1 .. n /\ f \in Nat
    BY <2>4, <2>2 DEF f
  <2>9. /\ batch[n].index = f + n - 1 /\ batch[n].index \in Nat
        /\ batch[n].timestamp \in Nat
    BY <2>7, <2>8 DEF Packet
  <2> HIDE DEF batch
  <2>10. /\ r \in UserType /\ r.wait = HeaderKinds /\ r.out_frames = batch
         /\ r.out_index = f + n - 1 /\ r.out_frame_timestamp = batch[n].timestamp
    BY <1>1, <2>7, <2>9 DEF UserType
  <2> HIDE DEF r
  <2>11. HeldRun(r)
    BY <2>4, <2>7, <2>8, <2>10 DEF HeldRun
  <2>12. r.out_index <= frame_index
    BY <1>1, <2>4, <2>8, <2>10
  <2>13. Behind(r) >= us.out_index
    <3>1. Behind(r) = f - 1
      BY <2>4, <2>7, <2>8, <2>10 DEF Behind
    <3> QED
      BY <3>1, <1>1, <2>3, <2>8 DEF f
  <2> QED
    BY <2>6, <2>10, <2>11, <2>12, <2>13 DEF UserSafe
<1> QED
  BY <1>2, <1>3

(* GetFrames as a whole: a safe cursor, never behind where it was. *)
LEMMA GetFramesSafe ==
  ASSUME StreamInv, NEW us, UserSafe(us)
  PROVE  /\ UserSafe(GetFrames(us))
         /\ Behind(GetFrames(us)) >= Behind(us)
<1>0. us.out_index \in Nat \cup {-1} /\ us.out_frames \in Seq(Packet)
  BY DEF UserSafe, UserType
<1>a. Len(us.out_frames) \in Nat
  BY <1>0, LenProperties
<1>1. CASE ~HasMedia \/ Holding(us)
  <2>1. GetFrames(us) = us
    BY <1>1 DEF GetFrames
  <2> QED
    BY <2>1, <1>0, <1>a DEF Behind
<1>2. CASE ~(~HasMedia \/ Holding(us))
  <2>1. us.out_frames = << >>
    BY <1>2 DEF Holding
  <2>2. Behind(us) = us.out_index
    BY <2>1, <1>0 DEF Behind
  <2>3. CASE us.out_index >= 0
    <3> DEFINE s == IF NeedSkip(us) THEN SkipFrame(us) ELSE us
    <3>1. /\ UserSafe(s) /\ s.out_frames = << >> /\ s.out_index >= us.out_index
      BY <1>0, <2>1, SkipSafe
    <3>2. GetFrames(us) = GetNextFrame(s)
      BY <1>2, <2>3 DEF GetFrames
    <3> HIDE DEF s
    <3>3. UserSafe(GetNextFrame(s)) /\ Behind(GetNextFrame(s)) >= s.out_index
      BY <3>1, NextFrameSafe
    <3>4. s.out_index \in Int /\ Behind(GetNextFrame(s)) \in Int
      <4>1. /\ s.out_index \in Int /\ GetNextFrame(s).out_index \in Int
            /\ GetNextFrame(s).out_frames \in Seq(Packet)
        BY <3>1, <3>3 DEF UserSafe, UserType
      <4> QED
        BY <4>1, LenProperties DEF Behind
    <3> QED
      BY <1>0, <2>2, <3>1, <3>2, <3>3, <3>4
  <2>4. CASE ~(us.out_index >= 0)
    <3> DEFINE l == LocateGop(us)
    <3>1. /\ UserSafe(l) /\ l.out_frames = << >> /\ l.out_index >= us.out_index
      BY <1>0, <2>1, <2>4, LocateSafe
    <3>2. GetFrames(us) = IF Located(us) THEN GetNextFrame(l) ELSE l
      BY <1>2, <2>4 DEF GetFrames
    <3> HIDE DEF l
    <3>3. UserSafe(GetNextFrame(l)) /\ Behind(GetNextFrame(l)) >= l.out_index
      BY <3>1, NextFrameSafe
    <3>4. l.out_index \in Int /\ Behind(GetNextFrame(l)) \in Int
      <4>1. /\ l.out_index \in Int /\ GetNextFrame(l).out_index \in Int
            /\ GetNextFrame(l).out_frames \in Seq(Packet)
        BY <3>1, <3>3 DEF UserSafe, UserType
      <4> QED
        BY <4>1, LenProperties DEF Behind
    <3>5. Behind(l) = l.out_index
      BY <3>1, <3>4 DEF Behind
    <3> QED
      BY <1>0, <2>2, <3>1, <3>2, <3>3, <3>4, <3>5
  <2> QED
    BY <2>3, <2>4
<1> QED
  BY <1>1, <1>2
-----------------------------------------------------------------------------
(* The whole system.                                                        *)

WireType == [headers : [HeaderKinds -> Nat \cup {None}], last : Nat \cup {None}]

(* Player u: what it holds comes after what it was sent. *)
PlayerSafe(u) ==
  /\ UserSafe(user[u])
  /\ wire[u].last <= Behind(user[u])

PlayersInv ==
  /\ user \in [Players -> UserType]
  /\ sending \in [Players -> BOOLEAN]
  /\ wire \in [Players -> WireType]
  /\ \A u \in Players : PlayerSafe(u)

Inv == StreamInv /\ PlayersInv

(* The initial state. *)
LEMMA InvInit == Init => Inv
<1> SUFFICES ASSUME Init PROVE Inv
  OBVIOUS
<1>1. StreamInv
  BY StreamInit
<1>2. NewUser \in UserType
  <2>1. << >> \in Seq(Packet)
    OBVIOUS
  <2> QED
    BY <2>1 DEF NewUser, UserType, None
<1>3. UserSafe(NewUser) /\ Behind(NewUser) = -1
  <2>1. NewUser.out_frames = << >> /\ NewUser.out_index = -1 /\ NewUser.wait = HeaderKinds
    BY DEF NewUser
  <2> QED
    BY <1>2, <2>1 DEF UserSafe, HeldRun, Behind, Init
<1>4. [headers |-> [h \in HeaderKinds |-> None], last |-> None] \in WireType
  BY DEF WireType
<1> QED
  BY <1>1, <1>2, <1>3, <1>4 DEF Inv, PlayersInv, PlayerSafe, Init, None

(* Replacing player u's cursor and wire by safe ones keeps PlayersInv. *)
LEMMA ReplaceUser ==
  ASSUME PlayersInv, NEW u \in Players, NEW us, NEW w \in WireType,
         NEW b \in BOOLEAN, UserSafe(us), w.last <= Behind(us),
         user' = [user EXCEPT ![u] = us],
         sending' = [sending EXCEPT ![u] = b],
         wire' = [wire EXCEPT ![u] = w],
         frame_index' = frame_index
  PROVE  PlayersInv'
<1>1. us \in UserType
  BY DEF UserSafe
<1>2. /\ user' \in [Players -> UserType] /\ sending' \in [Players -> BOOLEAN]
      /\ wire' \in [Players -> WireType]
  BY <1>1 DEF PlayersInv
<1>3. ASSUME NEW v \in Players PROVE PlayerSafe(v)'
  <2>1. CASE v = u
    <3>1. user'[v] = us /\ wire'[v] = w
      BY <2>1 DEF PlayersInv
    <3> QED
      BY <3>1 DEF PlayerSafe, UserSafe, HeldRun, Behind
  <2>2. CASE v # u
    <3>1. user'[v] = user[v] /\ wire'[v] = wire[v] /\ PlayerSafe(v)
      BY <2>2 DEF PlayersInv
    <3> QED
      BY <3>1 DEF PlayerSafe, UserSafe, HeldRun, Behind
  <2> QED
    BY <2>1, <2>2
<1> QED
  BY <1>2, <1>3 DEF PlayersInv

(* PostFrames, whichever of its branches runs. *)
LEMMA PostSafe ==
  ASSUME Inv, NEW u \in Players, NEW busy \in BOOLEAN, Post(u, busy),
         UNCHANGED streamVars
  PROVE  PlayersInv'
<1> DEFINE us == GetFrames(user[u])
<1>1. /\ StreamInv /\ PlayersInv /\ frame_index' = frame_index
      /\ UserSafe(user[u]) /\ wire[u].last <= Behind(user[u])
      /\ wire[u] \in WireType
  BY DEF Inv, PlayersInv, PlayerSafe, streamVars
<1>2. UserSafe(us) /\ Behind(us) >= Behind(user[u])
  BY <1>1, GetFramesSafe
<1>3. /\ us \in UserType /\ us.out_frames \in Seq(Packet)
      /\ us.out_index \in Nat \cup {None} /\ Len(us.out_frames) \in Nat
      /\ user[u].out_index \in Int /\ Len(user[u].out_frames) \in Nat
      /\ wire[u].last \in Int /\ frame_index \in Int
  BY <1>1, <1>2, LenProperties
     DEF UserSafe, UserType, WireType, None, StreamInv, StreamType
<1> HIDE DEF us
<1>4. wire[u].last <= Behind(us)
  <2>1. us.out_index \in Int
    BY <1>3 DEF None
  <2>2. Behind(us) \in Int /\ Behind(user[u]) \in Int
    BY <2>1, <1>3 DEF Behind
  <2> QED
    BY <1>1, <1>2, <1>3, <2>2
<1>5. ASSUME NEW x, NEW b \in BOOLEAN, UserSafe(x), wire[u].last <= Behind(x),
             Keep(u, x, b)
      PROVE  PlayersInv'
  <2>1. wire' = [wire EXCEPT ![u] = wire[u]]
    BY <1>5, <1>1 DEF Keep, PlayersInv
  <2> QED
    BY <1>1, <1>5, <2>1, ReplaceUser DEF Keep
<1>6. ASSUME NEW h \in HeaderKinds, SendHeader(u, us, h), HeldHeaders(us) # {}
      PROVE  PlayersInv'
  <2> DEFINE x == [us EXCEPT !.headers[h] = None]
             w == [wire[u] EXCEPT !.headers[h] = us.headers[h]]
  <2>1. /\ x \in UserType /\ x.wait = us.wait /\ x.out_frames = us.out_frames
        /\ x.out_index = us.out_index
        /\ x.out_frame_timestamp = us.out_frame_timestamp
    BY <1>3 DEF UserType
  <2>2. w \in WireType /\ w.last = wire[u].last
    BY <1>1, <1>3 DEF WireType, UserType
  <2>3. /\ user' = [user EXCEPT ![u] = x]
        /\ sending' = [sending EXCEPT ![u] = TRUE]
        /\ wire' = [wire EXCEPT ![u] = w]
    BY <1>1, <1>6 DEF SendHeader, PlayersInv
  <2> HIDE DEF x, w
  <2>4. UserSafe(x) /\ w.last <= Behind(x)
    BY <1>2, <1>4, <2>1, <2>2 DEF UserSafe, HeldRun, Behind
  <2> QED
    BY <1>1, <2>2, <2>3, <2>4, ReplaceUser
<1>7. ASSUME SendFrames(u, us) PROVE PlayersInv'
  <2> DEFINE sent == us.out_frames
             HeadersIn(h) == {sent[i].index : i \in {j \in DOMAIN sent : sent[j].kind = h}}
             hd == [h \in HeaderKinds |-> IF HeadersIn(h) = {} THEN wire[u].headers[h]
                                          ELSE Max(HeadersIn(h))]
             x == [us EXCEPT !.out_frames = << >>]
             w == [headers |-> hd, last |-> us.out_index]
  <2>1. \A i \in DOMAIN sent : sent[i].index \in 0 .. us.out_index
    <3>1. ASSUME NEW i \in DOMAIN sent PROVE sent[i].index \in 0 .. us.out_index
      <4>1. i \in 1 .. Len(sent) /\ sent[i] \in Packet
        BY <1>3, LenProperties, ElementOfSeq
      <4>2. sent[i].index = us.out_index - Len(sent) + i /\ sent[i].index \in Nat
        BY <1>2, <4>1 DEF UserSafe, HeldRun, Packet
      <4> QED
        BY <4>1, <4>2, <1>3 DEF None
    <3> QED
      BY <3>1
  <2>2. ASSUME NEW h \in HeaderKinds, HeadersIn(h) # {}
        PROVE  Max(HeadersIn(h)) \in Nat
    <3>1. HeadersIn(h) \subseteq 0 .. us.out_index
      BY <2>1
    <3> HIDE DEF HeadersIn
    <3>2. us.out_index \in Int
      BY <1>3 DEF None
    <3> QED
      BY <2>2, <3>1, <3>2, MaxOfNats
  <2> HIDE DEF HeadersIn
  <2>3. hd \in [HeaderKinds -> Nat \cup {None}]
    BY <1>1, <2>2 DEF WireType
  <2>4. /\ user' = [user EXCEPT ![u] = x]
        /\ sending' = [sending EXCEPT ![u] = TRUE]
        /\ wire' = [wire EXCEPT ![u] = w]
    BY <1>1, <1>7 DEF SendFrames, PlayersInv, HeadersIn
  <2> HIDE DEF hd
  <2>5. w \in WireType /\ w.last = us.out_index
    BY <1>3, <2>3 DEF WireType
  <2>6. << >> \in Seq(Packet)
    OBVIOUS
  <2>7. /\ x \in UserType /\ x.wait = us.wait /\ x.out_frames = << >>
        /\ x.out_index = us.out_index
    BY <1>3, <2>6 DEF UserType
  <2> HIDE DEF x, w
  <2>8. UserSafe(x)
    BY <1>2, <2>7 DEF UserSafe, HeldRun
  <2>9. w.last <= Behind(x)
    BY <1>3, <2>5, <2>7 DEF Behind, None
  <2> QED
    BY <1>1, <2>4, <2>5, <2>8, <2>9, ReplaceUser
<1>8. NextHeader(us) \in HeaderKinds
  BY DEF NextHeader, HeaderKinds
<1> QED
  BY <1>1, <1>2, <1>4, <1>5, <1>6, <1>7, <1>8 DEF Post, us

(* AddPacket leaves the players alone, and only makes frame_index grow. *)
LEMMA AddPacketKeepsPlayers ==
  ASSUME Inv, NEW k \in Kinds, NEW d \in Deltas, AddPacket(k, d)
  PROVE  PlayersInv'
<1>1. /\ user' = user /\ sending' = sending /\ wire' = wire
      /\ frame_index' = frame_index + 1 /\ frame_index \in Int
  BY DEF AddPacket, Inv, StreamInv, StreamType
<1>2. ASSUME NEW u \in Players PROVE PlayerSafe(u)'
  <2>1. PlayerSafe(u) /\ user[u].out_index \in Int
    BY DEF Inv, PlayersInv, PlayerSafe, UserSafe, UserType
  <2> QED
    BY <1>1, <2>1 DEF PlayerSafe, UserSafe, HeldRun, Behind
<1> QED
  BY <1>1, <1>2 DEF Inv, PlayersInv

(* Nothing in StreamInv depends on the players. *)
LEMMA StreamUnchanged ==
  ASSUME StreamInv, UNCHANGED streamVars PROVE StreamInv'
BY DEF StreamInv, StreamType, RingRange, RingHoldsLastPackets, HeadersSaved,
       GopsPast, GopsBuffered, Buffered, MinIdx, streamVars

(***************************************************************************)
(* The inductive invariant: the ring, the GOP table and the saved headers  *)
(* agree with frame_index_, and no cursor is ahead of it or behind what    *)
(* was sent.                                                               *)
(***************************************************************************)
THEOREM StreamInvariant == Spec => []Inv
<1>1. Inv /\ [Next]_vars => Inv'
  <2> SUFFICES ASSUME Inv, [Next]_vars PROVE Inv'
    OBVIOUS
  <2>1. ASSUME NEW k \in Kinds, NEW d \in Deltas, AddPacket(k, d) PROVE Inv'
    BY <2>1, StreamAddPacket, AddPacketKeepsPlayers DEF Inv
  <2>2. ASSUME NEW u \in Players, PostFrames(u) PROVE Inv'
    <3>1. sending[u] \in BOOLEAN
      BY DEF Inv, PlayersInv
    <3> QED
      BY <2>2, <3>1, PostSafe, StreamUnchanged DEF PostFrames, Inv
  <2>3. ASSUME NEW u \in Players, OnWriteComplete(u) PROVE Inv'
    BY <2>3, PostSafe, StreamUnchanged DEF OnWriteComplete, Inv
  <2>4. CASE UNCHANGED vars
    <3>1. UNCHANGED streamVars /\ UNCHANGED <<user, sending, wire, frame_index>>
      BY <2>4 DEF vars, streamVars
    <3>2. PlayersInv'
      BY <3>1 DEF Inv, PlayersInv, PlayerSafe, UserSafe, HeldRun, Behind
    <3> QED
      BY <3>1, <3>2, StreamUnchanged DEF Inv
  <2> QED
    BY <2>1, <2>2, <2>3, <2>4 DEF Next
<1> QED
  BY <1>1, InvInit, PTL DEF Spec

(* Every variable keeps its type; no clock, index or count goes astray.    *)
THEOREM TypeCorrect == Spec => []TypeOK
<1>1. Inv => TypeOK
  BY DEF Inv, StreamInv, StreamType, PlayersInv, WireType, TypeOK
<1> QED
  BY <1>1, StreamInvariant, PTL

(* For every ring size the ring holds exactly the last BufferSize packets. *)
THEOREM RingCorrect == Spec => []RingHoldsLastPackets
<1>1. Inv => RingHoldsLastPackets
  BY DEF Inv, StreamInv
<1> QED
  BY <1>1, StreamInvariant, PTL

(* Every player, however slow, gets packets in order and none twice.       *)
THEOREM InOrder == Spec => []DeliveryInOrder
<1>1. Inv => DeliveryInOrder
  BY DEF Inv, PlayersInv, PlayerSafe, UserSafe, Behind, DeliveryInOrder
<1> QED
  BY <1>1, StreamInvariant, PTL

(* A listed GOP is in the ring, but for the first one for one packet.      *)
THEOREM GopsInRing == Spec => []GopsBuffered
<1>1. Inv => GopsBuffered
  BY DEF Inv, StreamInv
<1> QED
  BY <1>1, StreamInvariant, PTL

(* LocateGop finds every header it waits for, whenever it finds a GOP.     *)
THEOREM LocateNeverWaits == Spec => []LocateIsAllOrNothing
<1>1. Inv => LocateIsAllOrNothing
  <2> SUFFICES ASSUME Inv, NEW u \in Players
               PROVE  /\ user[u].wait = HeaderKinds
                      /\ \A idx \in 0 .. frame_index : Missing(user[u], idx) = {}
    BY DEF LocateIsAllOrNothing
  <2>1. user[u].wait = HeaderKinds
    BY DEF Inv, PlayersInv, PlayerSafe, UserSafe
  <2>2. \A idx \in 0 .. frame_index : Missing(user[u], idx) = {}
    BY NothingMissing DEF Inv
  <2> QED
    BY <2>1, <2>2
<1> QED
  BY <1>1, StreamInvariant, PTL
-----------------------------------------------------------------------------
(* Where a player starts and where it skips to.                             *)

(* The first packet that GetNextFrame takes is the one in the slot of the  *)
(* cursor's next index; it takes none only if there is none.               *)
LEMMA FirstTaken ==
  ASSUME StreamInv, NEW us, UserSafe(us), us.out_frames = << >>
  PROVE  LET r     == GetNextFrame(us)
             first == packet_buffer[(us.out_index + 1) % BufferSize]
         IN  /\ r.headers = us.headers
             /\ IF us.out_index + 1 > frame_index \/ first = NoPacket THEN r = us
                ELSE r.out_frames # << >> /\ r.out_frames[1] = first
<1> USE StreamAssumption
<1> DEFINE idx   == us.out_index + 1
           first == packet_buffer[idx % BufferSize]
           n     == Min({BatchSize, frame_index - first.index + 1})
           batch == [i \in 1 .. n |->
                       packet_buffer[(first.index + i - 1) % BufferSize]]
           r     == [us EXCEPT !.out_frames = batch,
                               !.out_index  = batch[n].index,
                               !.out_frame_timestamp = batch[n].timestamp]
<1>1. idx \in Nat /\ frame_index \in Int /\ us \in UserType
  BY DEF UserSafe, UserType, StreamInv, StreamType
<1>2. CASE idx > frame_index \/ first = NoPacket
  BY <1>2 DEF GetNextFrame, Slot
<1>3. CASE ~(idx > frame_index \/ first = NoPacket)
  <2>1. idx % BufferSize \in Slots
    BY <1>1, SlotRange
  <2>2. /\ first.index \in Nat /\ first.index <= frame_index
        /\ first.index % BufferSize = idx % BufferSize
    BY <1>3, <2>1 DEF StreamInv, StreamType, RingRange, Packet
  <2>3. GetNextFrame(us) = r
    BY <1>3 DEF GetNextFrame, Slot
  <2>4. n \in Nat /\ n >= 1
    <3>1. frame_index - first.index + 1 \in Int /\ frame_index - first.index + 1 >= 1
      BY <1>1, <2>2
    <3>2. n = IF BatchSize <= frame_index - first.index + 1 THEN BatchSize
              ELSE frame_index - first.index + 1
      BY <3>1, MinOfTwo
    <3> QED
      BY <3>1, <3>2
  <2>5. first.index + 1 - 1 = first.index
    BY <2>2
  <2> HIDE DEF n
  <2>6. batch # << >> /\ batch[1] = first
    BY <2>2, <2>4, <2>5
  <2> HIDE DEF batch, first
  <2>7. r.out_frames = batch /\ r.headers = us.headers
    BY <1>1 DEF UserType
  <2> QED
    BY <1>3, <2>3, <2>6, <2>7 DEF first
<1> QED
  BY <1>2, <1>3

(* The packet in the slot of a GOP that was found: its key frame or, for   *)
(* the first GOP and as the newest packet, the one that replaced it.       *)
LEMMA GopStart ==
  ASSUME StreamInv, GetGopByLatency # None
  PROVE  LET idx   == GetGopByLatency
             first == packet_buffer[idx % BufferSize]
         IN  /\ idx \in Nat /\ idx <= frame_index /\ first # NoPacket
             /\ \/ first.index = idx /\ IsKeyFrame(first.kind)
                \/ idx = 0 /\ MinIdx = 0 /\ first.index = frame_index
<1> DEFINE idx == GetGopByLatency
           reached == {g \in gops : \A h \in gops :
                                      h.index >= g.index => WithinLatency(h)}
           indices == {g.index : g \in reached}
           first == packet_buffer[idx % BufferSize]
<1>1. idx \in Nat /\ idx <= frame_index
  BY GopFound
<1>2. PICK g \in gops : g.index = idx
  <2>1. reached # {} /\ idx = Min(indices)
    BY DEF GetGopByLatency
  <2>2. indices \subseteq Nat /\ indices # {}
    BY <2>1 DEF StreamInv, StreamType
  <2>3. Min(indices) \in indices
    BY <2>2, MinOfNats
  <2> QED
    BY <2>1, <2>3
<1> HIDE DEF idx, reached, indices
<1>3. CASE Buffered(g)
  <2>1. first.index = idx /\ IsKeyFrame(first.kind)
    BY <1>2, <1>3 DEF Buffered
  <2> QED
    BY <2>1, <1>1 DEF NoPacket, None, idx
<1>4. CASE idx = 0 /\ MinIdx = 0
  <2>1. frame_index = BufferSize /\ frame_index \in Nat
    BY <1>4, StreamAssumption DEF MinIdx, StreamInv, StreamType
  <2>2. packet_buffer[frame_index % BufferSize].index = frame_index
    BY <2>1, <1>4, StreamAssumption DEF StreamInv, RingHoldsLastPackets
  <2>3. frame_index % BufferSize = 0 % BufferSize
    <3>1. (0 + BufferSize) % BufferSize = 0 % BufferSize
      BY SlotShared
    <3>2. 0 + BufferSize = BufferSize
      BY StreamAssumption
    <3> QED
      BY <3>1, <3>2, <2>1
  <2>4. first.index = frame_index
    BY <2>2, <2>3, <1>4
  <2> QED
    BY <2>1, <2>4, <1>1, <1>4 DEF NoPacket, None, idx
<1> QED
  BY <1>2, <1>3, <1>4 DEF StreamInv, GopsBuffered

(***************************************************************************)
(* A skip is needed, and lands on a key frame unless the cursor's packets  *)
(* have left the ring.                                                     *)
(***************************************************************************)
LEMMA SkipLands ==
  ASSUME StreamInv, NEW us, UserSafe(us), us.out_frames = << >>, us.out_index >= 0,
         GetFrames(us).out_frames # << >>
  PROVE  LET first == GetFrames(us).out_frames[1]
         IN  \/ first.index = us.out_index + 1
             \/ NeedSkip(us) /\ us.out_index < MinIdx
             \/ NeedSkip(us) /\ IsKeyFrame(first.kind)
<1> DEFINE s == IF NeedSkip(us) THEN SkipFrame(us) ELSE us
           r == GetNextFrame(s)
<1>0. us.out_index \in Nat /\ frame_index \in Int /\ MinIdx \in Int
  BY StreamAssumption DEF UserSafe, UserType, StreamInv, StreamType, MinIdx
<1>1. GetFrames(us) = r
  BY DEF GetFrames
<1>2. UserSafe(s) /\ s.out_frames = << >> /\ s.out_index \in Int
  <2>1. UserSafe(SkipFrame(us)) /\ SkipFrame(us).out_frames = << >>
    BY SkipSafe
  <2>2. UserSafe(s) /\ s.out_frames = << >>
    BY <2>1
  <2>3. \A x : UserSafe(x) => x.out_index \in Int
    BY DEF UserSafe, UserType
  <2> QED
    BY <2>2, <2>3
<1> SUFFICES ASSUME ~(NeedSkip(us) /\ us.out_index < MinIdx)
             PROVE  \/ r.out_frames[1].index = us.out_index + 1
                    \/ NeedSkip(us) /\ IsKeyFrame(r.out_frames[1].kind)
  BY <1>1
<1>3. us.out_index >= MinIdx
  BY <1>0 DEF NeedSkip
<1>4. r.out_frames # << >>
  BY <1>1
<1>5. /\ s.out_index + 1 <= frame_index
      /\ r.out_frames[1] = packet_buffer[(s.out_index + 1) % BufferSize]
  <2> HIDE DEF s
  <2>1. ~(s.out_index + 1 > frame_index)
    BY <1>2, <1>4, FirstTaken
  <2>2. r.out_frames[1] = packet_buffer[(s.out_index + 1) % BufferSize]
    BY <1>2, <1>4, FirstTaken
  <2> QED
    BY <2>1, <2>2, <1>0, <1>2
<1>6. CASE s = us
  <2>1. us.out_index + 1 \in 0 .. frame_index /\ us.out_index + 1 > MinIdx
    BY <1>0, <1>3, <1>5, <1>6
  <2> QED
    BY <2>1, <1>5, <1>6 DEF StreamInv, RingHoldsLastPackets
<1>7. CASE s # us
  <2> DEFINE idx == GetGopByLatency
  <2>1. NeedSkip(us) /\ idx # None /\ ~(idx <= us.out_index)
    BY <1>7 DEF SkipFrame
  <2>2. s.out_index = idx - 1
    <3> DEFINE newer == {h \in HeaderKinds : CodecHeaderAt(h, idx) > us.header_index[h]}
               g == GiveHeaders(us, newer, idx)
    <3>1. s = [g EXCEPT !.out_index = idx - 1]
      BY <2>1 DEF SkipFrame
    <3>2. "out_index" \in DOMAIN g
      BY DEF GiveHeaders, UserSafe, UserType
    <3> HIDE DEF g, s
    <3> QED
      BY <3>1, <3>2
  <2>3. /\ idx \in Nat
        /\ \/ IsKeyFrame(packet_buffer[idx % BufferSize].kind)
           \/ idx = 0
    BY <2>1, GopStart
  <2>4. idx # 0 /\ s.out_index + 1 = idx
    BY <1>0, <2>1, <2>2, <2>3
  <2> QED
    BY <2>1, <2>3, <2>4, <1>5
<1> QED
  BY <1>6, <1>7

(* What PostFrames leaves of the frames: those of GetFrames, or none. *)
LEMMA PostedFrames ==
  ASSUME Inv, NEW u \in Players, NEW busy, Post(u, busy)
  PROVE  \/ user'[u].out_frames \in {user[u].out_frames, GetFrames(user[u]).out_frames}
         \/ user'[u].out_frames = << >>
<1> DEFINE us == GetFrames(user[u])
<1>1. user \in [Players -> UserType] /\ us \in UserType
  BY GetFramesSafe DEF Inv, PlayersInv, PlayerSafe, UserSafe
<1> HIDE DEF us
<1>2. CASE Keep(u, user[u], busy)
  BY <1>1, <1>2 DEF Keep
<1>3. CASE Keep(u, us, busy)
  BY <1>1, <1>3 DEF Keep, us
<1>4. ASSUME NEW h, SendHeader(u, us, h) PROVE user'[u].out_frames = us.out_frames
  BY <1>1, <1>4 DEF SendHeader, UserType
<1>5. CASE SendFrames(u, us)
  BY <1>1, <1>5 DEF SendFrames, UserType
<1> QED
  BY <1>2, <1>3, <1>4, <1>5 DEF Post, us

(* Packets are dropped for a player only by a skip that it needed, and     *)
(* while its next packet is in the ring SkipFrame goes to a key frame.     *)
THEOREM SkipsToKeyFrames == Spec => SkipsOnlyToKeyFrame
<1>1. Inv /\ [Next]_vars => [\A u \in Players : SkipStep(u)]_vars
  <2> SUFFICES ASSUME Inv, Next, NEW u \in Players PROVE SkipStep(u)
    OBVIOUS
  <2>1. CASE user'[u].out_frames = user[u].out_frames
    BY <2>1 DEF SkipStep
  <2>2. ASSUME NEW busy, Post(u, busy), user'[u].out_frames # user[u].out_frames
        PROVE  SkipStep(u)
    <3> SUFFICES ASSUME user[u].out_index >= 0, user[u].out_frames = << >>,
                        user'[u].out_frames # << >>
                 PROVE  SkipStep(u)
      BY DEF SkipStep
    <3>1. user'[u].out_frames = GetFrames(user[u]).out_frames
      BY <2>2, PostedFrames
    <3>2. StreamInv /\ UserSafe(user[u])
      BY DEF Inv, PlayersInv, PlayerSafe
    <3> QED
      BY <3>1, <3>2, SkipLands DEF SkipStep
  <2>3. ASSUME NEW v \in Players, NEW busy, Post(v, busy), v # u
        PROVE  user'[u] = user[u]
    BY <2>3 DEF Post, Keep, SendHeader, SendFrames, Inv, PlayersInv
  <2>4. (\E v \in Players : \E busy \in {sending[v], FALSE} : Post(v, busy)) \/ user' = user
    BY DEF Next, AddPacket, PostFrames, OnWriteComplete
  <2> QED
    BY <2>1, <2>2, <2>3, <2>4
<1> QED
  BY <1>1, StreamInvariant, PTL DEF Spec, SkipsOnlyToKeyFrame
-----------------------------------------------------------------------------
(* The headers before the first frames.                                     *)

(* A saved header is promised by has_*, and in the ring it is a header. *)
HeadersKnown ==
  /\ \A h \in HeaderKinds : codec_headers[h] # {} => h \in has
  /\ \A h \in HeaderKinds, s \in Slots :
       packet_buffer[s].index \in codec_headers[h] => packet_buffer[s].kind = h

(* The header of kind h that the player has when its frames go out. *)
WillHave(us, w, h) == IF us.headers[h] # None THEN us.headers[h] ELSE w.headers[h]

(* As long as nothing but headers was sent to it, a player either holds    *)
(* nothing or holds, or was sent, the headers that its frames need.        *)
FirstRun(us, w) ==
  w.last = None =>
    IF us.out_frames = << >> THEN us.out_index = None /\ HeldHeaders(us) = {}
    ELSE \A h \in HeaderKinds :
           (Upto(h, us.out_frames[1].index) # {} /\ us.out_frames[1].kind # h)
             => WillHave(us, w, h) = Max(Upto(h, us.out_frames[1].index))

DecodeInv == HeadersKnown /\ \A u \in Players : FirstRun(user[u], wire[u])

(* The first frame a player holds is a packet that was added. *)
LEMMA FirstHeld ==
  ASSUME StreamInv, NEW us, UserSafe(us), us.out_frames # << >>
  PROVE  /\ us.out_frames[1].index \in Nat /\ us.out_frames[1].index <= frame_index
         /\ us.out_index # None
<1>1. /\ us.out_frames \in Seq(Packet) /\ us.out_index \in Int /\ frame_index \in Int
      /\ us.out_index <= frame_index /\ HeldRun(us)
  BY DEF UserSafe, UserType, StreamInv, StreamType
<1>2. Len(us.out_frames) \in Nat /\ Len(us.out_frames) >= 1
  BY <1>1, LenProperties, EmptySeq
<1>3. 1 \in DOMAIN us.out_frames /\ us.out_frames[1] \in Packet
  BY <1>1, <1>2, LenProperties, ElementOfSeq
<1>4. us.out_frames[1].index = us.out_index - Len(us.out_frames) + 1
  BY <1>1, <1>3 DEF HeldRun
<1>5. us.out_frames[1].index \in Nat
  BY <1>3 DEF Packet
<1> QED
  BY <1>1, <1>2, <1>4, <1>5 DEF None

(* CodecHeader finds the header that the first packet of a GOP needs. *)
LEMMA HeaderFits ==
  ASSUME StreamInv, HeadersKnown, GetGopByLatency # None, NEW h \in HeaderKinds,
         Upto(h, packet_buffer[GetGopByLatency % BufferSize].index) # {},
         packet_buffer[GetGopByLatency % BufferSize].kind # h
  PROVE  /\ h \in has
         /\ CodecHeaderAt(h, GetGopByLatency)
              = Max(Upto(h, packet_buffer[GetGopByLatency % BufferSize].index))
<1> DEFINE idx   == GetGopByLatency
           first == packet_buffer[idx % BufferSize]
<1>1. /\ idx \in Nat /\ idx <= frame_index
      /\ \/ first.index = idx
         \/ idx = 0 /\ first.index = frame_index
  BY GopStart
<1>2. codec_headers[h] \subseteq 0 .. frame_index /\ frame_index \in Int
  BY DEF StreamInv, StreamType, HeadersSaved
<1>3. codec_headers[h] # {} /\ h \in has
  BY DEF Upto, HeadersKnown
<1>4. idx % BufferSize \in Slots
  BY <1>1, SlotRange
<1> HIDE DEF idx, first
<1>5. CASE first.index = idx /\ idx # 0
  <2>1. idx > 0 /\ {i \in codec_headers[h] : i <= idx} = Upto(h, first.index)
    BY <1>1, <1>5 DEF Upto
  <2> QED
    BY <1>3, <2>1 DEF CodecHeaderAt, idx, first
<1>6. CASE first.index = idx /\ idx = 0
  <2>1. PICK i \in codec_headers[h] : i <= 0
    BY <1>6 DEF Upto, first, idx
  <2>2. first.index \in codec_headers[h]
    BY <1>2, <1>6, <2>1
  <2> QED
    BY <1>4, <2>2 DEF HeadersKnown, first, idx
<1>7. CASE idx = 0 /\ first.index = frame_index
  <2>1. Upto(h, first.index) = codec_headers[h]
    BY <1>2, <1>7 DEF Upto
  <2>2. CodecHeaderAt(h, idx) = Max(codec_headers[h])
    BY <1>3, <1>7 DEF CodecHeaderAt
  <2> QED
    BY <1>3, <2>1, <2>2 DEF idx, first
<1> QED
  BY <1>1, <1>5, <1>6, <1>7

(* LocateGop and GetNextFrame together: the GOP's packet, and its headers. *)
LEMMA LocateFirst ==
  ASSUME StreamInv, HeadersKnown, NEW us, UserSafe(us), us.out_frames = << >>,
         us.out_index = None, GetGopByLatency # None, NEW w
  PROVE  FirstRun(GetNextFrame(LocateGop(us)), w)
<1> DEFINE idx   == GetGopByLatency
           l     == LocateGop(us)
           r     == GetNextFrame(l)
           first == packet_buffer[idx % BufferSize]
           g     == GiveHeaders(us, has, idx)
<1>1. idx \in Nat /\ idx <= frame_index /\ first # NoPacket
  BY GopStart
<1>2. Missing(us, idx) = {} /\ Wanted(us) = has
  BY <1>1, NothingMissing DEF Wanted, UserSafe, StreamInv, StreamType
<1>3. l = [g EXCEPT !.out_index = idx - 1, !.wait = HeaderKinds]
  <2>1. has \ {} = has
    OBVIOUS
  <2> QED
    BY <1>2, <2>1 DEF LocateGop
<1>4. UserSafe(l) /\ l.out_frames = << >>
  BY LocateSafe DEF None
<1>5. us \in UserType
  BY DEF UserSafe
<1>6. /\ l.out_index = idx - 1
      /\ \A h \in HeaderKinds : h \in has => l.headers[h] = CodecHeaderAt(h, idx)
  <2>1. /\ g.headers = [h \in HeaderKinds |->
                          IF h \in has THEN CodecHeaderAt(h, idx) ELSE us.headers[h]]
        /\ DOMAIN g = DOMAIN us
    BY <1>5 DEF GiveHeaders, UserType
  <2> HIDE DEF g, l
  <2>2. l.headers = g.headers
    BY <1>3
  <2>3. l.out_index = idx - 1
    BY <1>3, <1>5, <2>1 DEF UserType
  <2> QED
    BY <2>1, <2>2, <2>3
<1> HIDE DEF l
<1>7. /\ r.headers = l.headers
      /\ IF l.out_index + 1 > frame_index
              \/ packet_buffer[(l.out_index + 1) % BufferSize] = NoPacket THEN r = l
         ELSE /\ r.out_frames # << >>
              /\ r.out_frames[1] = packet_buffer[(l.out_index + 1) % BufferSize]
  BY <1>4, FirstTaken
<1>8. l.out_index + 1 = idx /\ ~(idx > frame_index)
  BY <1>1, <1>6 DEF StreamInv, StreamType
<1>9. r.out_frames # << >> /\ r.out_frames[1] = first
  BY <1>1, <1>7, <1>8
<1>10. ASSUME NEW h \in HeaderKinds, Upto(h, first.index) # {}, first.kind # h
       PROVE  WillHave(r, w, h) = Max(Upto(h, first.index))
  <2>1. h \in has /\ CodecHeaderAt(h, idx) = Max(Upto(h, first.index))
    BY <1>10, HeaderFits
  <2>2. CodecHeaderAt(h, idx) # None
    BY <1>1, <2>1, HeaderFound DEF None, StreamInv, HeadersSaved
  <2> QED
    BY <1>6, <1>7, <2>1, <2>2 DEF WillHave
<1> HIDE DEF r, first
<1> QED
  BY <1>9, <1>10 DEF FirstRun, r, l

(* GetFrames as a whole. *)
LEMMA GetFramesFirst ==
  ASSUME StreamInv, HeadersKnown, NEW us, UserSafe(us), NEW w, FirstRun(us, w)
  PROVE  FirstRun(GetFrames(us), w)
<1>1. CASE ~HasMedia \/ Holding(us) \/ w.last # None
  BY <1>1 DEF GetFrames, FirstRun
<1>2. CASE ~(~HasMedia \/ Holding(us) \/ w.last # None)
  <2>1. us.out_frames = << >> /\ us.out_index = None
    BY <1>2 DEF Holding, FirstRun
  <2>2. ~(us.out_index >= 0)
    BY <2>1 DEF None
  <2>3. GetFrames(us) = IF Located(us) THEN GetNextFrame(LocateGop(us)) ELSE LocateGop(us)
    BY <1>2, <2>2 DEF GetFrames
  <2>4. CASE GetGopByLatency = None
    BY <2>3, <2>4 DEF Located, LocateGop
  <2>5. CASE GetGopByLatency # None
    <3>1. Located(us)
      <4>1. GetGopByLatency \in Int
        BY <2>5, GopFound
      <4> QED
        BY <2>5, <4>1, NothingMissing DEF Located
    <3> QED
      BY <2>1, <2>3, <2>5, <3>1, LocateFirst
  <2> QED
    BY <2>4, <2>5
<1> QED
  BY <1>1, <1>2

(* AddPacket saves no header that an earlier packet could need. *)
LEMMA AddPacketDecode ==
  ASSUME Inv, DecodeInv, NEW k \in Kinds, NEW d \in Deltas, AddPacket(k, d)
  PROVE  DecodeInv'
<1> DEFINE index == frame_index + 1
<1>0. /\ user' = user /\ wire' = wire /\ index \in Nat /\ frame_index \in Int
      /\ codec_headers \in [HeaderKinds -> SUBSET Nat]
      /\ packet_buffer \in [Slots -> Packet \cup {NoPacket}]
      /\ \A h \in HeaderKinds : codec_headers[h] \subseteq 0 .. frame_index
  BY DEF AddPacket, Inv, StreamInv, StreamType, HeadersSaved
<1>1. \A h \in HeaderKinds :
        codec_headers'[h] = IF h = k THEN codec_headers[h] \cup {index}
                            ELSE codec_headers[h]
  BY <1>0 DEF AddPacket, IsCodecHeader
<1>2. \A h \in HeaderKinds : codec_headers'[h] # {} => h \in has'
  BY <1>1 DEF AddPacket, IsCodecHeader, DecodeInv, HeadersKnown
<1>3. ASSUME NEW h \in HeaderKinds, NEW s \in Slots,
             packet_buffer'[s].index \in codec_headers'[h]
      PROVE  packet_buffer'[s].kind = h
  <2>1. CASE s = index % BufferSize
    <3>1. packet_buffer'[s].index = index /\ packet_buffer'[s].kind = k
      BY <1>0, <2>1 DEF AddPacket, Slot
    <3>2. index \notin codec_headers[h]
      BY <1>0
    <3> QED
      BY <1>1, <1>3, <3>1, <3>2
  <2>2. CASE s # index % BufferSize
    <3>1. packet_buffer'[s] = packet_buffer[s]
      BY <1>0, <2>2 DEF AddPacket, Slot
    <3>2. packet_buffer[s].index # index
      <4>1. CASE packet_buffer[s] = NoPacket
        BY <1>0, <4>1 DEF NoPacket, None
      <4>2. CASE packet_buffer[s] # NoPacket
        <5>1. packet_buffer[s].index <= frame_index /\ packet_buffer[s].index \in Nat
          BY <1>0, <4>2 DEF Inv, StreamInv, RingRange, Packet
        <5> QED
          BY <1>0, <5>1
      <4> QED
        BY <4>1, <4>2
    <3>3. packet_buffer[s].index \in codec_headers[h]
      BY <1>1, <1>3, <3>1, <3>2
    <3> QED
      BY <3>1, <3>3 DEF DecodeInv, HeadersKnown
  <2> QED
    BY <2>1, <2>2
<1>4. ASSUME NEW u \in Players PROVE FirstRun(user[u], wire[u])'
  <2>1. FirstRun(user[u], wire[u]) /\ UserSafe(user[u]) /\ StreamInv
    BY DEF DecodeInv, Inv, PlayersInv, PlayerSafe
  <2>2. CASE user[u].out_frames = << >>
    BY <1>0, <2>1, <2>2 DEF FirstRun, HeldHeaders
  <2>3. CASE user[u].out_frames # << >>
    <3> DEFINE p == user[u].out_frames[1].index
    <3>1. p \in Nat /\ p <= frame_index
      BY <2>1, <2>3, FirstHeld
    <3> HIDE DEF p
    <3>2. \A h \in HeaderKinds :
            {i \in codec_headers'[h] : i <= p} = {i \in codec_headers[h] : i <= p}
      <4>1. ~(index <= p)
        BY <1>0, <3>1
      <4> HIDE DEF index
      <4>2. ASSUME NEW h \in HeaderKinds
            PROVE  \A i : i \in codec_headers'[h] /\ i <= p
                            <=> i \in codec_headers[h] /\ i <= p
        BY <1>1, <4>1, Zenon
      <4> QED
        BY <4>2, Zenon
    <3>3. \A h \in HeaderKinds : Upto(h, p)' = Upto(h, p)
      BY <1>0, <3>2 DEF Upto, p
    <3> QED
      BY <1>0, <2>1, <2>3, <3>3 DEF FirstRun, WillHave, p
  <2> QED
    BY <2>2, <2>3
<1> QED
  BY <1>2, <1>3, <1>4 DEF DecodeInv, HeadersKnown

(* PostFrames: the headers go out before the frames that need them. *)
LEMMA PostDecode ==
  ASSUME Inv, DecodeInv, NEW u \in Players, NEW busy, Post(u, busy),
         UNCHANGED streamVars
  PROVE  DecodeInv'
<1> DEFINE us == GetFrames(user[u])
<1>1. /\ StreamInv /\ HeadersKnown /\ UserSafe(user[u]) /\ FirstRun(user[u], wire[u])
      /\ user \in [Players -> UserType] /\ wire \in [Players -> WireType]
      /\ packet_buffer' = packet_buffer /\ codec_headers' = codec_headers /\ has' = has
  BY DEF Inv, PlayersInv, PlayerSafe, DecodeInv, streamVars
<1>2. UserSafe(us) /\ us \in UserType
  BY <1>1, GetFramesSafe DEF UserSafe
<1>3. FirstRun(us, wire[u])
  BY <1>1, GetFramesFirst
<1> HIDE DEF us
<1>4. HeadersKnown'
  BY <1>1 DEF HeadersKnown
<1>5. \A v \in Players : v # u => user'[v] = user[v] /\ wire'[v] = wire[v]
  BY <1>1 DEF Post, Keep, SendHeader, SendFrames
<1>6. ASSUME NEW x, NEW w, FirstRun(x, w), user'[u] = x, wire'[u] = w
      PROVE  DecodeInv'
  <2>1. ASSUME NEW v \in Players PROVE FirstRun(user[v], wire[v])'
    <3>1. FirstRun(user'[v], wire'[v])
      BY <1>5, <1>6 DEF DecodeInv
    <3> QED
      BY <1>1, <3>1 DEF FirstRun, HeldHeaders, WillHave, Upto
  <2> QED
    BY <1>4, <2>1 DEF DecodeInv
<1>7. ASSUME NEW x, NEW b, FirstRun(x, wire[u]), Keep(u, x, b) PROVE DecodeInv'
  <2>1. user'[u] = x /\ wire'[u] = wire[u]
    BY <1>1, <1>7 DEF Keep
  <2> QED
    BY <1>6, <1>7, <2>1
<1>8. ASSUME HeldHeaders(us) # {}, SendHeader(u, us, NextHeader(us)) PROVE DecodeInv'
  <2>1. PICK h \in HeaderKinds : h = NextHeader(us)
    BY DEF NextHeader, HeaderKinds
  <2>2. us.headers[h] # None
    BY <1>8, <2>1 DEF NextHeader, HeldHeaders, HeaderKinds
  <2> DEFINE x == [us EXCEPT !.headers[h] = None]
             w == [wire[u] EXCEPT !.headers[h] = us.headers[h]]
  <2>3. user'[u] = x /\ wire'[u] = w
    BY <1>1, <1>8, <2>1 DEF SendHeader
  <2>4. /\ x.out_frames = us.out_frames /\ w.last = wire[u].last
        /\ \A i \in HeaderKinds :
             x.headers[i] = IF i = h THEN None ELSE us.headers[i]
        /\ \A i \in HeaderKinds :
             w.headers[i] = IF i = h THEN us.headers[h] ELSE wire[u].headers[i]
    BY <1>1, <1>2 DEF UserType, WireType
  <2> HIDE DEF x, w
  <2>5. \A i \in HeaderKinds : WillHave(x, w, i) = WillHave(us, wire[u], i)
    BY <2>2, <2>4 DEF WillHave
  <2>6. FirstRun(x, w)
    BY <1>3, <1>8, <2>4, <2>5 DEF FirstRun
  <2> QED
    BY <1>6, <2>3, <2>6
<1>9. ASSUME us.out_frames # << >>, SendFrames(u, us) PROVE DecodeInv'
  <2>1. wire'[u].last = us.out_index
    BY <1>1, <1>9 DEF SendFrames
  <2>2. us.out_index # None
    BY <1>1, <1>2, <1>9, FirstHeld
  <2>3. FirstRun(user'[u], wire'[u])
    BY <2>1, <2>2 DEF FirstRun
  <2> QED
    BY <1>6, <2>3
<1> QED
  BY <1>1, <1>3, <1>7, <1>8, <1>9 DEF Post, us

(***************************************************************************)
(* The first frames a player gets come after the newest header of every    *)
(* kind that is not after them, whatever the publisher saves and           *)
(* overwrites while the headers are sent one at a time.                    *)
(***************************************************************************)
THEOREM FirstFramesDecode == Spec => []FirstFramesDecodable
<1>1. Init => DecodeInv
  <2> SUFFICES ASSUME Init PROVE DecodeInv
    OBVIOUS
  <2>1. HeadersKnown
    BY DEF Init, HeadersKnown
  <2>2. FirstRun(NewUser, [headers |-> [h \in HeaderKinds |-> None], last |-> None])
    BY DEF FirstRun, NewUser, HeldHeaders, None
  <2> QED
    BY <2>1, <2>2 DEF DecodeInv, Init
<1>2. Inv /\ DecodeInv /\ [Next]_vars => DecodeInv'
  <2> SUFFICES ASSUME Inv, DecodeInv, [Next]_vars PROVE DecodeInv'
    OBVIOUS
  <2>1. ASSUME NEW k \in Kinds, NEW d \in Deltas, AddPacket(k, d) PROVE DecodeInv'
    BY <2>1, AddPacketDecode
  <2>2. ASSUME NEW u \in Players, PostFrames(u) PROVE DecodeInv'
    BY <2>2, PostDecode DEF PostFrames
  <2>3. ASSUME NEW u \in Players, OnWriteComplete(u) PROVE DecodeInv'
    BY <2>3, PostDecode DEF OnWriteComplete
  <2>4. CASE UNCHANGED vars
    BY <2>4 DEF vars, streamVars, DecodeInv, HeadersKnown, FirstRun, HeldHeaders,
                WillHave, Upto
  <2> QED
    BY <2>1, <2>2, <2>3, <2>4 DEF Next
<1>3. Inv /\ DecodeInv => FirstFramesDecodable
  <2> SUFFICES ASSUME DecodeInv, NEW u \in Players, AboutToSend(u), wire[u].last = None
               PROVE  CanDecode(wire[u], user[u].out_frames[1])
    BY DEF FirstFramesDecodable
  <2>1. FirstRun(user[u], wire[u]) /\ \A h \in HeaderKinds : user[u].headers[h] = None
    BY DEF DecodeInv, AboutToSend, HeldHeaders
  <2> QED
    BY <2>1 DEF FirstRun, WillHave, CanDecode, AboutToSend
<1> QED
  BY <1>1, <1>2, <1>3, StreamInvariant, PTL DEF Spec
=============================================================================
