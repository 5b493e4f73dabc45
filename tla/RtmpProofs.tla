----------------------------- MODULE RtmpProofs -----------------------------
(***************************************************************************)
(* For all messages, chunk streams and chunk sizes: ParseMessage stays in  *)
(* step with any writer that follows the format, and BuildChunk is such a  *)
(* writer.                                                                 *)
(*                                                                         *)
(* While a chunk is on the wire the reader's state of that chunk stream is *)
(* anywhere between two chunks.  The invariant speaks of what the reader   *)
(* will have once the chunk is parsed, which parsing a part of it does not *)
(* change.                                                                 *)
(*                                                                         *)
(* The last part is about the connection those messages travel on, from    *)
(* the handshake on: what is between two ends is always the blocks that    *)
(* one has sent and the other not yet taken, and then commands.            *)
(***************************************************************************)
EXTENDS RtmpWriter, RtmpConnect, SequenceTheorems, TLAPS

On(c) == wire # None /\ wire.csid = c

(* The reader's state of c after the chunk on the wire, if it is on c. *)
HeaderOn(c) == IF On(c) THEN ExtHeader(wire) ELSE inHeaders[c]
DeltaOn(c)  == IF On(c) THEN ExtDelta(wire) ELSE inDeltas[c]
ExtOn(c)    == IF On(c) THEN Ext(wire) ELSE inExt[c]
CapOn(c)    == IF On(c) THEN PacketOf(wire).cap ELSE inPackets[c].cap
BodyOn(c)   == IF On(c) THEN PacketOf(wire).body \o wire.body ELSE inPackets[c].body

Filled(m, n) == [i \in 1 .. n |-> m.val]

(* m is the message that the writer has last begun on its chunk stream. *)
Begun(m) ==
  /\ last[m.csid] # None
  /\ last[m.csid].ts = m.ts /\ last[m.csid].len = m.len
  /\ last[m.csid].type = m.type /\ last[m.csid].sid = m.sid

(* The header that the next chunk is compressed against. *)
HeaderInStep(c) ==
  last[c] # None =>
    /\ HeaderOn(c) \in Headers /\ DeltaOn(c) \in Times
    /\ HeaderOn(c).len = last[c].len /\ HeaderOn(c).type = last[c].type
    /\ HeaderOn(c).sid = last[c].sid
    /\ ExtOn(c) <=> last[c].ext
    /\ last[c].delta <= last[c].ts
    /\ last[c].near => /\ ~last[c].ext
                       /\ HeaderOn(c).ts = last[c].ts /\ DeltaOn(c) = last[c].delta

(* The message under way. *)
PacketInStep(c) ==
  /\ rest[c] # None =>
       /\ rest[c].m.csid = c /\ Begun(rest[c].m)
       /\ rest[c].left > 0 /\ rest[c].left < rest[c].m.len
       /\ rest[c].stamp >= ExtMark <=> last[c].ext
       /\ CapOn(c) = rest[c].m.len
       /\ BodyOn(c) = Filled(rest[c].m, rest[c].m.len - rest[c].left)
       /\ ~On(c) => inPackets[c] # None /\ inPackets[c].header = inHeaders[c]
  /\ rest[c] = None /\ ~On(c) => inPackets[c] = None
  /\ rest[c] = None /\ On(c) =>
       /\ sent # None /\ sent.csid = c /\ Begun(sent)
       /\ CapOn(c) = sent.len /\ BodyOn(c) = Filled(sent, sent.len)

(* The chunk on the wire is as long as the reader takes it for, and the    *)
(* chunk sizes differ at most while a new one is on its way.               *)
WireInStep ==
  /\ wire = None => inSize = outSize
  /\ wire # None =>
       /\ last[wire.csid] # None
       /\ Understood(wire)
       /\ Len(PacketOf(wire).body) < PacketOf(wire).cap
       /\ PacketOf(wire) \in InPackets
       /\ outSize = IF rest[wire.csid] = None /\ sent.type = ChunkSizeType
                    THEN sent.val ELSE inSize

(* The last message is handed over unless the wire holds its last chunk. *)
Arriving == wire # None /\ rest[wire.csid] = None

SentInStep ==
  sent # None =>
    /\ rest[sent.csid] = None => Begun(sent)
    /\ ~Arriving =>
         /\ got # None /\ got.csid = sent.csid
         /\ got.header.type = sent.type /\ got.header.sid = sent.sid
         /\ got.header.len = sent.len
         /\ got.body = Filled(sent, sent.len)
         /\ rest[sent.csid] = None /\ last[sent.csid].near => got.header.ts = sent.ts

IInv ==
  /\ TypeOK /\ framed
  /\ \A c \in CSIDs : HeaderInStep(c) /\ PacketInStep(c)
  /\ WireInStep /\ SentInStep

-----------------------------------------------------------------------------
(* What a message is made of. *)
LEMMA MessageFacts ==
  ASSUME NEW m \in Messages
  PROVE  /\ m.csid \in CSIDs /\ m.ts \in Times /\ m.len \in Lens \cup {1}
         /\ m.type \in Types \cup {ChunkSizeType} /\ m.sid \in Sids /\ m.val \in Nat
         /\ m.len \in Nat \ {0}
         /\ m.type = ChunkSizeType => m.len = 1 /\ m.val \in Sizes
<1>1. CASE m \in [csid : CSIDs, ts : Times, len : Lens, type : Types, sid : Sids, val : Payloads]
  BY <1>1, ChunkAssumption DEF ChunkSizeType
<1>2. CASE m \in [csid : CSIDs, ts : Times, len : {1}, type : {ChunkSizeType}, sid : Sids, val : Sizes]
  <2>1. /\ m.csid \in CSIDs /\ m.ts \in Times /\ m.len = 1 /\ m.type = ChunkSizeType
        /\ m.sid \in Sids /\ m.val \in Sizes
    BY <1>2
  <2>2. m.len \in Nat \ {0} /\ m.len \in Lens \cup {1}
    BY <2>1
  <2>3. m.val \in Nat
    BY <2>1, ChunkAssumption
  <2> QED
    BY <2>1, <2>2, <2>3, Zenon
<1> QED
  BY <1>1, <1>2 DEF Messages

(* The constants as the arithmetic needs them. *)
LEMMA Constants ==
  /\ Times \subseteq Nat /\ 0 \in Times /\ ExtMark \in Nat \ {0} /\ Lens \cup {1} \subseteq Nat \ {0}
  /\ Sizes \cup {FirstSize} \subseteq Nat \ {0}
BY ChunkAssumption DEF Times

(* Times are closed under differences and under the cut at ExtMark. *)
LEMMA TimesAre ==
  /\ \A x \in Times, y \in Times : x >= y => x - y \in Times
  /\ \A x \in Times : Smaller(x, ExtMark) \in Times
BY ChunkAssumption DEF Times, Smaller

(* Nothing that either side keeps is None. *)
LEMMA Something ==
  \A x \in WrittenHeaders \cup Remainders \cup WireChunks \cup InPackets \cup Handed \cup Messages :
    x # None
BY NoneAssumption

(* The initial states satisfy the inductive invariant. *)
LEMMA InitIInv == Init => IInv
<1> SUFFICES ASSUME Init PROVE IInv
  OBVIOUS
<1>1. NewHeader \in Headers
  BY DEF NewHeader, Headers
<1>2. TypeOK
  BY <1>1, Constants DEF Init, TypeOK
<1>3. framed /\ WireInStep /\ SentInStep
  BY DEF Init, WireInStep, SentInStep
<1>4. ASSUME NEW c \in CSIDs PROVE HeaderInStep(c) /\ PacketInStep(c)
  BY DEF Init, HeaderInStep, PacketInStep, On
<1> QED
  BY <1>2, <1>3, <1>4 DEF IInv

-----------------------------------------------------------------------------
(***************************************************************************)
(* The reader, as it stands, takes ch for the next chunk of m, of which    *)
(* left is still to come and of which the writer keeps p.                  *)
(***************************************************************************)
Parses(ch, m, left, p) ==
  /\ ch \in WireChunks /\ ch.csid = m.csid /\ (ch.hasExt <=> p.ext)
  /\ ch.body = Filled(m, Smaller(left, outSize))
  /\ Ext(ch) <=> p.ext
  /\ ExtHeader(ch) \in Headers /\ ExtDelta(ch) \in Times
  /\ ExtHeader(ch).len = m.len /\ ExtHeader(ch).type = m.type /\ ExtHeader(ch).sid = m.sid
  /\ p.near => ~p.ext /\ ExtHeader(ch).ts = m.ts /\ ExtDelta(ch) = p.delta
  /\ PacketOf(ch) \in InPackets
  /\ PacketOf(ch).cap = m.len /\ PacketOf(ch).body = Filled(m, m.len - left)

(* p describes m, whose first chunk has the number stamp for a timestamp. *)
Describes(p, m, stamp) ==
  /\ p \in WrittenHeaders
  /\ p.ts = m.ts /\ p.len = m.len /\ p.type = m.type /\ p.sid = m.sid
  /\ p.ext <=> stamp >= ExtMark
  /\ p.delta <= p.ts

(* What the writer puts on the wire. *)
LEMMA ChunkIs ==
  ASSUME NEW m \in Messages, NEW fmt \in Fmts, NEW stamp \in Times, NEW left \in Nat,
         outSize \in Nat
  PROVE  LET ch == Chunk(m, fmt, stamp, left)
         IN  /\ ch \in WireChunks
             /\ ch.csid = m.csid /\ ch.fmt = fmt /\ (ch.hasExt <=> stamp >= ExtMark)
             /\ ch.ts = Smaller(stamp, ExtMark) /\ ch.ext = IF stamp >= ExtMark THEN stamp ELSE 0
             /\ ch.len = m.len /\ ch.type = m.type /\ ch.sid = m.sid
             /\ ch.body = Filled(m, Smaller(left, outSize))
<1>1. m.csid \in CSIDs /\ m.len \in Lens \cup {1} /\ m.type \in Types \cup {ChunkSizeType}
      /\ m.sid \in Sids /\ m.val \in Nat
  BY MessageFacts
<1>2. Smaller(left, outSize) \in Nat
  BY DEF Smaller
<1>3. Filled(m, Smaller(left, outSize)) \in Seq(Nat)
  BY <1>1, <1>2 DEF Filled
<1>4. Smaller(stamp, ExtMark) \in Times /\ (IF stamp >= ExtMark THEN stamp ELSE 0) \in Times
      /\ (stamp >= ExtMark) \in BOOLEAN
  BY Constants, TimesAre
<1> QED
  BY <1>1, <1>3, <1>4 DEF Chunk, WireChunks, Filled

(* The first chunk of a message. *)
LEMMA ParsesFirst ==
  ASSUME IInv, wire = None, NEW m \in Messages, NEW fmt \in Fmts, rest[m.csid] = None,
         Legal(m, fmt), NEW p,
         p = [ts |-> m.ts, len |-> m.len, type |-> m.type, sid |-> m.sid,
              delta |-> IF fmt = 0 THEN 0 ELSE Stamp(m, fmt),
              ext |-> Stamp(m, fmt) >= ExtMark, near |-> Near(m, fmt)]
  PROVE  /\ Stamp(m, fmt) \in Times /\ Describes(p, m, Stamp(m, fmt))
         /\ Parses(Chunk(m, fmt, Stamp(m, fmt), m.len), m, m.len, p)
<1> DEFINE c == m.csid
           prev == inHeaders[c]
           stamp == Stamp(m, fmt)
           ch == Chunk(m, fmt, stamp, m.len)
<1>1. TypeOK
  BY DEF IInv
<1>2. /\ c \in CSIDs /\ m.ts \in Times /\ m.len \in Lens \cup {1} /\ m.len \in Nat \ {0}
      /\ m.type \in Types \cup {ChunkSizeType} /\ m.sid \in Sids /\ m.val \in Nat
  BY MessageFacts
<1>3. /\ prev \in Headers /\ inDeltas[c] \in Times /\ inExt[c] \in BOOLEAN /\ inPackets[c] = None
      /\ outSize \in Nat
  <2>1. inPackets[c] = None
    BY <1>2 DEF IInv, PacketInStep, On
  <2> QED
    BY <1>1, <1>2, <2>1, Constants DEF TypeOK
<1>4. fmt # 0 =>
        /\ last[c] # None /\ last[c] \in WrittenHeaders /\ last[c].ts \in Times
        /\ last[c].delta \in Times /\ last[c].ext \in BOOLEAN /\ last[c].near \in BOOLEAN
        /\ prev.len = last[c].len /\ prev.type = last[c].type /\ prev.sid = last[c].sid
        /\ inExt[c] <=> last[c].ext
        /\ last[c].near => ~last[c].ext /\ prev.ts = last[c].ts /\ inDeltas[c] = last[c].delta
  <2>1. HeaderOn(c) = prev /\ DeltaOn(c) = inDeltas[c] /\ ExtOn(c) = inExt[c]
    BY DEF HeaderOn, DeltaOn, ExtOn, On
  <2>2. fmt # 0 => last[c] # None
    BY DEF Legal
  <2>3. last[c] \in WrittenHeaders \cup {None}
    BY <1>1, <1>2 DEF TypeOK
  <2> HIDE DEF c, prev
  <2> QED
    BY <1>2, <2>1, <2>2, <2>3 DEF IInv, HeaderInStep, WrittenHeaders
<1>5. fmt # 0 => /\ m.ts >= last[c].ts /\ m.sid = last[c].sid
                 /\ fmt >= 2 => m.len = last[c].len /\ m.type = last[c].type
                 /\ fmt = 3 => /\ m.ts - last[c].ts = last[c].delta
                               /\ last[c].ext = (last[c].delta >= ExtMark)
  BY DEF Legal
<1>6. /\ stamp = IF fmt = 0 THEN m.ts ELSE m.ts - last[c].ts
      /\ stamp \in Times /\ stamp \in Nat /\ stamp <= m.ts
      /\ Near(m, fmt) <=> stamp < ExtMark /\ (fmt = 0 \/ last[c].near)
  <2>1. stamp = IF fmt = 0 THEN m.ts ELSE m.ts - last[c].ts
    BY DEF Stamp
  <2>2. Near(m, fmt) <=> stamp < ExtMark /\ (fmt = 0 \/ last[c].near)
    BY DEF Near
  <2> HIDE DEF c, stamp
  <2>3. stamp \in Times
    BY <1>2, <1>4, <1>5, <2>1, TimesAre
  <2>4. m.ts \in Nat /\ (fmt # 0 => last[c].ts \in Nat)
    BY <1>2, <1>4, Constants
  <2> QED
    BY <1>5, <2>1, <2>2, <2>3, <2>4, Constants
<1>7. /\ ch \in WireChunks
      /\ ch.csid = c /\ ch.fmt = fmt /\ (ch.hasExt <=> stamp >= ExtMark)
      /\ ch.ts = Smaller(stamp, ExtMark) /\ ch.ext = IF stamp >= ExtMark THEN stamp ELSE 0
      /\ ch.len = m.len /\ ch.type = m.type /\ ch.sid = m.sid
      /\ ch.body = Filled(m, Smaller(m.len, outSize))
  BY <1>2, <1>3, <1>6, ChunkIs
<1>8. Describes(p, m, stamp) /\ (p.near <=> Near(m, fmt)) /\ p.delta = IF fmt = 0 THEN 0 ELSE stamp
  <2>1. Near(m, fmt) \in BOOLEAN /\ (stamp >= ExtMark) \in BOOLEAN
    BY <1>6 DEF Near
  <2>2. (IF fmt = 0 THEN 0 ELSE stamp) \in Times /\ (IF fmt = 0 THEN 0 ELSE stamp) <= m.ts
    BY <1>2, <1>6, Constants DEF Times
  <2> QED
    BY <1>2, <2>1, <2>2 DEF Describes, WrittenHeaders
<1> HIDE DEF c, prev, stamp, ch
<1>9. /\ fmt \in {0, 1, 2, 3}
      /\ ch.ts \in Nat /\ ch.ext \in Times /\ ch.ext \in Nat /\ (ch.ts = ExtMark <=> stamp >= ExtMark)
      /\ stamp < ExtMark => ch.ts = stamp
      /\ ch.ts \in Times
      /\ prev.ts \in Nat /\ inDeltas[c] \in Nat
  <2>1. fmt \in {0, 1, 2, 3} /\ prev.ts \in Nat /\ inDeltas[c] \in Nat
    <3>1. fmt \in {0, 1, 2, 3}
      BY DEF Fmts
    <3>2. prev.ts \in Nat
      BY <1>3 DEF Headers
    <3>3. inDeltas[c] \in Nat
      BY <1>3, Constants
    <3> QED
      BY <3>1, <3>2, <3>3
  <2>2. ch.ts \in Times /\ ch.ts \in Nat
    BY <1>6, <1>7, Constants, TimesAre
  <2>3. ch.ext \in Times /\ ch.ext \in Nat
    BY <1>6, <1>7, Constants
  <2>4. stamp \in Nat /\ ExtMark \in Nat /\ ch.ts = IF stamp < ExtMark THEN stamp ELSE ExtMark
    BY <1>6, <1>7, Constants DEF Smaller
  <2> QED
    BY <2>1, <2>2, <2>3, <2>4
<1>10. Ext(ch) <=> stamp >= ExtMark
  BY <1>4, <1>5, <1>6, <1>7, <1>9 DEF Ext, c
<1>11. PacketOf(ch) = [cap |-> m.len, body |-> << >>, header |-> NewHeader]
  <2>1. fmt > 1 => prev.len = m.len
    BY <1>4, <1>5, <1>9
  <2>2. (IF ch.fmt <= 1 THEN ch.len ELSE IF prev.len = 0 THEN inSize ELSE prev.len) = m.len
    BY <1>2, <1>7, <1>9, <2>1
  <2> QED
    BY <1>3, <1>7, <2>2 DEF PacketOf, prev
<1>12. /\ PacketOf(ch) \in InPackets /\ PacketOf(ch).cap = m.len
       /\ PacketOf(ch).body = Filled(m, m.len - m.len)
  <2>1. << >> \in Seq(Nat) /\ NewHeader \in Headers
    BY DEF NewHeader, Headers
  <2>2. Filled(m, m.len - m.len) = << >>
    BY <1>2 DEF Filled
  <2> QED
    BY <1>2, <1>11, <2>1, <2>2 DEF InPackets
<1>13. ExtDelta(ch) = IF stamp >= ExtMark /\ fmt # 0 THEN ch.ext
                      ELSE IF fmt = 0 THEN 0 ELSE IF fmt = 3 THEN inDeltas[c] ELSE ch.ts
  <2>1. ch.csid = c /\ ch.fmt = fmt
    BY <1>7
  <2>2. Delta(ch) = IF fmt = 0 THEN 0 ELSE IF fmt = 3 THEN inDeltas[c] ELSE ch.ts
    <3>1. CASE fmt = 0
      BY <2>1, <3>1 DEF Delta
    <3>2. CASE fmt \in {1, 2}
      BY <2>1, <3>2 DEF Delta
    <3>3. CASE fmt = 3
      BY <2>1, <3>3 DEF Delta
    <3> QED
      BY <1>9, <3>1, <3>2, <3>3
  <2> QED
    BY <1>10, <2>1, <2>2 DEF ExtDelta
<1>14. ExtHeader(ch) =
         [ts |-> IF stamp >= ExtMark /\ fmt # 0 THEN ch.ext + prev.ts
                 ELSE IF fmt = 0 THEN ch.ts
                 ELSE IF fmt = 3 THEN inDeltas[c] + prev.ts ELSE ch.ts + prev.ts,
          len |-> m.len, type |-> m.type, sid |-> m.sid]
  <2>1. PacketOf(ch).header.ts = 0
    BY <1>11 DEF NewHeader
  <2>2. Header(ch) =
         [ts |-> IF fmt = 0 THEN ch.ts
                 ELSE IF fmt = 3 THEN inDeltas[c] + prev.ts ELSE ch.ts + prev.ts,
          len |-> m.len, type |-> m.type, sid |-> m.sid]
    <3>1. CASE fmt = 0
      BY <1>7, <3>1 DEF Header
    <3>2. CASE fmt = 1
      BY <1>4, <1>5, <1>7, <3>2 DEF Header, prev
    <3>3. CASE fmt = 2
      BY <1>3, <1>4, <1>5, <1>7, <3>3 DEF Header, prev, Headers
    <3>4. CASE fmt = 3
      BY <1>3, <1>4, <1>5, <1>7, <2>1, <3>4 DEF Header, prev, Headers
    <3> QED
      BY <1>9, <3>1, <3>2, <3>3, <3>4
  <2>3. ch.csid = c /\ ch.fmt = fmt
    BY <1>7
  <2>4. CASE Ext(ch) /\ fmt # 0
    BY <1>10, <2>2, <2>3, <2>4 DEF ExtHeader, prev
  <2>5. CASE ~(Ext(ch) /\ fmt # 0)
    BY <1>10, <2>2, <2>3, <2>5 DEF ExtHeader
  <2> QED
    BY <2>4, <2>5
<1>15. ExtDelta(ch) \in Times /\ ExtHeader(ch) \in Headers
  <2>1. ExtDelta(ch) \in Times
    BY <1>3, <1>9, <1>13, Constants
  <2> DEFINE ts == IF stamp >= ExtMark /\ fmt # 0 THEN ch.ext + prev.ts
                   ELSE IF fmt = 0 THEN ch.ts
                   ELSE IF fmt = 3 THEN inDeltas[c] + prev.ts ELSE ch.ts + prev.ts
  <2>2. ts \in Nat
    BY <1>9
  <2>3. ExtHeader(ch) = [ts |-> ts, len |-> m.len, type |-> m.type, sid |-> m.sid]
    BY <1>14
  <2> HIDE DEF ts
  <2> QED
    BY <1>2, <2>1, <2>2, <2>3 DEF Headers
<1>16. p.near => /\ ~p.ext /\ ExtHeader(ch).ts = m.ts /\ ExtDelta(ch) = p.delta
  <2>1. p.near => stamp < ExtMark /\ (fmt = 0 \/ last[c].near)
    BY <1>6, <1>8
  <2>2. p.ext <=> stamp >= ExtMark
    BY <1>8 DEF Describes
  <2>3. ExtHeader(ch).ts = IF stamp >= ExtMark /\ fmt # 0 THEN ch.ext + prev.ts
                 ELSE IF fmt = 0 THEN ch.ts
                 ELSE IF fmt = 3 THEN inDeltas[c] + prev.ts ELSE ch.ts + prev.ts
    BY <1>14
  <2>4. CASE fmt = 0
    BY <1>2, <1>6, <1>8, <1>9, <1>13, <2>1, <2>2, <2>3, <2>4, Constants
  <2>5. CASE fmt # 0
    <3>1. SUFFICES ASSUME p.near PROVE ExtHeader(ch).ts = m.ts /\ ExtDelta(ch) = p.delta
      BY <1>6, <2>1, <2>2, Constants
    <3>2. /\ prev.ts = last[c].ts /\ inDeltas[c] = last[c].delta /\ stamp = m.ts - last[c].ts
          /\ ~(stamp >= ExtMark) /\ ch.ts = stamp /\ p.delta = stamp
          /\ last[c].ts \in Nat /\ m.ts \in Nat
      <4>1. last[c].near /\ stamp < ExtMark /\ stamp \in Nat /\ ExtMark \in Nat
        BY <1>6, <2>1, <2>5, <3>1, Constants
      <4>2. prev.ts = last[c].ts /\ inDeltas[c] = last[c].delta
        BY <1>4, <2>5, <4>1
      <4>3. stamp = m.ts - last[c].ts /\ p.delta = stamp /\ ch.ts = stamp
        BY <1>6, <1>8, <1>9, <2>5, <4>1
      <4>4. last[c].ts \in Nat /\ m.ts \in Nat
        BY <1>2, <1>4, <2>5, Constants
      <4> QED
        BY <4>1, <4>2, <4>3, <4>4
    <3>3. fmt = 3 => last[c].delta = stamp
      BY <1>5, <3>2
    <3> QED
      BY <1>13, <2>3, <2>5, <3>2, <3>3
  <2> QED
    BY <2>4, <2>5
<1>17. Parses(ch, m, m.len, p)
  BY <1>7, <1>8, <1>10, <1>12, <1>14, <1>15, <1>16 DEF Parses, Describes, c
<1> QED
  BY <1>6, <1>8, <1>17 DEF ch, stamp

(* A chunk with more of a message. *)
LEMMA ParsesRest ==
  ASSUME IInv, wire = None, NEW c \in CSIDs, rest[c] # None
  PROVE  LET m == rest[c].m IN
         /\ m \in Messages /\ m.csid = c /\ rest[c].stamp \in Times /\ rest[c].left \in 1 .. m.len
         /\ Describes(last[c], m, rest[c].stamp)
         /\ Parses(Chunk(m, 3, rest[c].stamp, rest[c].left), m, rest[c].left, last[c])
<1> DEFINE m == rest[c].m
           left == rest[c].left
           stamp == rest[c].stamp
           prev == inHeaders[c]
           ch == Chunk(m, 3, stamp, left)
<1>1. TypeOK
  BY DEF IInv
<1>2. rest[c] \in Remainders
  BY <1>1 DEF TypeOK
<1>3. m \in Messages /\ left \in Nat /\ stamp \in Times
  BY <1>2 DEF Remainders
<1>4. m.csid \in CSIDs /\ m.ts \in Times /\ m.len \in Nat \ {0} /\ m.len \in Lens \cup {1}
  BY <1>3, MessageFacts
<1>5. /\ m.csid = c /\ Begun(m) /\ left > 0 /\ left < m.len
      /\ stamp >= ExtMark <=> last[c].ext
      /\ inPackets[c] # None /\ inPackets[c].header = prev
      /\ inPackets[c].cap = m.len /\ inPackets[c].body = Filled(m, m.len - left)
  <2>1. PacketInStep(c) /\ ~On(c)
    BY DEF IInv, On
  <2> QED
    BY <2>1 DEF PacketInStep, CapOn, BodyOn
<1>6. last[c] # None /\ last[c].ts = m.ts /\ last[c].len = m.len
      /\ last[c].type = m.type /\ last[c].sid = m.sid
  BY <1>5 DEF Begun
<1>7. last[c] \in WrittenHeaders
  BY <1>1, <1>6 DEF TypeOK
<1>8. /\ prev \in Headers /\ inDeltas[c] \in Times
      /\ prev.len = m.len /\ prev.type = m.type /\ prev.sid = m.sid
      /\ inExt[c] <=> last[c].ext
      /\ last[c].delta <= last[c].ts
      /\ last[c].near => ~last[c].ext /\ prev.ts = m.ts /\ inDeltas[c] = last[c].delta
  <2>1. HeaderInStep(c) /\ ~On(c)
    BY DEF IInv, On
  <2> QED
    BY <1>6, <2>1 DEF HeaderInStep, HeaderOn, DeltaOn, ExtOn
<1>9. outSize \in Nat
  BY <1>1, Constants DEF TypeOK
<1>10. /\ ch \in WireChunks
       /\ ch.csid = c /\ ch.fmt = 3 /\ (ch.hasExt <=> stamp >= ExtMark)
       /\ ch.ext = IF stamp >= ExtMark THEN stamp ELSE 0
       /\ ch.body = Filled(m, Smaller(left, outSize))
  <2>1. 3 \in Fmts
    BY DEF Fmts
  <2> QED
    BY <1>3, <1>5, <1>9, <2>1, ChunkIs
<1>11. Describes(last[c], m, stamp)
  BY <1>5, <1>6, <1>7, <1>8 DEF Describes
<1> HIDE DEF m, left, stamp, prev, ch
<1>12. Ext(ch) <=> last[c].ext
  BY <1>8, <1>10 DEF Ext
<1>13. /\ PacketOf(ch) = inPackets[c] /\ PacketOf(ch) \in InPackets
  <2>1. PacketOf(ch) = inPackets[c]
    BY <1>5, <1>10 DEF PacketOf
  <2> QED
    BY <1>1, <1>5, <2>1 DEF TypeOK
<1>14. ExtDelta(ch) = IF last[c].ext THEN ch.ext ELSE inDeltas[c]
  <2>1. Delta(ch) = inDeltas[c]
    BY <1>10 DEF Delta
  <2> QED
    BY <1>10, <1>12, <2>1 DEF ExtDelta
<1> DEFINE ts == IF last[c].ext THEN ch.ext + prev.ts
                 ELSE IF prev.ts = 0 THEN inDeltas[c] + prev.ts ELSE prev.ts
<1>15. ExtHeader(ch) = [prev EXCEPT !.ts = ts]
  <2>1. PacketOf(ch).header.ts = prev.ts
    BY <1>5, <1>13
  <2>2. Header(ch) = [prev EXCEPT !.ts = IF prev.ts = 0 THEN inDeltas[c] + prev.ts ELSE prev.ts]
    BY <1>10, <2>1 DEF Header, prev
  <2>3. CASE last[c].ext
    <3>1. ExtHeader(ch) = [Header(ch) EXCEPT !.ts = ch.ext + prev.ts]
      BY <1>10, <1>12, <2>3 DEF ExtHeader, prev
    <3> QED
      BY <1>8, <2>2, <2>3, <3>1 DEF Headers
  <2>4. CASE ~last[c].ext
    BY <1>12, <2>2, <2>4 DEF ExtHeader
  <2> QED
    BY <2>3, <2>4
<1>16. ch.ext \in Times /\ ch.ext \in Nat /\ prev.ts \in Nat /\ inDeltas[c] \in Nat
       /\ m.ts \in Nat /\ last[c].delta \in Nat
  <2>1. ch.ext \in Times
    BY <1>3, <1>10, Constants
  <2>2. prev.ts \in Nat
    BY <1>8 DEF Headers
  <2>3. last[c].delta \in Times
    BY <1>7 DEF WrittenHeaders
  <2> QED
    BY <1>4, <1>8, <2>1, <2>2, <2>3, Constants
<1>17. ts \in Nat
  BY <1>16
<1>18. last[c].near => ts = m.ts
  BY <1>6, <1>8, <1>16
<1> HIDE DEF ts
<1>19. /\ ExtHeader(ch) \in Headers /\ ExtHeader(ch).ts = ts
       /\ ExtHeader(ch).len = m.len /\ ExtHeader(ch).type = m.type /\ ExtHeader(ch).sid = m.sid
  BY <1>8, <1>15, <1>17 DEF Headers
<1>20. ExtDelta(ch) \in Times /\ (last[c].near => ExtDelta(ch) = last[c].delta)
  BY <1>8, <1>14, <1>16
<1>21. Parses(ch, m, left, last[c])
  BY <1>5, <1>8, <1>10, <1>12, <1>13, <1>18, <1>19, <1>20 DEF Parses
<1>22. left \in 1 .. m.len
  BY <1>3, <1>4, <1>5
<1> QED
  BY <1>3, <1>5, <1>11, <1>21, <1>22 DEF m, left, stamp, ch

-----------------------------------------------------------------------------
(* Filled(m, n) is n units of m, and two parts of m make a longer one. *)
LEMMA FilledIs ==
  ASSUME NEW m \in Messages, NEW a \in Nat, NEW b \in Nat
  PROVE  /\ Filled(m, a) \in Seq(Nat) /\ Len(Filled(m, a)) = a
         /\ Filled(m, a) \o Filled(m, b) = Filled(m, a + b)
<1>1. m.val \in Nat
  BY MessageFacts
<1>2. \A n \in Nat : Filled(m, n) \in Seq(Nat) /\ Len(Filled(m, n)) = n
                     /\ \A i \in 1 .. n : Filled(m, n)[i] = m.val
  BY <1>1 DEF Filled
<1> DEFINE s == Filled(m, a) \o Filled(m, b)
           t == Filled(m, a + b)
<1>3. /\ s \in Seq(Nat) /\ Len(s) = a + b
      /\ \A i \in 1 .. Len(s) : s[i] = IF i <= Len(Filled(m, a)) THEN Filled(m, a)[i]
                                    ELSE Filled(m, b)[i - Len(Filled(m, a))]
  <2>1. Filled(m, a) \in Seq(Nat) /\ Filled(m, b) \in Seq(Nat) /\ Len(Filled(m, a)) = a
        /\ Len(Filled(m, b)) = b
    BY <1>2
  <2> QED
    <3> DEFINE f == Filled(m, a)
               g == Filled(m, b)
    <3>1. /\ f \in Seq(Nat) /\ g \in Seq(Nat) /\ Len(f) = a /\ Len(g) = b
      BY <2>1
    <3> HIDE DEF f, g
    <3>2. /\ f \o g \in Seq(Nat) /\ Len(f \o g) = Len(f) + Len(g)
          /\ \A i \in 1 .. Len(f) + Len(g) :
               (f \o g)[i] = IF i <= Len(f) THEN f[i] ELSE g[i - Len(f)]
      BY <3>1, ConcatProperties, Zenon
    <3>3. Len(f \o g) = a + b
      BY <3>1, <3>2
    <3> QED
      BY <3>2, <3>3 DEF f, g
<1>4. t \in Seq(Nat) /\ Len(t) = a + b
  BY <1>2
<1>5. ASSUME NEW i \in 1 .. a + b PROVE s[i] = t[i]
  <2>1. t[i] = m.val
    BY <1>2
  <2>2. s[i] = IF i <= Len(Filled(m, a)) THEN Filled(m, a)[i] ELSE Filled(m, b)[i - Len(Filled(m, a))]
    BY <1>3
  <2>3. s[i] = m.val
    BY <1>2, <2>2
  <2> QED
    BY <2>1, <2>3
<1> HIDE DEF s, t
<1>6. s = t
  BY <1>3, <1>4, <1>5, SeqEqual
<1> QED
  BY <1>2, <1>6 DEF s, t

(***************************************************************************)
(* A chunk that the reader takes for what it is goes on the wire: nothing  *)
(* changes for the other chunk streams, and the reader will be in step.    *)
(***************************************************************************)
LEMMA WriteKeeps ==
  ASSUME IInv, wire = None, NEW m \in Messages, NEW stamp \in Times, NEW left \in 1 .. m.len,
         NEW p, NEW ch, Describes(p, m, stamp), Parses(ch, m, left, p),
         wire' = ch, last' = [last EXCEPT ![m.csid] = p], Written(m, left, stamp),
         UNCHANGED readerVars
  PROVE  IInv'
<1> DEFINE c == m.csid
<1>1. TypeOK /\ framed
  BY DEF IInv
<1>2. /\ c \in CSIDs /\ m.len \in Nat \ {0} /\ m.val \in Nat /\ left \in Nat /\ left > 0 /\ left <= m.len
      /\ m.type = ChunkSizeType => m.len = 1 /\ m.val \in Sizes
  BY MessageFacts
<1>3. inSize = outSize /\ outSize \in Nat \ {0}
  BY <1>1, Constants DEF IInv, WireInStep, TypeOK
<1>4. /\ inHeaders' = inHeaders /\ inPackets' = inPackets /\ inDeltas' = inDeltas
      /\ inExt' = inExt /\ inSize' = inSize /\ got' = got /\ framed' = framed
  BY DEF readerVars
<1>5. /\ p \in WrittenHeaders /\ p # None
      /\ p.ts = m.ts /\ p.len = m.len /\ p.type = m.type /\ p.sid = m.sid
      /\ p.ext <=> stamp >= ExtMark
      /\ p.delta <= p.ts
  BY Something DEF Describes
<1>6. /\ ch \in WireChunks /\ ch # None /\ ch.csid = c /\ (ch.hasExt <=> p.ext)
      /\ ch.body = Filled(m, Smaller(left, outSize))
      /\ Ext(ch) <=> p.ext
      /\ ExtHeader(ch) \in Headers /\ ExtDelta(ch) \in Times
      /\ ExtHeader(ch).len = m.len /\ ExtHeader(ch).type = m.type /\ ExtHeader(ch).sid = m.sid
      /\ p.near => ~p.ext /\ ExtHeader(ch).ts = m.ts /\ ExtDelta(ch) = p.delta
      /\ PacketOf(ch) \in InPackets
      /\ PacketOf(ch).cap = m.len /\ PacketOf(ch).body = Filled(m, m.len - left)
  BY Something DEF Parses
<1>7. last'[c] = p /\ \A x \in CSIDs : x # c => last'[x] = last[x]
  BY <1>1, <1>2 DEF TypeOK
<1>8. /\ left > outSize =>
           /\ rest' = [rest EXCEPT ![c] = [m |-> m, left |-> left - outSize, stamp |-> stamp]]
           /\ outSize' = outSize /\ sent' = sent
      /\ ~(left > outSize) =>
           /\ rest' = [rest EXCEPT ![c] = None] /\ sent' = m
           /\ outSize' = IF m.type = ChunkSizeType THEN m.val ELSE outSize
  BY DEF Written
<1>9. m # None
  BY Something
<1> HIDE DEF c
<1>10. LET q == [m |-> m, left |-> left - outSize, stamp |-> stamp]
       IN  left > outSize => q \in Remainders /\ q # None
  BY <1>2, <1>3, Something DEF Remainders
<1>11. /\ rest' \in [CSIDs -> Remainders \cup {None}]
       /\ \A x \in CSIDs : x # c => rest'[x] = rest[x]
       /\ left > outSize => /\ rest'[c] # None /\ rest'[c].m = m
                            /\ rest'[c].left = left - outSize /\ rest'[c].stamp = stamp
       /\ ~(left > outSize) => rest'[c] = None
  BY <1>1, <1>2, <1>8, <1>10 DEF TypeOK
<1>12. TypeOK'
  <2>1. last' \in [CSIDs -> WrittenHeaders \cup {None}]
    BY <1>1, <1>5 DEF TypeOK
  <2>2. outSize' \in Sizes \cup {FirstSize} /\ sent' \in Messages \cup {None}
    BY <1>1, <1>2, <1>8 DEF TypeOK
  <2> QED
    BY <1>1, <1>4, <1>6, <1>11, <2>1, <2>2 DEF TypeOK
<1>13. PacketOf(wire)' = PacketOf(ch)
  BY <1>4 DEF PacketOf
<1>14. Ext(wire)' = Ext(ch) /\ ExtDelta(wire)' = ExtDelta(ch)
  BY <1>4 DEF Ext, ExtDelta, Delta
<1>15. ExtHeader(wire)' = ExtHeader(ch)
  BY <1>4, <1>13, <1>14 DEF ExtHeader, Header
<1>16. On(c)' /\ \A x \in CSIDs : ~On(x) /\ (x # c => ~On(x)')
  BY <1>6 DEF On
<1>17. \A x \in CSIDs : x # c => /\ HeaderOn(x)' = HeaderOn(x) /\ DeltaOn(x)' = DeltaOn(x)
                                 /\ (ExtOn(x)' <=> ExtOn(x))
                                 /\ CapOn(x)' = CapOn(x) /\ BodyOn(x)' = BodyOn(x)
  BY <1>4, <1>16 DEF HeaderOn, DeltaOn, ExtOn, CapOn, BodyOn
<1>18. /\ HeaderOn(c)' = ExtHeader(ch) /\ DeltaOn(c)' = ExtDelta(ch) /\ (ExtOn(c)' <=> Ext(ch))
       /\ CapOn(c)' = m.len /\ BodyOn(c)' = PacketOf(ch).body \o ch.body
  BY <1>6, <1>13, <1>14, <1>15, <1>16 DEF HeaderOn, DeltaOn, ExtOn, CapOn, BodyOn
<1>19. ASSUME NEW x \in CSIDs PROVE HeaderInStep(x)'
  <2>1. CASE x = c
    BY <1>5, <1>6, <1>7, <1>18, <2>1 DEF HeaderInStep
  <2>2. CASE x # c
    <3>1. HeaderInStep(x)
      BY DEF IInv
    <3> QED
      BY <1>7, <1>17, <2>2, <3>1 DEF HeaderInStep
  <2> QED
    BY <2>1, <2>2
<1>20. LET n == Smaller(left, outSize)
       IN  /\ n \in Nat /\ m.len - left \in Nat
           /\ left > outSize => n = outSize /\ m.len - left + n = m.len - (left - outSize)
           /\ ~(left > outSize) => n = left /\ m.len - left + n = m.len
  BY <1>2, <1>3 DEF Smaller
<1>21. /\ left > outSize => BodyOn(c)' = Filled(m, m.len - (left - outSize))
       /\ ~(left > outSize) => BodyOn(c)' = Filled(m, m.len)
       /\ Len(PacketOf(ch).body) = m.len - left /\ Len(ch.body) = Smaller(left, outSize)
  <2> DEFINE a == m.len - left
             n == Smaller(left, outSize)
  <2>0. n \in Nat /\ a \in Nat
    BY <1>20
  <2>1. /\ left > outSize => a + n = m.len - (left - outSize)
        /\ ~(left > outSize) => a + n = m.len
    BY <1>20
  <2>3. ch.body = Filled(m, n) /\ PacketOf(ch).body = Filled(m, a)
    BY <1>6
  <2>4. BodyOn(c)' = PacketOf(ch).body \o ch.body
    BY <1>18
  <2> HIDE DEF a, n
  <2>2. /\ Filled(m, a) \in Seq(Nat) /\ Len(Filled(m, a)) = a /\ Len(Filled(m, n)) = n
        /\ Filled(m, a) \o Filled(m, n) = Filled(m, a + n)
    BY <2>0, FilledIs
  <2>5. BodyOn(c)' = Filled(m, a + n)
    BY <2>2, <2>3, <2>4
  <2> QED
    BY <2>1, <2>2, <2>3, <2>5 DEF a, n
<1>22. Begun(m)'
  BY <1>5, <1>7 DEF Begun, c
<1>23. ASSUME NEW x \in CSIDs PROVE PacketInStep(x)'
  <2>1. CASE x = c /\ left > outSize
    <3>1. left - outSize > 0 /\ left - outSize < m.len
      BY <1>2, <1>3, <2>1
    <3> QED
      BY <1>5, <1>7, <1>11, <1>16, <1>18, <1>21, <1>22, <2>1, <3>1 DEF PacketInStep, c
  <2>2. CASE x = c /\ ~(left > outSize)
    BY <1>8, <1>9, <1>11, <1>16, <1>18, <1>21, <1>22, <2>2 DEF PacketInStep, c
  <2>3. CASE x # c
    <3>1. PacketInStep(x) /\ rest'[x] = rest[x] /\ ~On(x) /\ ~On(x)'
      BY <1>11, <1>16, <2>3 DEF IInv
    <3>2. rest[x] # None => rest[x].m.csid = x /\ Begun(rest[x].m)' 
      BY <1>7, <2>3, <3>1 DEF PacketInStep, Begun
    <3> QED
      BY <1>4, <1>7, <1>17, <2>3, <3>1, <3>2 DEF PacketInStep
  <2> QED
    BY <2>1, <2>2, <2>3
<1>24. WireInStep'
  <2>1. Len(PacketOf(wire).body)' < PacketOf(wire).cap' /\ PacketOf(wire)' \in InPackets
    BY <1>2, <1>6, <1>13, <1>21
  <2>2. Bytes(wire)' = Len(ch.body)
    <3>1. Bytes(wire)' = Smaller(m.len - (m.len - left), inSize)
      BY <1>4, <1>6, <1>13, <1>21 DEF Bytes, Smaller
    <3>2. m.len - (m.len - left) = left
      BY <1>2
    <3> QED
      BY <1>3, <1>21, <3>1, <3>2
  <2>3. Understood(wire)'
    <3>1. ch.hasExt \in BOOLEAN
      BY <1>6 DEF WireChunks
    <3>2. Ext(ch) \in BOOLEAN
      BY <1>1, <1>2, <1>6 DEF Ext, TypeOK
    <3>3. Ext(wire)' = ch.hasExt
      BY <1>6, <1>14, <3>1, <3>2
    <3> QED
      BY <2>2, <3>3 DEF Understood
  <2>4. outSize' = IF rest'[c] = None /\ sent'.type = ChunkSizeType THEN sent'.val ELSE inSize'
    BY <1>3, <1>4, <1>8, <1>11
  <2> QED
    BY <1>5, <1>6, <1>7, <2>1, <2>3, <2>4 DEF WireInStep
<1>25. SentInStep'
  <2>1. CASE left > outSize
    <3> SUFFICES ASSUME sent # None PROVE SentInStep'
      BY <1>8, <2>1 DEF SentInStep
    <3>1. sent.csid \in CSIDs /\ sent' = sent
      BY <1>1, <1>8, <2>1, MessageFacts DEF TypeOK
    <3>2. SentInStep /\ ~Arriving
      BY DEF IInv, Arriving
    <3>3. rest'[sent.csid] = None => rest[sent.csid] = None /\ last'[sent.csid] = last[sent.csid]
      BY <1>7, <1>11, <2>1, <3>1
    <3>4. rest'[sent.csid] = None => Begun(sent)'
      BY <3>1, <3>2, <3>3 DEF SentInStep, Begun
    <3> QED
      BY <1>4, <3>1, <3>2, <3>3, <3>4 DEF SentInStep
  <2>2. CASE ~(left > outSize)
    <3>1. Arriving' /\ sent' = m
      BY <1>6, <1>8, <1>11, <2>2 DEF Arriving
    <3> QED
      BY <1>22, <3>1 DEF SentInStep, Begun
  <2> QED
    BY <2>1, <2>2
<1> QED
  BY <1>1, <1>4, <1>12, <1>19, <1>23, <1>24, <1>25 DEF IInv

-----------------------------------------------------------------------------
(* The state the reader will have after the wire's chunk has its type. *)
LEMMA HeaderTyped ==
  ASSUME TypeOK, wire # None, PacketOf(wire) \in InPackets
  PROVE  Header(wire) \in Headers /\ Delta(wire) \in Times /\ Ext(wire) \in BOOLEAN
<1>1. wire \in WireChunks
  BY DEF TypeOK
<1>2. /\ wire.csid \in CSIDs /\ wire.ts \in Times /\ wire.len \in Lens \cup {1} /\ wire.fmt \in Fmts
      /\ wire.type \in Types \cup {ChunkSizeType} /\ wire.sid \in Sids
  BY <1>1 DEF WireChunks
<1>3. /\ inHeaders[wire.csid] \in Headers /\ inDeltas[wire.csid] \in Times
      /\ inExt[wire.csid] \in BOOLEAN
  BY <1>2 DEF TypeOK
<1>4. PacketOf(wire).header.ts \in Nat
  BY DEF InPackets, Headers
<1>5. wire.ts \in Nat /\ inDeltas[wire.csid] \in Nat /\ inHeaders[wire.csid].ts \in Nat
  BY <1>2, <1>3, Constants DEF Headers
<1>6. wire.fmt \in {0, 1, 2, 3}
  BY <1>2 DEF Fmts
<1>7. Delta(wire) \in Times
  BY <1>2, <1>3, <1>6, Constants DEF Delta
<1>8. Header(wire) \in Headers
  <2>1. CASE wire.fmt = 0
    BY <1>2, <1>5, <2>1 DEF Header, Headers
  <2>2. CASE wire.fmt = 1
    <3>1. inHeaders[wire.csid].sid \in Sids \cup {0} /\ wire.ts + inHeaders[wire.csid].ts \in Nat
      BY <1>3, <1>5 DEF Headers
    <3>2. Header(wire) = [ts |-> wire.ts + inHeaders[wire.csid].ts, len |-> wire.len,
                          type |-> wire.type, sid |-> inHeaders[wire.csid].sid]
      BY <2>2 DEF Header
    <3> QED
      BY <1>2, <3>1, <3>2 DEF Headers
  <2>3. CASE wire.fmt = 2
    <3>1. Header(wire) = [inHeaders[wire.csid] EXCEPT !.ts = wire.ts + @]
      BY <2>3 DEF Header
    <3> QED
      BY <1>3, <1>5, <3>1 DEF Headers
  <2>4. CASE wire.fmt = 3
    <3> DEFINE ts == IF PacketOf(wire).header.ts = 0
                     THEN inDeltas[wire.csid] + inHeaders[wire.csid].ts
                     ELSE PacketOf(wire).header.ts
    <3>1. ts \in Nat
      BY <1>4, <1>5
    <3>2. Header(wire) = [inHeaders[wire.csid] EXCEPT !.ts = ts]
      BY <2>4 DEF Header
    <3> HIDE DEF ts
    <3> QED
      BY <1>3, <3>1, <3>2 DEF Headers
  <2> QED
    BY <1>6, <2>1, <2>2, <2>3, <2>4
<1>9. Ext(wire) \in BOOLEAN
  BY <1>3 DEF Ext
<1> QED
  BY <1>7, <1>8, <1>9

(* What a chunk of fmt 3 is parsed to. *)
LEMMA Fmt3Header ==
  ASSUME TypeOK, wire # None, wire.fmt = 3
  PROVE  /\ Ext(wire) => ExtHeader(wire) = [inHeaders[wire.csid] EXCEPT
                                              !.ts = wire.ext + inHeaders[wire.csid].ts]
         /\ ~Ext(wire) => ExtHeader(wire) = [inHeaders[wire.csid] EXCEPT
                                               !.ts = IF PacketOf(wire).header.ts = 0
                                                      THEN inDeltas[wire.csid] + inHeaders[wire.csid].ts
                                                      ELSE PacketOf(wire).header.ts]
<1> DEFINE prev == inHeaders[wire.csid]
           ts == IF PacketOf(wire).header.ts = 0 THEN inDeltas[wire.csid] + prev.ts
                 ELSE PacketOf(wire).header.ts
           ext == wire.ext + prev.ts
<1>1. Header(wire) = [prev EXCEPT !.ts = ts]
  BY DEF Header
<1>2. prev \in Headers
  BY DEF TypeOK, WireChunks
<1>3. ExtHeader(wire) = IF Ext(wire) THEN [Header(wire) EXCEPT !.ts = ext] ELSE Header(wire)
  BY DEF ExtHeader
<1> HIDE DEF prev, ts, ext
<1>4. [[prev EXCEPT !.ts = ts] EXCEPT !.ts = ext] = [prev EXCEPT !.ts = ext]
  BY <1>2 DEF Headers
<1> QED
  BY <1>1, <1>3, <1>4 DEF prev, ts, ext

(***************************************************************************)
(* The reader has only a part of the chunk, and keeps what it has found    *)
(* out: it comes to the same result when it parses the chunk again.        *)
(***************************************************************************)
LEMMA ParseAgain ==
  ASSUME IInv, ParseNoExt \/ ParseNoBody
  PROVE  IInv'
<1> DEFINE c == wire.csid
<1>1. TypeOK /\ framed /\ WireInStep
  BY DEF IInv
<1>2. /\ wire # None /\ wire' = wire /\ last' = last /\ rest' = rest /\ outSize' = outSize
      /\ sent' = sent /\ inHeaders' = inHeaders /\ inSize' = inSize /\ got' = got /\ framed' = framed
  BY DEF ParseNoExt, ParseNoBody, writerVars
<1>3. wire \in WireChunks /\ c \in CSIDs /\ wire.fmt \in {0, 1, 2, 3}
  BY <1>1, <1>2 DEF TypeOK, WireChunks, Fmts
<1>4. /\ PacketOf(wire) \in InPackets /\ Understood(wire)
      /\ Len(PacketOf(wire).body) < PacketOf(wire).cap
      /\ last[c] # None
  BY <1>1, <1>2 DEF WireInStep
<1>5. /\ ExtHeader(wire) \in Headers /\ ExtDelta(wire) \in Times
  <2>1. HeaderInStep(c) /\ On(c)
    BY <1>2, <1>3 DEF IInv, On
  <2> QED
    BY <1>4, <2>1 DEF HeaderInStep, HeaderOn, DeltaOn
<1>6. Header(wire) \in Headers /\ Delta(wire) \in Times /\ Ext(wire) \in BOOLEAN
  BY <1>1, <1>2, <1>4, HeaderTyped
<1>7. PICK h \in Headers, d \in Times, e \in BOOLEAN :
        /\ inPackets' = [inPackets EXCEPT ![c] = [PacketOf(wire) EXCEPT !.header = h]]
        /\ inDeltas' = [inDeltas EXCEPT ![c] = d]
        /\ inExt' = [inExt EXCEPT ![c] = e]
        /\ e = Ext(wire)
        /\ \/ Ext(wire) /\ d = Delta(wire)
           \/ h = ExtHeader(wire) /\ d = ExtDelta(wire)
  <2>1. CASE ParseNoExt
    <3>1. TRUE \in BOOLEAN /\ Ext(wire) = TRUE
      BY <1>6, <2>1 DEF ParseNoExt
    <3> QED
      BY <1>6, <2>1, <3>1 DEF ParseNoExt
  <2>2. CASE ParseNoBody
    BY <1>5, <1>6, <2>2 DEF ParseNoBody
  <2> QED
    BY <2>1, <2>2
<1> HIDE DEF c
<1> DEFINE q == [PacketOf(wire) EXCEPT !.header = h]
<1>8. q \in InPackets /\ q # None /\ q.cap = PacketOf(wire).cap /\ q.body = PacketOf(wire).body
      /\ q.header = h
  BY <1>4, <1>7, Something DEF InPackets
<1> HIDE DEF q
<1>9. /\ inPackets'[c] = q /\ inDeltas'[c] = d /\ inExt'[c] = e
      /\ \A x \in CSIDs : x # c => /\ inPackets'[x] = inPackets[x] /\ inDeltas'[x] = inDeltas[x]
                                   /\ inExt'[x] = inExt[x]
  BY <1>1, <1>3, <1>7 DEF TypeOK, q
<1>10. PacketOf(wire)' = q
  BY <1>2, <1>8, <1>9 DEF PacketOf, c
<1>11. TypeOK'
  <2>1. inPackets' \in [CSIDs -> InPackets \cup {None}]
    BY <1>1, <1>7, <1>8 DEF TypeOK, q
  <2>2. inDeltas' \in [CSIDs -> Times] /\ inExt' \in [CSIDs -> BOOLEAN]
    BY <1>1, <1>7 DEF TypeOK
  <2>3. \A x \in CSIDs : inPackets'[x] # None => Len(inPackets'[x].body) < inPackets'[x].cap
    BY <1>1, <1>4, <1>8, <1>9 DEF TypeOK
  <2> QED
    BY <1>1, <1>2, <2>1, <2>2, <2>3 DEF TypeOK
<1>12. Ext(wire)' = Ext(wire)
  BY <1>2, <1>7, <1>9 DEF Ext, c
<1>13. ExtDelta(wire)' = ExtDelta(wire)
  <2>1. Delta(wire)' = IF wire.fmt = 3 THEN d ELSE Delta(wire)
    BY <1>2, <1>3, <1>9 DEF Delta, c
  <2>2. CASE wire.fmt = 3
    <3>1. Delta(wire) = inDeltas[c]
      BY <2>2 DEF Delta, c
    <3> QED
      BY <1>2, <1>7, <1>12, <2>1, <2>2, <3>1 DEF ExtDelta
  <2>3. CASE wire.fmt # 3
    BY <1>2, <1>12, <2>1, <2>3 DEF ExtDelta
  <2> QED
    BY <2>2, <2>3
<1>14. ExtHeader(wire)' = ExtHeader(wire)
  <2>1. CASE wire.fmt # 3
    <3>1. Header(wire)' = Header(wire)
      BY <1>2, <1>3, <2>1 DEF Header
    <3> QED
      BY <1>2, <1>12, <3>1 DEF ExtHeader
  <2>2. CASE wire.fmt = 3 /\ Ext(wire)
    <3>1. ExtHeader(wire) = [inHeaders[c] EXCEPT !.ts = wire.ext + inHeaders[c].ts]
      BY <1>1, <1>2, <2>2, Fmt3Header DEF c
    <3>2. ExtHeader(wire)' = [inHeaders[c] EXCEPT !.ts = wire.ext + inHeaders[c].ts]
      <4>1. ExtHeader(wire)' = [Header(wire)' EXCEPT !.ts = wire.ext + inHeaders[c].ts]
        BY <1>2, <1>12, <2>2 DEF ExtHeader, c
      <4> DEFINE ts == IF q.header.ts = 0 THEN d + inHeaders[c].ts ELSE q.header.ts
      <4>2. Header(wire)' = [inHeaders[c] EXCEPT !.ts = ts]
        BY <1>2, <1>9, <1>10, <2>2 DEF Header, c
      <4>3. inHeaders[c] \in Headers
        BY <1>1, <1>3 DEF TypeOK
      <4> HIDE DEF ts
      <4> QED
        BY <4>1, <4>2, <4>3 DEF Headers
    <3> QED
      BY <3>1, <3>2
  <2>3. CASE wire.fmt = 3 /\ ~Ext(wire)
    <3> DEFINE prev == inHeaders[c]
               k == PacketOf(wire).header.ts
               x == IF k = 0 THEN inDeltas[c] + prev.ts ELSE k
    <3>1. h = ExtHeader(wire) /\ d = ExtDelta(wire) /\ d = inDeltas[c]
      BY <1>7, <2>3 DEF ExtDelta, Delta, c
    <3>2. ExtHeader(wire) = [prev EXCEPT !.ts = x]
      BY <1>1, <1>2, <2>3, Fmt3Header DEF c
    <3>3. prev \in Headers /\ k \in Nat /\ inDeltas[c] \in Nat /\ prev.ts \in Nat
      BY <1>1, <1>3, <1>4, Constants DEF TypeOK, Headers, InPackets
    <3>4. h.ts = x
      BY <3>1, <3>2, <3>3 DEF Headers
    <3>5. ExtHeader(wire)' = [prev EXCEPT !.ts = IF h.ts = 0 THEN d + prev.ts ELSE h.ts]
      <4>1. Header(wire)' = [prev EXCEPT !.ts = IF h.ts = 0 THEN d + prev.ts ELSE h.ts]
        BY <1>2, <1>8, <1>9, <1>10, <2>3 DEF Header, c
      <4> QED
        BY <1>2, <1>12, <2>3, <4>1 DEF ExtHeader
    <3>6. (IF h.ts = 0 THEN d + prev.ts ELSE h.ts) = x
      BY <3>1, <3>3, <3>4
    <3> QED
      BY <3>2, <3>5, <3>6
  <2> QED
    BY <2>1, <2>2, <2>3
<1>15. \A x \in CSIDs : On(x)' = On(x)
  BY <1>2 DEF On
<1>16. \A x \in CSIDs : /\ HeaderOn(x)' = HeaderOn(x) /\ DeltaOn(x)' = DeltaOn(x)
                        /\ (ExtOn(x)' <=> ExtOn(x))
                        /\ CapOn(x)' = CapOn(x) /\ BodyOn(x)' = BodyOn(x)
  <2>1. ASSUME NEW x \in CSIDs, x = c
        PROVE  /\ HeaderOn(x)' = HeaderOn(x) /\ DeltaOn(x)' = DeltaOn(x)
               /\ (ExtOn(x)' <=> ExtOn(x))
               /\ CapOn(x)' = CapOn(x) /\ BodyOn(x)' = BodyOn(x)
    BY <1>2, <1>8, <1>10, <1>12, <1>13, <1>14, <2>1 DEF HeaderOn, DeltaOn, ExtOn, CapOn, BodyOn, On, c
  <2>2. ASSUME NEW x \in CSIDs, x # c
        PROVE  /\ HeaderOn(x)' = HeaderOn(x) /\ DeltaOn(x)' = DeltaOn(x)
               /\ (ExtOn(x)' <=> ExtOn(x))
               /\ CapOn(x)' = CapOn(x) /\ BodyOn(x)' = BodyOn(x)
    BY <1>2, <1>9, <2>2 DEF HeaderOn, DeltaOn, ExtOn, CapOn, BodyOn, On, c
  <2> QED
    BY <2>1, <2>2
<1>17. ASSUME NEW x \in CSIDs PROVE HeaderInStep(x)' /\ PacketInStep(x)'
  <2>1. HeaderInStep(x) /\ PacketInStep(x)
    BY DEF IInv
  <2>2. HeaderInStep(x)'
    BY <1>2, <1>16, <2>1 DEF HeaderInStep
  <2>3. PacketInStep(x)'
    <3>1. ~On(x) => inPackets'[x] = inPackets[x]
      BY <1>2, <1>9 DEF On, c
    <3>2. Begun(sent)' = Begun(sent)
      BY <1>2 DEF Begun
    <3>3. Begun(rest[x].m)' = Begun(rest[x].m)
      BY <1>2 DEF Begun
    <3> QED
      BY <1>2, <1>15, <1>16, <2>1, <3>1, <3>2, <3>3 DEF PacketInStep
  <2> QED
    BY <2>2, <2>3
<1>18. WireInStep'
  <2>1. Bytes(wire)' = Bytes(wire)
    BY <1>2, <1>8, <1>10 DEF Bytes
  <2>2. Understood(wire)'
    BY <1>2, <1>4, <1>12, <2>1 DEF Understood
  <2> QED
    BY <1>1, <1>2, <1>8, <1>10, <2>2 DEF WireInStep
<1>19. SentInStep'
  <2>1. SentInStep
    BY DEF IInv
  <2>2. Begun(sent)' = Begun(sent) /\ Arriving' = Arriving
    BY <1>2 DEF Begun, Arriving
  <2> QED
    BY <1>2, <2>1, <2>2 DEF SentInStep
<1> QED
  BY <1>1, <1>2, <1>11, <1>17, <1>18, <1>19 DEF IInv

(* The chunk is there: the reader has what it was going to have, and hands *)
(* the message over if this was the last of it.                            *)
LEMMA ParseChunkKeeps ==
  ASSUME IInv, ParseChunk
  PROVE  IInv'
<1> DEFINE c == wire.csid
           h == ExtHeader(wire)
           packet == [PacketOf(wire) EXCEPT !.header = h, !.body = @ \o wire.body]
           complete == Len(packet.body) = packet.cap
<1>1. TypeOK /\ framed /\ WireInStep
  BY DEF IInv
<1>2. /\ wire # None /\ wire' = None /\ framed' = Understood(wire)
      /\ last' = last /\ rest' = rest /\ outSize' = outSize /\ sent' = sent
  BY DEF ParseChunk, writerVars
<1>3. /\ inDeltas' = [inDeltas EXCEPT ![c] = ExtDelta(wire)]
      /\ inExt' = [inExt EXCEPT ![c] = Ext(wire)]
      /\ inHeaders' = [inHeaders EXCEPT ![c] = h]
      /\ inPackets' = [inPackets EXCEPT ![c] = IF complete THEN None ELSE packet]
  BY DEF ParseChunk
<1>4. /\ complete => /\ got' = [csid |-> c, header |-> h, body |-> packet.body]
                     /\ inSize' = HandleChunkSize(h, packet.body)
      /\ ~complete => got' = got /\ inSize' = inSize
  BY DEF ParseChunk
<1>5. wire \in WireChunks /\ c \in CSIDs /\ On(c)
  BY <1>1, <1>2 DEF TypeOK, WireChunks, On
<1>6. /\ PacketOf(wire) \in InPackets /\ Understood(wire)
      /\ Len(PacketOf(wire).body) < PacketOf(wire).cap /\ last[c] # None
      /\ outSize = IF rest[c] = None /\ sent.type = ChunkSizeType THEN sent.val ELSE inSize
  BY <1>1, <1>2 DEF WireInStep
<1>7. HeaderInStep(c) /\ PacketInStep(c)
  BY <1>5 DEF IInv
<1>8. /\ h \in Headers /\ ExtDelta(wire) \in Times /\ Ext(wire) \in BOOLEAN
      /\ h = HeaderOn(c) /\ ExtDelta(wire) = DeltaOn(c) /\ Ext(wire) = ExtOn(c)
      /\ h.len = last[c].len /\ h.type = last[c].type /\ h.sid = last[c].sid
      /\ last[c].near => h.ts = last[c].ts
  <2>1. Ext(wire) \in BOOLEAN
    BY <1>1, <1>2, <1>6, HeaderTyped
  <2>2. h = HeaderOn(c) /\ ExtDelta(wire) = DeltaOn(c) /\ Ext(wire) = ExtOn(c)
    BY <1>5 DEF HeaderOn, DeltaOn, ExtOn
  <2> HIDE DEF h
  <2> QED
    BY <1>6, <1>7, <2>1, <2>2 DEF HeaderInStep
<1> HIDE DEF h
<1>9. /\ packet \in InPackets /\ packet # None /\ packet.header = h
      /\ packet.cap = CapOn(c) /\ packet.body = BodyOn(c)
  <2>1. PacketOf(wire).body \in Seq(Nat) /\ wire.body \in Seq(Nat)
    BY <1>5, <1>6 DEF InPackets, WireChunks
  <2>2. PacketOf(wire).body \o wire.body \in Seq(Nat)
    BY <2>1, ConcatProperties
  <2>3. packet \in InPackets /\ packet.header = h /\ packet.cap = PacketOf(wire).cap
        /\ packet.body = PacketOf(wire).body \o wire.body
    BY <1>6, <1>8, <2>2 DEF InPackets
  <2>4. packet # None
    BY <2>3, Something
  <2> HIDE DEF packet
  <2> QED
    BY <1>5, <2>3, <2>4 DEF CapOn, BodyOn
<1>10. complete <=> Len(BodyOn(c)) = CapOn(c)
  BY <1>9
<1> HIDE DEF packet, complete, c
<1>11. rest[c] \in Remainders \cup {None} /\ sent \in Messages \cup {None}
  BY <1>1, <1>5 DEF TypeOK
<1>12. CASE rest[c] = None
  <2>1. /\ sent # None /\ sent.csid = c /\ Begun(sent)
        /\ CapOn(c) = sent.len /\ BodyOn(c) = Filled(sent, sent.len)
    BY <1>5, <1>7, <1>12 DEF PacketInStep
  <2>2. /\ sent \in Messages /\ sent.len \in Nat
        /\ sent.type = ChunkSizeType => sent.len = 1
        /\ sent.type = last[c].type /\ sent.len = last[c].len /\ sent.sid = last[c].sid
        /\ sent.ts = last[c].ts
    BY <1>11, <2>1, MessageFacts DEF Begun
  <2>3. complete
    BY <1>10, <2>1, <2>2, FilledIs
  <2>4. inSize' = outSize
    <3>1. inSize' = IF sent.type = ChunkSizeType THEN BodyOn(c)[1] ELSE inSize
      BY <1>4, <1>8, <1>9, <2>2, <2>3 DEF HandleChunkSize
    <3>2. sent.type = ChunkSizeType => BodyOn(c)[1] = sent.val
      BY <2>1, <2>2 DEF Filled
    <3> QED
      BY <1>6, <1>12, <3>1, <3>2
  <2>5. /\ inHeaders'[c] = h /\ inDeltas'[c] = ExtDelta(wire) /\ inExt'[c] = Ext(wire)
        /\ inPackets'[c] = None
        /\ \A x \in CSIDs : x # c => /\ inHeaders'[x] = inHeaders[x] /\ inDeltas'[x] = inDeltas[x]
                                     /\ inExt'[x] = inExt[x] /\ inPackets'[x] = inPackets[x]
    BY <1>1, <1>3, <1>5, <2>3 DEF TypeOK
  <2>6. LET g == [csid |-> c, header |-> h, body |-> BodyOn(c)]
        IN  got' = g /\ g \in Handed /\ g # None
    <3>1. packet.body \in Seq(Nat)
      BY <1>9 DEF InPackets
    <3> QED
      BY <1>4, <1>5, <1>8, <1>9, <2>3, <3>1, Something DEF Handed
  <2>7. TypeOK'
    <3>1. inPackets' \in [CSIDs -> InPackets \cup {None}]
      BY <1>1, <1>3, <2>3 DEF TypeOK
    <3>2. /\ inHeaders' \in [CSIDs -> Headers] /\ inDeltas' \in [CSIDs -> Times]
          /\ inExt' \in [CSIDs -> BOOLEAN]
      BY <1>1, <1>3, <1>8 DEF TypeOK
    <3>3. \A x \in CSIDs : inPackets'[x] # None => Len(inPackets'[x].body) < inPackets'[x].cap
      BY <1>1, <2>5 DEF TypeOK
    <3>4. inSize' \in Sizes \cup {FirstSize} /\ got' \in Handed \cup {None} /\ framed' \in BOOLEAN
      BY <1>1, <1>2, <1>6, <2>4, <2>6 DEF TypeOK
    <3> QED
      BY <1>1, <1>2, <3>1, <3>2, <3>3, <3>4 DEF TypeOK
  <2>8. \A x \in CSIDs : ~On(x)' /\ (x # c => ~On(x))
    BY <1>2 DEF On, c
  <2>9. \A x \in CSIDs : /\ HeaderOn(x)' = HeaderOn(x) /\ DeltaOn(x)' = DeltaOn(x)
                         /\ (ExtOn(x)' <=> ExtOn(x))
    BY <1>8, <2>5, <2>8 DEF HeaderOn, DeltaOn, ExtOn
  <2>10. ASSUME NEW x \in CSIDs PROVE HeaderInStep(x)' /\ PacketInStep(x)'
    <3>1. HeaderInStep(x) /\ PacketInStep(x)
      BY DEF IInv
    <3>2. HeaderInStep(x)'
      BY <1>2, <2>9, <3>1 DEF HeaderInStep
    <3>3. CASE x = c
      BY <1>2, <1>12, <2>5, <2>8, <3>2, <3>3 DEF PacketInStep
    <3>4. CASE x # c
      <4>1. Begun(rest[x].m)' = Begun(rest[x].m)
        BY <1>2 DEF Begun
      <4>2. CapOn(x)' = CapOn(x) /\ BodyOn(x)' = BodyOn(x)
        BY <2>5, <2>8, <3>4 DEF CapOn, BodyOn
      <4> QED
        BY <1>2, <2>5, <2>8, <3>1, <3>2, <3>4, <4>1, <4>2 DEF PacketInStep
    <3> QED
      BY <3>2, <3>3, <3>4
  <2>11. WireInStep'
    BY <1>2, <2>4 DEF WireInStep
  <2>12. SentInStep'
    <3>1. Begun(sent)'
      BY <1>2, <2>1 DEF Begun
    <3>2. /\ got' # None /\ got'.csid = sent.csid
          /\ got'.header.type = sent.type /\ got'.header.sid = sent.sid
          /\ got'.header.len = sent.len
          /\ got'.body = Filled(sent, sent.len)
          /\ last[c].near => got'.header.ts = sent.ts
      BY <1>8, <2>1, <2>2, <2>6
    <3> QED
      BY <1>2, <2>1, <3>1, <3>2 DEF SentInStep
  <2> QED
    BY <1>2, <1>6, <2>7, <2>10, <2>11, <2>12 DEF IInv
<1>13. CASE rest[c] # None
  <2> DEFINE m == rest[c].m
  <2>1. /\ m.csid = c /\ Begun(m) /\ rest[c].left > 0 /\ rest[c].left < m.len
        /\ CapOn(c) = m.len /\ BodyOn(c) = Filled(m, m.len - rest[c].left)
    BY <1>7, <1>13 DEF PacketInStep
  <2>2. m \in Messages /\ rest[c].left \in Nat /\ m.len \in Nat
    BY <1>11, <1>13, MessageFacts DEF Remainders
  <2>3. Len(BodyOn(c)) = m.len - rest[c].left
    <3>1. m.len - rest[c].left \in Nat
      BY <2>1, <2>2
    <3> QED
      BY <2>1, <2>2, <3>1, FilledIs
  <2>4. ~complete /\ Len(packet.body) < packet.cap
    BY <1>9, <1>10, <2>1, <2>2, <2>3
  <2>5. inSize' = outSize /\ inSize' = inSize /\ got' = got
    BY <1>4, <1>6, <1>13, <2>4
  <2>6. /\ inHeaders'[c] = h /\ inDeltas'[c] = ExtDelta(wire) /\ inExt'[c] = Ext(wire)
        /\ inPackets'[c] = packet
        /\ \A x \in CSIDs : x # c => /\ inHeaders'[x] = inHeaders[x] /\ inDeltas'[x] = inDeltas[x]
                                     /\ inExt'[x] = inExt[x] /\ inPackets'[x] = inPackets[x]
    BY <1>1, <1>3, <1>5, <2>4 DEF TypeOK
  <2>7. TypeOK'
    <3>1. inPackets' \in [CSIDs -> InPackets \cup {None}]
      BY <1>1, <1>3, <1>9, <2>4 DEF TypeOK
    <3>2. /\ inHeaders' \in [CSIDs -> Headers] /\ inDeltas' \in [CSIDs -> Times]
          /\ inExt' \in [CSIDs -> BOOLEAN]
      BY <1>1, <1>3, <1>8 DEF TypeOK
    <3>3. \A x \in CSIDs : inPackets'[x] # None => Len(inPackets'[x].body) < inPackets'[x].cap
      BY <1>1, <2>4, <2>6 DEF TypeOK
    <3> QED
      BY <1>1, <1>2, <1>6, <2>5, <3>1, <3>2, <3>3 DEF TypeOK
  <2>8. \A x \in CSIDs : ~On(x)' /\ (x # c => ~On(x))
    BY <1>2 DEF On, c
  <2>9. \A x \in CSIDs : /\ HeaderOn(x)' = HeaderOn(x) /\ DeltaOn(x)' = DeltaOn(x)
                         /\ (ExtOn(x)' <=> ExtOn(x))
                         /\ x = c \/ rest[x] # None => CapOn(x)' = CapOn(x) /\ BodyOn(x)' = BodyOn(x)
    BY <1>8, <1>9, <2>6, <2>8 DEF HeaderOn, DeltaOn, ExtOn, CapOn, BodyOn
  <2>10. ASSUME NEW x \in CSIDs PROVE HeaderInStep(x)' /\ PacketInStep(x)'
    <3>1. HeaderInStep(x) /\ PacketInStep(x)
      BY DEF IInv
    <3>2. HeaderInStep(x)'
      BY <1>2, <2>9, <3>1 DEF HeaderInStep
    <3>3. Begun(rest[x].m)' = Begun(rest[x].m)
      BY <1>2 DEF Begun
    <3>4. rest[x] # None => inPackets'[x] # None /\ inPackets'[x].header = inHeaders'[x]
      BY <1>9, <2>6, <2>8, <3>1 DEF PacketInStep
    <3>5. rest[x] = None => inPackets'[x] = None
      BY <1>13, <2>6, <2>8, <3>1 DEF PacketInStep
    <3>6. PacketInStep(x)'
      BY <1>2, <2>8, <2>9, <3>1, <3>3, <3>4, <3>5 DEF PacketInStep
    <3> QED
      BY <3>2, <3>6
  <2>11. WireInStep'
    BY <1>2, <2>5 DEF WireInStep
  <2>12. SentInStep'
    <3>1. SentInStep /\ ~Arriving
      BY <1>13 DEF IInv, Arriving, c
    <3>2. Begun(sent)' = Begun(sent)
      BY <1>2 DEF Begun
    <3> QED
      BY <1>2, <2>5, <3>1, <3>2 DEF SentInStep
  <2> QED
    BY <1>2, <1>6, <2>7, <2>10, <2>11, <2>12 DEF IInv
<1> QED
  BY <1>12, <1>13

-----------------------------------------------------------------------------
(* The invariant is inductive. *)
LEMMA NextIInv == IInv /\ [Next]_vars => IInv'
<1> SUFFICES ASSUME IInv, [Next]_vars PROVE IInv'
  OBVIOUS
<1>1. TypeOK
  BY DEF IInv
<1>2. ASSUME NEW m \in Messages, NEW fmt \in Fmts, StartMessage(m, fmt) PROVE IInv'
  <2> DEFINE p == [ts |-> m.ts, len |-> m.len, type |-> m.type, sid |-> m.sid,
                   delta |-> IF fmt = 0 THEN 0 ELSE Stamp(m, fmt),
                   ext |-> Stamp(m, fmt) >= ExtMark, near |-> Near(m, fmt)]
             ch == Chunk(m, fmt, Stamp(m, fmt), m.len)
  <2>1. /\ wire = None /\ rest[m.csid] = None /\ Legal(m, fmt)
        /\ wire' = ch /\ last' = [last EXCEPT ![m.csid] = p]
        /\ Written(m, m.len, Stamp(m, fmt)) /\ UNCHANGED readerVars
    BY <1>2 DEF StartMessage
  <2>2. Stamp(m, fmt) \in Times /\ Describes(p, m, Stamp(m, fmt)) /\ Parses(ch, m, m.len, p)
    BY <2>1, ParsesFirst
  <2>3. m.len \in 1 .. m.len
    BY MessageFacts
  <2> HIDE DEF p, ch
  <2> QED
    BY <2>1, <2>2, <2>3, WriteKeeps
<1>3. ASSUME NEW c \in CSIDs, ContinueMessage(c) PROVE IInv'
  <2> DEFINE m == rest[c].m
             ch == Chunk(m, 3, rest[c].stamp, rest[c].left)
  <2>1. /\ wire = None /\ rest[c] # None /\ wire' = ch /\ last' = last
        /\ Written(m, rest[c].left, rest[c].stamp) /\ UNCHANGED readerVars
    BY <1>3 DEF ContinueMessage
  <2>2. /\ m \in Messages /\ m.csid = c /\ rest[c].stamp \in Times /\ rest[c].left \in 1 .. m.len
        /\ Describes(last[c], m, rest[c].stamp) /\ Parses(ch, m, rest[c].left, last[c])
    BY <2>1, ParsesRest
  <2>3. last' = [last EXCEPT ![m.csid] = last[c]]
    BY <1>1, <2>1, <2>2 DEF TypeOK
  <2> HIDE DEF m, ch
  <2> QED
    BY <2>1, <2>2, <2>3, WriteKeeps
<1>4. CASE Read
  BY <1>4, ParseAgain, ParseChunkKeeps DEF Read
<1>5. CASE UNCHANGED vars
  <2>1. /\ wire' = wire /\ last' = last /\ rest' = rest /\ outSize' = outSize /\ sent' = sent
        /\ inHeaders' = inHeaders /\ inPackets' = inPackets /\ inDeltas' = inDeltas
        /\ inExt' = inExt /\ inSize' = inSize /\ got' = got /\ framed' = framed
    BY <1>5 DEF vars, writerVars, readerVars
  <2>2. TypeOK' /\ framed' /\ SentInStep'
    BY <1>1, <2>1 DEF IInv, TypeOK, SentInStep, Begun, Arriving
  <2>3. PacketOf(wire)' = PacketOf(wire) /\ Ext(wire)' = Ext(wire)
        /\ ExtHeader(wire)' = ExtHeader(wire) /\ ExtDelta(wire)' = ExtDelta(wire)
    BY <2>1 DEF PacketOf, Ext, ExtHeader, Header, ExtDelta, Delta
  <2>4. WireInStep'
    BY <2>1, <2>3 DEF IInv, WireInStep, Understood, Bytes
  <2>5. ASSUME NEW c \in CSIDs PROVE HeaderInStep(c)' /\ PacketInStep(c)'
    <3>1. /\ On(c)' = On(c) /\ HeaderOn(c)' = HeaderOn(c) /\ DeltaOn(c)' = DeltaOn(c)
          /\ (ExtOn(c)' <=> ExtOn(c)) /\ CapOn(c)' = CapOn(c) /\ BodyOn(c)' = BodyOn(c)
      BY <2>1, <2>3 DEF On, HeaderOn, DeltaOn, ExtOn, CapOn, BodyOn
    <3>2. Begun(rest[c].m)' = Begun(rest[c].m) /\ Begun(sent)' = Begun(sent)
      BY <2>1 DEF Begun
    <3>3. HeaderInStep(c) /\ PacketInStep(c)
      BY DEF IInv
    <3>4. HeaderInStep(c)'
      BY <2>1, <3>1, <3>3 DEF HeaderInStep
    <3>5. PacketInStep(c)'
      BY <2>1, <3>1, <3>2, <3>3 DEF PacketInStep
    <3> QED
      BY <3>4, <3>5
  <2> QED
    BY <2>2, <2>4, <2>5 DEF IInv
<1> QED
  BY <1>2, <1>3, <1>4, <1>5 DEF Next, Write

(* The inductive invariant holds in every reachable state. *)
LEMMA AlwaysIInv == Spec => []IInv
BY InitIInv, NextIInv, PTL DEF Spec

(***************************************************************************)
(* ParseMessage never loses track of where the next chunk begins, whatever *)
(* formats, chunk sizes and interleaving the writer chooses, and however   *)
(* often it finds only a part of a chunk.                                  *)
(***************************************************************************)
THEOREM ReaderStaysFramed == Spec => []StaysFramed
<1>1. IInv => StaysFramed
  BY DEF IInv, StaysFramed, WireInStep
<1> QED
  BY <1>1, AlwaysIInv, PTL

(* It hands over every message as it was written: type, stream, length and *)
(* content always, the timestamp while none needs the extended field.      *)
THEOREM MessagesArriveIntact == Spec => []MessagesIntact
<1>1. IInv => MessagesIntact
  <2> SUFFICES ASSUME IInv, wire = None, sent # None PROVE ContentIntact /\ TimesIntact
    BY DEF MessagesIntact, ContentIntact, TimesIntact
  <2>1. SentInStep /\ ~Arriving
    BY DEF IInv, Arriving
  <2> QED
    BY <2>1 DEF SentInStep, ContentIntact, TimesIntact, Filled
<1> QED
  BY <1>1, AlwaysIInv, PTL

-----------------------------------------------------------------------------
(***************************************************************************)
(* BuildChunk.  It writes with out_chunk_size_ from the start, and splits  *)
(* nothing before that size is announced.                                  *)
(***************************************************************************)
agreed == IF announced THEN OutSize ELSE FirstSize

WriterInv ==
  /\ outSize = OutSize
  /\ last \in [CSIDs -> WrittenHeaders \cup {None}]
  /\ rest \in [CSIDs -> Remainders \cup {None}]
  /\ \A c \in CSIDs : /\ last[c] # None => ~last[c].ext
                      /\ rest[c] # None => announced /\ rest[c].m.csid = c
  /\ announced \in BOOLEAN

(* No timestamp needs the extended field: what is copied in host order is  *)
(* zero.                                                                   *)
LEMMA OwnChunkIs ==
  ASSUME MaxTime < ExtMark, NEW m \in Messages, NEW fmt \in Fmts, NEW stamp \in Times,
         NEW left \in Nat, outSize \in Nat
  PROVE  OwnChunk(m, fmt, stamp, left) = Chunk(m, fmt, stamp, left)
<1>1. ~(stamp >= ExtMark)
  BY ChunkAssumption DEF Times
<1>2. Chunk(m, fmt, stamp, left).ext = 0
  BY <1>1 DEF Chunk
<1>3. Swapped(0) = 0
  <2>1. 0 % Base = 0 /\ 0 \div Base = 0 /\ 0 * Base = 0
    BY WriterAssumption
  <2> QED
    BY <2>1 DEF Swapped
<1>4. Chunk(m, fmt, stamp, left) \in WireChunks
  BY ChunkIs
<1> QED
  BY <1>2, <1>3, <1>4 DEF OwnChunk, WireChunks

(* The server starts where a writer of the format starts. *)
LEMMA InitRefines == OwnInit => Chunks!Init /\ WriterInv
BY DEF OwnInit, Chunks!Init, WriterInv, NewHeader, Chunks!NewHeader

(* A message of the server is one of the format. *)
LEMMA BuildRefines ==
  ASSUME WriterInv, MaxTime < ExtMark, Ready, NEW m \in Messages, NEW fmt \in Fmts,
         Legal(m, fmt), BuildChunk(m, fmt),
         announced \/ m.len <= FirstSize,
         m.type # ChunkSizeType => announced' = announced,
         m.type = ChunkSizeType => announced' = TRUE
  PROVE  Chunks!StartMessage(m, fmt) /\ WriterInv'
<1> DEFINE c == m.csid
           stamp == Stamp(m, fmt)
           p == [ts |-> m.ts, len |-> m.len, type |-> m.type, sid |-> m.sid,
                 delta |-> IF fmt = 0 THEN 0 ELSE stamp,
                 ext |-> stamp >= ExtMark, near |-> Near(m, fmt)]
<1>1. /\ c \in CSIDs /\ m.ts \in Times /\ m.len \in Lens \cup {1} /\ m.len \in Nat \ {0}
      /\ m.type \in Types \cup {ChunkSizeType} /\ m.sid \in Sids
      /\ m.type = ChunkSizeType => m.val = OutSize
  BY MessageFacts, WriterAssumption
<1>2. /\ wire = None /\ framed /\ rest[c] = None
  BY <1>1 DEF Ready
<1>3. /\ wire' = OwnChunk(m, fmt, stamp, m.len) /\ last' = [last EXCEPT ![c] = p]
      /\ Written(m, m.len, stamp) /\ UNCHANGED readerVars
  BY DEF BuildChunk
<1>4. stamp \in Times
  <2>1. fmt # 0 => last[c].ts \in Times /\ m.ts >= last[c].ts
    BY <1>1 DEF Legal, WriterInv, WrittenHeaders
  <2> QED
    BY <1>1, <2>1, TimesAre DEF Stamp
<1>5. outSize = OutSize /\ OutSize \in Nat \ {0} /\ FirstSize \in Nat \ {0} /\ OutSize >= FirstSize
  BY WriterAssumption, ChunkAssumption DEF WriterInv
<1>6. wire' = Chunk(m, fmt, stamp, m.len)
  BY <1>1, <1>3, <1>4, <1>5, OwnChunkIs
<1>7. Smaller(m.len, outSize) = Smaller(m.len, agreed) /\ (m.len > outSize <=> m.len > agreed)
  BY <1>1, <1>5 DEF Smaller, agreed
<1>8. p \in WrittenHeaders /\ ~p.ext
  <2>1. (stamp >= ExtMark) = FALSE
    BY <1>4, ChunkAssumption DEF Times
  <2>2. Near(m, fmt) \in BOOLEAN /\ (IF fmt = 0 THEN 0 ELSE stamp) \in Times
    BY <1>4, Constants DEF Near
  <2> QED
    BY <1>1, <2>1, <2>2 DEF WrittenHeaders
<1> HIDE DEF p, stamp, c
<1>9. /\ m.len > outSize =>
           /\ rest' = [rest EXCEPT ![c] = [m |-> m, left |-> m.len - outSize, stamp |-> stamp]]
           /\ outSize' = outSize /\ sent' = sent
      /\ ~(m.len > outSize) =>
           /\ rest' = [rest EXCEPT ![c] = None] /\ sent' = m
           /\ outSize' = IF m.type = ChunkSizeType THEN m.val ELSE outSize
  BY <1>3 DEF Written, c
<1>10. WriterInv'
  <2>1. outSize' = OutSize /\ announced' \in BOOLEAN
    BY <1>1, <1>5, <1>9 DEF WriterInv
  <2>2. last' \in [CSIDs -> WrittenHeaders \cup {None}]
        /\ \A x \in CSIDs : last'[x] # None => ~last'[x].ext
    BY <1>1, <1>3, <1>8 DEF WriterInv
  <2>3. CASE m.len > outSize
    <3>1. [m |-> m, left |-> m.len - outSize, stamp |-> stamp] \in Remainders
      BY <1>1, <1>4, <1>5, <2>3 DEF Remainders
    <3>2. announced /\ announced'
      BY <1>1, <1>5, <2>3
    <3> QED
      BY <1>9, <2>1, <2>2, <2>3, <3>1, <3>2 DEF WriterInv, c
  <2>4. CASE ~(m.len > outSize)
    <3>1. announced => announced'
      BY <1>1 DEF WriterInv
    <3> QED
      BY <1>1, <1>9, <2>1, <2>2, <2>4, <3>1 DEF WriterInv
  <2> QED
    BY <2>3, <2>4
<1>11. Chunks!Legal(m, fmt) /\ Chunks!Stamp(m, fmt) = stamp /\ Chunks!Near(m, fmt) = Near(m, fmt)
  BY DEF Chunks!Legal, Legal, Chunks!Stamp, Stamp, Chunks!Near, Near, stamp
<1>12. wire' = Chunks!Chunk(m, fmt, stamp, m.len)
  BY <1>6, <1>7 DEF Chunks!Chunk, Chunk, Chunks!Smaller, Smaller, agreed
<1>13. Chunks!Written(m, m.len, stamp)
  <2>1. CASE m.len > outSize
    <3>1. announced /\ announced' /\ agreed = outSize
      BY <1>1, <1>5, <2>1 DEF agreed
    <3> QED
      BY <1>7, <1>9, <2>1, <3>1 DEF Chunks!Written, agreed, c
  <2>2. CASE ~(m.len > outSize)
    <3>1. agreed' = IF m.type = ChunkSizeType THEN m.val ELSE agreed
      BY <1>1 DEF agreed
    <3> QED
      BY <1>7, <1>9, <2>2, <3>1 DEF Chunks!Written, agreed, c, Chunks!ChunkSizeType, ChunkSizeType
  <2> QED
    BY <2>1, <2>2
<1>14. Chunks!StartMessage(m, fmt)
  BY <1>2, <1>3, <1>11, <1>12, <1>13
     DEF Chunks!StartMessage, Chunks!readerVars, readerVars, p, c, stamp
<1> QED
  BY <1>10, <1>14

(* The format that BuildChunk picks for a command is legal. *)
LEMMA CommandFmtIsLegal ==
  ASSUME WriterInv, MaxTime < ExtMark, NEW m \in Messages
  PROVE  CommandFmt(m) \in Fmts /\ Legal(m, CommandFmt(m))
<1> DEFINE prev == last[m.csid]
<1>1. prev # None => /\ prev \in WrittenHeaders /\ ~prev.ext
                     /\ prev.delta \in Times /\ prev.ext \in BOOLEAN
  BY MessageFacts DEF WriterInv, WrittenHeaders
<1>2. prev # None => prev.ext = (prev.delta >= ExtMark)
  <2>1. prev # None => ~(prev.delta >= ExtMark)
    BY <1>1, ChunkAssumption DEF Times
  <2> QED
    BY <1>1, <2>1
<1>3. CommandFmt(m) =
        IF ~(prev # None /\ m.ts >= prev.ts /\ m.sid = prev.sid) THEN 0
        ELSE IF m.type # prev.type \/ m.len # prev.len THEN 1
        ELSE IF m.ts - prev.ts # prev.delta THEN 2 ELSE 3
  BY DEF CommandFmt
<1> DEFINE fmt == CommandFmt(m)
<1>4. /\ fmt \in {0, 1, 2, 3}
      /\ fmt # 0 => prev # None /\ m.ts >= prev.ts /\ m.sid = prev.sid
      /\ fmt \in {2, 3} => m.type = prev.type /\ m.len = prev.len
      /\ fmt = 3 => m.ts - prev.ts = prev.delta
  BY <1>3
<1>5. Legal(m, fmt)
  <2> HIDE DEF fmt
  <2> QED
    BY <1>2, <1>4 DEF Legal
<1> QED
  BY <1>4, <1>5 DEF Fmts

(* So is what the loop over the rest of a message writes. *)
LEMMA NextChunkRefines ==
  ASSUME WriterInv, MaxTime < ExtMark, NEW c \in CSIDs, NextChunk(c)
  PROVE  Chunks!ContinueMessage(c) /\ WriterInv'
<1> DEFINE m == rest[c].m
           left == rest[c].left
           stamp == rest[c].stamp
<1>1. /\ wire = None /\ framed /\ rest[c] # None
      /\ wire' = OwnChunk(m, 3, stamp, left) /\ Written(m, left, stamp)
      /\ last' = last /\ UNCHANGED readerVars /\ announced' = announced
  BY DEF NextChunk
<1>2. /\ announced /\ announced' /\ agreed = OutSize /\ outSize = OutSize /\ agreed' = OutSize
      /\ m.csid = c
  BY <1>1 DEF WriterInv, agreed
<1>3. m \in Messages /\ left \in Nat /\ stamp \in Times
  BY <1>1 DEF WriterInv, Remainders
<1>4. m.type = ChunkSizeType => m.val = OutSize
  BY <1>3, MessageFacts, WriterAssumption
<1>5. wire' = Chunk(m, 3, stamp, left)
  <2>1. 3 \in Fmts /\ outSize \in Nat
    BY <1>2, WriterAssumption DEF Fmts
  <2> QED
    BY <1>1, <1>3, <2>1, OwnChunkIs
<1>6. wire' = Chunks!Chunk(m, 3, stamp, left)
  BY <1>2, <1>5 DEF Chunks!Chunk, Chunk, Chunks!Smaller, Smaller, agreed
<1>7. /\ left > outSize =>
           /\ rest' = [rest EXCEPT ![c] = [m |-> m, left |-> left - outSize, stamp |-> stamp]]
           /\ outSize' = outSize /\ sent' = sent
      /\ ~(left > outSize) =>
           /\ rest' = [rest EXCEPT ![c] = None] /\ sent' = m
           /\ outSize' = IF m.type = ChunkSizeType THEN m.val ELSE outSize
  BY <1>1, <1>2 DEF Written
<1>8. Chunks!Written(m, left, stamp)
  BY <1>2, <1>4, <1>7 DEF Chunks!Written, agreed, Chunks!ChunkSizeType, ChunkSizeType
<1> HIDE DEF m, left, stamp
<1>9. WriterInv'
  <2>1. left > outSize => [m |-> m, left |-> left - outSize, stamp |-> stamp] \in Remainders
    BY <1>2, <1>3, WriterAssumption DEF Remainders
  <2>2. outSize' = OutSize
    BY <1>2, <1>4, <1>7
  <2>3. rest' \in [CSIDs -> Remainders \cup {None}]
    BY <1>7, <2>1 DEF WriterInv
  <2>4. \A x \in CSIDs : rest'[x] # None => rest'[x].m.csid = x
    BY <1>2, <1>7, <2>3 DEF WriterInv
  <2> QED
    BY <1>1, <1>2, <2>2, <2>3, <2>4 DEF WriterInv
<1>10. Chunks!ContinueMessage(c)
  BY <1>1, <1>6, <1>8 DEF Chunks!ContinueMessage, Chunks!readerVars, readerVars, m, left, stamp
<1> QED
  BY <1>9, <1>10

(* The reader is the same. *)
LEMMA ReadRefines ==
  ASSUME Read, UNCHANGED announced, WriterInv
  PROVE  Chunks!Read /\ WriterInv'
<1>1. UNCHANGED writerVars
  BY DEF Read, ParseNoExt, ParseNoBody, ParseChunk
<1>2. UNCHANGED Chunks!writerVars
  BY <1>1 DEF writerVars, Chunks!writerVars
<1>3. WriterInv'
  BY <1>1 DEF WriterInv, writerVars
<1>4. /\ Chunks!PacketOf(wire) = PacketOf(wire) /\ Chunks!Ext(wire) = Ext(wire)
      /\ Chunks!Delta(wire) = Delta(wire)
  BY DEF Chunks!PacketOf, PacketOf, Chunks!Ext, Ext, Chunks!Delta, Delta, Chunks!NewHeader, NewHeader
<1>5. Chunks!Header(wire) = Header(wire)
  BY <1>4 DEF Chunks!Header, Header
<1>6. Chunks!ExtHeader(wire) = ExtHeader(wire) /\ Chunks!ExtDelta(wire) = ExtDelta(wire)
  BY <1>4, <1>5 DEF Chunks!ExtHeader, ExtHeader, Chunks!ExtDelta, ExtDelta
<1>7. Chunks!Understood(wire) = Understood(wire)
  BY <1>4 DEF Chunks!Understood, Understood, Chunks!Bytes, Bytes, Chunks!Smaller, Smaller
<1>8. CASE ParseNoExt
  BY <1>2, <1>3, <1>4, <1>5, <1>8 DEF ParseNoExt, Chunks!ParseNoExt, Chunks!Read
<1>9. CASE ParseNoBody
  BY <1>2, <1>3, <1>4, <1>6, <1>9 DEF ParseNoBody, Chunks!ParseNoBody, Chunks!Read
<1>10. CASE ParseChunk
  <2>1. \A h, b : Chunks!HandleChunkSize(h, b) = HandleChunkSize(h, b)
    BY DEF Chunks!HandleChunkSize, HandleChunkSize, Chunks!ChunkSizeType, ChunkSizeType
  <2> QED
    BY <1>2, <1>3, <1>4, <1>6, <1>7, <1>10, <2>1 DEF ParseChunk, Chunks!ParseChunk, Chunks!Read
<1> QED
  BY <1>3, <1>8, <1>9, <1>10 DEF Read

(* Every step of the server and its reader is one of the format. *)
LEMMA StepRefines ==
  ASSUME WriterInv, MaxTime < ExtMark, [OwnNext]_ownVars
  PROVE  [Chunks!Next]_(Chunks!vars) /\ WriterInv'
<1>1. Messages = Chunks!Messages /\ Fmts = Chunks!Fmts
  BY DEF Messages, Chunks!Messages, Fmts, Chunks!Fmts, Times, Chunks!Times,
         ChunkSizeType, Chunks!ChunkSizeType
<1>2. ASSUME NEW m \in Messages, NEW fmt \in Fmts, Chunks!StartMessage(m, fmt) PROVE Chunks!Next
  BY <1>1, <1>2 DEF Chunks!Next, Chunks!Write
<1>3. ASSUME NEW m \in Messages, SendSetChunkSize(m) PROVE Chunks!Next /\ WriterInv'
  <2>1. m.len <= FirstSize
    <3>1. m.len = 1
      BY <1>3, MessageFacts DEF SendSetChunkSize
    <3> QED
      BY <3>1, ChunkAssumption
  <2>2. CommandFmt(m) \in Fmts /\ Legal(m, CommandFmt(m))
    BY CommandFmtIsLegal
  <2>3. Ready /\ BuildChunk(m, CommandFmt(m)) /\ m.type = ChunkSizeType /\ announced' = TRUE
    BY <1>3 DEF SendSetChunkSize
  <2> QED
    BY <1>2, <2>1, <2>2, <2>3, BuildRefines
<1>4. ASSUME NEW m \in Messages, SendCommand(m) PROVE Chunks!Next /\ WriterInv'
  <2>1. CommandFmt(m) \in Fmts /\ Legal(m, CommandFmt(m))
    BY CommandFmtIsLegal
  <2>2. /\ Ready /\ BuildChunk(m, CommandFmt(m)) /\ m.type # ChunkSizeType
        /\ announced \/ m.len <= FirstSize
        /\ announced' = announced
    BY <1>4 DEF SendCommand
  <2> QED
    BY <1>2, <2>1, <2>2, BuildRefines
<1>5. \A m \in Messages : Legal(m, 0) /\ 0 \in Fmts
  BY DEF Legal, Fmts
<1>6. ASSUME NEW m \in Messages, PushHeader(m) PROVE Chunks!Next /\ WriterInv'
  <2>1. Ready /\ announced /\ BuildChunk(m, 0) /\ m.type # ChunkSizeType /\ announced' = announced
    BY <1>6 DEF PushHeader
  <2> QED
    BY <1>2, <1>5, <2>1, BuildRefines
<1>7. ASSUME NEW m \in Messages, PushFrame(m)
      PROVE  [Chunks!Next]_(Chunks!vars) /\ WriterInv'
  <2>1. Ready /\ announced /\ m.type # ChunkSizeType /\ announced' = announced
    BY <1>7 DEF PushFrame
  <2>2. CASE last[m.csid] = None
    <3>1. UNCHANGED vars
      BY <1>7, <2>2 DEF PushFrame
    <3> QED
      BY <2>1, <3>1 DEF vars, writerVars, readerVars, WriterInv,
                        Chunks!vars, Chunks!writerVars, Chunks!readerVars
  <2>3. CASE last[m.csid] # None
    <3>1. BuildChunk(m, 0)
      BY <1>7, <2>3 DEF PushFrame
    <3> QED
      BY <1>2, <1>5, <2>1, <3>1, BuildRefines
  <2> QED
    BY <2>2, <2>3
<1>8. ASSUME NEW c \in CSIDs, NextChunk(c) PROVE Chunks!Next /\ WriterInv'
  BY <1>8, NextChunkRefines DEF Chunks!Next, Chunks!Write
<1>9. CASE Read /\ UNCHANGED <<announced, crashed>>
  BY <1>9, ReadRefines DEF Chunks!Next
<1>10. CASE UNCHANGED ownVars
  BY <1>10 DEF ownVars, vars, writerVars, readerVars, WriterInv,
               Chunks!vars, Chunks!writerVars, Chunks!readerVars
<1> QED
  BY <1>3, <1>4, <1>6, <1>7, <1>8, <1>9, <1>10 DEF OwnNext

(***************************************************************************)
(* What BuildChunk writes is a chunk stream as any peer may send it, as    *)
(* long as no timestamp needs the extended field, whose bytes it does not  *)
(* put in network order.                                                   *)
(***************************************************************************)
THEOREM BuildChunkFollowsTheFormat ==
  ASSUME MaxTime < ExtMark
  PROVE  OwnSpec => WritesChunkStream
<1>1. OwnInit => Chunks!Init /\ WriterInv
  BY InitRefines
<1>2. WriterInv /\ [OwnNext]_ownVars => [Chunks!Next]_(Chunks!vars) /\ WriterInv'
  BY StepRefines
<1> QED
  BY <1>1, <1>2, PTL DEF OwnSpec, WritesChunkStream, Chunks!Spec

-----------------------------------------------------------------------------
(* The two ends of a connection.                                            *)

EndRecords ==
  [short : BOOLEAN, goal : Goals,
   hs : {"Init", "PostC0C1", "WaitS0S1", "PostC2", "Doning", "WaitC0C1", "PostS0S1", "PostS2",
         "WaitC2", "Done"},
   ctx : {"handshake", "message"}, io : Seq(Pieces), writing : BOOLEAN, buf : Seq(Pieces),
   sending : BOOLEAN, queue : Seq(Commands), out : Seq(Pieces), playing : BOOLEAN,
   closed : BOOLEAN, garbled : BOOLEAN, acks : Nat,
   strayed : BOOLEAN]

(* How many of its two blocks an end has sent, and of the peer's has taken. *)
BlocksSent(st) ==
  IF st.hs \in {"Init", "WaitC0C1"} THEN 0
  ELSE IF st.hs \in {"PostC0C1", "WaitS0S1", "PostS0S1"} THEN 1 ELSE 2

BlocksTaken(st) ==
  IF st.hs \in {"Init", "PostC0C1", "WaitS0S1", "WaitC0C1"} THEN 0
  ELSE IF st.hs \in {"Doning", "Done"} THEN 2 ELSE 1

(* The blocks of e from the one after the first a to the b-th. *)
Blocks(e, a, b) ==
  (IF a = 0 /\ b >= 1 THEN Block(IF e = "client" THEN "C1" ELSE "S1") ELSE << >>)
    \o (IF a <= 1 /\ b = 2 THEN Block(IF e = "client" THEN "C2" ELSE "S2") ELSE << >>)

(* What an end has written in this step, or has still to write. *)
Outgoing(st) == st.out \o (st.io \o st.queue)

(* A completion will come for what is being sent. *)
Completes(st) ==
  /\ st.sending => st.io # << >> /\ st.writing
  /\ st.queue # << >> => st.sending

(* The states of the handshake that only the client, or the server, knows. *)
OfItsSide(e, st) ==
  /\ st.hs \in {"Init", "PostC0C1", "WaitS0S1", "PostC2", "Doning"} => e = "client"
  /\ st.hs \in {"WaitC0C1", "PostS0S1", "PostS2"} => e = "server"

(* While a block is being posted there is something to be written. *)
Posts(st) == st.hs \in {"PostC0C1", "PostS0S1", "PostS2", "PostC2"} => st.io # << >>

(* The state of one end, between two of its steps. *)
EndOk(e, st) ==
  /\ st \in EndRecords /\ Completes(st) /\ OfItsSide(e, st) /\ Posts(st)
  /\ st.ctx = "message" <=> BlocksTaken(st) = 2
  /\ st.ctx = "handshake" => ~st.sending /\ st.queue = << >>

(***************************************************************************)
(* What is between end e, whose state is st, and its peer, which has taken *)
(* a of its blocks: in is what has left e.  It is the other blocks, and    *)
(* commands once the handshake is done; nothing is said of an end whose    *)
(* write has failed.                                                       *)
(***************************************************************************)
Carries(e, st, in, a) ==
  ~st.strayed =>
    /\ a <= BlocksSent(st)
    /\ \E cs \in Seq(Commands) :
         /\ in \o Outgoing(st) = Blocks(e, a, BlocksSent(st)) \o cs
         /\ st.ctx = "handshake" => cs = << >>

(* What the write of a block may return. *)
Returns == (1 .. Parts) \cup {Failed}

(* The inductive invariant of the connection. *)
ConnectInv ==
  /\ end \in [Ends -> EndRecords] /\ net \in [Ends -> Seq(Pieces)]
  /\ \A e \in Ends :
       /\ EndOk(e, end[e]) /\ end[e].out = << >>
       /\ Carries(e, end[e], Incoming(Peer(e)), BlocksTaken(end[Peer(e)]))
       /\ end[Peer(e)].garbled => end[e].strayed


(* Three sequences of pieces, and that they are put together in any order. *)
(* Joined is stated with the two operators, and a use opens them one    *)
(* at a time: the provers then take it for the three named, and no more.    *)
AreSeqs(s, t, u) == s \in Seq(Pieces) /\ t \in Seq(Pieces) /\ u \in Seq(Pieces)
Associates(s, t, u) == (s \o t) \o u = s \o (t \o u)

(* Sequences are put together in any order. *)
LEMMA Joined ==
  ASSUME NEW s, NEW t, NEW u, AreSeqs(s, t, u)
  PROVE  Associates(s, t, u)
<1>. s \in Seq(Pieces) /\ t \in Seq(Pieces) /\ u \in Seq(Pieces)
  BY DEF AreSeqs
<1> DEFINE Cat(a, b, c) ==
             /\ c \in Seq(Pieces) /\ Len(c) = Len(a) + Len(b)
             /\ \A i \in 1 .. Len(a) + Len(b) : c[i] = IF i <= Len(a) THEN a[i] ELSE b[i - Len(a)]
           st == s \o t
           tu == t \o u
           x == st \o u
           y == s \o tu
<1>0. \A a \in Seq(Pieces), b \in Seq(Pieces) : Cat(a, b, a \o b)
  BY ConcatProperties
<1>2. Cat(s, t, st) /\ Cat(t, u, tu)
  BY <1>0
<1>3. Cat(st, u, x) /\ Cat(s, tu, y)
  <2> HIDE DEF st, tu
  <2> QED
    BY <1>0, <1>2
<1>1. x = y
  <2> HIDE DEF st, tu, x, y
  <2>1. Len(s) \in Nat /\ Len(t) \in Nat /\ Len(u) \in Nat
    BY LenProperties
  <2>2. Len(x) = Len(y) /\ Len(x) = Len(s) + Len(t) + Len(u)
    BY <2>1, <1>2, <1>3
  <2>3. ASSUME NEW i \in 1 .. Len(x) PROVE x[i] = y[i]
    <3>1. CASE i <= Len(s)
      <4>1. x[i] = st[i] /\ st[i] = s[i]
        BY <3>1, <2>1, <2>2, <1>2, <1>3
      <4>2. y[i] = s[i]
        BY <3>1, <2>1, <2>2, <1>2, <1>3
      <4> QED
        BY <4>1, <4>2
    <3>2. CASE i > Len(s) /\ i <= Len(s) + Len(t)
      <4>1. x[i] = st[i] /\ st[i] = t[i - Len(s)]
        BY <3>2, <2>1, <2>2, <1>2, <1>3
      <4>2. y[i] = tu[i - Len(s)] /\ tu[i - Len(s)] = t[i - Len(s)]
        <5>1. i \in 1 .. Len(s) + Len(tu) /\ ~ (i <= Len(s)) /\ i - Len(s) \in 1 .. Len(t) + Len(u)
          BY <3>2, <2>1, <2>2, <1>2
        <5>2. i - Len(s) <= Len(t)
          BY <3>2, <2>1
        <5> QED
          BY <5>1, <5>2, <1>2, <1>3
      <4> QED
        BY <4>1, <4>2
    <3>3. CASE i > Len(s) + Len(t)
      <4>1. x[i] = u[i - (Len(s) + Len(t))]
        BY <3>3, <2>1, <2>2, <1>2, <1>3
      <4>2. y[i] = tu[i - Len(s)] /\ tu[i - Len(s)] = u[(i - Len(s)) - Len(t)]
        <5>1. i \in 1 .. Len(s) + Len(tu) /\ ~ (i <= Len(s)) /\ i - Len(s) \in 1 .. Len(t) + Len(u)
          BY <3>3, <2>1, <2>2, <1>2
        <5>2. ~ (i - Len(s) <= Len(t))
          BY <3>3, <2>1
        <5> QED
          BY <5>1, <5>2, <1>2, <1>3
      <4>3. (i - Len(s)) - Len(t) = i - (Len(s) + Len(t))
        BY <2>1
      <4> QED
        BY <4>1, <4>2, <4>3
    <3> QED
      BY <3>1, <3>2, <3>3, <2>1
  <2> QED
    BY <2>2, <2>3, <1>3, SeqEqual
<1> QED
  BY <1>1, <1>3 DEF Cat, Associates

(* Nothing is added by the empty sequence. *)
LEMMA JoinedToNone ==
  ASSUME NEW s \in Seq(Pieces)
  PROVE  /\ s \o << >> = s /\ << >> \o s = s /\ << >> \in Seq(Pieces) /\ Len(<< >>) = 0
BY ConcatEmptySeq, EmptySeq

(* The length and the first element of two sequences put together. *)
LEMMA JoinedIs ==
  ASSUME NEW s \in Seq(Pieces), NEW t \in Seq(Pieces)
  PROVE  /\ s \o t \in Seq(Pieces) /\ Len(s \o t) = Len(s) + Len(t)
         /\ Len(s) \in Nat /\ Len(t) \in Nat
         /\ s # << >> => s \o t # << >> /\ (s \o t)[1] = s[1]
         /\ t # << >> => s \o t # << >>
<1>1. /\ s \o t \in Seq(Pieces) /\ Len(s \o t) = Len(s) + Len(t)
      /\ \A i \in 1 .. Len(s) + Len(t) : (s \o t)[i] = IF i <= Len(s) THEN s[i] ELSE t[i - Len(s)]
  BY ConcatProperties
<1>2. Len(s) \in Nat /\ Len(t) \in Nat /\ Len(<< >>) = 0
  BY LenProperties, EmptySeq
<1>3. (s # << >> => Len(s) >= 1) /\ (t # << >> => Len(t) >= 1)
  BY <1>2, EmptySeq
<1> HIDE DEF Pieces
<1>4. ASSUME s # << >> PROVE (s \o t)[1] = s[1]
  BY <1>1, <1>2, <1>3, <1>4
<1>5. Len(s \o t) # 0 => s \o t # << >>
  BY <1>2
<1> QED
  BY <1>1, <1>2, <1>3, <1>4, <1>5

(* A sequence is its two parts put together. *)
LEMMA Parted ==
  ASSUME NEW S, NEW s \in Seq(S), NEW n \in 0 .. Len(s)
  PROVE  /\ SubSeq(s, 1, n) \in Seq(S) /\ Len(SubSeq(s, 1, n)) = n
         /\ SubSeq(s, n + 1, Len(s)) \in Seq(S)
         /\ Len(SubSeq(s, n + 1, Len(s))) = Len(s) - n
         /\ SubSeq(s, 1, n) \o SubSeq(s, n + 1, Len(s)) = s
<1>1. Len(s) \in Nat /\ \A j \in 1 .. Len(s) : s[j] \in S
  BY LenProperties
<1>2. SubSeq(s, 1, n) \in Seq(S) /\ Len(SubSeq(s, 1, n)) = n
  <2>1. 1 \in Int /\ n \in Int /\ \A j \in 1 .. n : s[j] \in S
    BY <1>1
  <2> QED
    BY <2>1, SubSeqProperties
<1>3. SubSeq(s, n + 1, Len(s)) \in Seq(S) /\ Len(SubSeq(s, n + 1, Len(s))) = Len(s) - n
  <2>1. n + 1 \in Int /\ Len(s) \in Int /\ \A j \in n + 1 .. Len(s) : s[j] \in S
    BY <1>1
  <2> QED
    BY <2>1, SubSeqProperties
<1>4. SubSeq(s, 1, n) \o SubSeq(s, n + 1, Len(s)) = s
  <2>1. 1 \in 1 .. Len(s) + 1 /\ n \in 1 - 1 .. Len(s) /\ Len(s) \in n .. Len(s)
    BY <1>1
  <2>2. SubSeq(s, 1, n) \o SubSeq(s, n + 1, Len(s)) = SubSeq(s, 1, Len(s))
    BY <2>1, ConcatAdjacentSubSeq
  <2> QED
    BY <2>2, SubSeqFull
<1> QED
  BY <1>2, <1>3, <1>4

(* What lies at the front of a stream can be taken from its first part, if *)
(* that is long enough.                                                    *)
LEMMA FrontTaken ==
  ASSUME NEW s \in Seq(Pieces), NEW t \in Seq(Pieces), NEW front \in Seq(Pieces),
         NEW back \in Seq(Pieces), s \o t = front \o back, Len(front) <= Len(s)
  PROVE  /\ SubSeq(s, Len(front) + 1, Len(s)) \in Seq(Pieces)
         /\ Len(SubSeq(s, Len(front) + 1, Len(s))) = Len(s) - Len(front)
         /\ SubSeq(s, Len(front) + 1, Len(s)) \o t = back
<1> DEFINE n == Len(front)
           tail == SubSeq(s, n + 1, Len(s))
           x == tail \o t
<1>1. n \in Nat /\ Len(s) \in Nat /\ Len(t) \in Nat /\ Len(back) \in Nat /\ n <= Len(s)
  BY LenProperties
<1>2. tail \in Seq(Pieces) /\ Len(tail) = Len(s) - n
  BY <1>1, Parted
<1>3. \A i \in 1 .. Len(s) - n : tail[i] = s[n + i]
  <2>1. n + 1 \in Int /\ Len(s) \in Int /\ \A j \in n + 1 .. Len(s) : s[j] \in Pieces
    BY <1>1, LenProperties
  <2>2. \A i \in 1 .. (Len(s) - (n + 1)) + 1 : tail[i] = s[((n + 1) + i) - 1]
    BY <2>1, SubSeqProperties
  <2> HIDE DEF tail, n
  <2>3. ASSUME NEW i \in 1 .. Len(s) - n PROVE tail[i] = s[n + i]
    <3>1. i \in 1 .. (Len(s) - (n + 1)) + 1 /\ ((n + 1) + i) - 1 = n + i
      BY <1>1
    <3> QED
      BY <2>2, <3>1
  <2> QED
    BY <2>3
<1>4. /\ s \o t \in Seq(Pieces) /\ Len(s \o t) = Len(s) + Len(t)
      /\ \A i \in 1 .. Len(s) + Len(t) : (s \o t)[i] = IF i <= Len(s) THEN s[i] ELSE t[i - Len(s)]
  BY ConcatProperties
<1>5. /\ Len(s \o t) = n + Len(back)
      /\ \A i \in 1 .. n + Len(back) : (s \o t)[i] = IF i <= n THEN front[i] ELSE back[i - n]
  <2>1. /\ Len(front \o back) = Len(front) + Len(back)
        /\ \A i \in 1 .. Len(front) + Len(back) :
             (front \o back)[i] = IF i <= Len(front) THEN front[i] ELSE back[i - Len(front)]
    BY ConcatProperties
  <2> QED
    BY <2>1
<1>6. /\ x \in Seq(Pieces) /\ Len(x) = Len(tail) + Len(t)
      /\ \A i \in 1 .. Len(tail) + Len(t) : x[i] = IF i <= Len(tail) THEN tail[i] ELSE t[i - Len(tail)]
  <2> HIDE DEF tail
  <2> QED
    BY <1>2, ConcatProperties
<1> DEFINE st == s \o t
<1> HIDE DEF tail, n, x, st
<1>7. Len(x) = Len(back)
  BY <1>1, <1>2, <1>4, <1>5, <1>6
<1>8. ASSUME NEW i \in 1 .. Len(x) PROVE x[i] = back[i]
  <2>1. n + i \in 1 .. n + Len(back) /\ ~ (n + i <= n) /\ (n + i) - n = i
    BY <1>1, <1>7
  <2>2. (s \o t)[n + i] = back[i]
    BY <2>1, <1>5
  <2>3. n + i \in 1 .. Len(s) + Len(t)
    BY <2>1, <1>1, <1>4, <1>5
  <2>4. CASE i <= Len(tail)
    <3>1. x[i] = tail[i] /\ tail[i] = s[n + i] /\ n + i <= Len(s)
      BY <2>4, <1>1, <1>2, <1>3, <1>6
    <3> QED
      BY <3>1, <2>2, <2>3, <1>4
  <2>5. CASE ~ (i <= Len(tail))
    <3>1. x[i] = t[i - Len(tail)]
      BY <2>5, <1>6
    <3>2. ~ (n + i <= Len(s)) /\ (n + i) - Len(s) = i - Len(tail)
      BY <2>5, <1>1, <1>2
    <3> QED
      BY <3>1, <3>2, <2>2, <2>3, <1>4
  <2> QED
    BY <2>4, <2>5
<1>9. x = back
  BY <1>6, <1>7, <1>8, SeqEqual
<1> QED
  BY <1>2, <1>9 DEF tail, n, x

(* A command is a piece. *)
LEMMA CommandsArePieces ==
  /\ Commands \subseteq Pieces
  /\ \A s \in Seq(Commands) : s \in Seq(Pieces)
<1>1. Commands \subseteq Pieces
  BY DEF Pieces
<1> QED
  BY <1>1, SeqMonotonic

(* Commands put together are commands. *)
LEMMA CommandsJoined ==
  ASSUME NEW s \in Seq(Commands), NEW t \in Seq(Commands)
  PROVE  s \o t \in Seq(Commands) /\ s \o << >> = s /\ << >> \o s = s /\ << >> \in Seq(Commands)
BY ConcatProperties, ConcatEmptySeq, EmptySeq

(* A block has Parts pieces. *)
LEMMA BlockIs ==
  ASSUME NEW name \in {"C1", "C2", "S1", "S2"}
  PROVE  /\ Block(name) \in Seq(Pieces) /\ Len(Block(name)) = Parts
         /\ Block(name)[1] = name /\ Block(name) # << >>
<1>1. Parts \in Nat /\ Parts >= 1
  BY ConnectAssumption
<1>2. Block(name) \in [1 .. Parts -> Pieces]
  BY DEF Block, Pieces
<1>3. Block(name) \in Seq(Pieces) /\ Len(Block(name)) = Parts
  BY <1>1, <1>2
<1>4. Block(name)[1] = name
  BY <1>1 DEF Block
<1>5. Len(<< >>) = 0
  BY EmptySeq
<1> QED
  BY <1>1, <1>3, <1>4, <1>5

(* The blocks that an end sends, one by one. *)
LEMMA BlocksAre ==
  ASSUME NEW e \in Ends
  PROVE  /\ \A a \in 0 .. 2, b \in 0 .. 2 : Blocks(e, a, b) \in Seq(Pieces)
         /\ \A a \in 0 .. 2 : Blocks(e, a, a) = << >>
         /\ Blocks(e, 0, 1) = Block(IF e = "client" THEN "C1" ELSE "S1")
         /\ Blocks(e, 1, 2) = Block(IF e = "client" THEN "C2" ELSE "S2")
         /\ Blocks(e, 0, 2) = Blocks(e, 0, 1) \o Blocks(e, 1, 2)
<1> DEFINE first == Block(IF e = "client" THEN "C1" ELSE "S1")
           second == Block(IF e = "client" THEN "C2" ELSE "S2")
<1>1. first \in Seq(Pieces) /\ second \in Seq(Pieces) /\ << >> \in Seq(Pieces)
  BY BlockIs, EmptySeq
<1> HIDE DEF first, second
<1>2. \A a \in 0 .. 2, b \in 0 .. 2 :
        Blocks(e, a, b) = (IF a = 0 /\ b >= 1 THEN first ELSE << >>)
                            \o (IF a <= 1 /\ b = 2 THEN second ELSE << >>)
  BY DEF Blocks, first, second
<1>3. \A a \in 0 .. 2, b \in 0 .. 2 : Blocks(e, a, b) \in Seq(Pieces)
  <2> TAKE a \in 0 .. 2, b \in 0 .. 2
  <2> DEFINE x == IF a = 0 /\ b >= 1 THEN first ELSE << >>
             y == IF a <= 1 /\ b = 2 THEN second ELSE << >>
  <2>1. x \in Seq(Pieces) /\ y \in Seq(Pieces)
    BY <1>1
  <2>2. Blocks(e, a, b) = x \o y
    BY <1>2
  <2> HIDE DEF x, y
  <2> QED
    BY <2>1, <2>2, ConcatProperties
<1>4. << >> \o << >> = << >> /\ first \o << >> = first /\ << >> \o second = second
  BY <1>1, JoinedToNone
<1>5. \A a \in 0 .. 2 : Blocks(e, a, a) = << >>
  <2> TAKE a \in 0 .. 2
  <2>1. ~ (a = 0 /\ a >= 1) /\ ~ (a <= 1 /\ a = 2)
    OBVIOUS
  <2> QED
    BY <2>1, <1>2, <1>4
<1>6. Blocks(e, 0, 1) = first /\ Blocks(e, 1, 2) = second /\ Blocks(e, 0, 2) = first \o second
  <2>1. 0 \in 0 .. 2 /\ 1 \in 0 .. 2 /\ 2 \in 0 .. 2
    OBVIOUS
  <2> QED
    BY <2>1, <1>2, <1>4
<1> QED
  BY <1>3, <1>5, <1>6 DEF first, second

(* The blocks up to the b-th and those after it. *)
LEMMA BlocksJoined ==
  ASSUME NEW e \in Ends, NEW a \in 0 .. 2, NEW b \in a .. 2, NEW c \in b .. 2
  PROVE  Blocks(e, a, b) \o Blocks(e, b, c) = Blocks(e, a, c)
<1>1. \A i \in 0 .. 2, j \in 0 .. 2 :
        Blocks(e, i, j) \o << >> = Blocks(e, i, j) /\ << >> \o Blocks(e, i, j) = Blocks(e, i, j)
  BY BlocksAre, JoinedToNone
<1>2. b \in 0 .. 2 /\ c \in 0 .. 2 /\ (a = b \/ b = c \/ (a = 0 /\ b = 1 /\ c = 2))
  OBVIOUS
<1>3. CASE a = b
  BY <1>1, <1>2, <1>3, BlocksAre
<1>4. CASE b = c
  BY <1>1, <1>2, <1>4, BlocksAre
<1>5. CASE a = 0 /\ b = 1 /\ c = 2
  BY <1>5, BlocksAre
<1> QED
  BY <1>2, <1>3, <1>4, <1>5

(* The counts of blocks follow from the state of the handshake. *)
LEMMA BlockCounts ==
  ASSUME NEW e \in Ends, NEW st, EndOk(e, st)
  PROVE  /\ BlocksSent(st) \in 0 .. 2 /\ BlocksTaken(st) \in 0 .. 2
         /\ st.ctx \in {"handshake", "message"}
         /\ st.ctx = "message" => BlocksSent(st) = 2 /\ BlocksTaken(st) = 2
         /\ st.ctx = "handshake" => BlocksTaken(st) < 2
BY DEF EndOk, EndRecords, BlocksSent, BlocksTaken

(* What an end has written or has still to write is pieces. *)
LEMMA OutgoingIs ==
  ASSUME NEW st \in EndRecords
  PROVE  /\ st.out \in Seq(Pieces) /\ st.io \in Seq(Pieces) /\ st.queue \in Seq(Pieces)
         /\ st.queue \in Seq(Commands) /\ st.io \o st.queue \in Seq(Pieces)
         /\ Outgoing(st) \in Seq(Pieces)
         /\ Outgoing(st) = (st.out \o st.io) \o st.queue
<1>1. /\ st.out \in Seq(Pieces) /\ st.io \in Seq(Pieces) /\ st.queue \in Seq(Pieces)
      /\ st.queue \in Seq(Commands)
  BY CommandsArePieces DEF EndRecords
<1>2. st.io \o st.queue \in Seq(Pieces) /\ st.out \o (st.io \o st.queue) \in Seq(Pieces)
  BY <1>1, ConcatProperties
<1>3. (st.out \o st.io) \o st.queue = st.out \o (st.io \o st.queue)
  <2>1. AreSeqs(st.out, st.io, st.queue)
    BY <1>1 DEF AreSeqs
  <2>2. Associates(st.out, st.io, st.queue)
    BY <2>1, Joined
  <2> QED
    BY <2>2 DEF Associates
<1> QED
  BY <1>1, <1>2, <1>3 DEF Outgoing

(* From st to t end e has only put blocks and commands behind what it      *)
(* sends.                                                                  *)
Emitted(e, st, t) ==
  /\ BlocksSent(st) <= BlocksSent(t)
  /\ st.ctx = "message" => t.ctx = "message"
  /\ st.strayed => t.strayed
  /\ ~t.strayed => \E cs \in Seq(Commands) :
       /\ Outgoing(t) = (Outgoing(st) \o Blocks(e, BlocksSent(st), BlocksSent(t))) \o cs
       /\ t.ctx = "handshake" => cs = << >>

(* What an end sends goes on with it. *)
LEMMA EmittedIsCarried ==
  ASSUME NEW e \in Ends, NEW st, NEW t, EndOk(e, st), EndOk(e, t), Emitted(e, st, t),
         NEW in \in Seq(Pieces), NEW a \in 0 .. 2, Carries(e, st, in, a)
  PROVE  Carries(e, [t EXCEPT !.out = << >>], in \o t.out, a)
<1> DEFINE s == BlocksSent(st)
           r == BlocksSent(t)
           u == [t EXCEPT !.out = << >>]
<1>a. CASE t.strayed
  <2>1. t \in EndRecords
    BY DEF EndOk
  <2>2. u.strayed
    BY <1>a, <2>1 DEF EndRecords
  <2> HIDE DEF u
  <2>3. Carries(e, u, in \o t.out, a)
    BY <2>2 DEF Carries
  <2> QED
    BY <2>3 DEF u
<1> SUFFICES ASSUME ~t.strayed PROVE Carries(e, u, in \o t.out, a)
  BY <1>a
<1>b. ~st.strayed
  BY DEF Emitted
<1>1. s \in 0 .. 2 /\ r \in 0 .. 2 /\ a <= s /\ s <= r /\ st \in EndRecords /\ t \in EndRecords
  BY <1>b, BlockCounts DEF Emitted, Carries, EndOk
<1>2. PICK c1 \in Seq(Commands) : /\ in \o Outgoing(st) = Blocks(e, a, s) \o c1
                                  /\ st.ctx = "handshake" => c1 = << >>
  BY <1>b DEF Carries
<1>3. PICK c2 \in Seq(Commands) : /\ Outgoing(t) = (Outgoing(st) \o Blocks(e, s, r)) \o c2
                                  /\ t.ctx = "handshake" => c2 = << >>
  BY DEF Emitted
<1>4. BlocksSent(u) = r /\ u.ctx = t.ctx /\ u.out = << >> /\ u.io = t.io /\ u.queue = t.queue
  BY <1>1 DEF BlocksSent, EndRecords
<1>5. /\ Outgoing(st) \in Seq(Pieces) /\ t.out \in Seq(Pieces) /\ t.io \o t.queue \in Seq(Pieces)
      /\ c1 \in Seq(Pieces) /\ c2 \in Seq(Pieces)
      /\ Blocks(e, a, s) \in Seq(Pieces) /\ Blocks(e, s, r) \in Seq(Pieces)
      /\ Blocks(e, a, r) \in Seq(Pieces)
  BY <1>1, OutgoingIs, CommandsArePieces, BlocksAre
<1>6. (in \o t.out) \o Outgoing(u) = in \o Outgoing(t)
  <2>1. Outgoing(u) = t.io \o t.queue
    BY <1>4, <1>5, JoinedToNone DEF Outgoing
  <2>2. Outgoing(t) = t.out \o (t.io \o t.queue)
    BY DEF Outgoing
  <2>3. (in \o t.out) \o (t.io \o t.queue) = in \o (t.out \o (t.io \o t.queue))
    <3>1. AreSeqs(in, t.out, t.io \o t.queue)
      BY <1>5 DEF AreSeqs
    <3>2. Associates(in, t.out, t.io \o t.queue)
      BY <3>1, Joined
    <3> QED
      BY <3>2 DEF Associates
  <2> QED
    BY <2>1, <2>2, <2>3
<1> DEFINE out1 == Outgoing(st)
           b1 == Blocks(e, a, s)
           b2 == Blocks(e, s, r)
<1> HIDE DEF s, r, u, b1, b2, out1
<1>7. in \o Outgoing(t) = ((b1 \o c1) \o b2) \o c2
  <2>1. Outgoing(t) = (out1 \o b2) \o c2 /\ in \o out1 = b1 \o c1
    BY <1>2, <1>3 DEF out1, b1, b2
  <2>2. /\ in \in Seq(Pieces) /\ out1 \in Seq(Pieces) /\ b2 \in Seq(Pieces) /\ c2 \in Seq(Pieces)
        /\ out1 \o b2 \in Seq(Pieces)
    BY <1>5, ConcatProperties DEF out1, b2
  <2>3. in \o ((out1 \o b2) \o c2) = (in \o (out1 \o b2)) \o c2
    <3>1. AreSeqs(in, out1 \o b2, c2)
      BY <2>2 DEF AreSeqs
    <3>2. Associates(in, out1 \o b2, c2)
      BY <3>1, Joined
    <3> QED
      BY <3>2 DEF Associates
  <2>4. in \o (out1 \o b2) = (in \o out1) \o b2
    <3>1. AreSeqs(in, out1, b2)
      BY <2>2 DEF AreSeqs
    <3>2. Associates(in, out1, b2)
      BY <3>1, Joined
    <3> QED
      BY <3>2 DEF Associates
  <2> QED
    BY <2>1, <2>3, <2>4
<1>8. b1 \o b2 = Blocks(e, a, r)
  <2>1. s \in a .. 2 /\ r \in s .. 2
    BY <1>1
  <2> QED
    BY <2>1, BlocksJoined DEF b1, b2
<1>9. b1 \in Seq(Pieces) /\ b2 \in Seq(Pieces)
  BY <1>5 DEF b1, b2
<1>10. \E cs \in Seq(Commands) : /\ in \o Outgoing(t) = Blocks(e, a, r) \o cs
                                 /\ t.ctx = "handshake" => cs = << >>
  <2>1. CASE st.ctx = "handshake"
    <3>1. (b1 \o c1) \o b2 = Blocks(e, a, r)
      BY <2>1, <1>2, <1>8, <1>9, JoinedToNone
    <3> QED
      BY <3>1, <1>3, <1>7
  <2>2. CASE st.ctx = "message"
    <3>1. s = 2 /\ r = 2 /\ t.ctx = "message"
      BY <2>2, <1>1, BlockCounts DEF s, r, Emitted
    <3>2. b2 = << >>
      BY <3>1, BlocksAre DEF b2
    <3>3. (b1 \o c1) \o b2 = b1 \o c1 /\ b1 = Blocks(e, a, r)
      <4>1. b1 \o c1 \in Seq(Pieces)
        BY <1>5, <1>9, ConcatProperties
      <4>2. (b1 \o c1) \o << >> = b1 \o c1
        BY <4>1, JoinedToNone
      <4>3. b1 = Blocks(e, a, r)
        BY <3>1 DEF b1
      <4> QED
        BY <3>2, <4>2, <4>3
    <3>4. (b1 \o c1) \o c2 = b1 \o (c1 \o c2)
      <4>1. AreSeqs(b1, c1, c2)
        BY <1>5, <1>9 DEF AreSeqs
      <4>2. Associates(b1, c1, c2)
        BY <4>1, Joined
      <4> QED
        BY <4>2 DEF Associates
    <3>5. c1 \o c2 \in Seq(Commands)
      BY CommandsJoined
    <3>6. in \o Outgoing(t) = Blocks(e, a, r) \o (c1 \o c2)
      BY <3>3, <3>4, <1>7
    <3> QED
      BY <3>1, <3>5, <3>6
  <2> QED
    BY <2>1, <2>2, BlockCounts
<1>11. a <= r
  BY <1>1
<1>12. BlocksSent(u) = r /\ u.ctx = t.ctx /\ (in \o t.out) \o Outgoing(u) = in \o Outgoing(t)
  BY <1>4, <1>6
<1>13. Carries(e, u, in \o t.out, a)
  BY <1>10, <1>11, <1>12 DEF Carries
<1> QED
  BY <1>13 DEF u

(* A whole block that has arrived is the next block of the peer, and what  *)
(* comes behind it is what the peer sends next.                            *)
LEMMA BlockTaken ==
  ASSUME NEW p \in Ends, NEW st, EndOk(p, st), NEW buf \in Seq(Pieces), NEW in \in Seq(Pieces),
         NEW a \in 0 .. 1, Carries(p, st, buf \o in, a), Len(buf) >= Parts
  PROVE  /\ SubSeq(buf, Parts + 1, Len(buf)) \in Seq(Pieces)
         /\ Len(SubSeq(buf, Parts + 1, Len(buf))) = Len(buf) - Parts
         /\ Carries(p, st, SubSeq(buf, Parts + 1, Len(buf)) \o in, a + 1)
<1> DEFINE s == BlocksSent(st)
           o == Outgoing(st)
           io == in \o o
           front == Blocks(p, a, a + 1)
           rest1 == Blocks(p, a + 1, s)
           after == SubSeq(buf, Parts + 1, Len(buf))
<1>a. after \in Seq(Pieces) /\ Len(after) = Len(buf) - Parts
  <2>1. Parts \in 0 .. Len(buf)
    BY ConnectAssumption, LenProperties
  <2> QED
    BY <2>1, Parted
<1>b. CASE st.strayed
  BY <1>a, <1>b DEF Carries
<1> SUFFICES ASSUME ~st.strayed PROVE Carries(p, st, after \o in, a + 1)
  BY <1>a, <1>b
<1>1. s \in 0 .. 2 /\ a <= s /\ st \in EndRecords /\ Parts \in Nat /\ Parts >= 1
  BY BlockCounts, ConnectAssumption DEF EndOk, Carries
<1>2. PICK cs \in Seq(Commands) : /\ (buf \o in) \o o = Blocks(p, a, s) \o cs
                                  /\ st.ctx = "handshake" => cs = << >>
  BY DEF Carries
<1>3. o \in Seq(Pieces) /\ cs \in Seq(Pieces)
  BY <1>1, OutgoingIs, CommandsArePieces
<1> HIDE DEF o
<1>4. io \in Seq(Pieces) /\ (buf \o in) \o o = buf \o io
  <2>1. AreSeqs(buf, in, o)
    BY <1>3 DEF AreSeqs
  <2>2. (buf \o in) \o o = buf \o io
    <3>1. Associates(buf, in, o)
      BY <2>1, Joined
    <3> QED
      BY <3>1 DEF Associates
  <2>3. io \in Seq(Pieces)
    BY <1>3, ConcatProperties
  <2> QED
    BY <2>2, <2>3
<1>5. buf # << >>
  <2>1. Len(<< >>) = 0
    BY EmptySeq
  <2> QED
    BY <2>1, <1>1
<1> HIDE DEF io, s
<1>6. a + 1 <= s
  <2> SUFFICES ASSUME a = s PROVE FALSE
    BY <1>1
  <2>1. st.ctx = "handshake"
    BY <1>1, BlockCounts DEF s
  <2>2. a \in 0 .. 2
    OBVIOUS
  <2>3. Blocks(p, a, s) = << >> /\ cs = << >>
    BY <2>1, <2>2, <1>2, BlocksAre
  <2>4. buf \o io = << >>
    BY <2>3, <1>2, <1>4, <1>3, JoinedToNone
  <2> QED
    BY <2>4, <1>4, <1>5, JoinedIs
<1>7. front \in Seq(Pieces) /\ rest1 \in Seq(Pieces) /\ front \o rest1 = Blocks(p, a, s)
  <2>1. a \in 0 .. 2 /\ a + 1 \in 0 .. 2 /\ a + 1 \in a .. 2 /\ s \in a + 1 .. 2 /\ s \in 0 .. 2
    BY <1>1, <1>6
  <2> QED
    BY <2>1, BlocksAre, BlocksJoined
<1>8. Len(front) = Parts
  <2>1. a = 0 \/ a = 1
    OBVIOUS
  <2>2. CASE a = 0
    <3>1. 0 + 1 = 1
      OBVIOUS
    <3> QED
      BY <3>1, <2>2, BlocksAre, BlockIs
  <2>3. CASE a = 1
    <3>1. 1 + 1 = 2
      OBVIOUS
    <3> QED
      BY <3>1, <2>3, BlocksAre, BlockIs
  <2> QED
    BY <2>1, <2>2, <2>3
<1> HIDE DEF front, rest1
<1>9. rest1 \o cs \in Seq(Pieces) /\ buf \o io = front \o (rest1 \o cs)
  <2>1. rest1 \o cs \in Seq(Pieces)
    BY <1>3, <1>7, ConcatProperties
  <2>2. (front \o rest1) \o cs = front \o (rest1 \o cs)
    <3>1. AreSeqs(front, rest1, cs)
      BY <1>3, <1>7 DEF AreSeqs
    <3>2. Associates(front, rest1, cs)
      BY <3>1, Joined
    <3> QED
      BY <3>2 DEF Associates
  <2> QED
    BY <2>1, <2>2, <1>2, <1>4, <1>7
<1>10. /\ after \in Seq(Pieces) /\ Len(after) = Len(buf) - Parts
       /\ after \o io = rest1 \o cs
  <2>1. Len(front) <= Len(buf)
    BY <1>8
  <2> DEFINE back == rest1 \o cs
             x == SubSeq(buf, Len(front) + 1, Len(buf))
  <2>2. back \in Seq(Pieces) /\ buf \o io = front \o back
    BY <1>9
  <2> HIDE DEF back, after
  <2>3. /\ x \in Seq(Pieces) /\ Len(x) = Len(buf) - Len(front)
        /\ x \o io = back
    <3>1. buf \in Seq(Pieces) /\ io \in Seq(Pieces) /\ front \in Seq(Pieces)
      BY <1>4, <1>7
    <3> QED
      BY <2>1, <2>2, <3>1, FrontTaken
  <2>4. x = after
    BY <1>8 DEF after
  <2> QED
    BY <2>3, <2>4, <1>8 DEF back
<1> HIDE DEF after
<1>11. (after \o in) \o o = rest1 \o cs
  <2>1. AreSeqs(after, in, o)
    BY <1>10, <1>3 DEF AreSeqs
  <2>2. (after \o in) \o o = after \o io
    <3>1. Associates(after, in, o)
      BY <2>1, Joined
    <3> QED
      BY <3>1 DEF Associates, io
  <2> QED
    BY <2>2, <1>10
<1>12. Carries(p, st, after \o in, a + 1)
  BY <1>2, <1>6, <1>11 DEF Carries, rest1, s, o
<1> QED
  BY <1>12 DEF after

(* Once the handshake is done everything that arrives is commands.         *)
LEMMA MessageTaken ==
  ASSUME NEW p \in Ends, NEW st, EndOk(p, st), ~st.strayed,
         NEW buf \in Seq(Pieces), NEW in \in Seq(Pieces),
         Carries(p, st, buf \o in, 2)
  PROVE  /\ \A i \in 1 .. Len(buf \o in) : (buf \o in)[i] \in Commands
         /\ buf # << >> => /\ Head(buf) \in Commands /\ Tail(buf) \in Seq(Pieces)
                           /\ Carries(p, st, Tail(buf) \o in, 2)
<1> DEFINE o == Outgoing(st)
           io == in \o o
           bi == buf \o in
<1>1. BlocksSent(st) = 2 /\ st \in EndRecords
  <2>1. 2 <= BlocksSent(st)
    BY DEF Carries
  <2>2. BlocksSent(st) \in 0 .. 2 /\ st \in EndRecords
    BY BlockCounts DEF EndOk
  <2> QED
    BY <2>1, <2>2
<1>2. PICK cs \in Seq(Commands) : /\ bi \o o = Blocks(p, 2, 2) \o cs
                                  /\ st.ctx = "handshake" => cs = << >>
  BY <1>1 DEF Carries
<1>3. o \in Seq(Pieces) /\ cs \in Seq(Pieces) /\ bi \in Seq(Pieces)
  BY <1>1, OutgoingIs, CommandsArePieces, ConcatProperties
<1> HIDE DEF o
<1>4. Blocks(p, 2, 2) = << >>
  BY BlocksAre
<1>5. bi \o o = cs
  BY <1>2, <1>3, <1>4, JoinedToNone
<1>6. io \in Seq(Pieces) /\ bi \o o = buf \o io
  <2>1. AreSeqs(buf, in, o)
    BY <1>1, <1>3 DEF AreSeqs
  <2>2. (buf \o in) \o o = buf \o io
    <3>1. Associates(buf, in, o)
      BY <2>1, Joined
    <3> QED
      BY <3>1 DEF Associates
  <2>3. io \in Seq(Pieces)
    BY <1>3, ConcatProperties
  <2> QED
    BY <2>2, <2>3
<1> HIDE DEF bi
<1>7. \A i \in 1 .. Len(bi) : bi[i] \in Commands
  <2> TAKE i \in 1 .. Len(bi)
  <2>1. Len(bi) \in Nat /\ Len(o) \in Nat /\ Len(cs) = Len(bi) + Len(o)
    BY <1>3, <1>5, JoinedIs
  <2>2. cs[i] = bi[i]
    <3>1. \A j \in 1 .. Len(bi) + Len(o) : (bi \o o)[j] = IF j <= Len(bi) THEN bi[j] ELSE o[j - Len(bi)]
      BY <1>3, ConcatProperties
    <3> QED
      BY <3>1, <2>1, <1>5
  <2>3. i \in 1 .. Len(cs)
    BY <2>1
  <2>4. cs[i] \in Commands
    BY <2>3, ElementOfSeq
  <2> QED
    BY <2>2, <2>4
<1> HIDE DEF io
<1>8. ASSUME buf # << >>
      PROVE  /\ Head(buf) \in Commands /\ Tail(buf) \in Seq(Pieces)
             /\ Carries(p, st, Tail(buf) \o in, 2)
  <2> DEFINE c == cs[1]
             front == << c >>
             back == Tail(cs)
             after == SubSeq(buf, 2, Len(buf))
  <2>1. cs # << >> /\ cs[1] = buf[1]
    BY <1>5, <1>6, <1>8, JoinedIs
  <2>2. c \in Commands /\ back \in Seq(Commands) /\ back = SubSeq(cs, 2, Len(cs)) /\ Len(cs) >= 1
    <3>1. Head(cs) \in Commands /\ Tail(cs) \in Seq(Commands)
      BY <2>1, HeadTailProperties
    <3>2. Tail(cs) = SubSeq(cs, 2, Len(cs))
      BY <2>1, TailIsSubSeq
    <3>3. Len(cs) \in Nat \ {0}
      BY <2>1, EmptySeq
    <3> QED
      BY <3>1, <3>2, <3>3
  <2>3. front \o back = cs
    <3>1. 1 \in 1 .. Len(cs) /\ Len(cs) \in 1 .. Len(cs) /\ 1 + 1 = 2
      BY <2>2, LenProperties
    <3>2. SubSeq(cs, 1, Len(cs)) = << cs[1] >> \o SubSeq(cs, 1 + 1, Len(cs))
      BY <3>1, SubSeqRecursiveFirst
    <3>3. SubSeq(cs, 1, Len(cs)) = cs
      BY SubSeqFull
    <3> QED
      BY <3>1, <3>2, <3>3, <2>2
  <2>4. front \in Seq(Pieces) /\ Len(front) = 1 /\ back \in Seq(Pieces)
    BY <2>2, CommandsArePieces
  <2>5. Len(buf) \in Nat \ {0}
    BY <1>8, EmptySeq
  <2>6. Head(buf) \in Commands /\ Tail(buf) \in Seq(Pieces) /\ Tail(buf) = after
    BY <1>8, <2>1, <2>2, HeadTailProperties, TailIsSubSeq
  <2> HIDE DEF front, back, after
  <2>7. after \o io = back
    <3>1. buf \o io = front \o back
      BY <1>5, <1>6, <2>3
    <3>3. Len(front) <= Len(buf) /\ Len(front) + 1 = 2
      BY <2>4, <2>5
    <3>2. SubSeq(buf, Len(front) + 1, Len(buf)) \o io = back
      <4>1. buf \in Seq(Pieces) /\ io \in Seq(Pieces) /\ front \in Seq(Pieces) /\ back \in Seq(Pieces)
        BY <1>6, <2>4
      <4>2. Len(front) <= Len(buf)
        BY <3>3
      <4> QED
        BY <3>1, <4>1, <4>2, FrontTaken, Zenon
    <3> QED
      BY <3>3, <3>2 DEF after
  <2>8. (after \o in) \o o = back
    <3>1. (after \o in) \o o = after \o io
      <4>1. AreSeqs(after, in, o)
        BY <1>3, <2>6 DEF AreSeqs
      <4>2. Associates(after, in, o)
        BY <4>1, Joined
      <4> QED
        BY <4>2 DEF Associates, io
    <3> QED
      BY <3>1, <2>7
  <2>9. << >> \o back = back
    BY <2>4, JoinedToNone
  <2>10. st.ctx = "handshake" => back = << >>
    BY <1>2, <2>1
  <2>11. Carries(p, st, after \o in, 2)
    <3>1. /\ back \in Seq(Commands) /\ (after \o in) \o Outgoing(st) = Blocks(p, 2, BlocksSent(st)) \o back
      BY <2>2, <2>8, <2>9, <1>1, <1>4 DEF o, back
    <3> QED
      BY <3>1, <2>10, <1>1 DEF Carries
  <2> QED
    BY <2>6, <2>11
<1> QED
  BY <1>7, <1>8 DEF bi

-----------------------------------------------------------------------------
(* Sending commands.                                                        *)

(* From st to t commands were queued, and some of the queue was handed to  *)
(* the connection.                                                         *)
Queued(st, t) ==
  /\ t \in EndRecords /\ Completes(t)
  /\ t.hs = st.hs /\ t.ctx = st.ctx /\ t.buf = st.buf /\ t.out = st.out
  /\ t.garbled = st.garbled /\ t.strayed = st.strayed
  /\ \E cs \in Seq(Commands) : t.io \o t.queue = (st.io \o st.queue) \o cs

(* RtmpContext::Send hands over the queue from its front. *)
LEMMA SendDoes ==
  ASSUME NEW st \in EndRecords, ~st.sending, st.queue # << >>
  PROVE  LET t == Send(st)
         IN  /\ t \in EndRecords /\ Completes(t)
             /\ t.hs = st.hs /\ t.ctx = st.ctx /\ t.buf = st.buf /\ t.out = st.out
             /\ t.garbled = st.garbled /\ t.strayed = st.strayed
             /\ t.io \o t.queue = st.io \o st.queue
<1> DEFINE q == st.queue
           b == IF Len(q) < 10 THEN Len(q) ELSE 10
           x == SubSeq(q, 1, b)
           y == SubSeq(q, b + 1, Len(q))
<1>1. q \in Seq(Commands) /\ st.io \in Seq(Pieces)
  BY DEF EndRecords
<1>2. Len(q) \in Nat \ {0} /\ b \in 0 .. Len(q) /\ b >= 1
  BY <1>1, EmptySeq
<1>3. /\ x \in Seq(Commands) /\ Len(x) = b /\ y \in Seq(Commands) /\ x \o y = q
  <2> HIDE DEF q, b
  <2> QED
    BY <1>1, <1>2, Parted
<1>4. Send(st) = [st EXCEPT !.sending = TRUE, !.writing = TRUE, !.io = st.io \o x, !.queue = y]
  BY DEF Send
<1>5. x \in Seq(Pieces) /\ y \in Seq(Pieces)
  BY <1>3, CommandsArePieces
<1>6. x # << >>
  <2>1. Len(<< >>) = 0
    BY EmptySeq
  <2> QED
    BY <2>1, <1>2, <1>3
<1> DEFINE io == st.io \o x
           t == Send(st)
<1> HIDE DEF q, b, x, y
<1>7. io \in Seq(Pieces) /\ io # << >>
  BY <1>1, <1>5, <1>6, JoinedIs
<1>8. io \o y = st.io \o q
  <2>1. AreSeqs(st.io, x, y)
    BY <1>1, <1>5 DEF AreSeqs
  <2>2. io \o y = st.io \o (x \o y)
    <3>1. Associates(st.io, x, y)
      BY <2>1, Joined
    <3> QED
      BY <3>1 DEF Associates
  <2> QED
    BY <2>2, <1>3
<1> HIDE DEF io
<1>9. t = [st EXCEPT !.sending = TRUE, !.writing = TRUE, !.io = io, !.queue = y]
  BY <1>4 DEF io
<1> HIDE DEF t
<1>10. /\ t \in EndRecords /\ t.sending /\ t.writing /\ t.io = io /\ t.queue = y
       /\ t.hs = st.hs /\ t.ctx = st.ctx /\ t.buf = st.buf /\ t.out = st.out
       /\ t.garbled = st.garbled /\ t.strayed = st.strayed
  BY <1>3, <1>7, <1>9 DEF EndRecords
<1>11. Completes(t)
  BY <1>7, <1>10 DEF Completes
<1>12. t.io \o t.queue = st.io \o st.queue
  BY <1>8, <1>10 DEF q
<1> QED
  BY <1>10, <1>11, <1>12 DEF t

(* PushOutQueue queues one command. *)
LEMMA PushOutQueueDoes ==
  ASSUME NEW st \in EndRecords, Completes(st), NEW m \in Commands
  PROVE  Queued(st, PushOutQueue(st, m))
<1> DEFINE q == Append(st.queue, m)
           u == [st EXCEPT !.queue = q]
           t == PushOutQueue(st, m)
<1>1. st.queue \in Seq(Commands) /\ st.io \in Seq(Pieces) /\ st.queue \in Seq(Pieces)
  BY OutgoingIs
<1>2. q \in Seq(Commands) /\ q # << >> /\ q = st.queue \o << m >>
  BY <1>1, AppendProperties, AppendIsConcat
<1>3. << m >> \in Seq(Commands)
  OBVIOUS
<1>4. t = Send(u)
  BY DEF PushOutQueue
<1> HIDE DEF q
<1>5. /\ u \in EndRecords /\ u.queue = q /\ u.io = st.io /\ u.sending = st.sending
      /\ u.writing = st.writing /\ u.hs = st.hs /\ u.ctx = st.ctx /\ u.buf = st.buf
      /\ u.out = st.out /\ u.garbled = st.garbled /\ u.strayed = st.strayed
  BY <1>2 DEF EndRecords
<1> HIDE DEF u, t
<1>6. u.io \o u.queue = (st.io \o st.queue) \o << m >>
  <2> DEFINE last1 == << m >>
  <2>1. last1 \in Seq(Pieces)
    BY <1>3, CommandsArePieces
  <2>2. u.io \o u.queue = st.io \o (st.queue \o last1)
    BY <1>2, <1>5
  <2> HIDE DEF last1
  <2>3. (st.io \o st.queue) \o last1 = st.io \o (st.queue \o last1)
    <3>1. AreSeqs(st.io, st.queue, last1)
      BY <2>1, <1>1 DEF AreSeqs
    <3>2. Associates(st.io, st.queue, last1)
      BY <3>1, Joined
    <3> QED
      BY <3>2 DEF Associates
  <2> QED
    BY <2>2, <2>3 DEF last1
<1>7. /\ t \in EndRecords /\ Completes(t)
      /\ t.hs = st.hs /\ t.ctx = st.ctx /\ t.buf = st.buf /\ t.out = st.out
      /\ t.garbled = st.garbled /\ t.strayed = st.strayed /\ t.io \o t.queue = u.io \o u.queue
  <2>1. CASE st.sending
    <3>1. t = u
      BY <2>1, <1>4, <1>5 DEF Send
    <3>2. Completes(u)
      BY <2>1, <1>5 DEF Completes
    <3> QED
      BY <3>1, <3>2, <1>5
  <2>2. CASE ~st.sending
    BY <2>2, <1>2, <1>4, <1>5, SendDoes
  <2> QED
    BY <2>1, <2>2
<1> QED
  BY <1>3, <1>6, <1>7 DEF Queued, t

(* Commands are queued behind commands. *)
LEMMA QueuedMore ==
  ASSUME NEW st \in EndRecords, NEW t, NEW u, Queued(st, t), Queued(t, u)
  PROVE  Queued(st, u)
<1>1. PICK c1 \in Seq(Commands) : t.io \o t.queue = (st.io \o st.queue) \o c1
  BY DEF Queued
<1>2. PICK c2 \in Seq(Commands) : u.io \o u.queue = (t.io \o t.queue) \o c2
  BY DEF Queued
<1> DEFINE x == st.io \o st.queue
<1>3. x \in Seq(Pieces)
  BY OutgoingIs
<1> HIDE DEF x
<1>4. c1 \in Seq(Pieces) /\ c2 \in Seq(Pieces) /\ c1 \o c2 \in Seq(Commands)
  BY CommandsArePieces, CommandsJoined
<1>5. (x \o c1) \o c2 = x \o (c1 \o c2)
  <2>1. AreSeqs(x, c1, c2)
    BY <1>3, <1>4 DEF AreSeqs
  <2>2. Associates(x, c1, c2)
    BY <2>1, Joined
  <2> QED
    BY <2>2 DEF Associates
<1>6. u.io \o u.queue = (st.io \o st.queue) \o (c1 \o c2)
  BY <1>1, <1>2, <1>5 DEF x
<1>7. u \in EndRecords /\ Completes(u)
  BY DEF Queued
<1>8. /\ u.hs = st.hs /\ u.ctx = st.ctx /\ u.buf = st.buf /\ u.out = st.out
      /\ u.garbled = st.garbled /\ u.strayed = st.strayed
  BY DEF Queued
<1> QED
  BY <1>4, <1>6, <1>7, <1>8 DEF Queued

(* Nothing is queued by noting that the stream plays, or counting acks. *)
LEMMA NothingQueued ==
  ASSUME NEW st \in EndRecords, Completes(st), NEW t \in EndRecords,
         t.hs = st.hs, t.ctx = st.ctx, t.buf = st.buf, t.out = st.out,
         t.garbled = st.garbled, t.strayed = st.strayed, t.io = st.io, t.queue = st.queue,
         t.sending = st.sending, t.writing = st.writing
  PROVE  Queued(st, t)
<1>1. st.io \o st.queue \in Seq(Pieces)
  BY OutgoingIs
<1>2. (st.io \o st.queue) \o << >> = st.io \o st.queue /\ << >> \in Seq(Commands)
  BY <1>1, JoinedToNone, EmptySeq
<1>3. t.io \o t.queue = (st.io \o st.queue) \o << >>
  BY <1>2
<1>4. Completes(t)
  BY DEF Completes
<1> QED
  BY <1>2, <1>3, <1>4 DEF Queued

(* Each handler of a message only queues commands. *)
LEMMA MessageCompleteDoes ==
  ASSUME NEW st \in EndRecords, Completes(st)
  PROVE  /\ \A m \in Commands : Queued(st, MessageComplete(st, m))
         /\ Queued(st, SendConnect(st))
         /\ Queued(st, SendBytesRecv(st))
<1>1. \A s \in EndRecords, m \in Commands : Completes(s) => Queued(s, PushOutQueue(s, m))
  BY PushOutQueueDoes
<1>2. /\ \A m \in {"connect", "createStream", "play", "publish", "result1", "result4", "onStatus",
                   Control} : m \in Commands
      /\ \A s, t : Queued(s, t) => t \in EndRecords /\ Completes(t)
  BY DEF Commands, Queued
<1>3. \A s \in EndRecords, m \in Commands :
        Completes(s) => /\ Queued(s, PushOutQueue(s, m))
                        /\ PushOutQueue(s, m) \in EndRecords /\ Completes(PushOutQueue(s, m))
  BY <1>1, <1>2
<1>4. Queued(st, SendConnect(st))
  <2> DEFINE t == PushOutQueue(st, Control)
             u == PushOutQueue(t, "connect")
  <2>1. Queued(st, t) /\ t \in EndRecords /\ Completes(t)
    BY <1>2, <1>3
  <2> HIDE DEF t
  <2>2. Queued(t, u)
    BY <2>1, <1>2, <1>3
  <2> HIDE DEF u
  <2>3. Queued(st, u)
    BY <2>1, <2>2, QueuedMore
  <2> QED
    BY <2>3 DEF u, t, SendConnect, SetChunkSize
<1>5. Queued(st, SendBytesRecv(st))
  <2> DEFINE t == [st EXCEPT !.acks = @ + 1]
             u == PushOutQueue(t, Control)
  <2>1. /\ t \in EndRecords /\ t.hs = st.hs /\ t.ctx = st.ctx /\ t.buf = st.buf /\ t.out = st.out
        /\ t.garbled = st.garbled /\ t.strayed = st.strayed /\ t.io = st.io /\ t.queue = st.queue
        /\ t.sending = st.sending /\ t.writing = st.writing
    <3> DEFINE n == st.acks + 1
    <3>1. n \in Nat
      BY DEF EndRecords
    <3>2. t = [st EXCEPT !.acks = n]
      OBVIOUS
    <3> HIDE DEF n, t
    <3> QED
      BY <3>1, <3>2 DEF EndRecords
  <2> HIDE DEF t
  <2>2. Queued(st, t)
    BY <2>1, NothingQueued
  <2>3. Queued(t, u)
    BY <2>1, <2>2, <1>2, <1>3
  <2> HIDE DEF u
  <2>4. Queued(st, u)
    BY <2>2, <2>3, QueuedMore
  <2> QED
    BY <2>4 DEF u, t, SendBytesRecv
<1>6. Queued(st, HandleConnect(st))
  <2> DEFINE t == PushOutQueue(st, Control)
             u == PushOutQueue(t, Control)
             v == PushOutQueue(u, Control)
             w == PushOutQueue(v, "result1")
  <2>1. Queued(st, t) /\ t \in EndRecords /\ Completes(t)
    BY <1>2, <1>3
  <2> HIDE DEF t
  <2>2. Queued(t, u) /\ u \in EndRecords /\ Completes(u)
    BY <2>1, <1>2, <1>3
  <2> HIDE DEF u
  <2>3. Queued(u, v) /\ v \in EndRecords /\ Completes(v)
    BY <2>2, <1>2, <1>3
  <2> HIDE DEF v
  <2>4. Queued(v, w)
    BY <2>3, <1>2, <1>3
  <2> HIDE DEF w
  <2>5. Queued(st, u)
    BY <2>1, <2>2, QueuedMore
  <2>6. Queued(st, v)
    BY <2>5, <2>3, QueuedMore
  <2>7. Queued(st, w)
    BY <2>6, <2>4, QueuedMore
  <2> QED
    BY <2>7 DEF w, v, u, t, HandleConnect, SetChunkSize, SendSetPeerBandwidth, SendAckWindowSize
<1>7. Queued(st, HandleCreateStream(st))
  BY <1>2, <1>3 DEF HandleCreateStream
<1>8. \A m : Queued(st, HandleResult(st, m))
  BY <1>2, <1>3 DEF HandleResult, SendCreateStream, SendPlay, SendPublish
<1>9. \A s : Queued(st, s) => Queued(st, [s EXCEPT !.playing = TRUE])
  <2> TAKE s
  <2> HAVE Queued(st, s)
  <2> DEFINE t == [s EXCEPT !.playing = TRUE]
  <2>1. s \in EndRecords /\ Completes(s)
    BY <1>2
  <2>2. /\ t \in EndRecords /\ t.hs = s.hs /\ t.ctx = s.ctx /\ t.buf = s.buf /\ t.out = s.out
        /\ t.garbled = s.garbled /\ t.strayed = s.strayed /\ t.io = s.io /\ t.queue = s.queue
        /\ t.sending = s.sending /\ t.writing = s.writing
    BY <2>1 DEF EndRecords
  <2> HIDE DEF t
  <2>3. Queued(s, t)
    BY <2>1, <2>2, NothingQueued
  <2>4. Queued(st, t)
    BY <2>3, QueuedMore
  <2> QED
    BY <2>4 DEF t
<1>10. Queued(st, HandlePlay(st))
  <2> DEFINE t == PushOutQueue(st, Control)
             u == PushOutQueue(t, "onStatus")
  <2>1. Queued(st, t) /\ t \in EndRecords /\ Completes(t)
    BY <1>2, <1>3
  <2> HIDE DEF t
  <2>2. Queued(t, u)
    BY <2>1, <1>2, <1>3
  <2> HIDE DEF u
  <2>3. Queued(st, u)
    BY <2>1, <2>2, QueuedMore
  <2>4. Queued(st, [u EXCEPT !.playing = TRUE])
    BY <2>3, <1>9
  <2> QED
    BY <2>4 DEF u, t, HandlePlay, SendStatus, SendUserCtrlMessage
<1>11. Queued(st, HandlePublish(st))
  <2> DEFINE t == PushOutQueue(st, "onStatus")
  <2>1. Queued(st, t)
    BY <1>2, <1>3
  <2> HIDE DEF t
  <2>2. Queued(st, [t EXCEPT !.playing = TRUE])
    BY <2>1, <1>9
  <2> QED
    BY <2>2 DEF t, HandlePublish, SendStatus
<1>12. Queued(st, st)
  BY NothingQueued
<1>13. Queued(st, HandleStatus(st))
  BY <1>9, <1>12 DEF HandleStatus
<1>14. ASSUME NEW m \in Commands PROVE Queued(st, MessageComplete(st, m))
  <2> DEFINE t == MessageComplete(st, m)
  <2>1. \/ t = HandleConnect(st) \/ t = HandleCreateStream(st) \/ t = HandlePlay(st)
        \/ t = HandlePublish(st) \/ t = HandleResult(st, m) \/ t = HandleStatus(st) \/ t = st
    <3> HIDE DEF t
    <3>1. m \in {"connect", "createStream", "play", "publish", "result1", "result4", "onStatus",
                 Control}
      BY DEF Commands
    <3> QED
      BY <3>1 DEF t, MessageComplete, Control
  <2> HIDE DEF t
  <2>2. Queued(st, t)
    BY <2>1, <1>6, <1>7, <1>8, <1>10, <1>11, <1>12, <1>13
  <2> QED
    BY <2>2 DEF t
<1> QED
  BY <1>4, <1>5, <1>14

(* What an end in the message state queues goes out behind the rest.       *)
LEMMA QueuedIsEmitted ==
  ASSUME NEW e \in Ends, NEW st, EndOk(e, st), st.ctx = "message", NEW t, Queued(st, t)
  PROVE  EndOk(e, t) /\ Emitted(e, st, t)
<1>1. st \in EndRecords /\ BlocksTaken(st) = 2 /\ BlocksSent(st) = 2
  BY BlockCounts DEF EndOk
<1>2. /\ t \in EndRecords /\ Completes(t) /\ t.hs = st.hs /\ t.ctx = "message"
      /\ t.out = st.out /\ t.strayed = st.strayed
  BY <1>1 DEF Queued
<1>3. BlocksTaken(t) = 2 /\ BlocksSent(t) = 2
  BY <1>1, <1>2 DEF BlocksTaken, BlocksSent
<1>4. st.hs \in {"Doning", "Done"}
  BY <1>1 DEF BlocksTaken, EndRecords
<1>5. EndOk(e, t)
  BY <1>2, <1>3, <1>4 DEF EndOk, OfItsSide, Posts
<1>6. PICK cs \in Seq(Commands) : t.io \o t.queue = (st.io \o st.queue) \o cs
  BY DEF Queued
<1>7. cs \in Seq(Pieces) /\ st.out \in Seq(Pieces) /\ st.io \o st.queue \in Seq(Pieces)
  BY <1>1, OutgoingIs, CommandsArePieces
<1>8. Outgoing(t) = Outgoing(st) \o cs
  <2>1. st.out \o ((st.io \o st.queue) \o cs) = (st.out \o (st.io \o st.queue)) \o cs
    <3>1. AreSeqs(st.out, st.io \o st.queue, cs)
      BY <1>7 DEF AreSeqs
    <3>2. Associates(st.out, st.io \o st.queue, cs)
      BY <3>1, Joined
    <3> QED
      BY <3>2 DEF Associates
  <2> QED
    BY <2>1, <1>2, <1>6 DEF Outgoing
<1>9. Outgoing(st) \o Blocks(e, 2, 2) = Outgoing(st)
  <2>1. Blocks(e, 2, 2) = << >>
    BY BlocksAre
  <2>2. Outgoing(st) \in Seq(Pieces)
    BY <1>1, OutgoingIs
  <2> QED
    BY <2>1, <2>2, JoinedToNone
<1>10. Outgoing(t) = (Outgoing(st) \o Blocks(e, BlocksSent(st), BlocksSent(t))) \o cs
  BY <1>1, <1>3, <1>8, <1>9
<1>11. Emitted(e, st, t)
  <2>1. BlocksSent(st) <= BlocksSent(t) /\ t.ctx = "message"
    BY <1>1, <1>2, <1>3
  <2>2. st.strayed => t.strayed
    BY <1>2
  <2> QED
    BY <2>1, <2>2, <1>10 DEF Emitted
<1> QED
  BY <1>5, <1>11

-----------------------------------------------------------------------------
(* Sending blocks.                                                          *)

(* From st to t only what is sent, and the state of the handshake, have    *)
(* changed.                                                                *)
OnlySent(st, t) ==
  /\ t \in EndRecords
  /\ t.ctx = st.ctx /\ t.buf = st.buf /\ t.sending = st.sending /\ t.queue = st.queue
  /\ t.garbled = st.garbled
  /\ st.strayed => t.strayed

(* SendInLoop writes a part of a block and keeps the rest, or fails.       *)
LEMMA WriteBlockDoes ==
  ASSUME NEW st \in EndRecords, NEW block \in Seq(Pieces),
         NEW k \in (1 .. Len(block)) \cup {Failed}
  PROVE  LET t == WriteBlock(st, block, k)
         IN  /\ OnlySent(st, t) /\ t.hs = st.hs
             /\ ~t.strayed => t.out \o t.io = (st.out \o st.io) \o block
             /\ t.io = << >> <=> st.io = << >> /\ k = Len(block)
<1> DEFINE t == WriteBlock(st, block, k)
<1>1. /\ st.out \in Seq(Pieces) /\ st.io \in Seq(Pieces) /\ << >> \in Seq(Pieces)
      /\ Len(block) \in Nat /\ Len(block) # Failed
  BY LenProperties, EmptySeq DEF EndRecords, Failed
<1>2. CASE st.io = << >> /\ k = Len(block)
  <2> DEFINE o == st.out \o block
  <2>1. o \in Seq(Pieces)
    BY <1>1, ConcatProperties
  <2>2. t = [st EXCEPT !.out = o]
    BY <1>1, <1>2 DEF WriteBlock
  <2>3. st.out \o << >> = st.out /\ o \o << >> = o
    BY <1>1, <2>1, JoinedToNone
  <2>4. o = (st.out \o st.io) \o block
    BY <2>3, <1>2
  <2> HIDE DEF o, t
  <2>5. /\ t \in EndRecords /\ t.ctx = st.ctx /\ t.buf = st.buf /\ t.sending = st.sending
        /\ t.queue = st.queue /\ t.garbled = st.garbled
        /\ t.strayed = st.strayed /\ t.hs = st.hs /\ t.out = o
        /\ t.io = << >>
    BY <2>1, <2>2, <1>2 DEF EndRecords
  <2>6. t.out \o t.io = (st.out \o st.io) \o block
    BY <2>3, <2>4, <2>5
  <2> QED
    BY <2>5, <2>6, <1>2 DEF OnlySent, t
<1>4. CASE st.io = << >> /\ k = Failed
  <2> DEFINE io == << Stray >> \o block
  <2>1. << Stray >> \in Seq(Pieces) /\ << Stray >> # << >>
    BY DEF Pieces
  <2>2. io \in Seq(Pieces) /\ io # << >>
    BY <2>1, JoinedIs
  <2>3. t = [st EXCEPT !.writing = TRUE, !.io = io, !.strayed = TRUE]
    BY <1>1, <1>4 DEF WriteBlock
  <2> HIDE DEF io, t
  <2>4. /\ t \in EndRecords /\ t.ctx = st.ctx /\ t.buf = st.buf /\ t.sending = st.sending
        /\ t.queue = st.queue /\ t.garbled = st.garbled /\ t.hs = st.hs
        /\ t.io = io /\ t.strayed
    BY <2>2, <2>3 DEF EndRecords
  <2> QED
    BY <2>2, <2>4, <1>1, <1>4 DEF OnlySent, t
<1>3. CASE ~ (st.io = << >> /\ k \in {Len(block), Failed})
  <2> DEFINE n == IF st.io = << >> THEN k ELSE 0
             x == SubSeq(block, 1, n)
             y == SubSeq(block, n + 1, Len(block))
             o == st.out \o x
             io == st.io \o y
  <2>2. n \in 0 .. Len(block)
    BY <1>1, <1>3
  <2>3. st.io = << >> => n < Len(block)
    BY <1>1, <1>3
  <2> HIDE DEF n
  <2>4. /\ x \in Seq(Pieces) /\ Len(x) = n /\ y \in Seq(Pieces) /\ Len(y) = Len(block) - n
        /\ x \o y = block
    BY <2>2, Parted
  <2>5. st.io = << >> => y # << >>
    <3>1. Len(<< >>) = 0
      BY EmptySeq
    <3>2. st.io = << >> => Len(y) # 0
      BY <2>2, <2>3, <2>4, <1>1
    <3> QED
      BY <3>1, <3>2
  <2>6. st.io # << >> => x = << >>
    <3> HAVE st.io # << >>
    <3>1. n = 0
      BY DEF n
    <3>2. 1 \in Int /\ 0 \in Int /\ 0 < 1
      OBVIOUS
    <3>3. SubSeq(block, 1, 0) = << >>
      BY <3>2, SubSeqEmpty
    <3> QED
      BY <3>1, <3>3
  <2>1. t = [st EXCEPT !.out = o, !.writing = TRUE, !.io = io]
    <3>1. CASE st.io = << >>
      <4>1. t = [st EXCEPT !.out = o, !.writing = TRUE, !.io = y]
        BY <3>1, <1>3 DEF WriteBlock, n
      <4>2. io = y
        BY <3>1, <2>4, JoinedToNone
      <4> QED
        BY <4>1, <4>2
    <3>2. CASE st.io # << >>
      <4>1. o = st.out /\ y = block
        BY <3>2, <1>1, <2>4, <2>6, JoinedToNone
      <4>2. t = [st EXCEPT !.writing = TRUE, !.io = io]
        BY <3>2, <4>1 DEF WriteBlock
      <4>3. st = [st EXCEPT !.out = o]
        BY <4>1 DEF EndRecords
      <4> HIDE DEF o, io, t
      <4> QED
        BY <4>2, <4>3 DEF EndRecords
    <3> QED
      BY <3>1, <3>2
  <2> HIDE DEF x, y
  <2>7. o \in Seq(Pieces) /\ io \in Seq(Pieces) /\ io # << >>
    BY <1>1, <2>4, <2>5, JoinedIs
  <2>8. o \o io = (st.out \o st.io) \o block
    <3>1. CASE st.io = << >>
      <4>1. io = y /\ st.out \o st.io = st.out
        BY <3>1, <1>1, <2>4, JoinedToNone
      <4>2. (st.out \o x) \o y = st.out \o (x \o y)
        <5>1. AreSeqs(st.out, x, y)
          BY <1>1, <2>4 DEF AreSeqs
        <5>2. Associates(st.out, x, y)
          BY <5>1, Joined
        <5> QED
          BY <5>2 DEF Associates
      <4> QED
        BY <4>1, <4>2, <2>4
    <3>2. CASE st.io # << >>
      <4>1. x = << >> /\ o = st.out /\ y = block
        BY <3>2, <1>1, <2>4, <2>6, JoinedToNone
      <4>2. (st.out \o st.io) \o y = st.out \o (st.io \o y)
        <5>1. AreSeqs(st.out, st.io, y)
          BY <1>1, <2>4 DEF AreSeqs
        <5>2. Associates(st.out, st.io, y)
          BY <5>1, Joined
        <5> QED
          BY <5>2 DEF Associates
      <4> QED
        BY <4>1, <4>2
    <3> QED
      BY <3>1, <3>2
  <2> HIDE DEF o, io, t
  <2>9. /\ t \in EndRecords /\ t.ctx = st.ctx /\ t.buf = st.buf /\ t.sending = st.sending
        /\ t.queue = st.queue /\ t.garbled = st.garbled
        /\ t.strayed = st.strayed /\ t.hs = st.hs /\ t.out = o
        /\ t.io = io
    BY <2>1, <2>7 DEF EndRecords
  <2>10. t.out \o t.io = (st.out \o st.io) \o block
    BY <2>8, <2>9
  <2> QED
    BY <2>7, <2>9, <2>10, <1>3 DEF OnlySent, t
<1> QED
  BY <1>2, <1>3, <1>4

(* A write that completes moves the handshake on, and may send S2.         *)
LEMMA WriteCompleteDoes ==
  ASSUME NEW e \in Ends, NEW st \in EndRecords, OfItsSide(e, st), NEW k \in Returns
  PROVE  LET t == WriteComplete(st, k)
         IN  /\ OnlySent(st, t) /\ OfItsSide(e, t) /\ Posts(t)
             /\ BlocksSent(st) <= BlocksSent(t) /\ BlocksTaken(t) = BlocksTaken(st)
             /\ ~t.strayed => t.out \o t.io
                  = (st.out \o st.io) \o Blocks(e, BlocksSent(st), BlocksSent(t))
<1> DEFINE t == WriteComplete(st, k)
<1>1. /\ st.out \in Seq(Pieces) /\ st.io \in Seq(Pieces)
      /\ st.out \o st.io \in Seq(Pieces)
  BY ConcatProperties DEF EndRecords
<1>2. BlocksSent(st) \in 0 .. 2
  BY DEF BlocksSent
<1>3. (st.out \o st.io) \o Blocks(e, BlocksSent(st), BlocksSent(st)) = st.out \o st.io
  <2>1. Blocks(e, BlocksSent(st), BlocksSent(st)) = << >>
    BY <1>2, BlocksAre
  <2> QED
    BY <2>1, <1>1, JoinedToNone
<1>4. CASE st.hs = "PostS0S1"
  <2> DEFINE u == [st EXCEPT !.hs = "PostS2"]
             block == Block("S2")
             v == WriteBlock(u, block, k)
  <2>1. /\ u \in EndRecords /\ u.ctx = st.ctx /\ u.buf = st.buf /\ u.sending = st.sending
        /\ u.queue = st.queue /\ u.garbled = st.garbled
        /\ u.strayed = st.strayed /\ u.out = st.out /\ u.io = st.io
        /\ u.hs = "PostS2"
    BY DEF EndRecords
  <2>2. block \in Seq(Pieces) /\ k \in (1 .. Len(block)) \cup {Failed}
    BY BlockIs DEF Returns
  <2>3. e = "server"
    BY <1>4 DEF OfItsSide
  <2>4. block = Blocks(e, 1, 2)
    BY <2>3, BlocksAre
  <2>5. t = IF v.io = << >> THEN [v EXCEPT !.hs = "WaitC2"] ELSE v
    BY <1>4 DEF WriteComplete
  <2> HIDE DEF u, block
  <2>6. /\ OnlySent(u, v) /\ v.hs = "PostS2"
        /\ ~v.strayed => v.out \o v.io = (u.out \o u.io) \o block
    BY <2>1, <2>2, WriteBlockDoes
  <2> HIDE DEF v, t
  <2>7. /\ v \in EndRecords /\ v.ctx = st.ctx /\ v.buf = st.buf /\ v.sending = st.sending
        /\ v.queue = st.queue /\ v.garbled = st.garbled /\ (st.strayed => v.strayed)
    BY <2>1, <2>6 DEF OnlySent
  <2>8. /\ t \in EndRecords /\ t.ctx = st.ctx /\ t.buf = st.buf /\ t.sending = st.sending
        /\ t.queue = st.queue /\ t.garbled = st.garbled /\ t.out = v.out /\ t.io = v.io
        /\ t.strayed = v.strayed
        /\ t.hs = "WaitC2" \/ (t.hs = "PostS2" /\ t.io # << >>)
    BY <2>5, <2>6, <2>7 DEF EndRecords
  <2>9. BlocksSent(st) = 1 /\ BlocksSent(t) = 2 /\ BlocksTaken(st) = 1 /\ BlocksTaken(t) = 1
    BY <1>4, <2>8 DEF BlocksSent, BlocksTaken
  <2>10. OfItsSide(e, t) /\ Posts(t)
    BY <2>3, <2>8 DEF OfItsSide, Posts
  <2>11. ~t.strayed => t.out \o t.io = (st.out \o st.io) \o Blocks(e, BlocksSent(st), BlocksSent(t))
    BY <2>1, <2>4, <2>6, <2>8, <2>9
  <2> QED
    <3>1. OnlySent(st, t)
      BY <2>7, <2>8 DEF OnlySent
    <3>2. BlocksSent(st) <= BlocksSent(t) /\ BlocksTaken(t) = BlocksTaken(st)
      BY <2>9
    <3> QED
      BY <3>1, <3>2, <2>10, <2>11 DEF t
<1>5. CASE st.hs # "PostS0S1"
  <2>1. t = IF st.hs = "PostC0C1" THEN [st EXCEPT !.hs = "WaitS0S1"]
            ELSE IF st.hs \in {"PostS2", "PostC2"} THEN [st EXCEPT !.hs = "WaitC2"]
            ELSE IF st.hs = "Doning" THEN [st EXCEPT !.hs = "Done"]
            ELSE st
    BY <1>5 DEF WriteComplete
  <2> HIDE DEF t
  <2>2. /\ t \in EndRecords /\ t.ctx = st.ctx /\ t.buf = st.buf /\ t.sending = st.sending
        /\ t.queue = st.queue /\ t.garbled = st.garbled
        /\ t.strayed = st.strayed /\ t.out = st.out /\ t.io = st.io
    <3>1. CASE t = st
      BY <3>1
    <3>2. ASSUME NEW hs \in {"WaitS0S1", "WaitC2", "Done"}, t = [st EXCEPT !.hs = hs]
          PROVE  /\ t \in EndRecords /\ t.ctx = st.ctx /\ t.buf = st.buf
                 /\ t.sending = st.sending /\ t.queue = st.queue /\ t.garbled = st.garbled
                 /\ t.strayed = st.strayed
                 /\ t.out = st.out /\ t.io = st.io
      BY <3>2 DEF EndRecords
    <3> QED
      BY <2>1, <3>1, <3>2
  <2>3. \/ st.hs = "PostC0C1" /\ t.hs = "WaitS0S1"
        \/ st.hs \in {"PostS2", "PostC2"} /\ t.hs = "WaitC2"
        \/ st.hs = "Doning" /\ t.hs = "Done"
        \/ st.hs \notin {"PostC0C1", "PostS2", "PostC2", "Doning"} /\ t.hs = st.hs
    BY <2>1 DEF EndRecords
  <2>4. BlocksSent(t) = BlocksSent(st) /\ BlocksTaken(t) = BlocksTaken(st)
    BY <2>3 DEF BlocksSent, BlocksTaken
  <2>5. OfItsSide(e, t) /\ Posts(t)
    BY <2>3, <1>5 DEF OfItsSide, Posts
  <2>6. t.out \o t.io = (st.out \o st.io) \o Blocks(e, BlocksSent(st), BlocksSent(t))
    BY <2>2, <2>4, <1>3
  <2> QED
    <3>1. BlocksSent(st) <= BlocksSent(t)
      BY <2>4, <1>2
    <3>2. OnlySent(st, t)
      BY <2>2 DEF OnlySent
    <3> QED
      BY <3>1, <3>2, <2>4, <2>5, <2>6 DEF t
<1> QED
  BY <1>4, <1>5

(* An end sends its next block.                                            *)
LEMMA SendBlockDoes ==
  ASSUME NEW e \in Ends, NEW st \in EndRecords, st.queue = << >>,
         NEW u \in EndRecords, u.queue = << >>, u.out = st.out, u.io = st.io, OfItsSide(e, u),
         u.hs \in {"PostC0C1", "PostS0S1", "PostC2", "Doning"},
         BlocksSent(u) = BlocksSent(st) + 1,
         NEW block, block = Blocks(e, BlocksSent(st), BlocksSent(u)),
         NEW k1 \in Returns, NEW k2 \in Returns
  PROVE  LET t == SendBlock(u, block, k1, k2)
         IN  /\ OnlySent(u, t) /\ OfItsSide(e, t) /\ Posts(t)
             /\ BlocksSent(st) <= BlocksSent(t) /\ BlocksTaken(t) = BlocksTaken(u)
             /\ ~t.strayed => Outgoing(t) = Outgoing(st) \o Blocks(e, BlocksSent(st), BlocksSent(t))
<1> DEFINE s == BlocksSent(st)
           r == BlocksSent(u)
           v == WriteBlock(u, block, k1)
           t == SendBlock(u, block, k1, k2)
           x == st.out \o st.io
<1>1. s \in 0 .. 1 /\ r \in 0 .. 2 /\ r = s + 1 /\ s \in 0 .. 2
  BY DEF BlocksSent
<1>2. block \in Seq(Pieces) /\ Len(block) = Parts
  <2>1. CASE s = 0
    <3>1. 0 + 1 = 1 /\ block = Blocks(e, 0, 1)
      BY <1>1, <2>1
    <3> QED
      BY <3>1, BlocksAre, BlockIs
  <2>2. CASE s = 1
    <3>1. 1 + 1 = 2 /\ block = Blocks(e, 1, 2)
      BY <1>1, <2>2
    <3> QED
      BY <3>1, BlocksAre, BlockIs
  <2> QED
    BY <1>1, <2>1, <2>2
<1>3. /\ x \in Seq(Pieces) /\ st.queue = << >> /\ u.queue = << >>
      /\ u.out \o u.io = x
  BY ConcatProperties DEF EndRecords
<1>4. k1 \in (1 .. Len(block)) \cup {Failed}
  BY <1>2 DEF Returns
<1> HIDE DEF s, r, x
<1>5. /\ OnlySent(u, v) /\ v.hs = u.hs
      /\ ~v.strayed => v.out \o v.io = (u.out \o u.io) \o block
      /\ v.io = << >> <=> u.io = << >> /\ k1 = Len(block)
  BY <1>2, <1>4, WriteBlockDoes
<1>6. t = IF u.io = << >> /\ k1 = Len(block) THEN WriteComplete(v, k2) ELSE v
  BY DEF SendBlock
<1> HIDE DEF v, t
<1>7. /\ v \in EndRecords /\ BlocksSent(v) = r /\ BlocksTaken(v) = BlocksTaken(u)
      /\ OfItsSide(e, v)
  BY <1>5 DEF OnlySent, BlocksSent, BlocksTaken, OfItsSide, r
<1>8. ~v.strayed => v.out \o v.io = x \o Blocks(e, s, r)
  BY <1>3, <1>5 DEF s, r
<1>9. /\ OnlySent(u, t) /\ OfItsSide(e, t) /\ Posts(t)
      /\ s <= BlocksSent(t) /\ BlocksTaken(t) = BlocksTaken(u)
      /\ ~t.strayed => t.out \o t.io = x \o Blocks(e, s, BlocksSent(t))
  <2>1. CASE v.io # << >>
    <3>1. t = v
      BY <2>1, <1>5, <1>6
    <3>2. Posts(v)
      BY <2>1 DEF Posts
    <3>3. BlocksSent(t) = r /\ s <= r
      BY <3>1, <1>1, <1>7
    <3>4. ~t.strayed => t.out \o t.io = x \o Blocks(e, s, BlocksSent(t))
      BY <3>1, <3>3, <1>8
    <3> QED
      BY <3>1, <3>2, <3>3, <3>4, <1>5, <1>7
  <2>2. CASE v.io = << >>
    <3>1. t = WriteComplete(v, k2)
      BY <2>2, <1>5, <1>6
    <3>2. /\ OnlySent(v, t) /\ OfItsSide(e, t) /\ Posts(t)
          /\ r <= BlocksSent(t) /\ BlocksTaken(t) = BlocksTaken(v)
          /\ ~t.strayed => t.out \o t.io = (v.out \o v.io) \o Blocks(e, r, BlocksSent(t))
      BY <3>1, <1>7, WriteCompleteDoes
    <3>3. BlocksSent(t) \in r .. 2 /\ r \in s .. 2 /\ BlocksSent(t) \in 0 .. 2
      BY <3>2, <1>1 DEF BlocksSent
    <3>4. Blocks(e, s, r) \o Blocks(e, r, BlocksSent(t)) = Blocks(e, s, BlocksSent(t))
      BY <3>3, <1>1, BlocksJoined
    <3>5. Blocks(e, s, r) \in Seq(Pieces) /\ Blocks(e, r, BlocksSent(t)) \in Seq(Pieces)
      BY <3>3, <1>1, BlocksAre
    <3>6. ASSUME ~t.strayed PROVE t.out \o t.io = x \o Blocks(e, s, BlocksSent(t))
      <4> DEFINE b1 == Blocks(e, s, r)
                 b2 == Blocks(e, r, BlocksSent(t))
      <4>1. b1 \in Seq(Pieces) /\ b2 \in Seq(Pieces) /\ b1 \o b2 = Blocks(e, s, BlocksSent(t))
        BY <3>4, <3>5
      <4>2. t.out \o t.io = (x \o b1) \o b2
        BY <3>2, <3>6, <1>8 DEF OnlySent
      <4> HIDE DEF b1, b2
      <4>3. (x \o b1) \o b2 = x \o (b1 \o b2)
        <5>1. AreSeqs(x, b1, b2)
          BY <4>1, <1>3 DEF AreSeqs
        <5>2. Associates(x, b1, b2)
          BY <5>1, Joined
        <5> QED
          BY <5>2 DEF Associates
      <4> QED
        BY <4>1, <4>2, <4>3
    <3>7. OnlySent(u, t)
      BY <3>2, <1>5 DEF OnlySent
    <3>8. s <= BlocksSent(t)
      BY <3>3, <1>1
    <3> QED
      BY <3>2, <3>6, <3>7, <3>8, <1>7
  <2> QED
    BY <2>1, <2>2
<1>10. Outgoing(st) = x
  BY <1>3, OutgoingIs, JoinedToNone DEF x
<1>11. Outgoing(t) = t.out \o t.io
  <2>1. t \in EndRecords /\ t.queue = << >>
    BY <1>3, <1>9 DEF OnlySent
  <2>2. Outgoing(t) = (t.out \o t.io) \o t.queue /\ t.out \o t.io \in Seq(Pieces)
    BY <2>1, OutgoingIs, ConcatProperties
  <2> QED
    BY <2>1, <2>2, JoinedToNone
<1> QED
  BY <1>9, <1>10, <1>11 DEF s, t

-----------------------------------------------------------------------------
(* Receiving.                                                               *)

(* HandShake takes whole blocks, in their order, and answers them.         *)
LEMMA HandShakeDoes ==
  ASSUME NEW e \in Ends, NEW st, EndOk(e, st), st.ctx = "handshake",
         NEW peer, EndOk(Peer(e), peer), NEW in \in Seq(Pieces),
         Carries(Peer(e), peer, st.buf \o in, BlocksTaken(st)),
         NEW k1 \in Returns, NEW k2 \in Returns
  PROVE  LET t == HandShake(st, k1, k2)
         IN  /\ t \in EndRecords /\ OfItsSide(e, t) /\ Posts(t)
             /\ t.ctx = "handshake" /\ ~t.sending /\ t.queue = << >>
             /\ t.garbled = st.garbled /\ (st.strayed => t.strayed)
             /\ BlocksSent(st) <= BlocksSent(t)
             /\ ~t.strayed => Outgoing(t) = Outgoing(st) \o Blocks(e, BlocksSent(st), BlocksSent(t))
             /\ Carries(Peer(e), peer, t.buf \o in, BlocksTaken(t))
<1> DEFINE t == HandShake(st, k1, k2)
           p == Peer(e)
           rest1 == SubSeq(st.buf, Parts + 1, Len(st.buf))
           d == [st EXCEPT !.buf = rest1]
           Result == /\ t \in EndRecords /\ OfItsSide(e, t) /\ Posts(t)
                     /\ t.ctx = "handshake" /\ ~t.sending /\ t.queue = << >>
                     /\ t.garbled = st.garbled /\ (st.strayed => t.strayed)
                     /\ BlocksSent(st) <= BlocksSent(t)
                     /\ ~t.strayed => Outgoing(t) = Outgoing(st) \o Blocks(e, BlocksSent(st), BlocksSent(t))
                     /\ Carries(p, peer, t.buf \o in, BlocksTaken(t))
<1> SUFFICES Result
  OBVIOUS
<1>1. /\ st \in EndRecords /\ OfItsSide(e, st) /\ Posts(st) /\ ~st.sending
      /\ st.queue = << >> /\ BlocksTaken(st) < 2
  BY BlockCounts DEF EndOk
<1>2. /\ st.buf \in Seq(Pieces) /\ Outgoing(st) \in Seq(Pieces) /\ p \in Ends
      /\ Parts \in Nat /\ Parts >= 1 /\ Len(st.buf) \in Nat
  <2>1. st.buf \in Seq(Pieces)
    BY <1>1 DEF EndRecords
  <2>2. p \in Ends
    BY DEF Peer, Ends
  <2>3. Parts \in Nat /\ Parts >= 1
    BY ConnectAssumption
  <2> QED
    BY <2>1, <2>2, <2>3, <1>1, OutgoingIs, LenProperties
<1>3. \A n \in 0 .. 2 : Outgoing(st) \o Blocks(e, n, n) = Outgoing(st)
  <2> TAKE n \in 0 .. 2
  <2>1. Blocks(e, n, n) = << >>
    BY BlocksAre
  <2> QED
    BY <2>1, <1>2, JoinedToNone
<1>4. BlocksSent(st) \in 0 .. 2 /\ BlocksTaken(st) \in 0 .. 1
  BY <1>1 DEF BlocksSent, BlocksTaken
<1>5. CASE t = st
  <2>1. Outgoing(st) = Outgoing(st) \o Blocks(e, BlocksSent(st), BlocksSent(st))
    BY <1>3, <1>4
  <2>2. BlocksSent(st) <= BlocksSent(st)
    BY <1>4
  <2> HIDE DEF t
  <2> QED
    BY <1>5, <1>1, <2>1, <2>2
<1>6. ASSUME Len(st.buf) >= Parts
      PROVE  /\ rest1 \in Seq(Pieces) /\ Len(rest1) = Len(st.buf) - Parts
             /\ Carries(p, peer, rest1 \o in, BlocksTaken(st) + 1)
  BY <1>6, <1>2, <1>4, BlockTaken
<1>7. ASSUME Len(st.buf) >= Parts
      PROVE  /\ d \in EndRecords /\ d.buf = rest1 /\ d.hs = st.hs /\ d.out = st.out
             /\ d.io = st.io /\ d.queue = st.queue /\ d.ctx = st.ctx
             /\ d.garbled = st.garbled /\ d.strayed = st.strayed /\ d.sending = st.sending
  <2>1. rest1 \in Seq(Pieces)
    BY <1>6, <1>7
  <2> HIDE DEF rest1
  <2> QED
    BY <2>1, <1>1 DEF EndRecords
<1>8. d = DropBlock(st)
  BY DEF DropBlock
<1> HIDE DEF rest1, d
<1>9. CASE Len(st.buf) >= Parts /\ st.hs = "WaitC0C1"
  <2> DEFINE u == [d EXCEPT !.hs = "PostS0S1"]
             block == Block("S1")
  <2>1. t = SendBlock(u, block, k1, k2)
    BY <1>2, <1>8, <1>9 DEF HandShake
  <2>2. /\ u \in EndRecords /\ u.buf = rest1 /\ u.hs = "PostS0S1" /\ u.out = st.out
        /\ u.io = st.io /\ u.queue = << >> /\ u.ctx = "handshake" /\ ~u.sending
        /\ u.garbled = st.garbled /\ u.strayed = st.strayed
    BY <1>1, <1>7, <1>9 DEF EndRecords
  <2>3. e = "server"
    BY <1>1, <1>9 DEF OfItsSide
  <2>4. BlocksSent(st) = 0 /\ BlocksSent(u) = 1 /\ BlocksTaken(st) = 0 /\ BlocksTaken(u) = 1
    BY <2>2, <1>9 DEF BlocksSent, BlocksTaken
  <2>5. block = Blocks(e, BlocksSent(st), BlocksSent(u))
    BY <2>3, <2>4, BlocksAre
  <2> HIDE DEF u, block, t
  <2>6. OfItsSide(e, u) /\ BlocksSent(u) = BlocksSent(st) + 1
    BY <2>2, <2>3, <2>4 DEF OfItsSide
  <2>7. /\ OnlySent(u, t) /\ OfItsSide(e, t) /\ Posts(t)
        /\ BlocksSent(st) <= BlocksSent(t) /\ BlocksTaken(t) = BlocksTaken(u)
        /\ ~t.strayed => Outgoing(t) = Outgoing(st) \o Blocks(e, BlocksSent(st), BlocksSent(t))
    BY <1>1, <2>1, <2>2, <2>5, <2>6, SendBlockDoes
  <2>8. /\ t \in EndRecords /\ t.ctx = "handshake" /\ t.buf = rest1 /\ ~t.sending
        /\ t.queue = << >> /\ t.garbled = st.garbled /\ (st.strayed => t.strayed)
    BY <2>2, <2>7 DEF OnlySent
  <2>9. Carries(p, peer, t.buf \o in, BlocksTaken(t))
    <3>1. BlocksTaken(st) + 1 = BlocksTaken(t)
      BY <2>4, <2>7
    <3> QED
      BY <3>1, <2>8, <1>6, <1>9
  <2> QED
    BY <2>7, <2>8, <2>9
<1>10. CASE Len(st.buf) >= Parts /\ st.hs = "WaitC2"
  <2>1. t = [d EXCEPT !.hs = "Done"]
    BY <1>2, <1>8, <1>10 DEF HandShake
  <2> HIDE DEF t
  <2>2. /\ t \in EndRecords /\ t.buf = rest1 /\ t.hs = "Done" /\ t.out = st.out
        /\ t.io = st.io /\ t.queue = << >> /\ t.ctx = "handshake" /\ ~t.sending
        /\ t.garbled = st.garbled /\ t.strayed = st.strayed
    BY <2>1, <1>1, <1>7, <1>10 DEF EndRecords
  <2>3. BlocksSent(st) = 2 /\ BlocksSent(t) = 2 /\ BlocksTaken(st) + 1 = BlocksTaken(t)
    BY <2>2, <1>10 DEF BlocksSent, BlocksTaken
  <2>4. OfItsSide(e, t) /\ Posts(t)
    BY <2>2 DEF OfItsSide, Posts
  <2>5. Outgoing(t) = Outgoing(st)
    BY <2>2, <1>1 DEF Outgoing
  <2>6. Outgoing(t) = Outgoing(st) \o Blocks(e, BlocksSent(st), BlocksSent(t))
    BY <2>3, <2>5, <1>3
  <2>7. Carries(p, peer, t.buf \o in, BlocksTaken(t))
    BY <2>2, <2>3, <1>6, <1>10
  <2>8. BlocksSent(st) <= BlocksSent(t)
    BY <2>3
  <2> QED
    BY <2>2, <2>4, <2>6, <2>7, <2>8
<1>11. CASE Len(st.buf) >= Parts /\ st.hs = "WaitS0S1"
  <2> DEFINE with == IF Len(rest1) = Parts THEN "Doning" ELSE "PostC2"
             left == IF Len(rest1) = Parts THEN << >> ELSE rest1
             u == IF Len(rest1) = Parts THEN [d EXCEPT !.hs = "Doning", !.buf = << >>]
                  ELSE [d EXCEPT !.hs = "PostC2"]
             block == Block("C2")
  <2>1. t = SendBlock(u, block, k1, k2)
    <3>1. d.buf = rest1 /\ ~ (Len(st.buf) < Parts)
      BY <1>2, <1>7, <1>11
    <3> QED
      BY <3>1, <1>8, <1>11 DEF HandShake
  <2>2. /\ u \in EndRecords /\ u.buf = left /\ u.hs = with /\ u.out = st.out
        /\ u.io = st.io /\ u.queue = << >> /\ u.ctx = "handshake" /\ ~u.sending
        /\ u.garbled = st.garbled /\ u.strayed = st.strayed
    <3>1. << >> \in Seq(Pieces)
      BY EmptySeq
    <3>2. CASE Len(rest1) = Parts
      BY <3>1, <3>2, <1>1, <1>7, <1>11 DEF EndRecords
    <3>3. CASE Len(rest1) # Parts
      BY <3>3, <1>1, <1>7, <1>11 DEF EndRecords
    <3> QED
      BY <3>2, <3>3
  <2>3. e = "client"
    BY <1>1, <1>11 DEF OfItsSide
  <2>4. with \in {"Doning", "PostC2"}
    OBVIOUS
  <2>5. BlocksSent(st) = 1 /\ BlocksSent(u) = 2 /\ BlocksTaken(st) = 0
    BY <2>2, <2>4, <1>11 DEF BlocksSent, BlocksTaken
  <2>6. block = Blocks(e, BlocksSent(st), BlocksSent(u))
    BY <2>3, <2>5, BlocksAre
  <2>7. Carries(p, peer, left \o in, BlocksTaken(u))
    <3>1. Carries(p, peer, rest1 \o in, 1) /\ rest1 \in Seq(Pieces)
      <4>1. BlocksTaken(st) + 1 = 1
        BY <2>5
      <4> QED
        BY <4>1, <1>6, <1>11
    <3>2. CASE Len(rest1) = Parts
      <4>1. BlocksTaken(u) = 2 /\ left = << >>
        BY <3>2, <2>2 DEF BlocksTaken
      <4>2. SubSeq(rest1, Parts + 1, Len(rest1)) = << >>
        <5>1. Parts + 1 \in Int /\ Len(rest1) \in Int /\ Len(rest1) < Parts + 1
          BY <3>2, <1>2
        <5> QED
          BY <5>1, SubSeqEmpty
      <4>3. 1 \in 0 .. 1 /\ 1 + 1 = 2 /\ Len(rest1) >= Parts
        BY <3>2, <1>2
      <4>4. Carries(p, peer, SubSeq(rest1, Parts + 1, Len(rest1)) \o in, 1 + 1)
        BY <3>1, <4>3, <1>2, BlockTaken
      <4> QED
        BY <4>1, <4>2, <4>3, <4>4
    <3>3. CASE Len(rest1) # Parts
      <4>1. BlocksTaken(u) = 1 /\ left = rest1
        BY <3>3, <2>2 DEF BlocksTaken
      <4> QED
        BY <4>1, <3>1
    <3> QED
      BY <3>2, <3>3
  <2> HIDE DEF u, block, t, with, left
  <2>8. OfItsSide(e, u) /\ BlocksSent(u) = BlocksSent(st) + 1
    BY <2>2, <2>3, <2>4, <2>5 DEF OfItsSide
  <2>9. /\ OnlySent(u, t) /\ OfItsSide(e, t) /\ Posts(t)
        /\ BlocksSent(st) <= BlocksSent(t) /\ BlocksTaken(t) = BlocksTaken(u)
        /\ ~t.strayed => Outgoing(t) = Outgoing(st) \o Blocks(e, BlocksSent(st), BlocksSent(t))
    BY <1>1, <2>1, <2>2, <2>4, <2>6, <2>8, SendBlockDoes
  <2>10. /\ t \in EndRecords /\ t.ctx = "handshake" /\ t.buf = left /\ ~t.sending
         /\ t.queue = << >> /\ t.garbled = st.garbled /\ (st.strayed => t.strayed)
    BY <2>2, <2>9 DEF OnlySent
  <2> QED
    BY <2>7, <2>9, <2>10
<1>12. CASE Len(st.buf) < Parts \/ st.hs \notin {"WaitC0C1", "WaitC2", "WaitS0S1"}
  <2>1. t = st
    BY <1>12 DEF HandShake
  <2> HIDE DEF t
  <2> QED
    BY <2>1, <1>5
<1> HIDE DEF Result
<1> QED
  BY <1>2, <1>9, <1>10, <1>11, <1>12

(* What goes out behind what went out.                                     *)
LEMMA EmittedMore ==
  ASSUME NEW e \in Ends, NEW st, EndOk(e, st), NEW m, EndOk(e, m), NEW t, EndOk(e, t),
         Emitted(e, st, m), Emitted(e, m, t), m.ctx = "message"
  PROVE  Emitted(e, st, t)
<1>1. t.ctx = "message" /\ (st.strayed => t.strayed)
  BY DEF Emitted
<1>2. BlocksSent(m) = 2 /\ BlocksSent(t) = 2 /\ BlocksSent(st) \in 0 .. 2
  BY <1>1, BlockCounts
<1>a. CASE t.strayed
  BY <1>1, <1>2, <1>a DEF Emitted
<1> SUFFICES ASSUME ~t.strayed PROVE Emitted(e, st, t)
  BY <1>a
<1>b. ~m.strayed
  BY DEF Emitted
<1> DEFINE o == Outgoing(st)
           b == Blocks(e, BlocksSent(st), 2)
           om == Outgoing(m)
<1>3. o \in Seq(Pieces) /\ b \in Seq(Pieces) /\ om \in Seq(Pieces)
  <2>1. 2 \in 0 .. 2
    OBVIOUS
  <2> QED
    BY <2>1, <1>2, OutgoingIs, BlocksAre DEF EndOk
<1>4. PICK c1 \in Seq(Commands) : om = (o \o b) \o c1
  BY <1>2, <1>b DEF Emitted
<1>5. PICK c2 \in Seq(Commands) : Outgoing(t) = (om \o Blocks(e, 2, 2)) \o c2
  BY <1>2 DEF Emitted
<1>6. om \o Blocks(e, 2, 2) = om
  <2>1. Blocks(e, 2, 2) = << >>
    BY BlocksAre
  <2> QED
    BY <2>1, <1>3, JoinedToNone
<1> HIDE DEF o, b, om
<1>7. c1 \in Seq(Pieces) /\ c2 \in Seq(Pieces) /\ c1 \o c2 \in Seq(Commands)
  BY CommandsArePieces, CommandsJoined
<1>8. Outgoing(t) = (o \o b) \o (c1 \o c2)
  <2> DEFINE ob == o \o b
  <2>1. ob \in Seq(Pieces)
    BY <1>3, ConcatProperties
  <2>2. Outgoing(t) = (ob \o c1) \o c2
    BY <1>4, <1>5, <1>6
  <2> HIDE DEF ob
  <2>3. (ob \o c1) \o c2 = ob \o (c1 \o c2)
    <3>1. AreSeqs(ob, c1, c2)
      BY <2>1, <1>7 DEF AreSeqs
    <3>2. Associates(ob, c1, c2)
      BY <3>1, Joined
    <3> QED
      BY <3>2 DEF Associates
  <2> QED
    BY <2>2, <2>3 DEF ob
<1>9. Outgoing(t) = (Outgoing(st) \o Blocks(e, BlocksSent(st), BlocksSent(t))) \o (c1 \o c2)
  BY <1>2, <1>8 DEF o, b
<1>10. BlocksSent(st) <= BlocksSent(t)
  BY <1>2
<1> QED
  BY <1>1, <1>7, <1>9, <1>10 DEF Emitted

(* An end whose handshake has moved on, and which has sent no commands.    *)
LEMMA BlocksEmitted ==
  ASSUME NEW e \in Ends, NEW st, EndOk(e, st), st.ctx = "handshake", NEW t,
         BlocksSent(st) <= BlocksSent(t), st.strayed => t.strayed,
         ~t.strayed => Outgoing(t) = Outgoing(st) \o Blocks(e, BlocksSent(st), BlocksSent(t))
  PROVE  Emitted(e, st, t)
<1> DEFINE o == Outgoing(st)
           b == Blocks(e, BlocksSent(st), BlocksSent(t))
<1>1. o \in Seq(Pieces) /\ b \in Seq(Pieces)
  <2>1. BlocksSent(st) \in 0 .. 2 /\ BlocksSent(t) \in 0 .. 2
    BY DEF BlocksSent
  <2> QED
    BY <2>1, OutgoingIs, BlocksAre DEF EndOk
<1> HIDE DEF o, b
<1>2. (o \o b) \o << >> = o \o b
  <2>1. o \o b \in Seq(Pieces)
    BY <1>1, ConcatProperties
  <2> QED
    BY <2>1, JoinedToNone
<1>3. << >> \in Seq(Commands)
  BY EmptySeq
<1>4. ~t.strayed => Outgoing(t) = (o \o b) \o << >>
  BY <1>2 DEF o, b
<1> QED
  BY <1>3, <1>4 DEF Emitted, o, b

(* An end that sends what it was to send, and no more.                     *)
LEMMA NothingEmitted ==
  ASSUME NEW e \in Ends, NEW st, EndOk(e, st), NEW t, t.ctx = st.ctx, t.strayed = st.strayed,
         BlocksSent(t) = BlocksSent(st), Outgoing(t) = Outgoing(st)
  PROVE  Emitted(e, st, t)
<1> DEFINE o == Outgoing(st)
           s == BlocksSent(st)
<1>1. s \in 0 .. 2 /\ s <= s
  BY BlockCounts
<1>2. o \in Seq(Pieces)
  BY OutgoingIs DEF EndOk
<1>3. Blocks(e, s, s) = << >>
  BY <1>1, BlocksAre
<1>4. << >> \in Seq(Commands)
  BY EmptySeq
<1> HIDE DEF o
<1>5. (o \o << >>) \o << >> = o
  BY <1>2, JoinedToNone
<1>6. Outgoing(t) = (Outgoing(st) \o Blocks(e, BlocksSent(st), BlocksSent(t))) \o << >>
  BY <1>3, <1>5 DEF o
<1>7. BlocksSent(st) <= BlocksSent(t)
  BY <1>1
<1> QED
  BY <1>4, <1>6, <1>7 DEF Emitted

(* RtmpContext::Parse keeps an end in order, and in step with its peer.    *)
LEMMA ParseDoes ==
  ASSUME NEW e \in Ends, NEW st, EndOk(e, st),
         NEW peer, EndOk(Peer(e), peer), NEW in \in Seq(Pieces),
         Carries(Peer(e), peer, st.buf \o in, BlocksTaken(st)),
         NEW ack \in BOOLEAN, NEW k1 \in Returns, NEW k2 \in Returns
  PROVE  LET t == Parse(e, st, ack, k1, k2)
         IN  /\ EndOk(e, t) /\ Emitted(e, st, t) /\ t.garbled = st.garbled
             /\ Carries(Peer(e), peer, t.buf \o in, BlocksTaken(t))
<1> DEFINE t == Parse(e, st, ack, k1, k2)
           p == Peer(e)
           Result == /\ EndOk(e, t) /\ Emitted(e, st, t) /\ t.garbled = st.garbled
                     /\ Carries(p, peer, t.buf \o in, BlocksTaken(t))
<1> SUFFICES Result
  OBVIOUS
<1>1. st \in EndRecords /\ Completes(st) /\ st.ctx \in {"handshake", "message"}
  BY DEF EndOk, EndRecords
<1>2. CASE st.ctx = "message"
  <2>1. t = IF ack THEN SendBytesRecv(st) ELSE st
    BY <1>2 DEF Parse
  <2> HIDE DEF t
  <2>2. Queued(st, t)
    <3>1. CASE ack
      BY <2>1, <3>1, <1>1, MessageCompleteDoes
    <3>2. CASE ~ack
      BY <2>1, <3>2, <1>1, NothingQueued
    <3> QED
      BY <3>1, <3>2
  <2>3. EndOk(e, t) /\ Emitted(e, st, t)
    BY <2>2, <1>2, QueuedIsEmitted
  <2>4. t.buf = st.buf /\ BlocksTaken(t) = BlocksTaken(st) /\ t.garbled = st.garbled
    BY <2>2 DEF Queued, BlocksTaken
  <2> QED
    BY <2>3, <2>4
<1>3. CASE st.ctx = "handshake"
  <2> DEFINE h == HandShake(st, k1, k2)
             m == [h EXCEPT !.ctx = "message"]
  <2>1. t = IF ~HandShakeDone(st, h) THEN h
            ELSE IF e = "client" THEN SendConnect(m) ELSE m
    BY <1>3 DEF Parse
  <2>2. /\ h \in EndRecords /\ OfItsSide(e, h) /\ Posts(h)
        /\ h.ctx = "handshake" /\ ~h.sending /\ h.queue = << >>
        /\ h.garbled = st.garbled /\ (st.strayed => h.strayed)
        /\ BlocksSent(st) <= BlocksSent(h)
        /\ ~h.strayed => Outgoing(h) = Outgoing(st) \o Blocks(e, BlocksSent(st), BlocksSent(h))
        /\ Carries(p, peer, h.buf \o in, BlocksTaken(h))
    BY <1>3, HandShakeDoes
  <2> HIDE DEF h, t
  <2>3. HandShakeDone(st, h) <=> BlocksTaken(h) = 2
    <3>1. st.hs \notin {"Doning", "Done"}
      BY <1>1, <1>3, BlockCounts DEF BlocksTaken
    <3> QED
      BY <3>1 DEF HandShakeDone, BlocksTaken
  <2>4. CASE BlocksTaken(h) # 2
    <3>1. t = h
      BY <2>1, <2>3, <2>4
    <3>2. EndOk(e, h)
      BY <2>2, <2>4 DEF EndOk, Completes
    <3>3. Emitted(e, st, h)
      BY <2>2, <1>3, BlocksEmitted
    <3> QED
      BY <3>1, <3>2, <3>3, <2>2
  <2>5. CASE BlocksTaken(h) = 2
    <3>1. /\ m \in EndRecords /\ m.ctx = "message" /\ m.hs = h.hs /\ m.buf = h.buf /\ m.io = h.io
          /\ m.out = h.out /\ m.queue = << >> /\ ~m.sending
          /\ m.garbled = h.garbled /\ m.strayed = h.strayed
      BY <2>2 DEF EndRecords
    <3>2. t = IF e = "client" THEN SendConnect(m) ELSE m
      BY <2>1, <2>3, <2>5
    <3> HIDE DEF m
    <3>3. BlocksTaken(m) = 2 /\ BlocksSent(m) = BlocksSent(h)
      BY <3>1, <2>5 DEF BlocksTaken, BlocksSent
    <3>4. OfItsSide(e, m) /\ Posts(m) /\ Completes(m)
      BY <3>1, <2>2 DEF OfItsSide, Posts, Completes
    <3>5. EndOk(e, m)
      BY <3>1, <3>3, <3>4 DEF EndOk
    <3>6. Outgoing(m) = Outgoing(h)
      BY <3>1, <2>2 DEF Outgoing
    <3>7. Emitted(e, st, m)
      <4>1. /\ BlocksSent(st) <= BlocksSent(m) /\ (st.strayed => m.strayed)
            /\ ~m.strayed
                 => Outgoing(m) = Outgoing(st) \o Blocks(e, BlocksSent(st), BlocksSent(m))
        BY <3>1, <3>3, <3>6, <2>2
      <4> QED
        BY <4>1, <1>3, BlocksEmitted
    <3>8. Carries(p, peer, m.buf \o in, BlocksTaken(m))
      BY <3>1, <3>3, <2>2, <2>5
    <3>9. CASE e = "client"
      <4>1. t = SendConnect(m)
        BY <3>2, <3>9
      <4>2. Queued(m, t)
        BY <4>1, <3>1, <3>4, MessageCompleteDoes
      <4>3. EndOk(e, t) /\ Emitted(e, m, t)
        BY <4>2, <3>1, <3>5, QueuedIsEmitted
      <4>4. Emitted(e, st, t)
        BY <4>3, <3>1, <3>5, <3>7, EmittedMore
      <4>5. t.buf = m.buf /\ BlocksTaken(t) = BlocksTaken(m) /\ t.garbled = m.garbled
        BY <4>2 DEF Queued, BlocksTaken
      <4> QED
        BY <4>3, <4>4, <4>5, <3>1, <3>8, <2>2
    <3>10. CASE e # "client"
      <4>1. t = m
        BY <3>2, <3>10
      <4> QED
        BY <4>1, <3>1, <3>5, <3>7, <3>8, <2>2
    <3> QED
      BY <3>9, <3>10
  <2> QED
    BY <2>4, <2>5
<1> QED
  BY <1>1, <1>2, <1>3

(* A completed write moves the handshake on or sends more of the queue.    *)
LEMMA OnWriteCompleteDoes ==
  ASSUME NEW e \in Ends, NEW st, EndOk(e, st), st.out = << >>, NEW u \in EndRecords,
         u.io = << >>, u.out = st.io, u.hs = st.hs, u.ctx = st.ctx, u.buf = st.buf,
         u.sending = st.sending, u.queue = st.queue, u.garbled = st.garbled, u.strayed = st.strayed,
         NEW k \in Returns
  PROVE  LET t == OnWriteComplete(u, k)
         IN  /\ EndOk(e, t) /\ Emitted(e, st, t)
             /\ t.buf = st.buf /\ BlocksTaken(t) = BlocksTaken(st) /\ t.garbled = st.garbled
<1> DEFINE t == OnWriteComplete(u, k)
           Result == /\ EndOk(e, t) /\ Emitted(e, st, t) /\ t.garbled = st.garbled
                     /\ t.buf = st.buf /\ BlocksTaken(t) = BlocksTaken(st)
<1> SUFFICES Result
  OBVIOUS
<1>1. /\ st \in EndRecords /\ Completes(st) /\ st.ctx \in {"handshake", "message"}
      /\ OfItsSide(e, st)
  BY DEF EndOk, EndRecords
<1>2. BlocksSent(u) = BlocksSent(st) /\ BlocksTaken(u) = BlocksTaken(st) /\ OfItsSide(e, u)
  BY <1>1 DEF BlocksSent, BlocksTaken, OfItsSide
<1>3. /\ st.io \in Seq(Pieces) /\ st.queue \in Seq(Pieces) /\ st.io \o st.queue \in Seq(Pieces)
  BY <1>1, OutgoingIs
<1>4. Outgoing(st) = st.io \o st.queue
  BY <1>3, JoinedToNone DEF Outgoing
<1>5. u.out \o u.io = st.io
  BY <1>3, JoinedToNone
<1>6. CASE st.ctx = "handshake"
  <2>1. t = WriteComplete(u, k)
    BY <1>6 DEF OnWriteComplete
  <2> HIDE DEF t
  <2>2. /\ OnlySent(u, t) /\ OfItsSide(e, t) /\ Posts(t)
        /\ BlocksSent(u) <= BlocksSent(t) /\ BlocksTaken(t) = BlocksTaken(u)
        /\ ~t.strayed => t.out \o t.io = (u.out \o u.io) \o Blocks(e, BlocksSent(u), BlocksSent(t))
    BY <2>1, <1>2, WriteCompleteDoes
  <2>3. ~st.sending /\ st.queue = << >> /\ BlocksTaken(st) # 2
    BY <1>6 DEF EndOk
  <2>4. /\ t \in EndRecords /\ t.ctx = "handshake" /\ t.buf = st.buf /\ ~t.sending
        /\ t.queue = << >> /\ t.garbled = st.garbled /\ (st.strayed => t.strayed)
    BY <2>2, <2>3, <1>1, <1>6 DEF OnlySent
  <2>5. EndOk(e, t)
    BY <2>2, <2>3, <2>4, <1>2 DEF EndOk, Completes
  <2>6. Outgoing(t) = t.out \o t.io
    <3>1. Outgoing(t) = (t.out \o t.io) \o t.queue /\ t.out \o t.io \in Seq(Pieces)
      BY <2>4, OutgoingIs, ConcatProperties
    <3> QED
      BY <3>1, <2>4, JoinedToNone
  <2>7. Outgoing(st) = st.io
    BY <2>3, <1>3, <1>4, JoinedToNone
  <2>8. Emitted(e, st, t)
    BY <2>2, <2>4, <2>6, <2>7, <1>2, <1>5, <1>6, BlocksEmitted
  <2> QED
    BY <2>2, <2>4, <2>5, <2>8, <1>2
<1>7. CASE st.ctx = "message"
  <2> DEFINE idle == [u EXCEPT !.sending = FALSE]
  <2>1. t = IF idle.queue # << >> THEN Send(idle) ELSE idle
    BY <1>7 DEF OnWriteComplete, CheckAndSend
  <2>2. /\ idle \in EndRecords /\ ~idle.sending /\ idle.queue = st.queue /\ idle.io = << >>
        /\ idle.out = st.io /\ idle.hs = st.hs /\ idle.ctx = "message" /\ idle.buf = st.buf
        /\ idle.garbled = st.garbled /\ idle.strayed = st.strayed
    BY <1>1, <1>7 DEF EndRecords
  <2> HIDE DEF idle, t
  <2>3. /\ t \in EndRecords /\ Completes(t)
        /\ t.hs = st.hs /\ t.ctx = "message" /\ t.buf = st.buf /\ t.out = st.io
        /\ t.garbled = st.garbled /\ t.strayed = st.strayed
        /\ t.io \o t.queue = idle.io \o idle.queue
    <3>1. CASE idle.queue # << >>
      BY <3>1, <2>1, <2>2, SendDoes
    <3>2. CASE idle.queue = << >>
      BY <3>2, <2>1, <2>2 DEF Completes
    <3> QED
      BY <3>1, <3>2
  <2>4. BlocksSent(t) = 2 /\ BlocksTaken(t) = 2 /\ BlocksSent(st) = 2 /\ BlocksTaken(st) = 2
    BY <2>3, <1>7, BlockCounts DEF BlocksSent, BlocksTaken
  <2>5. t.hs \in {"Doning", "Done"} /\ OfItsSide(e, t)
    BY <2>3, <2>4, <1>1 DEF BlocksTaken, OfItsSide, EndRecords
  <2>6. EndOk(e, t)
    BY <2>3, <2>4, <2>5 DEF EndOk, Posts
  <2>7. Outgoing(t) = Outgoing(st)
    <3>1. t.io \o t.queue = st.queue
      BY <2>2, <2>3, <1>3, JoinedToNone
    <3> QED
      BY <3>1, <2>3, <1>4 DEF Outgoing
  <2>8. Emitted(e, st, t)
    <3>1. BlocksSent(t) = BlocksSent(st) /\ t.ctx = st.ctx /\ t.strayed = st.strayed
      BY <2>3, <2>4, <1>7
    <3> QED
      BY <3>1, <2>7, NothingEmitted
  <2> QED
    BY <2>3, <2>4, <2>6, <2>8
<1> QED
  BY <1>1, <1>6, <1>7

-----------------------------------------------------------------------------
(* The steps.                                                               *)

(***************************************************************************)
(* One end has become t, and in is what has still to arrive at it: the     *)
(* invariant holds again if t is in order, what it sends goes on with what *)
(* it had sent, and it has taken from its peer what it says.               *)
(***************************************************************************)
LEMMA EndMoves ==
  ASSUME ConnectInv, NEW e \in Ends, NEW t, NEW in \in Seq(Pieces),
         EndOk(e, t), Emitted(e, end[e], t), t.garbled => end[Peer(e)].strayed,
         Carries(Peer(e), end[Peer(e)], t.buf \o in, BlocksTaken(t)),
         end' = [end EXCEPT ![e] = [t EXCEPT !.out = << >>]],
         net' = [net EXCEPT ![e] = in, ![Peer(e)] = @ \o t.out]
  PROVE  ConnectInv'
<1> DEFINE p == Peer(e)
           u == [t EXCEPT !.out = << >>]
<1>1. p \in Ends /\ p # e /\ Peer(p) = e /\ \A f \in Ends : f = e \/ f = p
  BY DEF Peer, Ends
<1>2. /\ end \in [Ends -> EndRecords] /\ net \in [Ends -> Seq(Pieces)]
      /\ EndOk(p, end[p]) /\ end[p].out = << >> /\ EndOk(e, end[e])
      /\ Carries(e, end[e], Incoming(p), BlocksTaken(end[p]))
      /\ end[p].garbled => end[e].strayed
  BY <1>1 DEF ConnectInv
<1>3. t \in EndRecords /\ t.out \in Seq(Pieces) /\ << >> \in Seq(Pieces)
  BY EmptySeq DEF EndOk, EndRecords
<1>4. /\ u \in EndRecords /\ u.out = << >> /\ u.hs = t.hs /\ u.ctx = t.ctx /\ u.buf = t.buf
      /\ u.io = t.io /\ u.queue = t.queue /\ u.sending = t.sending /\ u.writing = t.writing
      /\ u.garbled = t.garbled /\ u.strayed = t.strayed
  BY <1>3 DEF EndRecords
<1>5. EndOk(e, u)
  BY <1>4 DEF EndOk, Completes, OfItsSide, Posts, BlocksTaken
<1>6. net[p] \in Seq(Pieces) /\ end[p].buf \in Seq(Pieces) /\ net[p] \o t.out \in Seq(Pieces)
  <2>1. net[p] \in Seq(Pieces) /\ end[p].buf \in Seq(Pieces)
    BY <1>1, <1>2 DEF EndRecords
  <2> QED
    BY <2>1, <1>3, ConcatProperties
<1>7. Carries(e, u, Incoming(p) \o t.out, BlocksTaken(end[p]))
  <2>1. Incoming(p) \in Seq(Pieces)
    BY <1>6, ConcatProperties DEF Incoming
  <2>2. BlocksTaken(end[p]) \in 0 .. 2
    BY DEF BlocksTaken
  <2> QED
    BY <2>1, <2>2, <1>2, EmittedIsCarried
<1> HIDE DEF p, u
<1>8. end' = [end EXCEPT ![e] = u] /\ net' = [net EXCEPT ![e] = in, ![p] = net[p] \o t.out]
  BY <1>1 DEF p, u
<1>9. /\ end' \in [Ends -> EndRecords] /\ net' \in [Ends -> Seq(Pieces)]
      /\ end'[e] = u /\ end'[p] = end[p] /\ net'[e] = in /\ net'[p] = net[p] \o t.out
  <2> DEFINE w == net[p] \o t.out
  <2>1. e \in Ends /\ p \in Ends /\ p # e
    BY <1>1 DEF p
  <2>2. end' \in [Ends -> EndRecords] /\ end'[e] = u /\ end'[p] = end[p]
    <3>1. end \in [Ends -> EndRecords] /\ u \in EndRecords /\ end' = [end EXCEPT ![e] = u]
      BY <1>2, <1>4, <1>8
    <3> QED
      BY <2>1, <3>1
  <2>3. w \in Seq(Pieces) /\ net' = [net EXCEPT ![e] = in, ![p] = w]
    BY <1>6, <1>8
  <2> HIDE DEF w
  <2>4. net' \in [Ends -> Seq(Pieces)] /\ net'[e] = in /\ net'[p] = w
    BY <2>1, <2>3, <1>2
  <2> QED
    BY <2>2, <2>4 DEF w
<1>10. Incoming(p)' = Incoming(p) \o t.out
  <2>1. (end[p].buf \o net[p]) \o t.out = end[p].buf \o (net[p] \o t.out)
    <3>1. AreSeqs(end[p].buf, net[p], t.out)
      BY <1>3, <1>6 DEF AreSeqs
    <3>2. Associates(end[p].buf, net[p], t.out)
      BY <3>1, Joined
    <3> QED
      BY <3>2 DEF Associates
  <2> QED
    BY <2>1, <1>9 DEF Incoming
<1>11. Incoming(e)' = t.buf \o in
  BY <1>4, <1>9 DEF Incoming
<1>12. BlocksTaken(u) = BlocksTaken(t)
  BY <1>4 DEF BlocksTaken
<1>13. Carries(e, end'[e], Incoming(p)', BlocksTaken(end'[p]))
  BY <1>7, <1>9, <1>10
<1>14. Carries(p, end'[p], Incoming(e)', BlocksTaken(end'[e]))
  BY <1>9, <1>11, <1>12 DEF p
<1>15. /\ EndOk(e, end'[e]) /\ end'[e].out = << >>
       /\ EndOk(p, end'[p]) /\ end'[p].out = << >>
  BY <1>2, <1>4, <1>5, <1>9
<1>18. /\ end'[p].garbled => end'[e].strayed
       /\ end'[e].garbled => end'[p].strayed
  BY <1>2, <1>4, <1>9 DEF Emitted, p
<1>16. Peer(e) = p /\ Peer(p) = e
  BY <1>1 DEF p
<1>17. \A f \in Ends :
         /\ EndOk(f, end'[f]) /\ end'[f].out = << >>
         /\ Carries(f, end'[f], Incoming(Peer(f))', BlocksTaken(end'[Peer(f)]))
         /\ end'[Peer(f)].garbled => end'[f].strayed
  BY <1>1, <1>13, <1>14, <1>15, <1>16, <1>18
<1> QED
  BY <1>9, <1>17 DEF ConnectInv

(* What the invariant says of one end and of what is on its way to it.     *)
LEMMA EndFacts ==
  ASSUME ConnectInv, NEW e \in Ends
  PROVE  /\ Peer(e) \in Ends /\ Peer(e) # e /\ Peer(Peer(e)) = e
         /\ EndOk(e, end[e]) /\ end[e].out = << >> /\ end[e] \in EndRecords
         /\ EndOk(Peer(e), end[Peer(e)])
         /\ end[e].buf \in Seq(Pieces) /\ end[e].io \in Seq(Pieces)
         /\ net \in [Ends -> Seq(Pieces)] /\ net[e] \in Seq(Pieces)
         /\ Carries(Peer(e), end[Peer(e)], end[e].buf \o net[e], BlocksTaken(end[e]))
         /\ end[e].garbled => end[Peer(e)].strayed
<1>1. Peer(e) \in Ends /\ Peer(e) # e /\ Peer(Peer(e)) = e
  BY DEF Peer, Ends
<1>2. /\ EndOk(e, end[e]) /\ end[e].out = << >> /\ end[e] \in EndRecords
      /\ EndOk(Peer(e), end[Peer(e)])
      /\ net \in [Ends -> Seq(Pieces)] /\ net[e] \in Seq(Pieces)
      /\ Carries(Peer(e), end[Peer(e)], Incoming(e), BlocksTaken(end[e]))
      /\ end[e].garbled => end[Peer(e)].strayed
  BY <1>1 DEF ConnectInv
<1>3. end[e].buf \in Seq(Pieces) /\ end[e].io \in Seq(Pieces)
  BY <1>2 DEF EndRecords
<1> QED
  BY <1>1, <1>2, <1>3 DEF Incoming

(* How much a write takes.                                                 *)
LEMMA TakenIs ==
  ASSUME NEW st, NEW n \in Nat \ {0}
  PROVE  Taken(st, n) \subseteq 1 .. n
BY DEF Taken

(* What the write of a block returns.                                      *)
LEMMA ReturnedIs ==
  ASSUME NEW st
  PROVE  Returned(st) \subseteq Returns
BY TakenIs, ConnectAssumption DEF Returned, Returns

(* The invariant holds when the connection is made. *)
LEMMA ConnectInvInit == ConnectInit => ConnectInv
<1> SUFFICES ASSUME NEW short \in ShortWrites, NEW goal \in Goals,
                    end = [e \in Ends |-> Fresh(e, short, goal)], net = [e \in Ends |-> << >>]
             PROVE  ConnectInv
  BY DEF ConnectInit
<1>1. << >> \in Seq(Pieces) /\ << >> \in Seq(Commands) /\ short \in BOOLEAN
  BY EmptySeq, ConnectAssumption
<1>2. << >> \o << >> = << >>
  BY <1>1, JoinedToNone
<1>3. net \in [Ends -> Seq(Pieces)]
  BY <1>1
<1>4. ASSUME NEW e \in Ends
      PROVE  /\ end[e] \in EndRecords /\ end[e].out = << >> /\ end[e].io = << >>
             /\ end[e].queue = << >> /\ end[e].buf = << >> /\ ~end[e].sending
             /\ ~end[e].garbled /\ ~end[e].strayed /\ end[e].ctx = "handshake" /\ net[e] = << >>
             /\ end[e].hs = IF e = "client" THEN "Init" ELSE "WaitC0C1"
  BY <1>1 DEF Fresh, EndRecords
<1>5. end \in [Ends -> EndRecords]
  BY <1>4
<1>6. ASSUME NEW e \in Ends
      PROVE  /\ EndOk(e, end[e]) /\ BlocksSent(end[e]) = 0 /\ BlocksTaken(end[e]) = 0
             /\ Incoming(e) = << >> /\ Outgoing(end[e]) = << >>
  <2>1. BlocksSent(end[e]) = 0 /\ BlocksTaken(end[e]) = 0
    BY <1>4 DEF BlocksSent, BlocksTaken
  <2>2. OfItsSide(e, end[e]) /\ Posts(end[e]) /\ Completes(end[e])
    BY <1>4 DEF OfItsSide, Posts, Completes, Ends
  <2>3. EndOk(e, end[e])
    BY <1>4, <2>1, <2>2 DEF EndOk
  <2>4. Incoming(e) = << >> /\ Outgoing(end[e]) = << >>
    BY <1>2, <1>4 DEF Incoming, Outgoing
  <2> QED
    BY <2>1, <2>3, <2>4
<1>7. ASSUME NEW e \in Ends
      PROVE  Carries(e, end[e], Incoming(Peer(e)), BlocksTaken(end[Peer(e)]))
  <2> DEFINE x == Incoming(Peer(e)) \o Outgoing(end[e])
             a == BlocksTaken(end[Peer(e)])
             b == BlocksSent(end[e])
  <2>1. Peer(e) \in Ends
    BY DEF Peer, Ends
  <2>2. Blocks(e, 0, 0) = << >>
    <3>1. 0 \in 0 .. 2
      OBVIOUS
    <3> QED
      BY <3>1, BlocksAre
  <2>3. b = 0 /\ a = 0
    BY <2>1, <1>6
  <2>4. x = << >>
    BY <2>1, <1>2, <1>6
  <2>5. Blocks(e, a, b) \o << >> = << >>
    BY <2>2, <2>3, <1>2
  <2>6. a <= b
    BY <2>3
  <2> HIDE DEF x, a, b
  <2>7. \E cs \in Seq(Commands) :
          x = Blocks(e, a, b) \o cs /\ (end[e].ctx = "handshake" => cs = << >>)
    <3>1. x = Blocks(e, a, b) \o << >>
      BY <2>4, <2>5
    <3>2. << >> \in Seq(Commands)
      BY <1>1
    <3> WITNESS << >> \in Seq(Commands)
    <3> QED
      BY <3>1
  <2> QED
    BY <2>6, <2>7 DEF Carries, x, a, b
<1>8. \A e \in Ends : ~end[Peer(e)].garbled
  BY <1>4 DEF Peer, Ends
<1> QED
  BY <1>3, <1>4, <1>5, <1>6, <1>7, <1>8 DEF ConnectInv

(* Becomes is a step that reads nothing.                                   *)
LEMMA BecomesIs ==
  ASSUME ConnectInv, NEW e \in Ends, NEW t, Becomes(e, t),
         EndOk(e, t), Emitted(e, end[e], t), t.garbled => end[Peer(e)].strayed,
         Carries(Peer(e), end[Peer(e)], t.buf \o net[e], BlocksTaken(t))
  PROVE  ConnectInv'
<1>1. Peer(e) \in Ends /\ Peer(e) # e /\ net \in [Ends -> Seq(Pieces)] /\ net[e] \in Seq(Pieces)
  BY EndFacts
<1>2. end' = [end EXCEPT ![e] = [t EXCEPT !.out = << >>]]
  BY DEF Becomes
<1> DEFINE w == net[Peer(e)] \o t.out
<1>3. net' = [net EXCEPT ![Peer(e)] = w]
  BY DEF Becomes
<1>4. [net EXCEPT ![Peer(e)] = w] = [net EXCEPT ![e] = net[e], ![Peer(e)] = w]
  <2> HIDE DEF w
  <2> QED
    BY <1>1
<1>5. net' = [net EXCEPT ![e] = net[e], ![Peer(e)] = @ \o t.out]
  BY <1>1, <1>3, <1>4
<1> QED
  BY <1>1, <1>2, <1>5, EndMoves

(* The client starts the handshake. *)
LEMMA OnConnectionKeeps == ConnectInv /\ OnConnection => ConnectInv'
<1> DEFINE e == "client"
           st == end[e]
           u == [st EXCEPT !.hs = "PostC0C1"]
           block == Block("C1")
<1> SUFFICES ASSUME ConnectInv, st.hs = "Init", NEW k \in Returned(st),
                    Becomes(e, SendBlock(u, block, k, k))
             PROVE  ConnectInv'
  BY DEF OnConnection
<1> DEFINE t == SendBlock(u, block, k, k)
<1>1. e \in Ends /\ k \in Returns
  BY ReturnedIs DEF Ends
<1>2. EndOk(e, st) /\ st \in EndRecords
  BY <1>1, EndFacts
<1>3. BlocksTaken(st) = 0 /\ BlocksSent(st) = 0
  BY DEF BlocksTaken, BlocksSent
<1>4. st.ctx = "handshake" /\ st.queue = << >> /\ ~st.sending
  BY <1>2, <1>3 DEF EndOk, EndRecords
<1> HIDE DEF st
<1>5. /\ u \in EndRecords /\ u.queue = << >> /\ u.out = st.out /\ u.io = st.io
      /\ u.hs = "PostC0C1" /\ u.ctx = "handshake" /\ u.buf = st.buf /\ ~u.sending
      /\ u.garbled = st.garbled /\ u.strayed = st.strayed
  BY <1>2, <1>4 DEF EndRecords
<1> HIDE DEF u
<1>6. OfItsSide(e, u) /\ BlocksSent(u) = BlocksSent(st) + 1 /\ BlocksTaken(u) = BlocksTaken(st)
  BY <1>3, <1>5 DEF OfItsSide, BlocksSent, BlocksTaken
<1>7. block = Blocks(e, BlocksSent(st), BlocksSent(u))
  BY <1>1, <1>3, <1>6, BlocksAre
<1> HIDE DEF block, t
<1>8. /\ OnlySent(u, t) /\ OfItsSide(e, t) /\ Posts(t)
      /\ BlocksSent(st) <= BlocksSent(t) /\ BlocksTaken(t) = BlocksTaken(u)
      /\ ~t.strayed => Outgoing(t) = Outgoing(st) \o Blocks(e, BlocksSent(st), BlocksSent(t))
  BY <1>1, <1>2, <1>4, <1>5, <1>6, <1>7, SendBlockDoes DEF t
<1>9. /\ t \in EndRecords /\ t.ctx = "handshake" /\ t.buf = st.buf /\ ~t.sending
      /\ t.queue = << >> /\ t.garbled = st.garbled /\ (st.strayed => t.strayed)
  BY <1>5, <1>8 DEF OnlySent
<1>10. EndOk(e, t)
  BY <1>3, <1>6, <1>8, <1>9 DEF EndOk, Completes
<1>11. Emitted(e, st, t)
  BY <1>1, <1>2, <1>4, <1>8, <1>9, BlocksEmitted
<1>12. Carries(Peer(e), end[Peer(e)], t.buf \o net[e], BlocksTaken(t))
  <2>1. Carries(Peer(e), end[Peer(e)], st.buf \o net[e], BlocksTaken(st))
    BY <1>1, EndFacts DEF st
  <2> QED
    BY <2>1, <1>6, <1>8, <1>9
<1>13. Becomes(e, t) /\ Emitted(e, end[e], t) /\ (t.garbled => end[Peer(e)].strayed)
  BY <1>1, <1>9, <1>11, EndFacts DEF t, st
<1> HIDE DEF e
<1> QED
  BY <1>1, <1>10, <1>12, <1>13, BecomesIs

(* Reading takes from what is on its way. *)
LEMMA OnReadKeeps ==
  ASSUME ConnectInv, NEW e \in Ends, OnRead(e)
  PROVE  ConnectInv'
<1> DEFINE st == end[e]
<1>1. PICK n \in 1 .. Len(net[e]), ack \in Acks(st), k1 \in Returned(st),
           k2 \in Returned(st) :
        LET read == [st EXCEPT !.buf = @ \o SubSeq(net[e], 1, n)]
            t == Parse(e, read, ack, k1, k2)
        IN  /\ end' = [end EXCEPT ![e] = [t EXCEPT !.out = << >>]]
            /\ net' = [net EXCEPT ![e] = SubSeq(@, n + 1, Len(@)), ![Peer(e)] = @ \o t.out]
  BY DEF OnRead
<1> DEFINE front == SubSeq(net[e], 1, n)
           in == SubSeq(net[e], n + 1, Len(net[e]))
           buf == st.buf \o front
           read == [st EXCEPT !.buf = buf]
           t == Parse(e, read, ack, k1, k2)
<1>2. /\ Peer(e) \in Ends /\ Peer(e) # e /\ EndOk(e, st) /\ st \in EndRecords /\ st.out = << >>
      /\ EndOk(Peer(e), end[Peer(e)]) /\ st.buf \in Seq(Pieces)
      /\ net \in [Ends -> Seq(Pieces)] /\ net[e] \in Seq(Pieces)
      /\ Carries(Peer(e), end[Peer(e)], st.buf \o net[e], BlocksTaken(st))
  BY EndFacts
<1>3. ack \in BOOLEAN /\ k1 \in Returns /\ k2 \in Returns
  BY ReturnedIs DEF Acks
<1>4. /\ end' = [end EXCEPT ![e] = [t EXCEPT !.out = << >>]]
      /\ net' = [net EXCEPT ![e] = in, ![Peer(e)] = @ \o t.out]
  BY <1>1, <1>2
<1>5. front \in Seq(Pieces) /\ in \in Seq(Pieces) /\ front \o in = net[e]
  <2>1. n \in 0 .. Len(net[e])
    BY <1>2, LenProperties
  <2> QED
    BY <2>1, <1>2, Parted
<1> HIDE DEF st, front, in
<1>6. buf \in Seq(Pieces) /\ buf \o in = st.buf \o net[e]
  <2>1. buf \in Seq(Pieces)
    BY <1>2, <1>5, ConcatProperties
  <2>2. (st.buf \o front) \o in = st.buf \o (front \o in)
    <3>1. AreSeqs(st.buf, front, in)
      BY <1>2, <1>5 DEF AreSeqs
    <3>2. Associates(st.buf, front, in)
      BY <3>1, Joined
    <3> QED
      BY <3>2 DEF Associates
  <2> QED
    BY <2>1, <2>2, <1>5
<1> HIDE DEF buf
<1>7. /\ read \in EndRecords /\ read.buf = buf /\ read.hs = st.hs /\ read.ctx = st.ctx
      /\ read.io = st.io /\ read.out = st.out /\ read.queue = st.queue
      /\ read.sending = st.sending /\ read.writing = st.writing /\ read.garbled = st.garbled
      /\ read.strayed = st.strayed
  BY <1>2, <1>6 DEF EndRecords
<1> HIDE DEF read
<1>8. /\ BlocksTaken(read) = BlocksTaken(st) /\ BlocksSent(read) = BlocksSent(st)
      /\ EndOk(e, read) /\ Outgoing(read) = Outgoing(st)
  BY <1>2, <1>7 DEF BlocksTaken, BlocksSent, EndOk, Completes, OfItsSide, Posts, Outgoing
<1>9. Carries(Peer(e), end[Peer(e)], read.buf \o in, BlocksTaken(read))
  BY <1>2, <1>6, <1>7, <1>8
<1>10. /\ EndOk(e, t) /\ Emitted(e, read, t) /\ t.garbled = read.garbled
       /\ Carries(Peer(e), end[Peer(e)], t.buf \o in, BlocksTaken(t))
  BY <1>2, <1>3, <1>5, <1>8, <1>9, ParseDoes
<1> HIDE DEF t
<1>11. Emitted(e, end[e], t) /\ (t.garbled => end[Peer(e)].strayed)
  BY <1>7, <1>8, <1>10, EndFacts DEF Emitted, st
<1> QED
  BY <1>4, <1>5, <1>10, <1>11, EndMoves

(* A message that is a command is handled by queueing commands; after      *)
(* anything else, which only comes if the peer's write has failed, nothing *)
(* is sent.                                                                *)
LEMMA HandleMessageKeeps ==
  ASSUME ConnectInv, NEW e \in Ends, HandleMessage(e)
  PROVE  ConnectInv'
<1> DEFINE st == end[e]
           m == Head(st.buf)
           buf == Tail(st.buf)
           u == [st EXCEPT !.buf = buf]
           t == MessageComplete(u, m)
<1>1. /\ EndOk(e, st) /\ st \in EndRecords /\ Peer(e) \in Ends
      /\ EndOk(Peer(e), end[Peer(e)]) /\ st.buf \in Seq(Pieces) /\ net[e] \in Seq(Pieces)
      /\ Carries(Peer(e), end[Peer(e)], st.buf \o net[e], BlocksTaken(st))
  BY EndFacts
<1>2. /\ st.ctx = "message" /\ st.buf # << >>
      /\ Becomes(e, t) \/ (st.garbled /\ Becomes(e, u))
  BY DEF HandleMessage, Idle
<1>3. BlocksTaken(st) = 2
  BY <1>1, <1>2, BlockCounts
<1>4. /\ buf \in Seq(Pieces) /\ (m \in Commands \/ end[Peer(e)].strayed)
      /\ Carries(Peer(e), end[Peer(e)], buf \o net[e], 2)
  <2>1. CASE ~end[Peer(e)].strayed
    BY <2>1, <1>1, <1>2, <1>3, MessageTaken
  <2>2. CASE end[Peer(e)].strayed
    <3>1. buf \in Seq(Pieces)
      BY <1>1, <1>2, HeadTailProperties
    <3> QED
      BY <2>2, <3>1 DEF Carries
  <2> QED
    BY <2>1, <2>2
<1> HIDE DEF st, m, buf
<1>5. /\ u \in EndRecords /\ u.buf = buf /\ u.hs = st.hs /\ u.ctx = st.ctx
      /\ u.io = st.io /\ u.out = st.out /\ u.queue = st.queue
      /\ u.sending = st.sending /\ u.writing = st.writing /\ u.garbled = st.garbled
      /\ u.strayed = st.strayed
  BY <1>1, <1>4 DEF EndRecords
<1> HIDE DEF u
<1>6. /\ BlocksTaken(u) = BlocksTaken(st) /\ BlocksSent(u) = BlocksSent(st)
      /\ EndOk(e, u) /\ Outgoing(u) = Outgoing(st)
  BY <1>1, <1>5 DEF BlocksTaken, BlocksSent, EndOk, Completes, OfItsSide, Posts, Outgoing
<1>7. ASSUME NEW w, Queued(u, w), Becomes(e, w) PROVE ConnectInv'
  <2>1. EndOk(e, w) /\ Emitted(e, u, w)
    BY <1>2, <1>5, <1>6, <1>7, QueuedIsEmitted
  <2>2. w.buf = buf /\ BlocksTaken(w) = 2 /\ (w.garbled => end[Peer(e)].strayed)
    BY <1>3, <1>5, <1>6, <1>7, EndFacts DEF Queued, BlocksTaken, st
  <2>3. Emitted(e, end[e], w)
    BY <1>5, <1>6, <2>1 DEF Emitted, st
  <2>4. Carries(Peer(e), end[Peer(e)], w.buf \o net[e], BlocksTaken(w))
    BY <1>4, <2>2
  <2> QED
    BY <1>7, <2>1, <2>2, <2>3, <2>4, BecomesIs
<1>8. CASE Becomes(e, t) /\ m \in Commands
  <2>1. Queued(u, t)
    BY <1>5, <1>6, <1>8, MessageCompleteDoes DEF EndOk
  <2> QED
    BY <2>1, <1>7, <1>8
<1>9. CASE Becomes(e, u)
  <2>1. Queued(u, u)
    BY <1>5, <1>6, NothingQueued DEF EndOk
  <2> QED
    BY <2>1, <1>7, <1>9
<1>10. CASE Becomes(e, t) /\ m \notin Commands
  <2>1. t = [u EXCEPT !.garbled = TRUE]
    BY <1>10 DEF MessageComplete, Commands, Control
  <2> HIDE DEF t
  <2>2. /\ t \in EndRecords /\ t.buf = u.buf /\ t.hs = u.hs /\ t.ctx = u.ctx
        /\ t.io = u.io /\ t.out = u.out /\ t.queue = u.queue /\ t.strayed = u.strayed
        /\ t.sending = u.sending /\ t.writing = u.writing
    BY <2>1, <1>5 DEF EndRecords
  <2>3. /\ BlocksTaken(t) = BlocksTaken(u) /\ BlocksSent(t) = BlocksSent(u)
        /\ EndOk(e, t) /\ Outgoing(t) = Outgoing(u)
    BY <1>6, <2>2 DEF BlocksTaken, BlocksSent, EndOk, Completes, OfItsSide, Posts, Outgoing
  <2>4. Emitted(e, end[e], t)
    BY <1>1, <1>5, <1>6, <2>2, <2>3, NothingEmitted DEF st
  <2>5. Carries(Peer(e), end[Peer(e)], t.buf \o net[e], BlocksTaken(t))
    BY <1>3, <1>4, <1>5, <1>6, <2>2, <2>3
  <2> QED
    BY <1>4, <1>10, <2>3, <2>4, <2>5, BecomesIs
<1> QED
  BY <1>2, <1>8, <1>9, <1>10

(* Closing changes nothing that the invariant speaks of. *)
LEMMA CheckFailsKeeps ==
  ASSUME ConnectInv, NEW e \in Ends, CheckFails(e)
  PROVE  ConnectInv'
<1>1. end' = [f \in Ends |-> [end[f] EXCEPT !.closed = TRUE]] /\ net' = net
  BY DEF CheckFails
<1>2. ASSUME NEW f \in Ends
      PROVE  /\ end'[f] \in EndRecords /\ end'[f].out = << >> /\ EndOk(f, end'[f])
             /\ BlocksTaken(end'[f]) = BlocksTaken(end[f])
             /\ BlocksSent(end'[f]) = BlocksSent(end[f]) /\ Outgoing(end'[f]) = Outgoing(end[f])
             /\ Incoming(f)' = Incoming(f) /\ end'[f].ctx = end[f].ctx
             /\ end'[f].garbled = end[f].garbled /\ end'[f].strayed = end[f].strayed
  <2> DEFINE st == end[f]
             t == [st EXCEPT !.closed = TRUE]
  <2>1. end'[f] = t
    BY <1>1
  <2>2. st \in EndRecords /\ EndOk(f, st) /\ st.out = << >>
    BY DEF ConnectInv
  <2> HIDE DEF st
  <2>3. /\ t \in EndRecords /\ t.buf = st.buf /\ t.hs = st.hs /\ t.ctx = st.ctx
        /\ t.io = st.io /\ t.out = st.out /\ t.queue = st.queue
        /\ t.sending = st.sending /\ t.writing = st.writing /\ t.garbled = st.garbled
        /\ t.strayed = st.strayed
    BY <2>2 DEF EndRecords
  <2> HIDE DEF t
  <2>4. /\ BlocksTaken(t) = BlocksTaken(st) /\ BlocksSent(t) = BlocksSent(st)
        /\ EndOk(f, t) /\ Outgoing(t) = Outgoing(st)
    BY <2>2, <2>3 DEF BlocksTaken, BlocksSent, EndOk, Completes, OfItsSide, Posts, Outgoing
  <2>5. Incoming(f)' = Incoming(f)
    BY <2>1, <2>3, <1>1 DEF Incoming, st
  <2> QED
    BY <2>1, <2>2, <2>3, <2>4, <2>5 DEF st
<1>3. \A f \in Ends : Peer(f) \in Ends
  BY DEF Peer, Ends
<1>4. ASSUME NEW f \in Ends
      PROVE  /\ Carries(f, end'[f], Incoming(Peer(f))', BlocksTaken(end'[Peer(f)]))
             /\ end'[Peer(f)].garbled => end'[f].strayed
  <2>1. /\ Carries(f, end[f], Incoming(Peer(f)), BlocksTaken(end[Peer(f)]))
        /\ end[Peer(f)].garbled => end[f].strayed
    BY DEF ConnectInv
  <2> QED
    BY <2>1, <1>2, <1>3 DEF Carries
<1>5. end' \in [Ends -> EndRecords] /\ net' \in [Ends -> Seq(Pieces)]
  <2>1. \A f \in Ends : end'[f] \in EndRecords
    BY <1>2
  <2> QED
    BY <2>1, <1>1 DEF ConnectInv
<1> QED
  BY <1>2, <1>4, <1>5 DEF ConnectInv

(* Writing sends what waits, and completes what was sent. *)
LEMMA OnWriteKeeps ==
  ASSUME ConnectInv, NEW e \in Ends, OnWrite(e)
  PROVE  ConnectInv'
<1> DEFINE st == end[e]
<1>1. /\ EndOk(e, st) /\ st \in EndRecords /\ Peer(e) \in Ends /\ st.out = << >>
      /\ st.io \in Seq(Pieces) /\ st.queue \in Seq(Pieces)
      /\ Carries(Peer(e), end[Peer(e)], st.buf \o net[e], BlocksTaken(st))
  BY EndFacts, OutgoingIs
<1>2. CASE st.io # << >>
  <2>1. PICK n \in Taken(st, Len(st.io)), k \in Returned(st) :
          LET t == [st EXCEPT !.out = SubSeq(st.io, 1, n), !.io = SubSeq(@, n + 1, Len(@))]
          IN  Becomes(e, IF n < Len(st.io) THEN t
                         ELSE OnWriteComplete([t EXCEPT !.writing = FALSE], k))
    BY <1>2 DEF OnWrite
  <2> DEFINE front == SubSeq(st.io, 1, n)
             back == SubSeq(st.io, n + 1, Len(st.io))
             t == [st EXCEPT !.out = front, !.io = back]
             u == [t EXCEPT !.writing = FALSE]
             w == OnWriteComplete(u, k)
  <2>2. Len(st.io) \in Nat \ {0}
    BY <1>1, <1>2, EmptySeq
  <2>3. n \in 1 .. Len(st.io) /\ k \in Returns
    BY <2>2, TakenIs, ReturnedIs
  <2>4. Becomes(e, IF n < Len(st.io) THEN t ELSE w)
    BY <2>1
  <2>5. /\ front \in Seq(Pieces) /\ back \in Seq(Pieces) /\ front \o back = st.io
        /\ Len(back) = Len(st.io) - n
    <3>1. n \in 0 .. Len(st.io) /\ st.io \in Seq(Pieces)
      BY <2>2, <2>3, <1>1
    <3> QED
      BY <3>1, Parted, Zenon
  <2> HIDE DEF st, front, back
  <2>6. /\ t \in EndRecords /\ t.buf = st.buf /\ t.hs = st.hs /\ t.ctx = st.ctx
        /\ t.io = back /\ t.out = front /\ t.queue = st.queue
        /\ t.sending = st.sending /\ t.writing = st.writing /\ t.garbled = st.garbled
        /\ t.strayed = st.strayed
    BY <1>1, <2>5 DEF EndRecords
  <2> HIDE DEF t
  <2>7. CASE n < Len(st.io)
    <3>1. back # << >>
      <4>1. Len(<< >>) = 0 /\ Len(back) # 0
        BY <2>2, <2>3, <2>5, <2>7, EmptySeq
      <4> QED
        BY <4>1
    <3>2. BlocksTaken(t) = BlocksTaken(st) /\ BlocksSent(t) = BlocksSent(st)
      BY <2>6 DEF BlocksTaken, BlocksSent
    <3>3. EndOk(e, t)
      BY <1>1, <2>6, <3>1, <3>2 DEF EndOk, Completes, OfItsSide, Posts
    <3>4. Outgoing(t) = Outgoing(st)
      <4>1. (front \o back) \o st.queue = front \o (back \o st.queue)
        <5>1. AreSeqs(front, back, st.queue)
          BY <1>1, <2>5 DEF AreSeqs
        <5>2. Associates(front, back, st.queue)
          BY <5>1, Joined
        <5> QED
          BY <5>2 DEF Associates
      <4>2. << >> \o (st.io \o st.queue) = st.io \o st.queue
        BY <1>1, ConcatProperties, JoinedToNone
      <4> QED
        BY <4>1, <4>2, <1>1, <2>5, <2>6 DEF Outgoing
    <3>5. Emitted(e, end[e], t)
      BY <1>1, <2>6, <3>2, <3>4, NothingEmitted DEF st
    <3>6. Becomes(e, t)
      BY <2>4, <2>7
    <3>7. Carries(Peer(e), end[Peer(e)], t.buf \o net[e], BlocksTaken(t))
      BY <1>1, <2>6, <3>2
    <3>8. t.garbled => end[Peer(e)].strayed
      BY <2>6, EndFacts DEF st
    <3> QED
      BY <3>3, <3>5, <3>6, <3>7, <3>8, BecomesIs
  <2>8. CASE ~ (n < Len(st.io))
    <3>1. back = << >> /\ front = st.io
      <4>1. n = Len(st.io)
        BY <2>2, <2>3, <2>8
      <4>2. Len(back) = 0
        BY <2>2, <2>5, <4>1
      <4>3. back = << >>
        BY <2>5, <4>2, EmptySeq
      <4> QED
        BY <4>3, <2>5, JoinedToNone
    <3>2. /\ u \in EndRecords /\ u.buf = st.buf /\ u.hs = st.hs /\ u.ctx = st.ctx
          /\ u.io = << >> /\ u.out = st.io /\ u.queue = st.queue
          /\ u.sending = st.sending /\ u.garbled = st.garbled /\ u.strayed = st.strayed
      BY <2>6, <3>1 DEF EndRecords
    <3> HIDE DEF u
    <3>3. /\ EndOk(e, w) /\ Emitted(e, st, w) /\ w.garbled = st.garbled
          /\ w.buf = st.buf /\ BlocksTaken(w) = BlocksTaken(st)
      BY <1>1, <2>3, <3>2, OnWriteCompleteDoes
    <3>4. Becomes(e, w)
      BY <2>4, <2>8
    <3> HIDE DEF w
    <3>5. Emitted(e, end[e], w) /\ (w.garbled => end[Peer(e)].strayed)
      BY <3>3, EndFacts DEF st
    <3>6. Carries(Peer(e), end[Peer(e)], w.buf \o net[e], BlocksTaken(w))
      BY <1>1, <3>3
    <3> QED
      BY <3>3, <3>4, <3>5, <3>6, BecomesIs
  <2> QED
    BY <2>7, <2>8
<1>3. CASE st.io = << >>
  <2>1. PICK k \in Returned(st) : Becomes(e, OnWriteComplete([st EXCEPT !.writing = FALSE], k))
    BY <1>3 DEF OnWrite
  <2> DEFINE u == [st EXCEPT !.writing = FALSE]
             w == OnWriteComplete(u, k)
  <2>2. k \in Returns
    BY ReturnedIs
  <2>3. Becomes(e, w)
    BY <2>1
  <2> HIDE DEF st
  <2>4. /\ u \in EndRecords /\ u.buf = st.buf /\ u.hs = st.hs /\ u.ctx = st.ctx
        /\ u.io = << >> /\ u.out = st.io /\ u.queue = st.queue
        /\ u.sending = st.sending /\ u.garbled = st.garbled /\ u.strayed = st.strayed
    BY <1>1, <1>3 DEF EndRecords
  <2> HIDE DEF u
  <2>5. /\ EndOk(e, w) /\ Emitted(e, st, w) /\ w.garbled = st.garbled
        /\ w.buf = st.buf /\ BlocksTaken(w) = BlocksTaken(st)
    BY <1>1, <2>2, <2>4, OnWriteCompleteDoes
  <2> HIDE DEF w
  <2>6. Emitted(e, end[e], w) /\ (w.garbled => end[Peer(e)].strayed)
    BY <2>5, EndFacts DEF st
  <2>7. Carries(Peer(e), end[Peer(e)], w.buf \o net[e], BlocksTaken(w))
    BY <1>1, <2>5
  <2> QED
    BY <2>3, <2>5, <2>6, <2>7, BecomesIs
<1> QED
  BY <1>2, <1>3

(* Every step keeps the invariant. *)
LEMMA ConnectInvNext == ConnectInv /\ [ConnectNext]_connectVars => ConnectInv'
<1> SUFFICES ASSUME ConnectInv, [ConnectNext]_connectVars PROVE ConnectInv'
  OBVIOUS
<1>1. CASE OnConnection
  BY <1>1, OnConnectionKeeps
<1>2. ASSUME NEW e \in Ends, OnRead(e) \/ HandleMessage(e) \/ CheckFails(e) \/ OnWrite(e)
      PROVE  ConnectInv'
  BY <1>2, OnReadKeeps, HandleMessageKeeps, CheckFailsKeeps, OnWriteKeeps
<1>3. CASE UNCHANGED connectVars
  <2>1. end' = end /\ net' = net
    BY <1>3 DEF connectVars
  <2>2. \A e \in Ends : Incoming(e)' = Incoming(e)
    BY <2>1 DEF Incoming
  <2>3. \A e \in Ends : Peer(e) \in Ends
    BY DEF Peer, Ends
  <2> QED
    BY <2>1, <2>2, <2>3 DEF ConnectInv
<1> QED
  BY <1>1, <1>2, <1>3 DEF ConnectNext

(* What arrives first, while a block is awaited, is that block. *)
LEMMA BlockComesFirst ==
  ASSUME NEW p \in Ends, NEW st, EndOk(p, st), ~st.strayed, NEW in \in Seq(Pieces), in # << >>,
         NEW a \in 0 .. 1, Carries(p, st, in, a)
  PROVE  in[1] = Blocks(p, a, a + 1)[1]
<1> DEFINE s == BlocksSent(st)
           o == Outgoing(st)
           front == Blocks(p, a, a + 1)
           back == Blocks(p, a + 1, s)
<1>1. s \in 0 .. 2 /\ a <= s /\ o \in Seq(Pieces)
  BY BlockCounts, OutgoingIs DEF EndOk, Carries
<1>2. PICK cs \in Seq(Commands) : /\ in \o o = Blocks(p, a, s) \o cs
                                  /\ st.ctx = "handshake" => cs = << >>
  BY DEF Carries
<1>3. cs \in Seq(Pieces)
  BY CommandsArePieces
<1> HIDE DEF o, s
<1>4. in \o o # << >> /\ (in \o o)[1] = in[1]
  BY <1>1, JoinedIs
<1>5. a + 1 <= s
  <2> SUFFICES ASSUME a = s PROVE FALSE
    BY <1>1
  <2>1. st.ctx = "handshake"
    BY <1>1, BlockCounts DEF s
  <2>2. a \in 0 .. 2
    OBVIOUS
  <2>3. Blocks(p, a, s) = << >> /\ cs = << >>
    BY <2>1, <2>2, <1>2, BlocksAre
  <2>4. Blocks(p, a, s) \o cs = << >>
    BY <2>3, <1>3, JoinedToNone
  <2> QED
    BY <2>4, <1>2, <1>4
<1>6. front \in Seq(Pieces) /\ back \in Seq(Pieces) /\ front \o back = Blocks(p, a, s)
  <2>1. a \in 0 .. 2 /\ a + 1 \in 0 .. 2 /\ a + 1 \in a .. 2 /\ s \in a + 1 .. 2 /\ s \in 0 .. 2
    BY <1>1, <1>5
  <2> QED
    BY <2>1, BlocksAre, BlocksJoined
<1>7. front # << >>
  <2>1. (a = 0 /\ a + 1 = 1) \/ (a = 1 /\ a + 1 = 2)
    OBVIOUS
  <2>2. Blocks(p, 0, 1) # << >> /\ Blocks(p, 1, 2) # << >>
    BY BlocksAre, BlockIs
  <2> QED
    BY <2>1, <2>2
<1> HIDE DEF front, back
<1>8. front \o back # << >> /\ (front \o back)[1] = front[1]
  BY <1>6, <1>7, JoinedIs
<1> DEFINE fb == front \o back
<1>9. fb \in Seq(Pieces) /\ fb # << >> /\ fb[1] = front[1] /\ in \o o = fb \o cs
  BY <1>2, <1>6, <1>8, ConcatProperties
<1> HIDE DEF fb
<1>10. (fb \o cs)[1] = fb[1]
  BY <1>3, <1>9, JoinedIs
<1>11. in[1] = front[1]
  BY <1>4, <1>9, <1>10
<1> QED
  BY <1>11 DEF front

(* The invariant says what is to be shown. *)
LEMMA ConnectInvImplies == ConnectInv => EndsInStep
<1> SUFFICES ASSUME ConnectInv PROVE EndsInStep
  OBVIOUS
<1>1. ConnectType
  <2>1. ASSUME NEW e \in Ends
        PROVE  /\ end[e].hs \in {"Init", "PostC0C1", "WaitS0S1", "PostC2", "Doning", "WaitC0C1",
                                 "PostS0S1", "PostS2", "WaitC2", "Done"}
               /\ end[e].ctx \in {"handshake", "message"}
               /\ end[e].queue \in Seq(Commands) /\ end[e].io \in Seq(Pieces)
               /\ end[e].out = << >>
    BY EndFacts DEF EndRecords
  <2>2. net \in [Ends -> Seq(Pieces)]
    BY DEF ConnectInv
  <2> QED
    BY <2>1, <2>2 DEF ConnectType
<1>2. SendingCompletes
  <2>1. \A e \in Ends : EndOk(e, end[e])
    BY DEF ConnectInv
  <2> QED
    BY <2>1 DEF SendingCompletes, EndOk, Completes
<1>3. InStep
  <2> DEFINE First(e, name) == Incoming(e) # << >> => Incoming(e)[1] = name
  <2> SUFFICES ASSUME NEW e \in Ends, ~end[Peer(e)].strayed
               PROVE  /\ end[e].hs = "WaitC0C1" => First(e, "C1")
                      /\ end[e].hs = "WaitS0S1" => First(e, "S1")
                      /\ end[e].hs \in {"WaitC2", "PostC2"}
                           => First(e, IF e = "client" THEN "S2" ELSE "C2")
                      /\ ~end[e].garbled
                      /\ end[e].ctx = "message"
                           => \A i \in 1 .. Len(Incoming(e)) : Incoming(e)[i] \in Commands
    BY DEF InStep
  <2> DEFINE st == end[e]
             p == Peer(e)
  <2>1. /\ EndOk(e, st) /\ p \in Ends /\ EndOk(p, end[p]) /\ st.buf \in Seq(Pieces)
        /\ net[e] \in Seq(Pieces) /\ Incoming(e) \in Seq(Pieces)
        /\ Carries(p, end[p], Incoming(e), BlocksTaken(st))
    <3>1. /\ EndOk(e, st) /\ p \in Ends /\ EndOk(p, end[p]) /\ st.buf \in Seq(Pieces)
          /\ net[e] \in Seq(Pieces)
          /\ Carries(p, end[p], st.buf \o net[e], BlocksTaken(st))
      BY EndFacts
    <3> QED
      BY <3>1, ConcatProperties DEF Incoming
  <2>2. ASSUME NEW a \in 0 .. 1, BlocksTaken(st) = a, Incoming(e) # << >>
        PROVE  Incoming(e)[1] = Blocks(p, a, a + 1)[1]
    BY <2>1, <2>2, BlockComesFirst
  <2>3. ASSUME Incoming(e) # << >>
        PROVE  /\ BlocksTaken(st) = 0 => Incoming(e)[1] = IF p = "client" THEN "C1" ELSE "S1"
               /\ BlocksTaken(st) = 1 => Incoming(e)[1] = IF p = "client" THEN "C2" ELSE "S2"
    <3>1. /\ Blocks(p, 0, 1)[1] = IF p = "client" THEN "C1" ELSE "S1"
          /\ Blocks(p, 1, 2)[1] = IF p = "client" THEN "C2" ELSE "S2"
      BY <2>1, BlocksAre, BlockIs
    <3>2. 0 \in 0 .. 1 /\ 1 \in 0 .. 1 /\ 0 + 1 = 1 /\ 1 + 1 = 2
      OBVIOUS
    <3> QED
      BY <2>2, <2>3, <3>1, <3>2
  <2>4. (e = "client" /\ p = "server") \/ (e = "server" /\ p = "client")
    BY DEF Ends, Peer
  <2>5. /\ st.hs = "WaitC0C1" => BlocksTaken(st) = 0 /\ e = "server"
        /\ st.hs = "WaitS0S1" => BlocksTaken(st) = 0 /\ e = "client"
        /\ st.hs \in {"WaitC2", "PostC2"} => BlocksTaken(st) = 1
    BY <2>1 DEF BlocksTaken, EndOk, OfItsSide
  <2>6. ~st.garbled
    BY EndFacts
  <2>7. st.ctx = "message" => \A i \in 1 .. Len(Incoming(e)) : Incoming(e)[i] \in Commands
    <3> HAVE st.ctx = "message"
    <3>1. BlocksTaken(st) = 2
      BY <2>1, BlockCounts
    <3>2. Carries(p, end[p], st.buf \o net[e], 2)
      BY <2>1, <3>1 DEF Incoming
    <3>3. \A i \in 1 .. Len(st.buf \o net[e]) : (st.buf \o net[e])[i] \in Commands
      BY <2>1, <3>2, MessageTaken
    <3> QED
      BY <3>3 DEF Incoming
  <2> HIDE DEF st, p
  <2>8. /\ st.hs = "WaitC0C1" => First(e, "C1")
        /\ st.hs = "WaitS0S1" => First(e, "S1")
        /\ st.hs \in {"WaitC2", "PostC2"} => First(e, IF e = "client" THEN "S2" ELSE "C2")
    BY <2>3, <2>4, <2>5
  <2> QED
    BY <2>6, <2>7, <2>8 DEF st
<1> QED
  BY <1>1, <1>2, <1>3 DEF EndsInStep

(***************************************************************************)
(* For any number of pieces, and whatever the kernel takes of a write: an  *)
(* end takes every block and every message of a peer whose writes have not *)
(* failed for what it is, and a write under way has its completion coming  *)
(* (HandShake, Parse, WriteComplete, CheckAndSend).                        *)
(***************************************************************************)
THEOREM EndsStayInStep == ConnectSpec => []EndsInStep
<1>1. ConnectInit => ConnectInv
  BY ConnectInvInit
<1>2. ConnectInv /\ [ConnectNext]_connectVars => ConnectInv'
  BY ConnectInvNext
<1>3. ConnectInv => EndsInStep
  BY ConnectInvImplies
<1> QED
  BY <1>1, <1>2, <1>3, PTL DEF ConnectSpec

=============================================================================
