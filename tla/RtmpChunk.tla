------------------------------ MODULE RtmpChunk ------------------------------
(***************************************************************************)
(* RtmpContext::ParseMessage: putting the messages of an RTMP connection   *)
(* together again from its chunks.                                         *)
(*                                                                         *)
(* A message travels in chunks on a chunk stream (csid); the header of a   *)
(* chunk is compressed against the chunk before it on that chunk stream    *)
(* (fmt 0..3).  The writer here is any peer that follows the format: it    *)
(* picks any fmt whose precondition holds and interleaves the chunks of    *)
(* different chunk streams.  The reader never sees more than a prefix of   *)
(* what was written, so one chunk is parsed again and again until it is    *)
(* there in full.  Reader and writer share nothing, so a wire that holds   *)
(* one chunk shows every behaviour.                                        *)
(*                                                                         *)
(* Lengths are in units of data.  ExtMark stands for 0xFFFFFF.             *)
(***************************************************************************)
EXTENDS Integers, Sequences

CONSTANTS
  CSIDs,      (* chunk stream ids                                            *)
  Lens,       (* message lengths                                             *)
  Types,      (* message types other than kRtmpMsgTypeChunkSize              *)
  Sids,       (* message stream ids                                          *)
  Payloads,   (* what tells the content of two messages apart                *)
  Sizes,      (* chunk sizes that the writer may announce                    *)
  FirstSize,  (* in_chunk_size_ at the start                                 *)
  MaxTime,    (* bound on timestamps                                         *)
  ExtMark,    (* first timestamp that does not fit the 24-bit field          *)
  None        (* no packet, no chunk                                         *)

ASSUME ChunkAssumption ==
  /\ Lens \subseteq Nat \ {0} /\ Sizes \subseteq Nat \ {0} /\ Payloads \subseteq Nat
  /\ FirstSize \in Nat \ {0} /\ MaxTime \in Nat /\ ExtMark \in Nat \ {0}
  /\ 0 \notin Types /\ 1 \notin Types

ChunkSizeType == 1                 (* kRtmpMsgTypeChunkSize                  *)
Fmts   == 0 .. 3
Times  == 0 .. MaxTime

Messages ==
  [csid : CSIDs, ts : Times, len : Lens, type : Types, sid : Sids, val : Payloads]
  \cup
  [csid : CSIDs, ts : Times, len : {1}, type : {ChunkSizeType}, sid : Sids, val : Sizes]

(* RtmpMsgHeader; the reader's timestamps are not bounded. *)
Headers ==
  [ts : Nat, len : Lens \cup {0, 1}, type : Types \cup {0, ChunkSizeType}, sid : Sids \cup {0}]
NewHeader == [ts |-> 0, len |-> 0, type |-> 0, sid |-> 0]

(* What the writer keeps of a message, what is left of one, a chunk, what  *)
(* the reader has of a message, and what it hands over.                    *)
WrittenHeaders ==
  [ts : Times, len : Lens \cup {1}, type : Types \cup {ChunkSizeType}, sid : Sids,
   delta : Times, ext : BOOLEAN, near : BOOLEAN]
Remainders == [m : Messages, left : Nat, stamp : Times]
WireChunks ==
  [csid : CSIDs, fmt : Fmts, ts : Times, ext : Times, hasExt : BOOLEAN, len : Lens \cup {1},
   type : Types \cup {ChunkSizeType}, sid : Sids, body : Seq(Nat)]
InPackets == [cap : Lens \cup {1}, body : Seq(Nat), header : Headers]
Handed    == [csid : CSIDs, header : Headers, body : Seq(Nat)]

ASSUME NoneAssumption ==
  None \notin WrittenHeaders \cup Remainders \cup WireChunks \cup InPackets \cup Handed \cup Messages

VARIABLES
  last,     (* writer: csid -> [header of its last message, delta], or None  *)
  rest,     (* writer: csid -> message under way and what is left, or None    *)
  outSize,  (* writer: chunk size                                             *)
  wire,     (* the chunk on its way, or None                                  *)
  sent,     (* the last message written to its end, or None (history)         *)
  inHeaders, inPackets, inDeltas, inExt, inSize,   (* members in_..._         *)
  got,      (* the last message given to MessageComplete, or None (history)   *)
  framed    (* the reader still knows where a chunk begins                    *)

writerVars == <<last, rest, outSize, sent>>
readerVars == <<inHeaders, inPackets, inDeltas, inExt, inSize, got, framed>>
vars == <<writerVars, wire, readerVars>>

Smaller(a, b) == IF a < b THEN a ELSE b

Init ==
  /\ last = [c \in CSIDs |-> None]
  /\ rest = [c \in CSIDs |-> None]
  /\ outSize = FirstSize
  /\ wire = None /\ sent = None /\ got = None /\ framed = TRUE
  /\ inHeaders = [c \in CSIDs |-> NewHeader]
  /\ inPackets = [c \in CSIDs |-> None]
  /\ inDeltas = [c \in CSIDs |-> 0]
  /\ inExt = [c \in CSIDs |-> FALSE]
  /\ inSize = FirstSize

-----------------------------------------------------------------------------
(* The writer.                                                              *)

(***************************************************************************)
(* What fmt leaves out has to follow from the message before.  After a     *)
(* message of fmt 0 the delta counts as 0, as it does for this reader and  *)
(* for BuildChunk.                                                         *)
(***************************************************************************)
Legal(m, fmt) ==
  LET p == last[m.csid]
  IN  fmt # 0 =>
        /\ p # None
        /\ m.ts >= p.ts /\ m.sid = p.sid
        /\ fmt >= 2 => m.len = p.len /\ m.type = p.type
        /\ fmt = 3 => m.ts - p.ts = p.delta /\ p.ext = (p.delta >= ExtMark)

(* The number that the timestamp field of the first chunk stands for.      *)
Stamp(m, fmt) == IF fmt = 0 THEN m.ts ELSE m.ts - last[m.csid].ts

(* No timestamp since the last of fmt 0 needed the extended field. *)
Near(m, fmt) == Stamp(m, fmt) < ExtMark /\ (fmt = 0 \/ last[m.csid].near)

(* A chunk with the next piece of m; all that follow a large timestamp     *)
(* repeat it in full.                                                      *)
Chunk(m, fmt, stamp, left) ==
  [csid |-> m.csid, fmt |-> fmt, ts |-> Smaller(stamp, ExtMark),
   ext |-> IF stamp >= ExtMark THEN stamp ELSE 0, hasExt |-> stamp >= ExtMark,
   len |-> m.len, type |-> m.type, sid |-> m.sid,
   body |-> [i \in 1 .. Smaller(left, outSize) |-> m.val]]

(* The last chunk of a message; a chunk size holds from the next chunk on. *)
Written(m, left, stamp) ==
  IF left > outSize
  THEN /\ rest' = [rest EXCEPT ![m.csid] = [m |-> m, left |-> left - outSize, stamp |-> stamp]]
       /\ UNCHANGED <<outSize, sent>>
  ELSE /\ rest' = [rest EXCEPT ![m.csid] = None]
       /\ sent' = m
       /\ outSize' = IF m.type = ChunkSizeType THEN m.val ELSE outSize

StartMessage(m, fmt) ==
  /\ wire = None /\ framed
  /\ rest[m.csid] = None
  /\ Legal(m, fmt)
  /\ wire' = Chunk(m, fmt, Stamp(m, fmt), m.len)
  /\ last' = [last EXCEPT ![m.csid] =
                [ts |-> m.ts, len |-> m.len, type |-> m.type, sid |-> m.sid,
                 delta |-> IF fmt = 0 THEN 0 ELSE Stamp(m, fmt),
                 ext |-> Stamp(m, fmt) >= ExtMark, near |-> Near(m, fmt)]]
  /\ Written(m, m.len, Stamp(m, fmt))
  /\ UNCHANGED readerVars

ContinueMessage(c) ==
  /\ wire = None /\ framed
  /\ rest[c] # None
  /\ wire' = Chunk(rest[c].m, 3, rest[c].stamp, rest[c].left)
  /\ Written(rest[c].m, rest[c].left, rest[c].stamp)
  /\ UNCHANGED <<last, readerVars>>

-----------------------------------------------------------------------------
(* The reader: one round of the loop of ParseMessage.                       *)

(* The packet under way on the chunk stream, or a new one.                 *)
PacketOf(ch) ==
  LET prev == inHeaders[ch.csid]
      msgLen == IF ch.fmt <= 1 THEN ch.len
                ELSE IF prev.len = 0 THEN inSize ELSE prev.len
  IN  IF inPackets[ch.csid] = None
      THEN [cap |-> msgLen, body |-> << >>, header |-> NewHeader]
      ELSE inPackets[ch.csid]

HeaderForgetsDelta(ch) ==
  LET prev == inHeaders[ch.csid]
  IN  CASE ch.fmt = 0 -> [ts |-> ch.ts, len |-> ch.len, type |-> ch.type, sid |-> ch.sid]
        [] ch.fmt = 1 -> [ts |-> ch.ts + prev.ts, len |-> ch.len, type |-> ch.type,
                          sid |-> prev.sid]
        [] ch.fmt = 2 -> [prev EXCEPT !.ts = ch.ts + @]
        [] ch.fmt = 3 -> prev

(* The header from the fields present and the chunk before.  A chunk of    *)
(* fmt 3 begins a message when the packet has no timestamp yet.            *)
Header(ch) ==
  LET prev == inHeaders[ch.csid]
      h == PacketOf(ch).header
  IN  CASE ch.fmt = 0 -> [ts |-> ch.ts, len |-> ch.len, type |-> ch.type, sid |-> ch.sid]
        [] ch.fmt = 1 -> [ts |-> ch.ts + prev.ts, len |-> ch.len, type |-> ch.type,
                          sid |-> prev.sid]
        [] ch.fmt = 2 -> [prev EXCEPT !.ts = ch.ts + @]
        [] ch.fmt = 3 -> [prev EXCEPT !.ts = IF h.ts = 0 THEN inDeltas[ch.csid] + @ ELSE h.ts]

Delta(ch) ==
  CASE ch.fmt = 0 -> 0
    [] ch.fmt \in {1, 2} -> ch.ts
    [] ch.fmt = 3 -> inDeltas[ch.csid]

(* Whether an extended timestamp is expected. *)
Ext(ch) == IF ch.fmt = 3 THEN inExt[ch.csid] ELSE ch.ts = ExtMark

(* The extended timestamp, which is used for a chunk of fmt 1..3 only.     *)
ExtHeader(ch) ==
  IF Ext(ch) /\ ch.fmt # 0
  THEN [Header(ch) EXCEPT !.ts = ch.ext + inHeaders[ch.csid].ts] ELSE Header(ch)

ExtDelta(ch) == IF Ext(ch) /\ ch.fmt # 0 THEN ch.ext ELSE Delta(ch)

(* How much of the body the reader waits for. *)
Bytes(ch) == Smaller(PacketOf(ch).cap - Len(PacketOf(ch).body), inSize)

(* The reader can only go on when it takes the chunk for as long as it is. *)
Understood(ch) == Ext(ch) = ch.hasExt /\ Bytes(ch) = Len(ch.body)

(* Part of the chunk is missing: the extended timestamp ...                *)
ParseNoExt ==
  /\ wire # None /\ framed /\ Ext(wire)
  /\ inPackets' = [inPackets EXCEPT ![wire.csid] =
                     [PacketOf(wire) EXCEPT !.header = Header(wire)]]
  /\ inDeltas' = [inDeltas EXCEPT ![wire.csid] = Delta(wire)]
  /\ inExt' = [inExt EXCEPT ![wire.csid] = TRUE]
  /\ UNCHANGED <<writerVars, wire, inHeaders, inSize, got, framed>>

(* ... or some of the body.  What was read of the header is kept.          *)
ParseNoBody ==
  /\ wire # None /\ framed
  /\ inPackets' = [inPackets EXCEPT ![wire.csid] =
                     [PacketOf(wire) EXCEPT !.header = ExtHeader(wire)]]
  /\ inDeltas' = [inDeltas EXCEPT ![wire.csid] = ExtDelta(wire)]
  /\ inExt' = [inExt EXCEPT ![wire.csid] = Ext(wire)]
  /\ UNCHANGED <<writerVars, wire, inHeaders, inSize, got, framed>>

(* MessageComplete: the chunk size holds from the next chunk on.           *)
HandleChunkSizeIgnored(h, body) == inSize

HandleChunkSize(h, body) == IF h.type = ChunkSizeType THEN body[1] ELSE inSize

ParseChunk ==
  LET c == wire.csid
      h == ExtHeader(wire)
      packet == [PacketOf(wire) EXCEPT !.header = h, !.body = @ \o wire.body]
      complete == Len(packet.body) = packet.cap
  IN  /\ wire # None /\ framed
      /\ wire' = None
      /\ framed' = Understood(wire)
      /\ inDeltas' = [inDeltas EXCEPT ![c] = ExtDelta(wire)]
      /\ inExt' = [inExt EXCEPT ![c] = Ext(wire)]
      /\ inHeaders' = [inHeaders EXCEPT ![c] = h]
      /\ inPackets' = [inPackets EXCEPT ![c] = IF complete THEN None ELSE packet]
      /\ IF complete
         THEN /\ got' = [csid |-> c, header |-> h, body |-> packet.body]
              /\ inSize' = HandleChunkSize(h, packet.body)
         ELSE UNCHANGED <<got, inSize>>
      /\ UNCHANGED writerVars

-----------------------------------------------------------------------------
Write ==
  \/ \E m \in Messages, fmt \in Fmts : StartMessage(m, fmt)
  \/ \E c \in CSIDs : ContinueMessage(c)

Read == ParseNoExt \/ ParseNoBody \/ ParseChunk

Next == Write \/ Read

Spec == Init /\ [][Next]_vars

-----------------------------------------------------------------------------
(* Properties                                                               *)

(* The types of what both sides keep; the reader's packet is short of its  *)
(* length. *)
TypeOK ==
  /\ last \in [CSIDs -> WrittenHeaders \cup {None}]
  /\ rest \in [CSIDs -> Remainders \cup {None}]
  /\ wire \in WireChunks \cup {None} /\ sent \in Messages \cup {None}
  /\ inHeaders \in [CSIDs -> Headers]
  /\ inPackets \in [CSIDs -> InPackets \cup {None}]
  /\ \A c \in CSIDs : inPackets[c] # None => Len(inPackets[c].body) < inPackets[c].cap
  /\ inDeltas \in [CSIDs -> Times] /\ inExt \in [CSIDs -> BOOLEAN]
  /\ inSize \in Sizes \cup {FirstSize} /\ outSize \in Sizes \cup {FirstSize}
  /\ got \in Handed \cup {None} /\ framed \in BOOLEAN

(***************************************************************************)
(* ParseMessage hands over every message as it was written and once it is  *)
(* all there: its type, stream, length and content, however its chunks     *)
(* were compressed, interleaved with others, cut up by TCP and parsed      *)
(* again.                                                                  *)
(***************************************************************************)
ContentIntact ==
  (wire = None /\ sent # None) =>
     /\ got # None
     /\ got.csid = sent.csid
     /\ got.header.type = sent.type /\ got.header.sid = sent.sid
     /\ got.header.len = sent.len
     /\ got.body = [i \in 1 .. sent.len |-> sent.val]

(***************************************************************************)
(* Its timestamp is the one that was written, although most chunks carry   *)
(* a difference or nothing, as long as no timestamp needs the extended     *)
(* field.  From the first one that does (0xFFFFFF: 4.7 hours), timestamps  *)
(* are wrong until an absolute one fits the field again: ParseMessage      *)
(* reads the extended timestamp of fmt 0 and drops it, and adds that of    *)
(* the other formats again with every chunk of the message.                *)
(***************************************************************************)
TimesIntact ==
  (wire = None /\ sent # None /\ got # None /\ rest[sent.csid] = None /\ last[sent.csid].near)
    => got.header.ts = sent.ts

(* Type and content as well as the time of a message arrive as written.    *)
MessagesIntact == ContentIntact /\ TimesIntact

(* The reader never loses track of where chunks begin: its chunk size      *)
(* follows the writer's at the right chunk, and what it keeps of a message *)
(* whose chunks are still to come is of its type.                          *)
StaysFramed == TypeOK /\ framed /\ (wire = None => inSize = outSize)

=============================================================================
