------------------------------ MODULE RtmpWriter ------------------------------
(***************************************************************************)
(* RtmpContext::BuildChunk: the chunks that this server and its client     *)
(* write, read by ParseMessage as another instance of the program has it   *)
(* (a relay pulls a stream from a server of the same kind).                *)
(*                                                                         *)
(* Commands are built by one overload, always with timestamp 0; codec      *)
(* headers and frames of a player by the other.  A message is written to   *)
(* its end before the next one begins.                                     *)
(***************************************************************************)
EXTENDS RtmpChunk

CONSTANTS
  OutSize,    (* out_chunk_size_                                             *)
  Base        (* a timestamp has two digits of this base (stands for 2^16)   *)

(* The only chunk size that is announced is its own. *)
ASSUME WriterAssumption ==
  /\ OutSize \in Nat \ {0} /\ OutSize >= FirstSize /\ Sizes = {OutSize}
  /\ Base \in Nat \ {0, 1}

VARIABLES
  announced,  (* SendSetChunkSize has been written                           *)
  crashed     (* BuildChunk used a header that is not there                  *)

ownVars == <<vars, announced, crashed>>

(* out_chunk_size_ is used from the first message on; the peer's           *)
(* in_chunk_size_ starts smaller.                                          *)
OwnInit ==
  /\ last = [c \in CSIDs |-> None]
  /\ rest = [c \in CSIDs |-> None]
  /\ outSize = OutSize /\ inSize = FirstSize
  /\ wire = None /\ sent = None /\ got = None /\ framed = TRUE
  /\ inHeaders = [c \in CSIDs |-> NewHeader]
  /\ inPackets = [c \in CSIDs |-> None]
  /\ inDeltas = [c \in CSIDs |-> 0]
  /\ inExt = [c \in CSIDs |-> FALSE]
  /\ announced = FALSE /\ crashed = FALSE

(* The extended timestamp is copied in host order and read in network      *)
(* order.                                                                  *)
Swapped(n) == (n % Base) * Base + n \div Base

OwnChunk(m, fmt, stamp, left) == [Chunk(m, fmt, stamp, left) EXCEPT !.ext = Swapped(@)]

(***************************************************************************)
(* BuildChunk(PacketPtr &&): the shortest header that the previous message *)
(* of the chunk stream allows.                                             *)
(***************************************************************************)
CommandFmtAnySid(m) ==
  LET prev == last[m.csid]
  IN  IF prev = None \/ m.ts < prev.ts THEN 0
      ELSE IF m.type # prev.type \/ m.len # prev.len THEN 1
      ELSE IF m.ts - prev.ts # prev.delta THEN 2 ELSE 3

CommandFmt(m) ==
  LET prev == last[m.csid]
      useDelta == prev # None /\ m.ts >= prev.ts /\ m.sid = prev.sid
  IN  IF ~useDelta THEN 0
      ELSE IF m.type # prev.type \/ m.len # prev.len THEN 1
      ELSE IF m.ts - prev.ts # prev.delta THEN 2 ELSE 3

(* The first chunk of m, the state kept for the next message, and what is  *)
(* left of m.                                                              *)
BuildChunk(m, fmt) ==
  /\ wire' = OwnChunk(m, fmt, Stamp(m, fmt), m.len)
  /\ last' = [last EXCEPT ![m.csid] =
                [ts |-> m.ts, len |-> m.len, type |-> m.type, sid |-> m.sid,
                 delta |-> IF fmt = 0 THEN 0 ELSE Stamp(m, fmt),
                 ext |-> Stamp(m, fmt) >= ExtMark, near |-> Near(m, fmt)]]
  /\ Written(m, m.len, Stamp(m, fmt))
  /\ UNCHANGED readerVars

(* Nothing is under way. *)
Ready == ~crashed /\ framed /\ wire = None /\ \A c \in CSIDs : rest[c] = None

(* SendSetChunkSize. *)
SendSetChunkSize(m) ==
  /\ Ready
  /\ m.type = ChunkSizeType /\ m.ts = 0
  /\ BuildChunk(m, CommandFmt(m))
  /\ announced' = TRUE
  /\ UNCHANGED crashed

(* Any other command.  HandleConnect and SendConnect send the chunk size   *)
(* before anything that is longer than the peer's first chunk size.        *)
SendCommand(m) ==
  /\ Ready
  /\ m.type # ChunkSizeType /\ m.ts = 0
  /\ announced \/ m.len <= FirstSize
  /\ BuildChunk(m, CommandFmt(m))
  /\ UNCHANGED <<announced, crashed>>

(***************************************************************************)
(* BuildChunk(const PacketPtr &) for codec headers, which ask for fmt 0,   *)
(* and for frames.  Its condition has !prev where the other has prev: a    *)
(* frame on a chunk stream not used before reads the timestamp of a null   *)
(* pointer, and all others get fmt 0.                                      *)
(***************************************************************************)
PushHeader(m) ==
  /\ Ready /\ announced
  /\ m.type # ChunkSizeType /\ m.ts = 0
  /\ BuildChunk(m, 0)
  /\ UNCHANGED <<announced, crashed>>

PushFrame(m) ==
  /\ Ready /\ announced
  /\ m.type # ChunkSizeType
  /\ IF last[m.csid] = None
     THEN crashed' = TRUE /\ UNCHANGED vars
     ELSE BuildChunk(m, 0) /\ UNCHANGED crashed
  /\ UNCHANGED announced

(* The loop over the rest of the message. *)
NextChunk(c) ==
  /\ ~crashed /\ framed /\ wire = None
  /\ rest[c] # None
  /\ wire' = OwnChunk(rest[c].m, 3, rest[c].stamp, rest[c].left)
  /\ Written(rest[c].m, rest[c].left, rest[c].stamp)
  /\ UNCHANGED <<last, readerVars, announced, crashed>>

OwnNext ==
  \/ \E m \in Messages : SendSetChunkSize(m) \/ SendCommand(m) \/ PushHeader(m) \/ PushFrame(m)
  \/ \E c \in CSIDs : NextChunk(c)
  \/ Read /\ UNCHANGED <<announced, crashed>>

OwnSpec == OwnInit /\ [][OwnNext]_ownVars

-----------------------------------------------------------------------------
(* Properties                                                               *)

(***************************************************************************)
(* Everything that BuildChunk writes is a chunk stream in the sense of     *)
(* RtmpChunk, where any fmt may be used whose omissions the reader can     *)
(* make good, and where a chunk is never longer than what was announced.   *)
(***************************************************************************)
Chunks == INSTANCE RtmpChunk WITH outSize <- IF announced THEN OutSize ELSE FirstSize

WritesChunkStream == Chunks!Spec

=============================================================================
