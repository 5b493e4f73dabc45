------------------------------- MODULE Stream -------------------------------
(***************************************************************************)
(* The live stream of a session: live/Stream, with the GOP table           *)
(* (live/base/GopMgr), the codec headers (live/base/CodecHeader) and the   *)
(* cursor every player keeps into the ring of recent packets               *)
(* (live/user/PlayerUser, RtmpPlayerUser).                                 *)
(*                                                                         *)
(* The publisher's loop calls AddPacket.  Every player's own loop calls    *)
(* PostFrames, when it is activated and when its previous write completes. *)
(* Both hold Stream::lock_ while they touch the data modelled here, so one *)
(* call is one step; when a player is activated is the subject of module   *)
(* Delivery, and here an activation may come at any moment.                *)
(*                                                                         *)
(* A packet is its index, its kind and its corrected timestamp.  The       *)
(* vectors gops_ and *_packets_ are filled in index order and searched by  *)
(* index, so they are sets here.                                           *)
(***************************************************************************)
EXTENDS Integers, Sequences, FiniteSetsExt

CONSTANTS
  Players,         (* the players of the session                             *)
  BufferSize,      (* packet_buffer_size_ (1000 in the code)                 *)
  BatchSize,       (* frames one GetNextFrame hands out (10 in the code)     *)
  ContentLatency,  (* AppInfo::content_latency                               *)
  Kinds,           (* the kinds of packet the publisher sends                *)
  Deltas,          (* what one packet may add to its corrected clock         *)
  MaxIndex         (* bound on frame_index_                                  *)

HeaderKinds == {"meta", "audio_header", "video_header"}
FrameKinds  == {"key", "inter", "audio"}

ASSUME StreamAssumption ==
  /\ BufferSize \in Nat \ {0}
  /\ BatchSize \in Nat \ {0}
  /\ ContentLatency \in Nat
  /\ Kinds \subseteq HeaderKinds \cup FrameKinds
  /\ Deltas \subseteq Int
  /\ MaxIndex \in Nat

VARIABLES
  frame_index,      (* index of the newest packet, -1 before the first        *)
  packet_buffer,    (* the ring: slot -> packet                               *)
  gops,             (* GopMgr::gops_                                          *)
  latest_timestamp, (* GopMgr::latest_timestamp_                              *)
  codec_headers,    (* header kind -> indices of the headers saved            *)
  has,              (* has_meta_, has_audio_, has_video_                      *)
  ready,            (* ready_                                                 *)
  clock,            (* TimeCorrector: last corrected timestamp, per medium    *)
  user,             (* player -> the PlayerUser's cursor                      *)
  sending,          (* player -> RtmpContext::sending_                        *)
  wire              (* history: what was handed to the player's connection    *)

streamVars == <<frame_index, packet_buffer, gops, latest_timestamp,
                codec_headers, has, ready, clock>>
vars == <<streamVars, user, sending, wire>>

Slots    == 0 .. BufferSize - 1
None     == -1
NoPacket == [index |-> None, kind |-> "none", timestamp |-> 0]

Media      == {"audio", "video"}
MediumOf(k) == IF k \in {"audio", "audio_header"} THEN "audio" ELSE "video"

(***************************************************************************)
(* CodecUtils.  A video sequence header carries the key-frame nibble as    *)
(* well, so it opens a GOP and makes the stream ready like a key frame.    *)
(***************************************************************************)
IsCodecHeader(k) == k \in HeaderKinds
IsKeyFrame(k)    == k \in {"key", "video_header"}

(* The ring's slot of a packet index. *)
SlotOneShort(index) == index % (BufferSize - 1)
Slot(index) == index % BufferSize

HasMedia == has # {}
MinIdx   == frame_index - BufferSize

(***************************************************************************)
(* GopMgr::GetGopByLatency: walk back from the newest GOP while it is      *)
(* within the latency; the last GOP reached is the answer.                 *)
(***************************************************************************)
WithinLatency(g) == latest_timestamp - g.timestamp <= ContentLatency

GetGopByLatency ==
  LET reached == {g \in gops : \A h \in gops :
                                 h.index >= g.index => WithinLatency(h)}
  IN  IF reached = {} THEN None ELSE Min({g.index : g \in reached})

(***************************************************************************)
(* CodecHeader::Meta, AudioHeader and VideoHeader: the newest header not   *)
(* after idx, else (or for the very first packet) the newest of all.       *)
(***************************************************************************)
CodecHeaderNewest(h, idx) ==
  IF codec_headers[h] = {} THEN None ELSE Max(codec_headers[h])

CodecHeaderNoFallback(h, idx) ==
  LET upto == {i \in codec_headers[h] : i <= idx}
  IN  IF upto = {} THEN None ELSE Max(upto)

CodecHeaderAt(h, idx) ==
  LET upto == {i \in codec_headers[h] : i <= idx}
  IN  IF codec_headers[h] = {} THEN None
      ELSE IF idx > 0 /\ upto # {} THEN Max(upto) ELSE Max(codec_headers[h])

-----------------------------------------------------------------------------
(* The player's side: operators on the PlayerUser record us.                *)

NewUser ==
  [headers      |-> [h \in HeaderKinds |-> None],
   header_index |-> [h \in HeaderKinds |-> 0],
   wait         |-> HeaderKinds,
   out_frames   |-> << >>,
   out_index    |-> -1,
   out_frame_timestamp |-> 0]

HeldHeaders(us) == {h \in HeaderKinds : us.headers[h] # None}

Holding(us) == HeldHeaders(us) # {} \/ us.out_frames # << >>

GiveHeaders(us, hs, idx) ==
  [us EXCEPT
     !.headers      = [h \in HeaderKinds |->
                         IF h \in hs THEN CodecHeaderAt(h, idx) ELSE @[h]],
     !.header_index = [h \in HeaderKinds |->
                         IF h \in hs THEN CodecHeaderAt(h, idx) ELSE @[h]]]

(* The headers LocateGop has to find before it may succeed, and fails to. *)
Wanted(us) == us.wait \cap has
Missing(us, idx) == {h \in Wanted(us) : CodecHeaderAt(h, idx) = None}

(* The GOP must be found, and with it every codec header the stream has.  *)
Located(us) ==
  GetGopByLatency # None /\ Missing(us, GetGopByLatency) = {}

LocateGop(us) ==
  LET idx     == GetGopByLatency
      missing == Missing(us, idx)
  IN  IF idx = None THEN us
      ELSE [GiveHeaders(us, Wanted(us) \ missing, idx) EXCEPT
              !.out_index = idx - 1,
              !.wait      = IF missing = {} THEN HeaderKinds ELSE missing]

(* The player's next packet has left the ring, or it lags too far behind. *)
NeedSkip(us) ==
  \/ us.out_index < MinIdx
  \/ latest_timestamp - us.out_frame_timestamp > 2 * ContentLatency

SkipFrameBackward(us) ==
  LET idx == GetGopByLatency
  IN  IF idx = None THEN us ELSE [us EXCEPT !.out_index = idx - 1]

SkipFrameOnePast(us) ==
  LET idx == GetGopByLatency
  IN  IF idx = None \/ idx <= us.out_index THEN us
      ELSE [us EXCEPT !.out_index = idx]

SkipFrame(us) ==
  LET idx   == GetGopByLatency
      newer == {h \in HeaderKinds : CodecHeaderAt(h, idx) > us.header_index[h]}
  IN  IF idx = None \/ idx <= us.out_index THEN us
      ELSE [GiveHeaders(us, newer, idx) EXCEPT !.out_index = idx - 1]

(***************************************************************************)
(* The loop takes whatever packet is in the slot of the next index and     *)
(* goes on from that packet's own index, up to BatchSize packets.          *)
(***************************************************************************)
GetNextFrame(us) ==
  LET idx   == us.out_index + 1
      first == packet_buffer[Slot(idx)]
      n     == Min({BatchSize, frame_index - first.index + 1})
      batch == [i \in 1 .. n |->
                  packet_buffer[Slot(first.index + i - 1)]]
  IN  IF idx > frame_index \/ first = NoPacket THEN us
      ELSE [us EXCEPT !.out_frames = batch,
                      !.out_index  = batch[n].index,
                      !.out_frame_timestamp = batch[n].timestamp]

GetFrames(us) ==
  IF ~HasMedia \/ Holding(us) THEN us
  ELSE IF us.out_index >= 0
       THEN GetNextFrame(IF NeedSkip(us) THEN SkipFrame(us) ELSE us)
       ELSE IF Located(us) THEN GetNextFrame(LocateGop(us)) ELSE LocateGop(us)

-----------------------------------------------------------------------------
Init ==
  /\ frame_index = -1
  /\ packet_buffer = [s \in Slots |-> NoPacket]
  /\ gops = {}
  /\ latest_timestamp = 0
  /\ codec_headers = [h \in HeaderKinds |-> {}]
  /\ has = {}
  /\ ready = FALSE
  /\ clock = [m \in Media |-> 0]
  /\ user = [u \in Players |-> NewUser]
  /\ sending = [u \in Players |-> FALSE]
  /\ wire = [u \in Players |->
               [headers |-> [h \in HeaderKinds |-> None], last |-> None]]

(***************************************************************************)
(* TimeCorrector::CorrectTimestamp: a codec header gets 0; a frame moves   *)
(* its medium's corrected clock by a bounded delta, never below 0 (module  *)
(* TimeCorrector has the detail).                                          *)
(***************************************************************************)
CorrectTimestampNoFloor(k, d) ==
  IF IsCodecHeader(k) THEN 0 ELSE clock[MediumOf(k)] + d

CorrectTimestamp(k, d) ==
  IF IsCodecHeader(k) THEN 0 ELSE Max({0, clock[MediumOf(k)] + d})

ClearExpiredGopOneLess(gs, min_idx) == {g \in gs : g.index >= min_idx}

ClearExpiredGop(gs, min_idx) == {g \in gs : g.index > min_idx}

(***************************************************************************)
(* Stream::AddPacket: correct the timestamp, number the packet, mark the   *)
(* key frame, save the header, extend the GOP table, overwrite the oldest  *)
(* slot and forget the GOPs whose key frame is no longer in the ring.      *)
(***************************************************************************)
AddPacket(k, d) ==
  LET t       == CorrectTimestamp(k, d)
      index   == frame_index + 1
      min_idx == index - BufferSize
      gs      == IF IsKeyFrame(k)
                 THEN gops \cup {[index |-> index, timestamp |-> t]}
                 ELSE gops
  IN  /\ frame_index < MaxIndex
      /\ frame_index' = index
      /\ clock' = IF IsCodecHeader(k) THEN clock
                  ELSE [clock EXCEPT ![MediumOf(k)] = t]
      /\ ready' = (ready \/ IsKeyFrame(k))
      /\ codec_headers' = IF IsCodecHeader(k)
                          THEN [codec_headers EXCEPT ![k] = @ \cup {index}]
                          ELSE codec_headers
      /\ has' = IF IsCodecHeader(k) THEN has \cup {k} ELSE has
      /\ latest_timestamp' = t
      /\ packet_buffer' =
           [packet_buffer EXCEPT ![Slot(index)] =
              [index |-> index, kind |-> k, timestamp |-> t]]
      /\ gops' = IF min_idx > 0 THEN ClearExpiredGop(gs, min_idx) ELSE gs
      /\ UNCHANGED <<user, sending, wire>>

-----------------------------------------------------------------------------
(* PushFrame and PushFrames: refused while the context is still sending.    *)

SendHeader(u, us, h) ==
  /\ user' = [user EXCEPT ![u] = [us EXCEPT !.headers[h] = None]]
  /\ sending' = [sending EXCEPT ![u] = TRUE]
  /\ wire' = [wire EXCEPT ![u].headers[h] = us.headers[h]]

SendFrames(u, us) ==
  LET sent == us.out_frames
      HeadersIn(h) == {sent[i].index : i \in {j \in DOMAIN sent : sent[j].kind = h}}
  IN  /\ user' = [user EXCEPT ![u] = [us EXCEPT !.out_frames = << >>]]
      /\ sending' = [sending EXCEPT ![u] = TRUE]
      /\ wire' = [wire EXCEPT
                    ![u] = [headers |-> [h \in HeaderKinds |->
                                           IF HeadersIn(h) = {} THEN @.headers[h]
                                           ELSE Max(HeadersIn(h))],
                            last |-> us.out_index]]

Keep(u, us, still) ==
  /\ user' = [user EXCEPT ![u] = us]
  /\ sending' = [sending EXCEPT ![u] = still]
  /\ UNCHANGED wire

(* The one thing PostFrames sends: meta, else audio header, else video     *)
(* header, else the frames.                                                *)
NextHeader(us) ==
  IF us.headers["meta"] # None THEN "meta"
  ELSE IF us.headers["audio_header"] # None THEN "audio_header"
       ELSE "video_header"

(* PostFrames of player u while the context's sending_ is busy.            *)
Post(u, busy) ==
  LET us == GetFrames(user[u])
  IN  \/ /\ ~(ready /\ HasMedia)
         /\ Keep(u, user[u], busy)
      \/ /\ ready /\ HasMedia
         /\ busy \/ ~Holding(us)
         /\ Keep(u, us, busy)
      \/ /\ ready /\ HasMedia /\ ~busy
         /\ HeldHeaders(us) # {}
         /\ SendHeader(u, us, NextHeader(us))
      \/ /\ ready /\ HasMedia /\ ~busy
         /\ HeldHeaders(us) = {} /\ us.out_frames # << >>
         /\ SendFrames(u, us)

(* RtmpPlayerUser::PostFrames, called when the player is activated.        *)
PostFrames(u) == Post(u, sending[u]) /\ UNCHANGED streamVars

(* RtmpContext::CheckAndSend when a write of media completes: sending_ is  *)
(* cleared and the handler's OnActive posts the next frames.               *)
OnWriteComplete(u) == sending[u] /\ Post(u, FALSE) /\ UNCHANGED streamVars

Next ==
  \/ \E k \in Kinds, d \in Deltas : AddPacket(k, d)
  \/ \E u \in Players : PostFrames(u)
  \/ \E u \in Players : OnWriteComplete(u)

Spec == Init /\ [][Next]_vars
-----------------------------------------------------------------------------
(* Properties                                                               *)

Packet == [index : Nat, kind : HeaderKinds \cup FrameKinds, timestamp : Nat]

UserType ==
  [headers : [HeaderKinds -> Nat \cup {None}],
   header_index : [HeaderKinds -> Nat],
   wait : SUBSET HeaderKinds,
   out_frames : Seq(Packet),
   out_index : Nat \cup {-1},
   out_frame_timestamp : Nat]

(* The type of every variable. *)
TypeOK ==
  /\ frame_index \in Nat \cup {-1}
  /\ packet_buffer \in [Slots -> Packet \cup {NoPacket}]
  /\ gops \in SUBSET [index : Nat, timestamp : Nat]
  /\ latest_timestamp \in Nat
  /\ codec_headers \in [HeaderKinds -> SUBSET Nat]
  /\ has \in SUBSET HeaderKinds
  /\ ready \in BOOLEAN
  /\ clock \in [Media -> Nat]
  /\ user \in [Players -> UserType]
  /\ sending \in [Players -> BOOLEAN]
  /\ wire \in [Players -> [headers : [HeaderKinds -> Nat \cup {None}],
                            last : Nat \cup {None}]]

(***************************************************************************)
(* The ring holds exactly the last BufferSize packets: the packet with     *)
(* index i sits in slot i % packet_buffer_size_ until the packet           *)
(* i + packet_buffer_size_ overwrites it (Stream::AddPacket).              *)
(***************************************************************************)
RingHoldsLastPackets ==
  /\ \A i \in 0 .. frame_index :
       i > MinIdx => packet_buffer[i % BufferSize].index = i
  /\ \A s \in Slots :
       s > frame_index => packet_buffer[s] = NoPacket

(***************************************************************************)
(* What a player holds is an unbroken run of packets that follows what it  *)
(* was already sent: whatever AddPacket overwrites in the meantime, a      *)
(* player never gets a packet twice or out of order.                       *)
(***************************************************************************)
HeldRun(us) ==
  /\ \A i \in DOMAIN us.out_frames :
       us.out_frames[i].index = us.out_index - Len(us.out_frames) + i
  /\ us.out_frames # << >> =>
       us.out_frames[Len(us.out_frames)].timestamp = us.out_frame_timestamp

DeliveryInOrder ==
  \A u \in Players :
    /\ HeldRun(user[u])
    /\ user[u].out_index <= frame_index
    /\ wire[u].last <= user[u].out_index - Len(user[u].out_frames)

(***************************************************************************)
(* A GOP that LocateGop or SkipFrame may jump to still has its key frame   *)
(* in the ring; the one exception is the GOP of packet 0 while packet      *)
(* packet_buffer_size_ is the newest, which AddPacket does not clear.      *)
(***************************************************************************)
Buffered(g) ==
  LET p == packet_buffer[g.index % BufferSize]
  IN  p.index = g.index /\ p.timestamp = g.timestamp /\ IsKeyFrame(p.kind)

GopsBuffered ==
  \A g \in gops : Buffered(g) \/ (g.index = 0 /\ MinIdx = 0)

(***************************************************************************)
(* has_meta_, has_audio_ and has_video_ promise a header that CodecHeader  *)
(* can find, so LocateGop never stops half way with out_index_ already set *)
(* and a wait_ flag cleared.                                               *)
(***************************************************************************)
LocateIsAllOrNothing ==
  \A u \in Players :
    /\ user[u].wait = HeaderKinds
    /\ \A idx \in 0 .. frame_index : Missing(user[u], idx) = {}

(***************************************************************************)
(* A player that is about to get its first frames has been sent, of every  *)
(* header kind, the newest header that is not after those frames: it can   *)
(* decode from the first frame on.  A header that is itself the first      *)
(* frame needs no header before it.                                        *)
(***************************************************************************)
Upto(h, idx) == {i \in codec_headers[h] : i <= idx}

CanDecode(w, p) ==
  \A h \in HeaderKinds :
    (Upto(h, p.index) # {} /\ p.kind # h) => w.headers[h] = Max(Upto(h, p.index))

AboutToSend(u) == user[u].out_frames # << >> /\ HeldHeaders(user[u]) = {}

FirstFramesDecodable ==
  \A u \in Players :
    (AboutToSend(u) /\ wire[u].last = None)
      => CanDecode(wire[u], user[u].out_frames[1])

(***************************************************************************)
(* Packets are dropped for a player only by a skip it needed, and while    *)
(* its next packet is still in the ring a skip lands on a key frame.       *)
(***************************************************************************)
SkipStep(u) ==
  LET us == user[u]
      first == user'[u].out_frames[1]
  IN  (us.out_index >= 0 /\ us.out_frames = << >> /\ user'[u].out_frames # << >>)
        => \/ first.index = us.out_index + 1
           \/ NeedSkip(us) /\ us.out_index < MinIdx
           \/ NeedSkip(us) /\ IsKeyFrame(first.kind)

SkipsOnlyToKeyFrame == [][\A u \in Players : SkipStep(u)]_vars

=============================================================================
