----------------------------- MODULE RtmpConnect -----------------------------
(***************************************************************************)
(* An RtmpClient that plays from or publishes to an RtmpServer: handshake, *)
(* commands, and the queue that they are sent through (RtmpHandShake,      *)
(* RtmpContext, RtmpServer, RtmpClient over TcpConnection).                *)
(*                                                                         *)
(* Each end has a loop thread of its own.  A handler is one step, but for  *)
(* the loop over the messages that have arrived, which takes one at a      *)
(* time; what a handler writes may complete within it, which calls         *)
(* OnWriteComplete in the middle of it, or later in OnWrite.  A handshake  *)
(* block is Parts pieces, which TCP may deliver apart, a command is one    *)
(* piece (module RtmpChunk).  A write that fails puts a stray byte in      *)
(* front of its block: the pieces are then cut one byte earlier, the first *)
(* begins with that byte, and one of a single byte is left over.           *)
(***************************************************************************)
EXTENDS Integers, Sequences

CONSTANTS
  Parts,        (* pieces that a block of 1536 bytes may arrive in            *)
  ShortWrites,  (* whether write may take less than it is given               *)
  Goals,        (* what a client may want: "play", "publish" (is_player_)     *)
  MaxAcks       (* bound on the times that an end acknowledges bytes          *)

ASSUME ConnectAssumption ==
  /\ Parts \in Nat \ {0} /\ MaxAcks \in Nat
  /\ ShortWrites \subseteq BOOLEAN /\ Goals \subseteq {"play", "publish"}

Ends == {"client", "server"}
Peer(e) == IF e = "client" THEN "server" ELSE "client"

Block(name) == [i \in 1 .. Parts |-> name]
Stray == "stray"     (* a piece that begins with the byte before the block    *)
Control == "ctl"     (* chunk size, window, bandwidth, stream begin           *)
Commands == {"connect", "createStream", "play", "publish", "result1", "result4", "onStatus",
             Control}

VARIABLES
  end,     (* end -> its RtmpContext, RtmpHandShake and TcpConnection         *)
  net      (* end -> what is on its way to it                                 *)

connectVars == <<end, net>>

(***************************************************************************)
(* hs and ctx are the two state_ members; io is io_vec_list_, writing      *)
(* whether write events are enabled, buf message_buffer_, sending and      *)
(* queue are sending_ and out_waiting_queue_; out is what the current step *)
(* has written; playing says that OnPlay or OnPublish was called, garbled  *)
(* that a piece of the handshake was parsed as a message; acks counts the  *)
(* acknowledgements sent.  goal is is_player_, and short says whether the  *)
(* kernel may take a part of a write; strayed says that a write of a block *)
(* has failed.                                                             *)
(***************************************************************************)
Fresh(e, short, goal) ==
  [short |-> short, goal |-> goal, hs |-> IF e = "client" THEN "Init" ELSE "WaitC0C1", ctx |-> "handshake",
   io |-> << >>, writing |-> e = "client", buf |-> << >>, sending |-> FALSE,
   queue |-> << >>, out |-> << >>, playing |-> FALSE, closed |-> FALSE, garbled |-> FALSE,
   acks |-> 0, strayed |-> FALSE]

ConnectInit ==
  /\ \E short \in ShortWrites, goal \in Goals : end = [e \in Ends |-> Fresh(e, short, goal)]
  /\ net = [e \in Ends |-> << >>]

(* How much of n pieces a write may take. *)
Taken(st, n) == IF st.short THEN 1 .. n ELSE {n}

(* What a write of a block may return: it may also fail. *)
Failed == -1
Returned(st) == Taken(st, Parts) \cup {Failed}

-----------------------------------------------------------------------------
(* Sending commands: RtmpContext::PushOutQueue, Send and CheckAndSend.      *)

Send(st) ==
  LET batch == IF Len(st.queue) < 10 THEN Len(st.queue) ELSE 10
  IN  IF st.sending THEN st
      ELSE [st EXCEPT !.sending = TRUE, !.writing = TRUE,
                      !.io = @ \o SubSeq(st.queue, 1, batch),
                      !.queue = SubSeq(@, batch + 1, Len(@))]

PushOutQueue(st, m) == Send([st EXCEPT !.queue = Append(@, m)])

CheckAndSend(st) ==
  LET idle == [st EXCEPT !.sending = FALSE]
  IN  IF idle.queue # << >> THEN Send(idle) ELSE idle

-----------------------------------------------------------------------------
(* Sending a block: TcpConnection::SendInLoop(buf, size).                   *)

(* k pieces are written at once; what is left waits for a write event.  A  *)
(* failure is not seen, send_len being unsigned: size - send_len is then   *)
(* size + 1, and buf + send_len the byte before the block.                 *)
WriteBlock(st, block, k) ==
  CASE st.io # << >> -> [st EXCEPT !.writing = TRUE, !.io = @ \o block]
    [] st.io = << >> /\ k = Failed ->
         [st EXCEPT !.writing = TRUE, !.io = << Stray >> \o block, !.strayed = TRUE]
    [] st.io = << >> /\ k = Len(block) -> [st EXCEPT !.out = @ \o block]
    [] OTHER -> [st EXCEPT !.out = @ \o SubSeq(block, 1, k), !.writing = TRUE,
                           !.io = SubSeq(block, k + 1, Len(block))]

(* RtmpHandShake::WriteComplete; k is what a write that it makes returns.  *)
WriteComplete(st, k) ==
  CASE st.hs = "PostC0C1" -> [st EXCEPT !.hs = "WaitS0S1"]
    [] st.hs = "PostS0S1" ->
         LET t == WriteBlock([st EXCEPT !.hs = "PostS2"], Block("S2"), k)
         IN  IF t.io = << >> THEN [t EXCEPT !.hs = "WaitC2"] ELSE t
    [] st.hs \in {"PostS2", "PostC2"} -> [st EXCEPT !.hs = "WaitC2"]
    [] st.hs = "Doning" -> [st EXCEPT !.hs = "Done"]
    [] OTHER -> st

(* A block is sent, and completed at once if all of it is taken.           *)
SendBlock(st, block, k1, k2) ==
  LET t == WriteBlock(st, block, k1)
  IN  IF st.io = << >> /\ k1 = Len(block) THEN WriteComplete(t, k2) ELSE t

(* RtmpContext::OnWriteComplete *)
OnWriteComplete(st, k) ==
  IF st.ctx = "handshake" THEN WriteComplete(st, k) ELSE CheckAndSend(st)

-----------------------------------------------------------------------------
(* Receiving.                                                               *)

(* Mutant: what came with the block is dropped too.                        *)
DropBuffer(st) == [st EXCEPT !.buf = << >>]

DropBlock(st) == [st EXCEPT !.buf = SubSeq(@, Parts + 1, Len(@))]

(* RtmpHandShake::HandShake *)
HandShakeKeepsS2(st, k1, k2) ==
  IF Len(st.buf) < Parts THEN st
  ELSE CASE st.hs = "WaitC0C1" ->
              SendBlock([DropBlock(st) EXCEPT !.hs = "PostS0S1"], Block("S1"), k1, k2)
         [] st.hs = "WaitC2" -> [DropBlock(st) EXCEPT !.hs = "Done"]
         [] st.hs = "WaitS0S1" ->
              LET rest == DropBlock(st)
                  next == IF Len(rest.buf) = Parts THEN "Doning" ELSE "PostC2"
              IN  SendBlock([rest EXCEPT !.hs = next], Block("C2"), k1, k2)
         [] OTHER -> st

HandShake(st, k1, k2) ==
  IF Len(st.buf) < Parts THEN st
  ELSE CASE st.hs = "WaitC0C1" ->
              SendBlock([DropBlock(st) EXCEPT !.hs = "PostS0S1"], Block("S1"), k1, k2)
         [] st.hs = "WaitC2" -> [DropBlock(st) EXCEPT !.hs = "Done"]
         [] st.hs = "WaitS0S1" ->
              LET rest == DropBlock(st)
              IN  IF Len(rest.buf) = Parts
                  THEN SendBlock([rest EXCEPT !.hs = "Doning", !.buf = << >>],
                                 Block("C2"), k1, k2)
                  ELSE SendBlock([rest EXCEPT !.hs = "PostC2"], Block("C2"), k1, k2)
         [] OTHER -> st

(* HandShake returned 0. *)
HandShakeDone(before, st) ==
  \/ st.hs = "Done" /\ before.hs # "Done"
  \/ st.hs = "Doning"

(* The messages that are queued, and the handler of each command.          *)
SetChunkSize(st)          == PushOutQueue(st, Control)
SendAckWindowSize(st)    == PushOutQueue(st, Control)
SendSetPeerBandwidth(st) == PushOutQueue(st, Control)
SendBytesRecv(st)        == PushOutQueue([st EXCEPT !.acks = @ + 1], Control)
SendUserCtrlMessage(st)  == PushOutQueue(st, Control)
SendCreateStream(st)     == PushOutQueue(st, "createStream")
SendPlay(st)             == PushOutQueue(st, "play")
SendPublish(st)          == PushOutQueue(st, "publish")
SendStatus(st)           == PushOutQueue(st, "onStatus")

SendConnect(st) == PushOutQueue(SetChunkSize(st), "connect")

HandleConnect(st) ==
  PushOutQueue(SetChunkSize(SendSetPeerBandwidth(SendAckWindowSize(st))), "result1")

HandleCreateStream(st) == PushOutQueue(st, "result4")

HandlePlay(st)    == [SendStatus(SendUserCtrlMessage(st)) EXCEPT !.playing = TRUE]
HandlePublish(st) == [SendStatus(st) EXCEPT !.playing = TRUE]

HandleResult(st, m) ==
  IF m = "result1" THEN SendCreateStream(st)
  ELSE IF st.goal = "play" THEN SendPlay(st) ELSE SendPublish(st)

HandleStatus(st) == [st EXCEPT !.playing = TRUE]

MessageComplete(st, m) ==
  CASE m = "connect"      -> HandleConnect(st)
    [] m = "createStream" -> HandleCreateStream(st)
    [] m = "play"         -> HandlePlay(st)
    [] m = "publish"      -> HandlePublish(st)
    [] m \in {"result1", "result4"} -> HandleResult(st, m)
    [] m = "onStatus"     -> HandleStatus(st)
    [] m = Control        -> st
    [] OTHER              -> [st EXCEPT !.garbled = TRUE]

(***************************************************************************)
(* RtmpContext::Parse.  In ParseMessage bytes are acknowledged first, if   *)
(* enough have come since the last time (ack); its loop over the messages  *)
(* is the steps HandleMessage.                                             *)
(***************************************************************************)
Parse(e, st, ack, k1, k2) ==
  IF st.ctx = "message" THEN (IF ack THEN SendBytesRecv(st) ELSE st)
  ELSE LET t == HandShake(st, k1, k2)
           m == [t EXCEPT !.ctx = "message"]
       IN  IF ~HandShakeDone(st, t) THEN t
           ELSE IF e = "client" THEN SendConnect(m) ELSE m

(* in_bytes_ has reached ack_size_. *)
Acks(st) == IF st.ctx = "message" /\ st.acks < MaxAcks THEN BOOLEAN ELSE {FALSE}

-----------------------------------------------------------------------------
(* The steps of the loop of end e.  What was written goes to the peer.      *)

(* The loop of ParseMessage has taken every message that is there.         *)
Idle(e) == end[e].ctx = "message" => end[e].buf = << >>

Becomes(e, st) ==
  /\ end' = [end EXCEPT ![e] = [st EXCEPT !.out = << >>]]
  /\ net' = [net EXCEPT ![Peer(e)] = @ \o st.out]

(* The connection is there: OnConnection starts the handshake.             *)
OnConnection ==
  LET st == end["client"]
  IN  /\ st.hs = "Init"
      /\ \E k \in Returned(st) :
           Becomes("client", SendBlock([st EXCEPT !.hs = "PostC0C1"], Block("C1"), k, k))

(* n pieces have arrived; both writes that a handshake makes at once may   *)
(* be short or fail.                                                       *)
OnRead(e) ==
  LET st == end[e]
  IN  /\ Idle(e) /\ net[e] # << >> /\ ~st.closed
      /\ \E n \in 1 .. Len(net[e]), ack \in Acks(st), k1, k2 \in Returned(st) :
           LET read == [st EXCEPT !.buf = @ \o SubSeq(net[e], 1, n)]
               t == Parse(e, read, ack, k1, k2)
           IN  /\ end' = [end EXCEPT ![e] = [t EXCEPT !.out = << >>]]
               /\ net' = [net EXCEPT ![e] = SubSeq(@, n + 1, Len(@)),
                                     ![Peer(e)] = @ \o t.out]

(* ParseMessage hands over the next message; once it has taken something   *)
(* else for one, it may lose what comes after that.                        *)
HandleMessage(e) ==
  LET st == end[e]
      rest == [st EXCEPT !.buf = Tail(@)]
  IN  /\ ~Idle(e) /\ ~st.closed
      /\ \/ Becomes(e, MessageComplete(rest, Head(st.buf)))
         \/ st.garbled /\ Becomes(e, rest)

(* CheckC1S1 does not find the digest: the connection is closed.           *)
CheckFails(e) ==
  LET st == end[e]
  IN  /\ st.hs \in {"WaitC0C1", "WaitS0S1"} /\ ~st.closed
      /\ Len(st.buf) + Len(net[e]) >= Parts
      /\ end' = [f \in Ends |-> [end[f] EXCEPT !.closed = TRUE]]
      /\ UNCHANGED net

(* TcpConnection::OnWrite: also with nothing to write, once, after connecting. *)
OnWrite(e) ==
  LET st == end[e]
  IN  /\ Idle(e) /\ st.writing /\ st.hs # "Init" /\ ~st.closed
      /\ \/ /\ st.io # << >>
            /\ \E n \in Taken(st, Len(st.io)), k \in Returned(st) :
                 LET t == [st EXCEPT !.out = SubSeq(st.io, 1, n),
                                     !.io = SubSeq(@, n + 1, Len(@))]
                 IN  Becomes(e, IF n < Len(st.io) THEN t
                                ELSE OnWriteComplete([t EXCEPT !.writing = FALSE], k))
         \/ /\ st.io = << >>
            /\ \E k \in Returned(st) :
                 Becomes(e, OnWriteComplete([st EXCEPT !.writing = FALSE], k))

(* The stream is played, or the connection was given up. *)
Settled == end["client"].playing \/ end["client"].closed

ConnectNext ==
  \/ OnConnection
  \/ \E e \in Ends : OnRead(e) \/ HandleMessage(e) \/ CheckFails(e) \/ OnWrite(e)

(* Fairness: each loop handles the events of its connection. *)
Fairness ==
  /\ WF_connectVars(OnConnection)
  /\ \A e \in Ends : /\ WF_connectVars(OnRead(e)) /\ WF_connectVars(HandleMessage(e))
                      /\ WF_connectVars(OnWrite(e))

ConnectSpec == ConnectInit /\ [][ConnectNext]_connectVars /\ Fairness

-----------------------------------------------------------------------------
(* Properties                                                               *)

Pieces == Commands \cup {"C1", "C2", "S1", "S2", Stray}

(* The type of both ends and of what is between them. *)
ConnectType ==
  /\ \A e \in Ends :
       /\ end[e].hs \in {"Init", "PostC0C1", "WaitS0S1", "PostC2", "Doning", "WaitC0C1",
                         "PostS0S1", "PostS2", "WaitC2", "Done"}
       /\ end[e].ctx \in {"handshake", "message"}
       /\ end[e].queue \in Seq(Commands) /\ end[e].io \in Seq(Pieces)
       /\ end[e].out = << >>
  /\ net \in [Ends -> Seq(Pieces)]

(***************************************************************************)
(* Bytes are taken for what they are: what an end is about to read as      *)
(* C0C1, S0S1, C2 or S2 is that block, and a message parser that has       *)
(* started never sees a piece of the handshake, provided that no write of  *)
(* the peer's blocks has failed, however those of the end itself go.       *)
(***************************************************************************)
Incoming(e) == end[e].buf \o net[e]

InStep ==
  \A e \in Ends : ~end[Peer(e)].strayed =>
    LET st == end[e]
        starts(name) == Incoming(e) # << >> => Incoming(e)[1] = name
    IN  /\ st.hs = "WaitC0C1" => starts("C1")
        /\ st.hs = "WaitS0S1" => starts("S1")
        /\ st.hs \in {"WaitC2", "PostC2"} => starts(IF e = "client" THEN "S2" ELSE "C2")
        /\ ~st.garbled
        /\ st.ctx = "message" => \A i \in 1 .. Len(Incoming(e)) : Incoming(e)[i] \in Commands

(***************************************************************************)
(* An end that is sending has something to be written, so a completion     *)
(* that clears sending_ will come; an end with commands waiting is sending. *)
(***************************************************************************)
SendingCompletes ==
  \A e \in Ends :
    /\ end[e].sending => end[e].io # << >> /\ end[e].writing
    /\ end[e].queue # << >> => end[e].sending

(***************************************************************************)
(* The handshake is completed and the client plays or publishes, or the    *)
(* connection is closed, however the bytes are cut on arrival, provided    *)
(* that the kernel takes each write as a whole, and that no write of a     *)
(* block fails: a client whose C2 is taken in two parts, with S2 in        *)
(* between, waits for ever (WriteComplete does not look at the buffer).    *)
(***************************************************************************)
PlayStarts ==
  (\A e \in Ends : ~end[e].short) /\ [](\A e \in Ends : ~end[e].strayed) => <>Settled

(* Both ends keep in step, in what they read and in what they still have   *)
(* to write.                                                               *)
EndsInStep == ConnectType /\ InStep /\ SendingCompletes

=============================================================================
