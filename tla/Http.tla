-------------------------------- MODULE Http ---------------------------------
(***************************************************************************)
(* One HTTP connection: mmedia/http/HttpParser and HttpContext,            *)
(* LiveService::OnRequest, mmedia/flv/FlvContext and the output side of    *)
(* network/net/TcpConnection.                                              *)
(*                                                                         *)
(* The client's bytes arrive cut anywhere.  A header is one symbol and the *)
(* empty line, a chunk size one symbol and the end of its line; symbols    *)
(* carry the number of their message, so that mixed content shows.  All of *)
(* it runs in one loop: the calls a handler makes are steps of their own   *)
(* only where the kernel or the stream decides what they do.               *)
(***************************************************************************)
EXTENDS Integers, Sequences, SequencesExt

CONSTANTS
  Kinds,    (* kinds of requests the client may send                         *)
  MaxMsgs,  (* bound on the requests                                         *)
  MaxTags   (* bound on the FLV tags sent                                    *)

ASSUME HttpAssumption ==
  /\ Kinds \subseteq {"get", "ts", "miss", "post", "chunked", "bad", "flv"}
  /\ {MaxMsgs, MaxTags} \subseteq Nat

CR == <<"cr", 0>>
LF == <<"lf", 0>>
CRLF == <<CR, LF>>
Stray == <<"stray", 0>>

VARIABLES
  msgs,       (* kinds of the client's requests                               *)
  stream,     (* what the client sent: history                                *)
  begin,      (* bytes sent before each request, and before the next: history *)
  read,       (* write index of message_buffer_: bytes that arrived           *)
  taken,      (* read index of message_buffer_: bytes that were parsed        *)
  parsing,    (* HttpContext::Parse is in its loop                            *)
  state,      (* HttpParser::state_                                           *)
  req,        (* number of the request whose header was parsed last           *)
  left,       (* current_content_length_, or current_chunk_length_            *)
  chunk,      (* chunk_: what has been read of the body                       *)
  is_chunked, (* is_chunked_                                                  *)
  delivered,  (* calls of OnRequest: history                                  *)
  post_state, (* HttpContext::post_state_                                     *)
  body,       (* HttpContext::out_packet_                                     *)
  call,       (* buffer of the TcpConnection::Send that is about to write     *)
  queue,      (* the bytes of the buffers in io_vec_list_                     *)
  hollow,     (* its empty buffers: how many bytes are in front of them       *)
  due,        (* calls of FlvContext::WriteComplete that are still to be made  *)
  flv,        (* FlvPlayerUser: "none", "new", "on" once the header is sent   *)
  sending,    (* FlvContext::sending_                                         *)
  tags,       (* FLV tags built                                               *)
  closed,     (* the connection is closed                                     *)
  spin,       (* the loop goes round for ever: "no", "parse" or "write"       *)
  out,        (* what was written to the socket: history                      *)
  want,       (* what the client should receive: history                      *)
  mixed,      (* a stream was sent among the parts of an answer: history      *)
  reused      (* FlvContext used its buffers again while they were queued:    *)
              (* history                                                      *)

askVars    == <<msgs, stream, begin>>
parserVars == <<read, taken, parsing, state, req, left, chunk, is_chunked, delivered>>
inVars   == <<askVars, parserVars>>
outVars  == <<post_state, body, call, queue, hollow, due, flv, sending, tags, out, want,
              mixed, reused>>
httpVars == <<inVars, outVars, closed, spin>>

-----------------------------------------------------------------------------
(* What the client sends: request i of kind k.                              *)
Data(i) == <<<<"data", i>>, <<"more", i>>, <<"last", i>>>>
Lines(k, i) == <<<<k, i>>>> \o CRLF \o CRLF
Bytes(k, i) ==
  CASE k = "post"    -> Lines(k, i) \o Data(i)
    [] k = "chunked" -> Lines(k, i) \o <<<<"size", 3>>>> \o CRLF \o Data(i) \o CRLF
                          \o <<<<"size", 0>>>> \o CRLF \o CRLF
    [] OTHER         -> Lines(k, i)

HttpInit ==
  /\ msgs = <<>> /\ stream = <<>> /\ begin = <<0>> /\ read = 0 /\ taken = 0
  /\ parsing = FALSE
  /\ state = "headers" /\ req = 0 /\ left = 0 /\ chunk = <<>> /\ is_chunked = FALSE
  /\ delivered = <<>>
  /\ post_state = "init" /\ body = <<>> /\ call = <<>> /\ queue = <<>> /\ hollow = {}
  /\ due = 0 /\ flv = "none" /\ sending = FALSE /\ tags = 0
  /\ closed = FALSE /\ spin = "no"
  /\ out = <<>> /\ want = <<>> /\ mixed = FALSE /\ reused = FALSE

(* No call of a handler waits to be made.                                  *)
Returned == call = <<>> /\ due = 0 /\ spin = "no"

(* The loop is between two events.                                         *)
Idle == ~parsing /\ Returned /\ ~closed

-----------------------------------------------------------------------------
(* Input.                                                                   *)

(***************************************************************************)
(* The client sends one more request.  It asks for one FLV stream at most; *)
(* it may ask for other things while that is sent.  What follows a chunked *)
(* request is read line by line (see ParseChunkLen), so only requests      *)
(* whose header may be one line are sent there.                            *)
(***************************************************************************)
Request(k) ==
  LET bytes == Bytes(k, Len(msgs) + 1)
  IN  /\ Idle /\ Len(msgs) < MaxMsgs
      /\ k = "flv" => \A i \in DOMAIN msgs : msgs[i] # "flv"
      /\ (msgs # <<>> /\ Last(msgs) = "chunked") => k \in {"get", "ts", "miss", "flv"}
      /\ msgs' = Append(msgs, k)
      /\ stream' = stream \o bytes
      /\ begin' = Append(begin, Len(stream) + Len(bytes))
      /\ UNCHANGED <<parserVars, outVars, closed, spin>>

(* TcpConnection::OnRead reads some bytes and calls HttpContext::Parse.    *)
OnRead(n) ==
  /\ Idle /\ n \in 1 .. Len(stream) - read
  /\ read' = read + n
  /\ parsing' = TRUE
  /\ UNCHANGED <<askVars, taken, state, req, left, chunk, is_chunked, delivered,
                 outVars, closed, spin>>

(* message_buffer_: the bytes between its two indices.                     *)
buf == SubSeq(stream, taken + 1, read)

(* First place of pattern p in s, 0 if there is none.                      *)
find(s, p) ==
  LET at == {i \in 1 .. Len(s) - Len(p) + 1 : SubSeq(s, i, i + Len(p) - 1) = p}
  IN  IF at = {} THEN 0 ELSE Min(at)

(***************************************************************************)
(* ClearForNextHttp and ClearForNextChunk at the start of Parse: the state *)
(* that the bytes in the buffer are parsed in.                             *)
(***************************************************************************)
entered ==
  CASE state = "complete" -> "headers"
    [] state = "chunk_complete" -> IF is_chunked THEN "chunk_len" ELSE "headers"
    [] OTHER -> state
old_chunk == IF entered = state THEN chunk ELSE <<>>

(* HttpParser::Parse takes n bytes; the loop of HttpContext goes on.       *)
Takes(n, s, l, c) ==
  /\ taken' = taken + n /\ state' = s /\ left' = l /\ chunk' = c
  /\ UNCHANGED <<askVars, read, parsing, spin>>

(* It takes nothing, so the loop of HttpContext calls it again for ever.   *)
Spins ==
  /\ spin' = "parse" /\ state' = entered /\ chunk' = old_chunk
  /\ UNCHANGED <<askVars, read, taken, parsing, left, req, is_chunked, delivered, outVars, closed>>

(* In the loop of HttpContext::Parse, with more than one byte to parse.    *)
InLoop == parsing /\ Returned /\ Len(buf) > 1

(* One byte or none: back to the loop of events.                           *)
ParseEnds ==
  /\ parsing /\ Returned /\ Len(buf) <= 1
  /\ parsing' = FALSE
  /\ UNCHANGED <<askVars, read, taken, state, req, left, chunk, is_chunked, delivered,
                 outVars, closed, spin>>

-----------------------------------------------------------------------------
(* Answers.                                                                 *)

(* The answer to the d-th call of OnRequest: its first and second part.     *)
Part(d, p) == <<<<p, d>>, <<"end", d>>>>

(* Mutant: an answer is sent while another is.                             *)
PostRequestAnyTime(h, b) ==
  /\ post_state' = IF b = <<>> THEN "http" ELSE "header"
  /\ body' = b /\ call' = h /\ want' = want \o h \o b

(* HttpContext::PostRequest of a header h and, for a fragment, a body b.    *)
PostRequest(h, b) ==
  IF post_state # "init"
    THEN UNCHANGED <<post_state, body, call, want>>
    ELSE /\ post_state' = IF b = <<>> THEN "http" ELSE "header"
         /\ body' = b /\ call' = h /\ want' = want \o h \o b

(***************************************************************************)
(* LiveService::OnRequest for request i with body c.  A fragment that is   *)
(* no longer there is not answered; "get" stands for play lists and errors.*)
(* Session::AddPlayer activates a new player at once, as the end of a      *)
(* completion does: it finds nothing of FlvContext to clear.               *)
(***************************************************************************)
OnRequest(i, c) ==
  LET d == Len(delivered) + 1
      k == msgs[i]
  IN  /\ delivered' = Append(delivered, <<i, c>>)
      /\ IF k = "flv" THEN flv' = "new" /\ due' = 1 ELSE UNCHANGED <<flv, due>>
      /\ CASE k \in {"flv", "miss"} -> UNCHANGED <<post_state, body, call, want>>
           [] k = "ts" -> PostRequest(Part(d, "head"), Part(d, "body"))
           [] OTHER    -> PostRequest(Part(d, "answer"), <<>>)
      /\ UNCHANGED <<queue, hollow, sending, tags, out, mixed, reused, closed>>

-----------------------------------------------------------------------------
(* HttpParser::Parse, by the state the parser is in.                        *)

(***************************************************************************)
(* kExpectHeaders and ParseHeaders.  "bad" is a request whose length is    *)
(* not a number: the connection is closed, and while more than a byte is   *)
(* left the parser stays in its error state.                               *)
(***************************************************************************)
ParseHeaders ==
  LET end == find(buf, CRLF \o CRLF)
      k == buf[1][1]
  IN  /\ InLoop /\ entered = "headers"
      /\ IF Len(buf) <= 4 \/ end = 0
           THEN Spins
           ELSE /\ req' = buf[1][2]
                /\ is_chunked' = (is_chunked \/ k = "chunked")
                /\ closed' = (k = "bad")
                /\ CASE k = "post"    -> Takes(end + 3, "normal_body", 3, <<>>)
                     [] k = "chunked" -> Takes(end + 3, "chunk_len", 0, <<>>)
                     [] k = "bad"     -> Takes(end + 3, "error", 0, <<>>)
                     [] OTHER         -> Takes(end + 3, "complete", 0, <<>>)
                /\ IF k \in {"post", "chunked", "bad"}
                     THEN UNCHANGED <<delivered, outVars>>
                     ELSE OnRequest(buf[1][2], <<>>)

ParseError == InLoop /\ entered = "error" /\ Spins

(* A body of which size bytes are taken now.                               *)
size == Min({left, Len(buf)})

(* Mutants: a body ends with the first of its bytes; it is taken whole.    *)
ParseNormalBodyAtOnce ==
  LET c == old_chunk \o SubSeq(buf, 1, size)
  IN  /\ InLoop /\ entered = "normal_body"
      /\ Takes(size, "complete", 0, c) /\ OnRequest(req, c)
      /\ UNCHANGED <<req, is_chunked>>
ParseNormalBodyWhole ==
  LET c == SubSeq(buf, 1, left)
  IN  /\ InLoop /\ entered = "normal_body"
      /\ IF Len(buf) < left
           THEN Spins
           ELSE /\ Takes(left, "complete", 0, c) /\ OnRequest(req, c)
                /\ UNCHANGED <<req, is_chunked>>

(* ParseNormalBody.                                                        *)
ParseNormalBody ==
  LET c == old_chunk \o SubSeq(buf, 1, size)
  IN  /\ InLoop /\ entered = "normal_body"
      /\ Takes(size, IF left = size THEN "complete" ELSE "normal_body", left - size, c)
      /\ IF left = size THEN OnRequest(req, c) ELSE UNCHANGED <<delivered, outVars, closed>>
      /\ UNCHANGED <<req, is_chunked>>

(* kExpectChunkLen: strtol reads 0 from a line that is not a number.       *)
ParseChunkLen ==
  LET end == find(buf, CRLF)
      len == IF buf[1][1] = "size" THEN buf[1][2] ELSE 0
  IN  /\ InLoop /\ entered = "chunk_len"
      /\ IF end = 0
           THEN Spins
           ELSE /\ IF len = 0
                     THEN Takes(end + 1, "last_empty", 0, old_chunk)
                     ELSE Takes(end + 1, "chunk_body", len + 2, old_chunk)
                /\ UNCHANGED <<req, is_chunked, delivered, outVars, closed>>

(* ParseChunk: the CRLF after the chunk is read with it and cut off.       *)
ParseChunk ==
  LET c == old_chunk \o SubSeq(buf, 1, size)
      whole == SubSeq(c, 1, Len(c) - 2)
  IN  /\ InLoop /\ entered = "chunk_body"
      /\ IF left = size
           THEN Takes(size, "chunk_complete", 0, whole) /\ OnRequest(req, whole)
           ELSE /\ Takes(size, "chunk_body", left - size, c)
                /\ UNCHANGED <<delivered, outVars, closed>>
      /\ UNCHANGED <<req, is_chunked>>

(* kExpectLastEmptyChunk.                                                  *)
ParseLastEmptyChunk ==
  LET end == find(buf, CRLF)
  IN  /\ InLoop /\ entered = "last_empty"
      /\ IF end = 0
           THEN Spins
           ELSE /\ Takes(end + 1, "chunk_complete", 0, <<>>)
                /\ OnRequest(req, <<>>)
                /\ UNCHANGED <<req, is_chunked>>

Parse ==
  \/ ParseHeaders \/ ParseError \/ ParseNormalBody
  \/ ParseChunkLen \/ ParseChunk \/ ParseLastEmptyChunk \/ ParseEnds

-----------------------------------------------------------------------------
(* Output.                                                                  *)

(***************************************************************************)
(* HttpServer::OnWriteComplete: HttpContext::WriteComplete sends the body  *)
(* of an answer after its header; when this returns, the completion of     *)
(* FlvContext is due.  If the body is written at once, the completion of   *)
(* its own is made before that, so that two are due.                       *)
(***************************************************************************)
WriteComplete ==
  /\ post_state' = IF post_state = "header" THEN "body" ELSE "init"
  /\ body' = <<>>
  /\ call' = body
  /\ due' = IF flv = "none" THEN due ELSE due + 1

Kept == UNCHANGED <<inVars, flv, sending, tags, mixed, reused, closed>>

(* io_vec_list_ is empty.                                                  *)
NothingQueued == queue = <<>> /\ hollow = {}

(***************************************************************************)
(* TcpConnection::SendInLoop of one buffer.  Behind other buffers it waits *)
(* its turn.  Otherwise the kernel takes n bytes of it, or refuses it: the *)
(* result -1 is kept as a size_t, so that the test for an error is false   *)
(* and the buffer is queued from one byte before its start.                *)
(***************************************************************************)
SendQueued ==
  /\ call # <<>> /\ ~NothingQueued
  /\ queue' = queue \o call /\ call' = <<>>
  /\ Kept /\ UNCHANGED <<post_state, body, hollow, due, out, want, spin>>

SendWrites(n) ==
  /\ call # <<>> /\ NothingQueued /\ n \in 1 .. Len(call)
  /\ out' = out \o SubSeq(call, 1, n)
  /\ queue' = SubSeq(call, n + 1, Len(call))
  /\ IF n = Len(call) THEN WriteComplete
     ELSE call' = <<>> /\ UNCHANGED <<post_state, body, due>>
  /\ Kept /\ UNCHANGED <<hollow, want, spin>>

SendFails ==
  /\ call # <<>> /\ NothingQueued
  /\ queue' = <<Stray>> \o call /\ call' = <<>>
  /\ want' = InsertAt(want, Len(out) + 1, Stray)
  /\ Kept /\ UNCHANGED <<post_state, body, hollow, due, out, spin>>

(***************************************************************************)
(* The empty buffers of io_vec_list_ once n of its bytes are written:      *)
(* buffers are erased while there are written bytes to account for, so     *)
(* that an empty one right behind them stays.                              *)
(***************************************************************************)
(* Mutant: a buffer that is written to its end is kept (>= for >).          *)
erasedLate(n) ==
  {p - n : p \in {q \in hollow : q >= n} \cup (IF n = Len(queue) THEN {n} ELSE {})}

erased(n) == {p - n : p \in {q \in hollow : q >= n}}

(***************************************************************************)
(* TcpConnection::OnWrite.  writev is called again until the list is empty *)
(* or the kernel takes no more; it returns 0, and is called for ever, when *)
(* nothing but empty buffers is left.                                      *)
(***************************************************************************)
OnWrite(n) ==
  /\ Idle /\ n \in 1 .. Len(queue)
  /\ out' = out \o SubSeq(queue, 1, n)
  /\ queue' = SubSeq(queue, n + 1, Len(queue))
  /\ hollow' = erased(n)
  /\ spin' = IF n = Len(queue) /\ erased(n) # {} THEN "write" ELSE spin
  /\ IF n = Len(queue) /\ erased(n) = {} THEN WriteComplete
     ELSE UNCHANGED <<post_state, body, call, due>>
  /\ Kept /\ UNCHANGED want

(***************************************************************************)
(* FlvPlayerUser::PostFrames: first the HTTP and FLV headers, then, when   *)
(* the last list is written, a tag.  A message without a payload, which    *)
(* RtmpContext lets through, is a tag with an empty body.                  *)
(***************************************************************************)
Lists ==
  LET tag == <<"tag", tags + 1>>
  IN  IF flv = "new"
        THEN {<<<<"http", 0>>, <<"flv", 0>>>>}
        ELSE {<<tag>>, <<tag, <<"frame", tags + 1>>>>}

(* A buffer of FlvContext is in io_vec_list_.                              *)
FlvQueued == \E i \in DOMAIN queue : queue[i][1] \in {"http", "flv", "tag", "frame"}

(* What a header in out_buffer_ becomes when the next is built there.      *)
Overwritten(q, next) ==
  [i \in DOMAIN q |-> IF q[i][1] \in {"flv", "tag"} THEN next ELSE q[i]]

(* The list goes behind the buffers q; its headers are built from the      *)
(* start of out_buffer_ on, whatever of it is still to be written.         *)
Post(q, list) ==
  /\ flv = "on" => tags < MaxTags
  /\ queue' = Overwritten(q, list[1]) \o list
  /\ hollow' = IF Len(list) = 1 THEN hollow \cup {Len(queue) + 1} ELSE hollow
  /\ want' = want \o list
  /\ flv' = "on" /\ sending' = TRUE
  /\ tags' = IF flv = "on" THEN tags + 1 ELSE tags
  /\ mixed' = (mixed \/ post_state = "header")
  /\ reused' = (reused \/ FlvQueued)
  /\ UNCHANGED <<inVars, post_state, body, call, out, closed, spin>>

(* The stream activates the player.                                        *)
PostFrames(list) ==
  /\ Idle /\ flv # "none" /\ ~sending
  /\ Post(queue, list) /\ UNCHANGED due

(* The packets of the tags in q are no longer held, and may be freed.      *)
Unheld(q) == {q, [i \in DOMAIN q |-> IF q[i][1] = "frame" THEN <<"freed", 0>> ELSE q[i]]}

(***************************************************************************)
(* FlvContext::WriteComplete, which lets go of all buffers and packets:    *)
(* they were written, unless an answer's body that was written at once has *)
(* completed before and a list was posted then.  It activates the player,  *)
(* which posts the next list if the stream has something for it.           *)
(***************************************************************************)
FlvWriteComplete ==
  /\ due > 0 /\ call = <<>> /\ due' = due - 1
  /\ \E q \in Unheld(queue) :
       \/ \E list \in Lists : Post(q, list)
       \/ /\ queue' = q /\ sending' = FALSE /\ reused' = (reused \/ FlvQueued)
          /\ UNCHANGED <<inVars, post_state, body, call, hollow, flv, tags, out, want,
                         mixed, closed, spin>>

(* The client or the idle timeout closes the connection, or a write fails. *)
OnClose ==
  /\ Idle /\ closed' = TRUE
  /\ UNCHANGED <<inVars, outVars, spin>>

-----------------------------------------------------------------------------
HttpNext ==
  \/ \E k \in Kinds : Request(k)
  \/ \E n \in 1 .. Len(stream) - read : OnRead(n)
  \/ Parse
  \/ SendQueued \/ SendFails
  \/ \E n \in 1 .. Len(call) : SendWrites(n)
  \/ \E n \in 1 .. Len(queue) : OnWrite(n)
  \/ \E list \in Lists : PostFrames(list)
  \/ FlvWriteComplete
  \/ OnClose

HttpSpec == HttpInit /\ [][HttpNext]_httpVars

-----------------------------------------------------------------------------
(* Properties.                                                              *)

(***************************************************************************)
(* The parser takes no more of a body than its length, its states and      *)
(* HttpContext's go with what they are about, and a body waits exactly     *)
(* while its header is sent.                                               *)
(***************************************************************************)
HttpType ==
  /\ state \in {"headers", "normal_body", "chunk_len", "chunk_body", "last_empty",
                "complete", "chunk_complete", "error"}
  /\ 0 <= taken /\ taken <= read /\ read <= Len(stream)
  /\ req \in 0 .. Len(msgs) /\ left \in 0 .. 5
  /\ state \in {"normal_body", "chunk_body"} <=> left > 0
  /\ post_state \in {"init", "http", "header", "body"}
  /\ body # <<>> <=> post_state = "header"
  /\ spin \in {"no", "parse", "write"} /\ flv \in {"none", "new", "on"}
  /\ spin = "parse" => parsing

(* Nothing is sent after a chunked request.                                *)
Plain == \A i \in 1 .. Len(msgs) - 1 : msgs[i] # "chunked"

(***************************************************************************)
(* The call of OnRequest that the i-th request should lead to: none for a  *)
(* bad one.  The empty chunk at the end of a chunked request is one more.  *)
(***************************************************************************)
Call(i) ==
  CASE i \in DOMAIN msgs /\ msgs[i] \in {"post", "chunked"} -> <<i, Data(i)>>
    [] i \in DOMAIN msgs /\ msgs[i] \notin {"post", "chunked", "bad"} -> <<i, <<>>>>
    [] i = Len(msgs) + 1 /\ i # 1 /\ msgs[i - 1] = "chunked" -> <<i - 1, <<>>>>
    [] OTHER -> <<>>

(***************************************************************************)
(* However the bytes are cut, OnRequest is called for the client's         *)
(* requests in their order with their own bodies, for none from the first  *)
(* bad one on, and for all of them once every byte is parsed.              *)
(***************************************************************************)
RequestsIntact ==
  /\ HttpType
  /\ Plain => /\ \A i \in DOMAIN delivered : delivered[i] = Call(i)
              /\ taken = Len(stream) => Call(Len(delivered) + 1) = <<>>

(* Counts of bytes that end inside a header or the line of a chunk size.   *)
Cuts ==
  UNION {{begin[i] + 2, begin[i] + 3, begin[i] + 4}
           \cup (IF msgs[i] = "chunked" THEN {begin[i] + 7, begin[i] + 15} ELSE {}) :
         i \in DOMAIN msgs}

(***************************************************************************)
(* The loop of HttpContext::Parse goes round for ever only when a read     *)
(* ends inside a header or the line of a chunk size, or after a bad        *)
(* request: a body may arrive in any pieces.                               *)
(***************************************************************************)
ParserSpinsOnlyOnCut ==
  (Plain /\ spin = "parse") => read \in Cuts \/ (closed /\ msgs[req] = "bad")

(***************************************************************************)
(* writev is called for ever only when the last tag has an empty body, and *)
(* then nothing but that body is left.                                     *)
(***************************************************************************)
WriterSpinsOnlyOnEmpty ==
  spin = "write" => /\ flv = "on" /\ queue = <<>> /\ hollow = {0}
                    /\ Last(out) = <<"tag", tags>>

(* s is t but for symbols of these kinds.                                  *)
SameBut(s, t, kinds) ==
  /\ Len(s) = Len(t)
  /\ \A i \in 1 .. Len(s) : s[i] = t[i] \/ t[i][1] \in kinds

(* What may differ once FlvContext has used its buffers too early.         *)
Spoilt == IF reused THEN {"flv", "tag", "frame"} ELSE {}

(***************************************************************************)
(* Every answer and every tag that was accepted is written whole and in    *)
(* order, in spite of partial writes; each write that fails adds one byte  *)
(* that belongs to none, where the write was tried.  Two cases apart: what *)
(* a stream sends while the header of a fragment is being written comes    *)
(* between that header and its body; and once FlvContext completes while   *)
(* its own buffers are queued, their tags may have another's header or a   *)
(* packet that is gone, but all else is as it should be.                   *)
(***************************************************************************)
ResponsesWhole == ~mixed => SameBut(out \o queue \o call \o body, want, Spoilt)

=============================================================================
