# StreamMediaServer: a TLA+ verification project

StreamMediaServer is a live-streaming server in C++: publishers push a stream
over RTMP, players pull it over RTMP, HTTP-FLV, HLS or WebRTC, and a stream that
nobody publishes is pulled from another server. This directory models the
server's own logic in TLA+, checks it with TLC on small instances and proves
the central properties with TLAPS for every size.

Paths below are relative to the repository (`src/live/...` is the repository's
`src/live` directory).

## 1. Inventory

### Threads

Every connection belongs to one `EventLoop`, run by one thread of an
`EventLoopThreadPool`. A publisher and its players are usually on different
loops. Work crosses from one loop to another only through
`EventLoop::RunInLoop`, which queues a function under `EventLoop::lock_` and
writes to a pipe. A `TaskMgr` thread runs periodic tasks (log rotation, the
session timeout of `LiveService`). The locks are `EventLoop::lock_`,
`LiveService::lock_`, `Session::lock_`, `Stream::lock_`, and those of the
HLS window, the DNS cache and the WebRTC service.

### Components

| component | state | operations | interacts with | hard because |
|---|---|---|---|---|
| Stream (`live/Stream`, `live/base/GopMgr`, `CodecHeader`, `CodecUtils`) | ring of 1000 packets, `frame_index_`, GOP list, header lists, `ready_` | AddPacket, GetFrames, LocateGop, SkipFrame, GetNextFrame | publisher's loop writes, players' loops read | ring overrun, stale GOPs, headers that do not fit the frames |
| PlayerUser (`live/user/PlayerUser`, `RtmpPlayerUser`, `FlvPlayerUser`, `WebrtcPlayerUser`) | cursor `out_index_`, held frames and headers, `wait_*`, `*_index_` | PostFrames, PushFrame(s) | Stream, RtmpContext / FlvContext / Srtp | re-entry from write completions |
| TimeCorrector (`live/base/TimeCorrector`) | original and corrected clock per medium | CorrectTimestamp | one in the Stream, one per player | jumps, clocks that go back, correcting twice |
| Activation (`network/net/Connection`, `EventLoop`, `TcpConnection`, `RtmpContext::sending_`) | `active_`, `functions_`, event masks, `sending_` | Active, Deactive, RunInLoop, RunFuctions, OnRead, OnWrite, Send, CheckAndSend | publisher thread, player loop, kernel | lost wake-ups, dropped edge-triggered events |
| Session (`live/Session`, `live/user/User`) | publisher, set of players, `destroyed_` flags, last player time | AddPlayer, SetPublisher, CloseUser, Clear, IsTimeout, ActiveAllPlayers | LiveService, users, puller | publisher replaced while the old one closes, lock order |
| LiveService (`live/LiveService`) | map of sessions, pool, servers | CreateSession, FindSession, CloseSession, OnTimer, OnPlay, OnPublish, OnRequest | everything | a session that times out while a player joins it |
| PullerRelay, RtmpPuller (`live/relay`) | targets, current target, retry counter, puller | StartPullStream, Pull, SelectTarget, OnPullSucess, OnPullClose | Session, TcpClient | retry loops, closing from inside a callback |
| RTMP (`mmedia/rtmp`) | handshake state, chunk streams in and out, command state | handshake, Parse, BuildChunk, commands, Send, CheckAndSend | TcpConnection, LiveService | messages interleaved on chunk streams, header compression against the previous message |
| AMF (`mmedia/rtmp/amf`) | tree of values | Decode, Encode | RtmpContext | nesting, truncated input |
| HTTP (`mmedia/http`) | parser state, request, chunk state, post state | Parse, PostRequest, PostChunk, WriteComplete | LiveService, FlvContext | partial input, chunked bodies |
| FLV (`mmedia/flv`) | `sending_`, buffers | BuildFlvFrame, Send, WriteComplete | FlvPlayerUser | the tag size of the previous tag |
| HLS and MPEG-TS (`mmedia/hls`, `mmedia/mpegts`) | current fragment, window of fragments, continuity counters | OnPacket, AppendFragment, Shrink, PlayList, Encode | Stream, HTTP requests | window shared by two threads, 188-byte packing |
| demux (`mmedia/demux`) | NAL units, parameter sets | OnDemux | HLS, WebRTC | length fields |
| WebRTC (`live/WebrtcService`, `mmedia/webrtc`, `mmedia/rtp`) | users by name and by address, DTLS and SRTP state, RTP sequence numbers | OnStun, OnDtls, OnRtcp, PostFrames | UDP server | packets of one user before the other protocol step |
| TimingWheel (`network/net/TimingWheel`) | four wheels of sets of entries | InsertEntry, OnTimer, RunAfter, RunEvery | EventLoop, idle timeouts | boundaries between wheels |
| TcpConnection, Acceptor, TcpServer, TcpClient, UdpSocket (`network`) | connection state, send list, idle entry | connect, accept, send, close, timeout | EventLoop | close from another thread, connect in progress |
| EventLoopThread(Pool), PipeEvent | running flags, pool index | Run, Loop, Quit, WakeUp | all | quit before the loop starts, full pipe |
| DnsService | cache of addresses | AddHost, GetHostAddress, OnWork | puller | refreshed while read |
| base (`base`) | configuration, log files, tasks | load, rotate, run tasks | all | mostly I/O |

`PROJECT.json` lists every component with its sources and status, and every
hazard with the line where it bites and the properties that would catch it.

### What makes each component correct

* Stream: the ring holds the last packets and nothing else, a cursor never goes
  back, a player starts and resumes at a key frame with the headers it needs.
* Activation: a packet wakes every player that is not already sending; a write
  that started completes; nobody sleeps for ever.
* TimeCorrector: clocks never jump and never go negative; correcting again
  changes nothing.
* Session and LiveService: the publisher that is registered is alive, a closed
  user is closed once, sessions that are idle go away and no others, no two
  threads wait for each other's locks.
* PullerRelay: every target is tried, and a session whose targets are exhausted
  ends.
* RTMP: what the peer parses is what was sent, whatever is interleaved.
* TimingWheel: an entry fires once, and not before its delay.
* HLS: the play list names fragments that can be fetched, in order.
* HTTP and FLV: a request is parsed the same however its bytes are cut, and what
  the client reads is whole answers and tags, in order.

## 2. Modules

| module | models | state and actions |
|---|---|---|
| `Stream` | Stream, GopMgr, CodecHeader, the cursor of PlayerUser, PostFrames | `AddPacket` (publisher), `PostFrames` and `OnWriteComplete` (player). One action is one call under `Stream::lock_`. |
| `MCStream` | instance of `Stream` | |
| `StreamProofs` | theorems about `Stream` | |
| `Delivery` | Connection::Active, EventLoop, edge-triggered sockets, `sending_`, what of the stream decides whether a player gets anything | one action per step of the publisher's thread, of the player's loop and of the peer |
| `DeliveryProofs` | theorems about `Delivery` | |
| `TimeCorrector` | the stream's and a player's TimeCorrector | one action per packet |
| `Session` | Session, User, and the part of LiveService that creates, lists, closes and times out sessions | one action per section under `Session::lock_`, in the loop of a connection (`UserStep`) or in the task thread (`TimerStep`); `destroyed`, `forced` and `open` are the flags by which a user is closed |
| `SessionProofs` | theorems about `Session` | |
| `RtmpChunk` | RtmpContext::ParseMessage against any peer that follows the chunk format | `StartMessage`, `ContinueMessage` (peer), `Read` (one call of the parser on whatever part of a chunk is there) |
| `RtmpWriter` | both overloads of BuildChunk, read by `RtmpChunk`'s parser | `SendSetChunkSize`, `SendCommand`, `PushHeader`, `PushFrame`, `NextChunk`; shown to implement `RtmpChunk`'s writer |
| `RtmpProofs` | theorems about `RtmpChunk`, `RtmpWriter` and `RtmpConnect` | |
| `RtmpConnect` | RtmpHandShake, commands and the out queue of RtmpContext, RtmpClient and RtmpServer over TcpConnection | two ends with one record each; `OnConnection`, `OnRead`, `OnWrite` are whole handlers, but for the loop of ParseMessage, which is one `HandleMessage` per message |
| `TimingWheel` | TimingWheel, CallbackEntry, TimeoutEntry, ExtendLife | `RunAfter`, `RunEvery`, `EnableCheckIdleTimeout`, `ExtendLife`, `OnClose`, `Tick` |
| `TimeProofs` | theorems about `TimeCorrector` and `TimingWheel` | |
| `Hls` | HLSMuxer, Fragment, FragmentWindow, the m3u8 and ts requests | `Append1`, `Shrink`, `UpdatePlayList` (the three lock sections of AppendFragment), `WriteOnly`, `WriteNext`, and `GetPlayList`, `GetFragmentByName`, `PostFragment` of a client |
| `Relay` | PullerRelay, RtmpPuller, the callbacks of RtmpClient and TcpClient | a player joins, somebody pushes, the session times out; the remote accepts, refuses, answers or closes; a retry timer fires; a deleted client's callbacks arrive |
| `RelayProofs` | theorems about `Relay` | |
| `Locks` | `LiveService::lock_`, `Session::lock_` and every `EventLoop::lock_` | threads are the loops and the task thread; `todo` is the rest of a thread's handler as a sequence of operations on locks and queues |
| `LocksProofs` | theorems about `Locks` | |
| `Http` | HttpParser, HttpContext, LiveService::OnRequest, FlvContext and FlvPlayerUser, and TcpConnection's Send and OnWrite | bytes arrive cut anywhere; the parser's loop goes round once per step; the kernel takes all, part or none of a write; the two completions of OnWriteComplete are steps apart, because the first may write, and complete, again |
| `HttpProofs` | theorems about `Hls` and `Http` | |

`Stream` abstracts a packet to its index, kind and corrected timestamp. The
vectors of GOPs and headers are filled in index order and searched by index, so
they are sets. `wire` is a history variable: the headers and the last frame
handed to the player's connection. `Stream` lets a player be activated at any
moment; `Delivery` is about when that happens and abstracts the packets to a
count. Of the stream's state it keeps what PostFrames and LocateGop ask for: `keyed` and
`media` (there has been a key frame, a codec header), and `recent` (the newest GOP is
within `content_latency`), which a key frame makes true and any later packet may make
false or true. A player that was never `located` gets nothing while it is false.
`Stream` assumes of the time corrector that it moves a clock by a bounded
delta and never below zero; `TimeCorrector` establishes this
(`ClocksAreSmooth`, `TypeOK`).

`Session` has one stream name, because names do not interact; several sessions
may exist under it one after the other. `silent` and `idle` stand for the two
clocks IsTimeout compares. `ClearSession`, `TimerClear` and `TimerErase` are
separate steps because other threads run between them; LiveService's lock is
taken for held from `CheckTimeout` to `TimerErase`.

`RtmpChunk` keeps the header fields, deltas, the extended-timestamp flag and the
partial packet of each chunk stream. A wire that holds one chunk is enough,
because reader and writer share nothing else; a chunk may be seen in part any
number of times before it is complete, which is how the parser meets it.
`RtmpWriter` extends that module and replaces the peer by BuildChunk. Its
refinement is the identity on `RtmpChunk`'s variables, so `WritesChunkStream`
says that each of its steps is one that a peer following the format could take.

`TimeCorrector` keeps the widths of the code: a timestamp is one of `Word` values, a clock
is a number that the Stream hands on as a timestamp, modulo `Word`, and the difference that
places the first video frame is narrowed to a signed word.

`RtmpConnect` cuts a handshake block into `Parts` pieces that may arrive apart; a
write may complete inside the handler that starts it (then OnWriteComplete runs
in the middle of that handler) or later in OnWrite, or fail, and is then queued from one
byte before the block (`Stray`), as in `Http`; `strayed` remembers that it did. A command
is one token: `RtmpChunk` is about its bytes.

In `TimingWheel` a slot is a set of references with the delay that is left when
the slot is reached. An entry runs when the last reference to it goes, as the
`shared_ptr` has it. Time is counted in ticks, the effective calls of OnTimer.

In `Hls` a fragment is its sequence number, its duration and whether it began at a
key frame. The reference that GetFragmentByName returns is a position in a vector
of a certain capacity: when the vector has grown, the memory is gone.

`Relay` follows one session. The list of targets, with the retry count and the
stream name of each target, is shared by all sessions of the application; what the
others do to it is `SelectedElsewhere`. Nothing in the relay is locked, and a call
of Pull is one step. `tried` and `touched` are histories: the targets dialled, and
the freed pullers and clients used. The session itself is never freed once somebody has
joined it: the connection of an RTMP or HTTP player keeps its user (`kUserContext`, which
OnDestroyed does not clear), and the user keeps its connection and its session. So it does
not matter here when a player leaves. The remote server is free to do anything at any moment.

In `Locks` a section that waits for nothing while it holds its lock is one step that
needs the lock to be free. `queue` keeps only the functions that take further locks
or change who is listed: closing a user, dropping a replaced client, connecting.
The locks of the stream and inside a connection are taken last everywhere and
are left out.

In `Http` a header is one symbol and the empty line, a chunk size one symbol and the
end of its line; symbols carry the number of their request, so that mixed content
shows. PostFrames runs when a packet of the publisher activates the player
(`PostFrames`) or at the end of FlvContext's completion (`FlvWriteComplete`); both post a
list of buffers (`Post`). `due` counts the completions of FlvContext that are still to be
made: HttpServer::OnWriteComplete makes HttpContext's first, which writes the body of an
answer, and when that is written at once the whole of OnWriteComplete runs inside it, so
two are due. The client sends its requests one after the other (`Request`), and `stream` keeps
all it has sent: `read` and `taken` are how much of it has arrived and how much the parser
has taken, so the message buffer is the part between them (`buf`). `queue` is the bytes of
`io_vec_list_` without their division into buffers, of which only the empty ones matter
(`hollow`: how many bytes are in front of each). `spin` records a loop that would never
end, `mixed` and `reused` the two cases that `ResponsesWhole` tells apart, `want` what the client should
receive, a stray byte for each failed write included, and `out` what was written. A
request that follows a chunked one is limited to a header, and a client asks for one FLV
stream at most.

An invariant of the newer modules is often a conjunction of named parts, among them
the module's type (`TypeOK`, in `TimingWheel` `WheelType`): `MessagesIntact` is `ContentIntact` and `TimesIntact`,
`EndsInStep` is `InStep` and `SendingCompletes`, `WheelsSound` is `PendingAreInWheel`
and `StaysInWheels`, `ServesWhatItLists` is `PlayListInOrder`, `ListedCanBeFetched`
and `NeverSentAnother`, `AloneIsSafe` includes `OneAttemptAtATime`.

Operators whose name ends in a description of a slip (`SlotOneShort`,
`SkipFrameBackward`, `CheckReadyNoDeactive`, ...) are mutants: plausible mistakes
that replace the operator below them, each of which breaks one property.

## 3. Runs

| run | bounds | shows |
|---|---|---|
| `stream` | ring of 3, batches of 2, 6 packets of five kinds, deltas -1 and 2, one player | the ring wraps; a player joins, is overrun, skips and resumes. Players do not affect each other in `Stream`, so one is enough. |
| `delivery` | 3 start-up packets, every 3rd packet activates, 2 queued functions, peers that only read and peers that also send | no player is left asleep; with a peer that only reads a player that has been located gets what is published, every write completes, and a player that always finds a recent key frame is located |
| `time` | limit 2, words of 4 values, clocks to 5 (453,041 states) | both correctors, with skips, and the first video frame, up to and past the end of a word |
| `session` | two publishers, one player, two sessions under one name | listed users are live, a destroyed user is closed and leaves, whatever threads do |
| `chunk` | two chunk streams, messages of 1 and 3 units, chunk sizes 2 and 1, timestamps to 2, of which 2 needs the extended field, one message stream (637,517 states; the proofs cover more) | content, times and framing survive every header format, interleaving, chunk size change and partial arrival |
| `writer` | two chunk streams, lengths 1 to 3, out chunk size 2 | what BuildChunk writes is a legal chunk stream |
| `connect` | blocks of 4 pieces, one acknowledgement, players and publishers, whole, short and failing writes (74,864 states) | an end whose peer had no failed write stays in step, and a write under way completes; when all writes are whole the client always gets to play or publish |
| `wheel` | wheels of 3, 2, 2 and 2 slots, 14 ticks, delays of all four wheels, one timer, one periodic timer, one connection | no timer is lost, misplaced or late |
| `hls` | window 3, play list of 3, 5 fragments, one client | lists are consecutive, move forward and can be fetched; fragments begin at key frames |
| `relay` | 2 targets, the first with a retry interval, 2 retries, 2 players, 2 timers per puller (21,369 states) | the session publishes only its own stream; a relay started once has one attempt under way and uses no freed puller; it gives up only after every target was dialled; a joining player sees a connection, a publisher or an end |
| `locks` | 2 loops and the task thread, 2 connections dialled (2,015,670 states) | threads wait for each other in a circle only while a loop runs a failed pull inside RunFuctions; no forced close is lost |
| `http` | up to 3 requests of 7 kinds, 2 FLV tags (1,137,853 states) | requests are delivered whole and in order, and answers and tags are written whole and in order but in the two cases named; which cuts and empty buffers can make a loop spin |

The ring sizes are small, but the properties depend only on whether an index is
inside the ring, just outside or far outside, and 3 slots with 6 packets reach
all of these; the proofs cover every size. `Delivery` counts frames up to the
start-up bound and then modulo the period, so its state space is finite without
a bound on packets; `MaxBacklog` saturates (a longer backlog is skipped by
`Stream`), `MaxFunctions` bounds the activations that can wait, which in the code
one publisher thread adds one at a time.

Two publishers and a player are the smallest set in which a publisher is
replaced while a player is there and while it closes; two sessions are enough for
one that dies and its successor. Two chunk streams suffice for interleaving, and a
message of 3 units in chunks of 2 and 1 has first, middle and last chunks. In
`wheel` 14 ticks pass every boundary of the first three wheels and one of the last.
In `hls` 5 fragments exceed both the window and the list, and make the vector
grow three times. HTTP clients do not affect each other or the muxer.

Two targets, one with an interval and one without, have a first and a last target and
both ways to retry; two players are what it takes for a second StartPullStream. Two
loops and the task thread are the smallest circle of waiting threads with a third to
interfere, and two dials let a relay replace a client. Three requests put one before
and one after each kind, a body of three bytes can be cut at both ends and in the
middle, and two tags make the second one wait for the first.

Fairness (`Delivery`): the loop thread and the publisher's thread keep running;
`EventLoop::lock_` is released again and again, and a thread that waits for it
gets it (strong fairness on `PushFunction`); the publisher keeps sending, but key frames,
codec headers and recent ones need never come; the
peer keeps reading; a finite list of buffers is not written in infinitely many
pieces (strong fairness on `OnWriteAll`). `Session`: each loop thread goes on with
what it has begun, a thread that waits for `LiveService::lock_` gets it (strong
fairness on `EraseSession`; the timer releases it every time), ForceClose is
executed by the loop it was queued in, and the task thread finishes an OnTimer that
it has begun. No fairness is assumed of users joining or of time passing.
`RtmpConnect`: TCP delivers, and each loop handles its read and write events.
`Relay`: a timer that was set fires, and the connection a puller waits for is accepted
or fails, since the kernel gives up on a server that does not answer; a remote
server that has accepted owes nothing. The other modules have safety and action
properties only and need none. Deadlock is checked for `Delivery` and `RtmpChunk`,
which never stop; the others stop at their bounds, when everything is done
(`RtmpConnect`, `Session`), after the use of freed memory (`Relay`), in a loop that
never ends (`Http`), or in the deadlock that `DeadlockOnlyInPull` describes.

### Deviations

The models follow the code also where it does not do what it seems meant to do. The
properties say exactly how far the code goes, and their comments name the case that
is left out:

* `Stream` (`GopsBuffered`): `Stream::AddPacket` clears expired GOPs only for
  `min_idx > 0`. While `frame_index_` is exactly `packet_buffer_size_` the GOP of
  packet 0 is listed although its slot was overwritten, and a player may start there.
* `Delivery` (`WriteWillComplete`): read and write events that arrive together are
  handled by an `if` and an `else if` (`network/net/EventLoop.cc:55`); the socket is
  edge-triggered, so the write event of a peer that also sends may be lost.
* `Session` (`CloseUser`, `live/Session.cc:143`): closing an old publisher resets
  `publisher_` although a new one has been set meanwhile.
* `Stream`: a player located at GOP 0 is given the newest header, not the one of
  that GOP, and remembers its index; a later skip then withholds it. Hence
  `FirstFramesDecodable` is about the first frames only.
* `Delivery` (`PacketsAreSent`): a player that joins while the newest GOP is older than
  `content_latency` (`live/Stream.cc:149`) gets nothing until another key frame, and then
  only if it looks while that one is recent. GOPs longer than `content_latency` may keep it
  waiting for good.
* `TimeCorrector` (`FirstVideoAligned`): the first video frame is compared with the
  audio's original timestamp instead of its corrected clock. The difference of the two
  is stored in an `int32_t` (`live/base/TimeCorrector.cc:65`): when they are almost 2^32 apart
  it looks small, and the video keeps its own time; `LooksNear` are these differences.
* `TimeCorrector` (`PlayerKeepsStreamTime`): the Stream returns its 64-bit clock as a
  `uint32_t`. After 49.7 days the players' correctors see the time jump back and go on by
  the default steps (`wrapped`).
* `Session`: a session that CreateSession returned may be cleared and taken off the
  list before the player is added; the player then waits in it for nothing.
* `RtmpChunk` (`MessagesIntact`): the extended timestamp of a fmt 0 chunk is read and
  dropped, so timestamps are wrong from 0xFFFFFF on.
* `RtmpWriter` (`crashed`): BuildChunk for frames tests `!prev` where `prev` is meant
  and dereferences a null pointer if no header went out on that chunk stream.
* `RtmpConnect` (`PlayStarts`): S2 that arrives while C2 is being written stays in
  the buffer, and nobody looks at it again.
* `RtmpConnect` (`InStep`): a failed write of a block is queued with one byte too many in
  front, as in `Http` below (`network/net/TcpConnection.cc:212`), and the peer takes what
  follows one byte off. Nothing is claimed of an end whose peer had such a write.
* `TimingWheel` (`WheelsSound`): a delay that is a multiple of a minute ends with
  InsertEntry(0), which stores before the first slot.
* `TimingWheel` (`RunsInTime`): the coarse wheels turn at multiples of `tick_`, so a
  delay of a minute or more may run up to one unit early. The idle timeouts in use
  are 30 seconds and are not affected.
* `Hls` (`Shrunk`): the test in Shrink is the wrong way round, so nothing ever leaves
  the window. What is listed can be fetched (`ServesWhatItLists`) because of that.
* `Hls` (`ServesWhatItLists`): a reference into the window is returned from under the
  lock, and the memory may be gone when it is used.
* RTMP control (`mmedia/rtmp/RtmpContext.cc:797`): SendUserCtrlMessage writes the value
  over the event type.
* `Relay` (`name`): the stream name is kept in the shared target, so while one stream
  of an application is dialled a second one may dial that name; CreatePublishUser
  then refuses it, which is why `PullsOwnStream` holds.
* `Relay` (`publisher`): RtmpClient never calls OnConnectionDestroy, so a pulled
  publisher that was lost stays `publisher_` until the session times out, and user and
  session keep each other alive.
* `Relay` (`AloneIsSafe`): a second player restarts the relay while a retry timer
  holds a raw pointer to the old puller (`live/relay/PullerRelay.cc:107`); a client may be
  deleted inside its own close callback (`network/net/TcpConnection.cc:20`). `touched`
  records both.
* `Relay` (`Pull`): when all targets have failed, CloseSession takes the session off the
  list (`:84`), but Pull goes on and dials the last target again. The session is not freed
  under it only because of a leak: OnDestroyed clears `kRtmpContext` or `kHttpContext`
  (`mmedia/rtmp/RtmpServer.cc:49`, `mmedia/http/HttpServer.cc:52`), but not `kUserContext`, so
  that a connection and its user (`live/user/User.h:86`), and with them the session, keep
  each other for ever.
* `Locks` (`DeadlockOnlyInPull`): RunFuctions holds the loop's lock while it runs
  functions. A connect that fails, or the removal of a replaced client, goes on to
  Pull, which takes the service's lock (CloseSession) or that of another loop (the next
  connect), while OnTimer holds the service's lock and waits for the loop's to queue a
  ForceClose, or while the other loop does the same.
* `Http` (`ParserSpinsOnlyOnCut`): a header cut by TCP, or a bad content length with bytes
  after it, makes HttpContext::Parse go round for ever (`mmedia/http/HttpContext.cc:18`);
  a last single byte is not parsed until more arrives.
* `Http` (`RequestsIntact`): `is_chunked_` is never reset, so the request after a chunked
  one delivers the old one again, and every chunk is answered.
* `Http` (`WriterSpinsOnlyOnEmpty`): writev with an empty last buffer never finishes; a
  zero-length message of a publisher makes such an FLV tag.
* `Http` (`ResponsesWhole`, `Stray`): `send_len` is unsigned, so after a failed write the
  buffer is queued from one byte before its beginning (`network/net/TcpConnection.cc:212`).
* `Http` (`mixed`): what an FLV stream sends while a fragment's header is written comes
  between that header and the body. An answer requested while another is written is
  dropped.
* `Http` (`reused`): HttpServer::OnWriteComplete (`mmedia/http/HttpServer.cc:68`) makes
  FlvContext's completion after HttpContext's. When the latter writes a fragment's body at
  once, OnWriteComplete runs inside it and a tag may be posted there; the outer completion
  of FlvContext (`mmedia/flv/FlvContext.cc:142`) then clears `sending_` and lets go of that
  tag's packet and header while they are queued, and the next tag's header is built over it.
  `Spoilt` are the kinds of bytes this may change; their number, their order and all
  answers are as they should be.
* FLV timestamps have 24 bits (`mmedia/flv/FlvContext.cc:115`).

## 4. Proofs

`StreamProofs` proves, from `StreamAssumption` only, the type invariant and
`RingHoldsLastPackets`, `GopsBuffered`, `LocateIsAllOrNothing` and
`DeliveryInOrder`. None is inductive alone. The inductive invariant `Inv` adds

* `RingRange`: a packet in the ring is one of the last `BufferSize` and sits in
  the slot of its index. Without it the packet that a slow player finds in its
  slot could be anything;
* `HeadersSaved`: saved headers have past indices (so the newest exists) and
  every `has_*` flag has one;
* `GopsPast`: listed GOPs have past indices;
* `PlayerSafe`: the held frames are an unbroken run that ends at `out_index_`,
  which is not after `frame_index_`, and everything sent lies before the run.

`StreamAddPacket` shows that `AddPacket` keeps the stream's part; its core is
`SlotsDiffer` (indices less than a ring apart have different slots) and
`SlotShared`. `GetFramesSafe` shows the player's part, from one lemma for each of
LocateGop, SkipFrame and GetNextFrame.

Two more results rest on `Inv`. `SkipsToKeyFrames` (`SkipsOnlyToKeyFrame`): the slot of
the GOP that GetGopByLatency finds holds its key frame, except for GOP 0 just when the
newest packet has replaced it (`GopStart`), so a player goes on with the next packet,
lands on a key frame, or has fallen out of the ring (`SkipLands`).
`FirstFramesDecode` (`FirstFramesDecodable`) needs an invariant of its own,
`DecodeInv`: a saved header is one that the `has_*` flags promise and, while it is in
the ring, is a header there (`HeadersKnown`); and as long as a player was sent
nothing but headers, it holds nothing, or holds or was sent the headers its frames
need (`FirstRun`).

`DeliveryProofs` proves the type invariant, `ActiveMeansSending` (through
`ActiveInv`: an active player sends or is inside PostFrames), `LostWakeupBounded`
(through `WakeInv`: a player that nobody has woken was deactivated after the last
activating packet) and `WriteWillComplete` (through `WriteInv`: nothing of a peer that
only reads is ever waiting to be read).

`TimeProofs` proves of `TimeCorrector` that clocks are natural numbers,
`ClocksAreSmooth`, `FirstVideoAligned` and `PlayerKeepsStreamTime` (through `InStep`:
until the stream's clock passes the last timestamp, the last timestamp the player saw and
its clock both equal that clock), for words of any size that two limits fit in.

Of `TimingWheel` it proves `WheelsSound` and `RunsInTime`, for wheels of any size and any
set of delays. Neither slot nor rest of a reference is stable, since the coarse wheels
hand what is left of a delay to finer ones. What is stable is the tick at which the
reference is due, its alarm: the last turn of its wheel, plus its slot times the
wheel's unit, plus its rest (`Alarm`). InsertEntry adds exactly the alarm of its delay
(`InsertAlarm`), and a turn of a wheel leaves every alarm where it was (`PopUpAlarm`,
`CoarseAlarm`); this is where a unit being a multiple of the next finer one is used, and
where the order of the wheels within OnTimer matters, because the finer wheels have
turned already when a coarse one hands over. The invariant `WheelInv` then says: every alarm
belongs to a pending entry and is not after the entry's due time (`InTime`), each pending
entry has one that is not more than its unit before it (`LastInTime`), entries were
inserted in the past with a delay that was asked for (`AskedBefore`), and, if no delay is
a whole number of minutes, neither is any rest in a coarse wheel, so that no index leaves
a wheel (`InSlots`). An entry runs when its last reference goes, so it runs at its last
alarm. `EntriesAssumption` (a timer, a periodic timer and a connection's entry are
different objects) is used because OnTimer treats them differently.

`SessionProofs` proves, for any users and any number of sessions, the type
invariant, `RegisteredAreLive` and `DestroyedAreClosed`. `RegisteredAreLive` is not
inductive: that nobody listed has gone depends on who may still be on the way out
of which session. `IInv` adds `InItsSession` (whoever a session lists holds that
session), `DestroyedHaveJoined` (only a user that has joined can be marked
destroyed), `LeavingAreDestroyed` (a user on its way out is marked),
`HoldsSession` (a user past CreateSession holds a session) and
`DestroyedAreLeaving` (a destroyed user that is still listed is about to be taken
off). `ClearKeeps` shows the common part of the two actions that clear a session.

`HttpProofs` proves `ServesWhatItLists`, `StartsAtKeyFrame` and `ListMovesForward` for
any window, list length, fragment sizes and number of clients. `IInv` fixes the numbers:
fragments are numbered from 0 without a gap and the current one is the next
(`Numbered`), the packet that ended a fragment is kept until it is written (`PacketKept`),
the list names the last fragments that UpdatePlayList has seen, between the lock sections
of AppendFragment too (`ListIsTheLast`), what a client saw was published and what it refers to
is in the window (`SeenIsPublished`, `RefsAreInWindow`), and the fragment that will be
current begins with a key frame or follows one that was too long
(`NextStartsAtKeyFrame`).

`RelayProofs` proves `PullsOwnStream`, `GivesUpAfterAll` and `AloneIsSafe` for any number of
targets, retries, players and timers. `OneAfterTheOther` describes a relay that was started
once: nothing exists of a target before it is selected, its puller is freed once it is
passed, every target passed was tried, and an attempt under way has a live puller.
`OneAttempt` adds, when the target names are its own, that only the current target has a connection or a
timer, never both, and no connection lost its client. `SelectedAreNamed` and
`JoinedAreCounted` supply the names and the count of starts.

`RtmpProofs` proves `StaysFramed` and `MessagesIntact` for any number of chunk streams,
lengths, chunk sizes and timestamps. The reader lags behind the writer by the chunk on
the wire, so the invariant speaks of the state the reader will have once that chunk
is parsed: per chunk stream, its header, delta and extended flag are the ones the writer
compresses against (`HeaderInStep`), and its packet is the written part of the
message under way (`PacketInStep`); the chunk is as long as the reader takes it for
(`WireInStep`), and the last message was handed over or is arriving (`SentInStep`).
`BuildChunkFollowsTheFormat` is the refinement: every step of `RtmpWriter` is a step
that `RtmpChunk`'s writer may take. It assumes `MaxTime < ExtMark` (timestamps below
0xFFFFFF; the next timestamps are the deviation named above), and `WriterAssumption`,
which says that the only chunk size announced is the server's own and is not below the
protocol's first one.

Of `RtmpConnect` it proves `EndsInStep` (`EndsStayInStep`), for any number of parts that a
handshake block is cut into, any goals and any short and failing writes. `InStep` speaks of
each end whose peer had no failed write, whatever its own did. It looks at what an end
is about to read, and is not inductive: nothing in it says what comes after the
first block, or that a block written in two parts is not separated by another. The
inductive invariant, `ConnectInv`, speaks of the whole stream from one end to the other.
`Carries` says of an end none of whose writes of a block has failed (`~strayed`): what has
left it and not been taken by its peer, followed by what it has still to write
(`Outgoing`: the out buffer of the connection, then the out queue of RtmpContext), is exactly the end's blocks from the first one not taken
(`BlocksTaken` of the peer's handshake state) to the last one sent (`BlocksSent` of its
own), followed by commands, and by none while the handshake lasts. `EndOk` relates the
state of the handshake to the rest of an end: which side knows it, that parsing messages
has begun if and only if both blocks of the peer were taken, that something is to be
written while a block is being posted, and that `sending_` is set only while a completion
is to come. Every handler is then shown to do one of two things to the stream: to
take a block or a message off its front, or to add blocks and commands at its end in that
order (`Emitted`), through each of the calls it makes.

`LocksProofs` proves `DeadlockOnlyInPull` and `ClosingIsUnderWay` for any finite number of
loops and any number of dials. Locks are ordered service, session, loop. `Shapes` says
what may be left of a handler: inside a session's lock only posts to loops, inside an
outer lock only the calls of `Calls`. Together with `Owners` it follows that a thread
that waits inside a lock waits for one further on in that order, unless it is a loop
in Pull (`LockOrder`); finitely many threads cannot then form a circle. `Linked` and
`Running` relate the operations that are left and the queues to the state of the users,
which is what `ClosingIsUnderWay` needs.

Of `Http` it proves `RequestsIntact`, `ParserSpinsOnlyOnCut`, `WriterSpinsOnlyOnEmpty` and
`ResponsesWhole`, for any number of requests and tags. The four need each other, so there
is one invariant, `HIInv`. `SentOk` says where each request lies in the client's stream.
`ParserOk` fixes the parser's place in it from its state: until a chunked request is met,
at the beginning of the first request not yet delivered, or inside or behind the body of
the one whose header was parsed last, with as much in `chunk_` as was taken of that body
(`InRequests`); after it the parser stays with chunks (`InChunks`), and if nothing was
sent after that request it is at one of five places in it (`InLastRequest`). From the
place follows what the buffer begins with, so what `find` finds (`HeaderTaken`,
`SizeLineCut`, `LastLineThere`), which decides both what is delivered and when the loop
goes round for ever. `OutOk` says that what was written and what waits is what is wanted
(`AllWhole`), but for the bytes of tags once buffers were reused, and that an empty buffer
at the very end of the queue is right behind the first part of the last tag (`HollowOk`;
since a completion may come too early, there may be other empty buffers before it); so an
empty list of bytes with that empty buffer is all that writev can hang on. `Post` adds
the same list to what waits and to what is wanted; what it does to headers that are still
queued is covered by `reused`, which is set as soon as FlvContext completes or posts while
its buffers are queued (`SpoiltOnly`, `PostKeeps`, `FlvCompleteKeeps`). `FlvOk` (the one request for a stream
was delivered before the stream is sent) is what keeps a second header from being sent.

The constant `None` of `Hls` and `RtmpChunk` is assumed to be none of the values it
stands beside (`NoneAssumption`). All other assumptions only give the types of constants.

Only model-checked: the liveness properties `PacketsAreSent`, `DestroyedLeave`,
`PlayStarts` and `RelayDecides` (liveness under fairness is outside the prover).

## 5. Plan

What is left, in this order:

1. `RtmpControl`: acknowledgement window (`in_bytes_`, `last_left_`), user control events.
2. `TsPacking`: 188-byte packets and continuity counters; `Webrtc`: order of STUN, DTLS
   and RTCP, the ring of sent packets; `LoopThread`: start, quit and wake-up;
   `Dns`: refresh against readers; AMF decoding over bounded inputs.

## 6. Not modelled, and why

Payloads (codec bit strings, AMF and SDP text, DTLS and SRTP cryptography, MPEG-TS
field layouts) are data that no property here distinguishes. Configuration, logging
and file rotation are I/O at start-up or beside the stream. Socket options, addresses
and the byte buffer wrap system calls. Torn reads of a `shared_ptr` that is read without
its lock (`Session::publisher_`) are read as either value. `PROJECT.json` gives each
component's status. The limit of the chunk header buffer is reached only by a batch
of frames of more than 16 MB between two write completions. RtmpClient::ParseUrl may yield a
wrong address (`mmedia/rtmp/RtmpClient.cc:89`): to `Relay` that is a server that refuses.
The web pages saved under `html/`, scripts included, come from third parties and
are not part of the server. `PROJECT.json` has a note for every hazard that no property covers yet.
