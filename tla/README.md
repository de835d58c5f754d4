# OTTS in TLA+

OTTS is a live-streaming gateway: one C++ process takes streams in over RTMP,
RTSP, SRT and WHIP and plays them out over RTMP, HTTP-FLV, RTSP, SRT and WHEP;
a Node console around it runs HLS packaging, recording and event callbacks.
This directory specifies the parts of it that are hard to get right by testing:
the shared stream registry, the sessions whose threads call it, the media
fan-out that runs on copies after the registry's lock has been released, and the
components at both ends of it, each with its own threads, queues and peers.

Paths below are relative to `src/`.

## 1. The system

### 1.1 Parts, their state and their operations

| Part | State | Operations | Correct when | Status |
| --- | --- | --- | --- | --- |
| Stream registry (`cpp/src/rtmp/stream_registry.cpp`) | `streams_`: per key the publisher (weak), the subscribers (weak), the callbacks, `external_publisher_active`, viewer count, late-join caches; `external_sessions_` | register / unregister publisher, add / remove subscriber and callback, publish (RTMP and external), upsert / remove external stream, cleanup, disconnect | an entry in use is never erased, an unused one goes; nobody is displaced silently; the GOP cache starts at a keyframe | partly: `external_sessions_`, counters and the state file are open |
| RTMP session (`rtmp_session.cpp`) | `running_`, `stream_key_`, `is_publisher_`, `is_player_`, socket, outbound queue, `chunk_states_`; an rx and a tx thread | handlers of publish, play, FCUnpublish, deleteStream, media; `send_media`; `stop()`; chunk reader and writer | `stop()` from any thread takes effect once; both threads end; the slot is given back; what is read is what was written | partly: the byte limit and the handshake are open |
| RTMP server (`rtmp_server.cpp`) | the registry, the listening socket | accept | – | as `Accept` / `Connect` |
| RTSP publish (`rtsp_publish_server.cpp`) | a thread per connection, two UDP sockets, two receivers; access unit and clock of each | ANNOUNCE, SETUP, RECORD, TEARDOWN, cleanup; RTP to messages | receivers end with their connection and leave no entry; network damage stays where it hit; times are the source's | modelled |
| RTSP play (`rtsp_play_server.cpp`) | callback id, unbounded queue, worker, senders | SETUP, PLAY, TEARDOWN; the worker | order of each kind, frames whole or missing | partly: DESCRIBE, AAC and pacing are open |
| SRT, WHIP ingest | connection, stream key, `sent_sequence` | begin / upsert / media / remove | the entry stays while the ingest lives | the registry calls |
| HTTP-FLV, SRT play, WHEP | callback id, a bounded queue, a writer | join with or without snapshot, leave | every message owed comes once; a join misses nothing | join, fan-out, leave, queues, writers |
| HTTP server (`http_server.cpp`) | a thread per connection | read a request, route it, pass it on to the gateway | a handler does what was asked, and nobody waits for one another | partly: the contents of reports are open |
| WebRTC service (`webrtc_service.cpp`) | session table, peer connections, a sender per session | offers, answers, close, stale cleanup, state and track callbacks | one close, no session, callback or ingest left behind | partly: SDP and RTP are open |
| Shared video transcoder (`shared_video_transcoder.cpp`) | pool of pipelines by stream; per pipeline a source queue, a GOP cache, a worker | acquire, subscribe, leave, feed | one pipeline per stream, gone with its last user; every GOP whole | modelled |
| Main loop (`main.cpp`) | – | `cleanup_stale` every 5 s | unused entries go | as `Cleanup` |
| Managed processes (`process_supervisor.cpp`) | pid | start, stop, running | no process left behind | open |
| HLS manager (`node/src/hls_manager.js`) | map of child processes, output directories | ensureRunning, stop, clean | one ffmpeg per stream, no live directory removed | partly: reports and restart counts are open |
| Recording manager (`node/src/recording_manager.js`) | map of child processes | start, stop | one recorder per stream | partly: file lists and reports are open |
| Stream events (`node/src/server.js`, `callback_manager.js`) | last reported state of each stream | reconcile, emit | each transition reported once | partly: delivery is open |
| Codecs, AMF0, FLV, authorization, console pages, Python gateway | – | pure functions or user interface | – | not modelled |

### 1.2 How the parts interact

Every connection has threads of its own. The only shared state in C++ is the
registry, guarded by one `mutex_`. The registry never calls out with the mutex
held: `register_publisher` returns the session it displaced and its caller
stops it; `publish_media` copies the subscribers and callbacks and delivers to
the copies; `add_subscriber` copies the cache and delivers the copy;
`disconnect_stream` copies sessions and stops them. What makes the
system hard is all in that gap between the copy and its use:

* a session may be stopped, unregistered, or destroyed between the two;
* several threads may stop one session at once, its own two among them;
* a session stopped while its rx thread is inside `publish` or `play`
  registers itself after it was unregistered;
* a viewer's snapshot is overtaken by live messages, or delivered after it left;
* the periodic cleanup cannot tell a pause from the death of an ingest;
* registrations are removed by value (session pointer, callback id, protocol
  name), so one client's cleanup may hit the registration of another.

The components at the edges have hazards of their own: threads joined while they
wait in the kernel, objects destroyed by whoever drops the last reference, calls
of Node that check before an `await` and act after it, packets that are lost,
repeated or swapped, clocks that wrap, frames cut to size.

The full list, at the lines where each bites, is `hazards` in `PROJECT.json`.

## 2. The modules

```
StreamRegistry        the map and one operator per operation; no Next
  |-- RegistryClients   + all clients, at the grain of registry calls
  |-- RtmpSession       + RTMP sessions, at the grain of their threads
                          implements RegistryClients
Fanout                what a viewer is promised (abstract)
MediaDelivery         copies, fan-out, joining; implements Fanout
PlayQueue             from a viewer's callback to its socket
WebRtcSessions        one session of the WebRTC service, all its threads
TranscodePool         the shared transcoder of one stream
RtspPublish           one publishing RTSP connection with its receivers
RtpIngest               what its receivers make of the packets
RtspPlay              one RTSP player
RtmpChunks            RTMP's chunk writer and reader
HttpServer            HTTP requests
HlsManager            the console's HLS processes
RecordingManager      the console's recordings
StreamEvents          the console's events of streams
MCComponents          the last nine in one run
SequenceLemmas        sequences, without regard to the system
StreamRegistryProofs    of the registry's operations
RegistryClientsProofs, RtmpSessionProofs, MediaDeliveryProofs, PlayQueueProofs,
WebRtcSessionsProofs, ComponentsProofs
                        the theorems (ComponentsProofs of the parts of MCComponents)
MC*                   constants for TLC
```

**StreamRegistry.** `streams` is `streams_`; a key the map lacks is `Vacant`, and
`At(k)` is `streams_[k]` with its default construction. `objects` are the
`RtmpSession` objects in memory: a `weak_ptr` is expired exactly when it points
to none of them. Since every method holds `mutex_` throughout, each is one
operator on `streams'`, with the pruning and the erase rule the code repeats in
five places (`Collect`) as part of it, and with the different erase rule of
`remove_external_stream` kept different. Time is abstract: `fed` is "never",
"recent" or "idle" for `last_media_at_epoch_ms` against the idle limit, and
`Elapse` makes a stream idle. Media are four kinds, those the code branches on.

**RegistryClients.** A client is a small state machine whose steps are the registry
calls its code makes, in the code's order, with no lock between them. For a
session, `life` is how far `stop()` has come, `late` says that the rx thread is
in a handler while another thread stops the session, and `condemned` are the
sessions some thread holds a `shared_ptr` of in order to stop them. Ingests are
RTSP and WHIP (`begin_external_publish`, then `upsert_external_stream`) and SRT
(only the second); viewers are callbacks, and those in `Counted` (SRT play,
WHEP) also report themselves with `update_external_viewers`. The registry has
callbacks by their ids (`IdOf`), which the code does not make unique: HTTP-FLV and RTSP
players are counted per server, SRT and WHEP take the current millisecond.
`AttachedStaysRegistered` excepts a viewer whose id another one has (`SharesId`), and
`EveryViewerRegistered` is the same without the exception.

**RtmpSession.** The same sessions with their threads. `rx` and `tx` say where
`session_loop` and `outbound_loop` are, `call` which `stop()` a thread is
executing and at which of its four steps (exchange of `running_`, unregister,
unsubscribe, close and notify), `todo` the copies a thread still visits. The
condition variable is modelled in full: a tx thread may have evaluated the
predicate and not blocked yet ("eval"); `send_media` notifies after it pushed
with `outbound_mutex_` held and is never missed, `stop()` does not take that mutex, and its
notification in that window is lost ("missed", then "stranded"). At the bottom
the module maps its state to that of `RegistryClients`.

**Fanout** and **MediaDelivery.** One stream, messages numbered in the order the
registry took them. `Publish` is the locked half of `publish_media` and
`publish_external_media`; `Deliver` is one callback of the unlocked half; `Join`
and `Hand` are `add_subscriber` and `add_callback_subscriber` with their
snapshot; `Copy`, `Enqueue`, `JoinLive` are the three steps of RTSP PLAY
(`cached_messages`, the queue, `add_live_callback_subscriber`). `Fanout` says
what that amounts to for a viewer: it owes each message once, in any order.

**PlayQueue.** One viewer of one stream, over HTTP-FLV, SRT or WHEP (chosen in `Init`;
viewers share nothing but the registry), from the callback to the socket. Messages
are video of three kinds: parameter sets, keyframes, and frames that need one. `heard`
is the sequence of the callback's calls, and `queue`, `taken` and `wire` hold
positions in it, so that a skipped, repeated or reordered call shows. The three
`Push` operators are the callbacks with their answers to a full queue. `Take`, `Send`,
`SendFails` and `Absorb` are the writer; those of HTTP-FLV and SRT run in the
thread that joined, so they start when the snapshot has been handed over, that of WHEP
beside it. `FlvIdle` is the probe of an idle HTTP-FLV connection, `Seed` the look an SRT
writer takes at the cache, `Detach` and `Close` the end of a WHEP session. A peer
reads, is stalled (its connection is up and it takes nothing), or is gone.

**WebRtcSessions.** One session from its request to its end. The HTTP thread that
negotiates (`handler`), the two library threads, the closing thread and the sender
take steps between the service's locks; `callback_id` and the flags around it are
hardly under any, and `Attach` and `Detach` are cut where another thread can come
between. `strays` are the callback ids of an attach that a detach overlapped, which
nothing removes; `crash` says that a thread followed a reference into a stack
frame that has returned.

**TranscodePool.** `gen` is the pipeline that `pipeline_pool` points to, `stage` how far
each one's life has come, `hold` and `feed.lock` are the `shared_ptr`s there are.
`Dropped` is the destructor in the thread that drops the last one; `Stop` and `Join`
are `shutdown`. `EnqueueSource`, `Take` and `PublishFrame` are the critical sections of
the feeder and the worker. Frames are numbers, so that a gap shows; an encoder answers
with its IDR first and whenever it likes.

**RtspPublish** and **RtpIngest.** A connection whose requests may come in any order;
sockets are numbered in the order they were bound and carry what became of them,
because the code's integers do not: closed, shut down, or replaced by a later
SETUP. A receiver tests `receiving` and enters `recv` in two steps (`Test`, `Enter`), between
which its number may be closed and go to a later socket, of this connection or of
somebody else ("astray"). The receivers copy the key when they begin (`rxKey`), which
under an empty key races with the next request. `RtpIngest` has a network of its own (`Fault`) in front of
`HandleVideo` and `HandleAudio`; an access unit is the sequence of start codes and
pieces that `handle_packet` appended, and the 32-bit clock is one of `Clock` ticks. The decode
time has a width of its own (`Word`, with `laps` for how often it wrapped, which the code
does not know), and `Composition` is what the clamp leaves of the distance to the
presentation.

**RtspPlay.** The request thread, the callback, and the worker with the queue from which
it takes the earliest timestamp. `Fragments` is `send_nal` with sizes in bytes; a packet on
the control connection is sent, dropped or torn. PLAY's two registry calls are
`PlayCopy` and `PlayJoin`.

**RtmpChunks.** A peer's writer, or the server's own (`send_chunked_message`, which uses
format 0 and one message at a time), and `receive_message`, a chunk at a time.
`Escape` stands for 0xFFFFFF and `Clock` for 2^32. The reader does not know where a
chunk ends: `garbled` is that it took other bytes than were written. The peer follows the
protocol also where the reader does not: a message that begins without a header after a
full one has the full one's timestamp as its delta, and `behind` marks the streams
for which the reader has not added that.

**HttpServer.** A request is the sequence of its parts; clients send them one at a time,
may close at any point and may wait for 100 Continue. `Receive` is one `recv` with the
checks of the loop, `Handle` the routing with what it calls (`Routes`), and what is called
is kept in `outcome` with the key and body as the handler has them.

**HlsManager.** Actions run from one `await` to the next. `processes` is the map,
`ffmpeg` what the operating system has; the difference is what the property is about.
A stream's directory is a sequence of names (`SplitStreamKey`, a constant: what
`splitStreamKey` makes of each key), a removal takes all that lies below (`Within`), and
`Shared` are the streams whose directory is another's or inside one.
`raced` marks the streams for which two calls were in each other's way.

**RecordingManager** and **StreamEvents.** The same form. A `Starter` is a request or a
call of `maybeAutoRecord`, between the check of `start` and its spawn. A `Reporter` is a
call of `reconcileStreamEvents` with a snapshot of its own, which may say anything of
any stream: it may be old, or empty since the fetch failed. `Read` is where it
reads the entry of a stream and `Proceed` what runs from one delivery to the next, until
the entry is written. `heard` is what somebody believes who goes by the events.
`crowded` and `overlapped` are the counterparts of `raced`. They stay set: after a race
the two sides may differ for good.

**MCComponents.** These nine share no variable with anything and are checked in one run:
an initial state chooses the part that moves, the others rest. A property of the run
speaks of its part only; its exceptions are stated in that part's module.

Operators marked "Mutant" are plausible wrong versions of the definition that
follows them; no specification uses them. `PROJECT.json` pairs each with the
property that must fail when it replaces that definition.

## 3. What TLC checks

| Run | Constants | Shows |
| --- | --- | --- |
| `RegistrySessions` | 2 sessions, 2 keys, 1 viewer, data messages | with takeover, disconnects, slow players, late handlers and the cleanup: nobody running loses a registration, no publisher its slot without being stopped, nobody holds a destroyed session |
| `RegistryStreams` | 1 key, 1 session, an SRT and a WHIP ingest, 1 counted viewer, GOP of 2 | mixed use of one key: the viewer's registration and the form of the cache survive every ingest operation; an unused entry goes (liveness) |
| `RtmpTakeover` | 2 sessions with 4 threads, 1 key | the threaded sessions implement `RegistryClients` |
| `RtmpThreads` | 1 session, an operator, bad chunk sizes | a stopped session ends with both threads and its memory, except for the lost notification |
| `MediaFanout` | 2 feeders, an RTSP and a WHEP viewer, 3 messages, GOP of 2 | no gap, order per feeder, exactly once (refinement), and delivery (liveness) |
| `PlayQueues` | a viewer of each protocol, GOP of 2, queues of 2 (HTTP-FLV), 1 + 1 (SRT) and 3 (WHEP), 4 messages | HTTP-FLV cuts off and never skips; WHEP sends no frame ahead of its keyframe across overflows; a late SRT caller has its parameter sets; a viewer cut off or gone is removed |
| `WebRtcPeers` | a session made by an offer, by WHEP (transcoded) and by WHIP; the connection comes up once | a detach finds the callback it has to remove; a closed session is quiet; a lost one leaves nothing behind (liveness) |
| `Components` | nine instances, see below | what each of the nine modules promises |

| Part of `Components` | Constants | Shows |
| --- | --- | --- |
| `TranscodePool` | 2 sessions, 2 generations, queue of 1, GOP and cache of 2, 3 callbacks | who works on a pipeline works on a live one, the only one; the decoder gets whole GOPs, and so does every subscriber |
| `RtspPublish` | 3 sockets | cleanup's joins end, except under a socket that SETUP replaced or a receiver astray; an ended connection leaves no receiver, ingest or session, except under the empty key |
| `RtpIngest` | clock of 32 that wraps after the first unit, decode times of 8 and composition times of 4, which both come to their ends, 4 units, steps of 3 and -1, one fault | other units than the one hit and the next are published as sent, once; times are the source's, except where the composition time does not fit |
| `RtspPlay` | 3 messages, cache of 2, payload of 4, NAL units of 3 and 5 | order per kind, except across a publisher that begins again at 0; frames on the wire are whole |
| `RtmpChunks` | 2 chunk streams, chunk sizes 1 and 2, clock of 8 with 3 as the escape, 3 messages | the reader returns the writer's messages, their timestamps except behind a start without a header after a full one |
| `HttpServer` | 1 connection, bodies of up to 2 parts, every route | a handler does what was asked, except for a client that closes early; no mutual wait, except for an `expect` in lower case |
| `HlsManager` | 2 streams, "live/a" and "live/a/b" inside its directory, 2 calls, 2 processes | a live ffmpeg is the one in the map, except where two calls raced, in a directory that exists, except inside another's |
| `RecordingManager` | 2 streams, 2 starts, 3 processes | a live recorder is the one in the map, except where two starts raced |
| `StreamEvents` | 1 stream, 2 calls | no event repeats the one before it, and between calls the events say what the console noted, except where two calls were at the stream at once |

The exceptions are not assumptions: TLC reaches each of them, and each is a hazard
in `PROJECT.json` at the line where the code lets it happen.  Three of them need neither
a race nor an unusual peer, only ordinary input:

- *A message without a header after a full one* (`behind`, `ReadsWhatIsWritten`). RTMP
  (5.3.1.2.4) makes the timestamp of the full header the delta of a message that begins with
  format 3 right after it, and the model's client writes it so. `receive_message`
  (`rtmp_session.cpp:347`, `:367`) adds nothing: after 2 written as format 0, a 4 written as
  format 3 is read as 2, and the deltas that follow are told from there, until the next full header.
- *A composition time that does not fit* (`Exact`, `OnTime`). Without a frame rate in the
  SDP, an interval above 100 ms is not believed and the 33 ms that were assumed stay
  (`rtsp_publish_server.cpp:684-702`). Decode time then falls behind, at five frames a
  second by 167 ms a frame, and the composition time grows until it is clamped, after
  less than three hours; from then on the intervals are those of the assumption. Once decode
  time has wrapped at 32 bits, presentation time is a whole word ahead of it and every
  message is clamped.
  `README.md:387` promises the presentation timestamps of the source.
- *Nested and shared directories* (`Shared`, `OneFfmpeg`). `streamDir` (`hls_manager.js:20-26`)
  puts "live/a/b" inside the directory of "live/a" and gives "live/a:b" that of
  "live/a_b"; both removals (`:255`, `:428`) are recursive, so that a start or a sweep of one
  takes away the directory of the other under its ffmpeg.

Four runs check what the documentation or a test says and TLC finds a
counterexample:

| Run | Says | What the code does |
| --- | --- | --- |
| `RtmpBadChunk` | `scripts/smoke_stability.sh:44` expects a stream to go once its publisher is gone | an invalid Set Chunk Size clears `running_`; the `stop()` that follows returns at once, and the slot, the socket and the tx thread stay |
| `RegistryCallbackIds` | `README.md:242`, concurrent players of one stream | each of the two HTTP servers numbers its HTTP-FLV players from 1; the first of two players with one id that leaves takes the other's registration along |
| `RegistryHeader` | `README.md:29`, "parameter-set caching" | an SRT ingest that pauses beyond the idle limit loses its entry; when it goes on, the sequence header it sends once per connection is not cached any more |
| `FlvStalled` | `README.md:36`, "HTTP-FLV slow-client protection" | a player that stops reading is marked slow, but its writer is in a `send` without a timeout and never sees the mark |

The type invariant of `WebRtcSessions` holds on the instance of `WebRtcPeers` too, and that of
`RtmpSession` is proved; these runs list what says more than types.

`AttachedStaysRegistered` is checked with distinct ids, where it excepts nobody, in two
runs, and `EveryViewerRegistered` fails without them in a third. `RtmpThreads` has bad chunk sizes enabled;
`StoppedSessionEnds` speaks of a `stop()` that won the exchange, so it holds there
too. `RtmpTakeover` leaves them out: `RegistryClients` has no session that stops
running without a `stop()`.

**Bounds, and why they are enough.** Two sessions give every interference of
the model: it is pairwise (a takeover, a fan-out to another session, a stop by
another). The second key distinguishes a session's keys from one another (publish
on one, play on another). A GOP of 2 has a full cache and a cache that lost its
keyframe within three messages; a GOP of 1 where the cache is not what the run
asks about. `MaxMessages` is the only bound on behaviours: three messages fill the
GOP and leave one to be live. Sessions and ingests restart for ever, so restarts
are not bounded. In `Components` the bounds let each limit be met: a queue of 1 overflows
with the second message, a unit of 5 does not fit a payload of 4 with either header, the
clocks wrap, the second generation of a pipeline runs beside the end of the first, a
third socket replaces one under a receiver, and a third chunked message finds both
streams with a state. One fault suffices since `DamageConfined` is about the distance
of its effects, not about their number (section 4 has it for any number). One stream suffices for `StreamEvents`, whose calls
keep nothing from one stream to the next but the keys they have met. The limits of the queues keep the order they have in the code: a snapshot (512 packets
and the header) does not fit the 256 of HTTP-FLV and SRT and fits the 1024 of
WHEP. Symmetry is used in `RegistrySessions` only, which has no
liveness property. `CHECK_DEADLOCK FALSE` is set where everything may stop by
design: clients may all be gone, and message numbers end.

**Fairness, and why the code justifies it.** `RegistryClients`: the main loop calls
the cleanup every 5 s (`main.cpp:552-563`) and time passes; no client step is
fair, since clients do what they please. `RtmpSession`: threads run (weak
fairness of `stop()` and of both loops), the rx thread notices a closed
connection; what peers send, spurious wakeups and operators are not fair. The last
`shared_ptr` destroys its session; disconnects that come for ever may disable that
again and again for a moment, hence strong fairness. `MediaDelivery`: a thread that
began a delivery goes on with it, because callbacks only push to queues. `PlayQueue`:
the threads run, a closed peer connection is reported and its session cleaned up; a
blocked `send` goes on if the peer reads again and again (strong fairness); peers
are not fair, so `LetGo` excepts one that stays stalled. An SRT writer
looks at its socket only when it sends: `Noticeable` says so, and an SRT viewer of a
silent stream stays registered. `WebRtcSessions`: every thread of the session goes on
(the handler's wait for gathering ends by itself after its timeout), the main loop cleans up,
and an object nobody refers to is destroyed; what the peer and the library report is not
fair. The nine parts of `Components` have safety properties only: `JoinEnds` and `NoMutualWait` say in a state what would make a wait last.

## 4. What is proved

For every number of sessions, keys, ingests, viewers and feeders and every
cache capacity, and as the table says:

| Theorem | Module | States |
| --- | --- | --- |
| `TypeCorrect` | `RegistryClientsProofs` | types, and that nobody holds a destroyed session |
| `KeyframeFirst` | `RegistryClientsProofs` | `GopStartsAtKeyframe` |
| `SlotKept` | `RegistryClientsProofs` | `PublisherKeepsSlot` |
| `StaysRegistered` | `RegistryClientsProofs` | `AttachedStaysRegistered`, for any callback ids: it excepts the viewers that share one, which `RegistryCallbackIds` shows to be needed |
| `SessionsImplementClients` | `RtmpSessionProofs` | `RtmpSession` implements `RegistryClients` (`ImplementsClients`), assuming `~BadChunkSize`, which `RtmpBadChunk` is about |
| `StopsOnce` | `RtmpSessionProofs` | at most one `stop()` of a session gets past the exchange, with or without bad chunk sizes |
| `TypeCorrect` | `RtmpSessionProofs` | types, likewise |
| `DeliveryTypeCorrect` | `MediaDeliveryProofs` | types |
| `NoGapHolds` | `MediaDeliveryProofs` | `NoGap` |
| `Refines` | `MediaDeliveryProofs` | `MediaDelivery` implements `Fanout` |
| `LiveInOrderHolds` | `MediaDeliveryProofs` | `LiveInOrder` |
| `QueueTypeCorrect` | `PlayQueueProofs` | types |
| `FlvNoSkipHolds` | `PlayQueueProofs` | `FlvNoSkip`, for any limits of the queues and any number of messages |
| `LateCallerConfiguredHolds` | `PlayQueueProofs` | `LateCallerConfigured`, likewise |
| `KeyBeforeDeltaHolds` | `PlayQueueProofs` | `KeyBeforeDelta`, likewise |
| `CallbackOwnedHolds` | `WebRtcSessionsProofs` | `CallbackOwned`, for every kind of session |
| `ClosedIsQuietHolds` | `WebRtcSessionsProofs` | `ClosedIsQuiet`, likewise |
| `InUseIsSharedHolds` | `ComponentsProofs` | `InUseIsShared`, for any sessions, generations, queue and cache that holds a GOP |
| `WholeGopHolds` | `ComponentsProofs` | `WholeGop` (of steps), likewise |
| `FirstIsKeyHolds` | `ComponentsProofs` | `FirstIsKey`, likewise |
| `JoinEndsHolds` | `ComponentsProofs` | `JoinEnds`, for any number of sockets |
| `EndedIsQuietHolds` | `ComponentsProofs` | `EndedIsQuiet`, likewise |
| `OnTimeHolds` | `ComponentsProofs` | `OnTime`, for any clock, widths of decode and composition time, number of units and of faults |
| `DamageConfinedHolds` | `ComponentsProofs` | `DamageConfined`, for any number of units and of faults |
| `PlayedInOrderHolds` | `ComponentsProofs` | `PlayedInOrder`, for any cache and number of messages |
| `FrameOnWireHolds` | `ComponentsProofs` | `FrameOnWire`, for any lengths and payloads |
| `NoMutualWaitHolds` | `ComponentsProofs` | `NoMutualWait`, for any connections and requests |
| `DoesWhatIsAskedHolds` | `ComponentsProofs` | `DoesWhatIsAsked`, for any connections, requests and bodies |
| `ReadsWhatIsWrittenHolds` | `ComponentsProofs` | `ReadsWhatIsWritten`, for any chunk streams, clock, escape value, chunk sizes and lengths |
| `OneFfmpegHolds` | `ComponentsProofs` | `OneFfmpeg`, for any streams, directories, callers and processes |
| `OneRecorderHolds` | `ComponentsProofs` | `OneRecorder`, likewise |
| `ReportedOnceHolds` | `ComponentsProofs` | `ReportedOnce`, for any streams and calls |

The constants are assumed to be what their modules name: numbers (of
sockets, messages, generations, faults) natural or positive, the sets of streams not
empty, and what the code fixes itself: the transcoder's cache holds a GOP (`PoolBounds`),
a payload holds more than the headers of a fragment and a NAL unit more than its own
(`PlayBounds`), a chunk size is not 0, on which `handle_control_message` ends the session
(`ChunkBounds`; `RtmpBadChunk` is about that end), and half the clock is further than the faults bring units together
(`IngestBounds`, see below). The theorems of `ComponentsProofs` are about the
specification of the run, `MCComponents`: `InitOfPart` and `StepOfPart` say that the part
the initial state chose starts in its own initial state and takes its own steps.

*The registry.* `StreamRegistryProofs` has two lemmas' worth of fact per
operation: it keeps `MapOK` (all entries `Sound`: typed and with a well-formed
cache), and it satisfies `KeepsBut(P, S, C)`: it takes no publisher outside P, no
subscriber outside S and no callback id outside C. The invariant of the clients
is `Inv == MapOK /\ ClientOK`. `ClientOK` adds `KeyOK` to the types: whoever
publishes, ingests or watches knows its key; without it a step with an arbitrary
`stream_key_` would not be an operation on the map. The two registration
properties are then inductive relative to `Inv`: each step takes only
registrations of clients that leave the sets the properties speak of
(`StepKeeps`), and whoever enters those sets registers in the same step
(`SessionGains`, `ViewerGains`). A removal by callback id is of the viewer that leaves and of
those that share its id, and of those nothing is claimed.

*The threads of a session.* `Inv == MapOK /\ SessionOK`. `SessionOK` is types; `Held`: a session is in memory
while a thread of its own runs, or any thread stops it or has it to visit; `Alone`: at
most one thread is past the exchange of a session, which does not run then; and `Places`: an
rx thread on its way out has stopped its session or is about to. `Alone` is what
makes `life` a function of where that one thread is (`OnePlace`, `LifeIs`): two threads
past the exchange would be two abstract states at once. Each action then has its image
(`StopMaps`, `MemoryMaps`, `HandleMaps`, `ThreadMaps`, `OperatorMaps`): a `stop()` that
loses the exchange is the end of one who was `condemned`, and nothing if the thread is
the session's own; an rx thread that leaves `recv` without a message is `OtherMessage`; what a
tx thread does, and closing the socket, is nothing. `Destroy` needs `Places`, or a
session could go that was never stopped.

*The fan-out.* `DeliveryInv == TypeOK /\ Places /\ Once`. `Places` says where
copies can be in each phase of a viewer (nothing is on its way to one that has
not joined, a copy of the cache is increasing and older than the registration),
`Once` that nothing a viewer got is still owed to it. Refinement needs both: a
delivered message must leave `owed`, which it only does if no second copy of it
is on its way. `NoGap` is inductive relative to `DeliveryInv`.

`LiveInOrder` needs in addition that what a feeder has in hand is the latest of its
messages (`Latest`): a delivery that is late is late behind its own feeder.

*The queues.* `PathInv == TypeOK /\ Fresh /\ Ordered`: the queue is an increasing
sequence of calls, later than the one that is taken. `FlvNoSkip` is inductive on that;
`Configured` says where an SRT caller's parameter sets may be (seen, kept, in hand, or ahead of every
frame in the queue) and `Keyed` where the keyframe of each frame that a WHEP viewer has
still to be sent is: on the wire or pending, with no overflow since, or nowhere, and then the
writer, which has seen none, throws the frame away.

*WebRTC.* `SessionInv` is `TypeOK` and seven rules about all threads of a session at
once. The heart of it is `Alone` and `Counted`: two threads are in an attach or a detach at one
time only if a detach has run meanwhile, which the attaching thread will notice
(`lapped`) and what it registers is a stray; so no more than one callback that is no stray is ever
registered, where `callbackId` has it. `Silenced` follows the closing thread step by
step: past each of its removals, what is there again came by such an attach.

*The transcoder.* `PipelineInv` is types and `Referred`: whoever subscribed, and the feeder in its
callback, has a reference, so the pipeline the pool points to is alive; its
queue is empty from its shutdown on, and nothing is in hand when it is gone. `CacheInv`
determines the cache: it is the encoder's GOP up to where the encoder is, and what a subscriber
got is a chain that ends there; for that the cache must hold a GOP. `GopInv` says that
source queue, message in hand and decoder form one line, frame by frame and under the parameter sets
each frame was coded with, except where a reset is due or a keyframe awaited.

*RTSP.* `PublishInv`: the open sockets are those the tracks have, each its own
(`TracksOwn`), so that the cleanup shuts every one; from there it follows the joins
(`CleansUp`) and the names under which things were entered (`NamedEnters`).
`WireInv`: what is written and what is still to send join to the fragments of
the frame, unless one was dropped, and a torn packet is the last; what `Fragments` makes
of a length is determined in `FragmentsJoin`. `OrderInv`: timestamps of a kind ascend
except where they begin again, the queues ascend in the numbers of their messages, and what was played comes before what
waits, so that the earliest timestamp (the first of equal ones) is never of a message that
another of its kind should precede.

*The RTP clock.* `OnTime` is true because a signed difference of two readings of the
clock is the difference of the times, as long as these are less than half the clock apart
(`SignedDeltaIsDelta`). What units meet at the receiver, one after the other, is
`NetworkInv`: a unit on the wire, or handled last, lags behind the unit sent last by two
units for each fault at most, and by one for each marker behind it on the wire (`Late`; the model sends
the next unit when a packet at most is on the wire). `MaxStep` is what a step of the source's time may
be for `2 * MaxFaults + 2` of them to stay below half the clock: with 2^32 ticks at 90 kHz
and a thousand faults that is a step of ten seconds. (It counts the faults of the whole
run, more than is needed, since only neighbouring ones add up.) Without such a bound the
property is false: the code cannot tell a unit from one that is half a clock later. `TimesInv` then says that everything
published with a composition time that fits is as much before the presentation clock as its
unit's time is before that of the unit handled last, and that decode time, counted with its
wraps (`Decoded`), is past all that was published; for audio, that the frame heard last
is at the clock, so that the next one is a step of the source behind it. What the clamp does to a composition
time is excepted, not assumed away (section 3).

*Damage.* `DamageInv` follows every unit that was not hit (`Stand`): its last packets stand
together on the wire, behind what is left of the units before it and ahead of those after. As
long as something is ahead of it, it is whole. When nothing is and the unit before was not
hit either, `current` holds what the packets gone by have appended and nothing else
(`Begun`): the packet just before it was the last of that unit (`LastOfBefore`), and its marker
emptied `current`. Without the second condition it would be false, since a lost
marker leaves its unit for the next to be joined to. What is published follows (`Placed`): nothing
of a unit with packets on the wire, and one message of a unit that has passed.

*The console and HTTP.* `HlsInv` and `RecordingInv` add to their property that a call between its check and its
spawn is alone with its stream and finds no process there when it spawns, unless the
stream is marked as raced (`BeginsAlone`, `StartsAlone`): that is what makes the entry
safe to overwrite. For HLS the clean-up is one more party: what it has
chosen, or would find old, belongs to no stream that runs (`SweepsIdle`). A removal that is
recursive takes the directories of other streams: those of streams that are `Shared`, and of
no other (`TakenAway`).
`EventInv` says of a stream that was never overlapped (`Told`) that one call at most is at
it, and that what this call has still to report is where the events differ from what it
found; when nothing is due, the entry it writes is what the events have said. `HttpInv`: a
handler that has read the whole head of a request with `Expect` has answered it.

*What a handler reads.* `ReadsInv`: a handler that still reads has less than the request, of
what was sent; one that is ready has the request, or its client closed in the middle of it
(`Cut`, `HasAll`). The step from one to the other is `Receive`, whose text is a prefix of what
the client sends (`OnWire`): short of the request no check of the loop finds it complete, and
beyond it what is kept is the request, or for a chunked body all that came, which
`Decoded` cuts at the last chunk (`CompleteWhen`, `BodyAsSent`). What is left is that the
routes do what the request asks (`RoutesAsk`), for the routes of the registry, the native
ones and the proxied ones apart (`RegistryAsks`, `NativeAsks`, `ProxyAsks`). That needs the guards
of their `CASE`s to be disjoint, as the code takes the first route that fits.

*Chunks.* `ChunksInv`: with nothing on its way, reader and writer have the same state of
every chunk stream and the same chunk size; with a chunk on its way, the writer's state is
what the reader will make of it (`OnItsWay`). So the step to prove is that a header, read in
the state that the last message left, gives the state it was written from: whole
(`WholeHeader`), as a delta on a clock that wraps (`DeltaHeader`, `DeltaLeadsBack`), or not
said at all (`EmptyHeader`, `ContinuingHeader`), in each case with or without the extended
field, which the reader must expect when it is there (`FieldIsRead`). The timestamp is left out of
that agreement for the streams that are `behind`: all the rest the two sides agree on there
too, so that a wrong time never costs the reader its place.

*Only model-checked:* the liveness properties (`UnusedIsReclaimed`, `StoppedSessionEnds`,
`Delivered`, `LetGo`, `LostIsReclaimed`), which are out of the prover's reach. Every other
property of a run that passes is a theorem.

## 5. What the models leave out

* Subscribers are a set; the code's vector holds a session twice that plays a key
  twice. A second ANNOUNCE on one RTSP connection is in `RtspPublish` only, not in the
  ingests of `RegistryClients`.
* `NoGap` leaves RTSP play out: what is published between its two calls reaches
  the player neither way. `ImplementsFanout` covers RTSP play as well.
* A callback may be invoked after its removal; RTSP and SRT play callbacks refer
  to the stack of the thread that removed them. The invocation is in the model
  (a viewer that is "gone" may hear what was on its way), the memory is not.
* A closed descriptor that is reused by the kernel while another thread still uses its
  number, but for the receivers of `RtspPublish`; and there, whose packets a receiver reads
  that has gone astray.
* `WebRtcSessions`: a service without a registry, which plays without a pipeline
  (`webrtc_service.cpp:619`). `main.cpp:397` attaches the registry before anything serves.
* Data messages (AMF0) bypass the GOP cache and are left out of `MediaDelivery`,
  as are the decoder headers sent ahead of the snapshot.
* Audio in `PlayQueue`, the byte limit of the HTTP-FLV queue, and WHEP's pacing,
  which delays a frame and drops it only when the session ends.
* `external_sessions_` but for the entries of WebRTC and RTSP publishing sessions;
  counters, the state file, admission by signed URL.
* RTSP play: DESCRIBE, AAC packets, pacing, and the 180 ms the worker waits before its
  first message; the request thread's answers on the connection that carries packets.
* A spawn that fails in the HLS or the recording manager emits `error` and no exit, and the
  stream counts as running for ever: the state is in the model ("unborn"), no property speaks of it.
* Delivery of events: an event counts when the console remembers it, and a listener that
  answers late or with an error gets it again. `on_hls` is an await only: its "ready" is
  not taken back for a stream that goes, so nothing could be promised of it.
* Steps of the source's time that bring units more than half the RTP clock apart, with
  those lost between them (`MaxStep` in `RtpIngest`): the code cannot tell them from a
  step back.
* `HttpServer`: what reports contain; that a chunk's data may itself look like the end of
  a chunked body.
* Everything marked "open" or "not modelled" in 1.1.

## 6. Plan

In this order, each with its MC module, configuration and properties:

1. Done: `StreamRegistry`, `RegistryClients`, `RtmpSession`, `Fanout`, `MediaDelivery`
   and their proofs; `PlayQueue`; `WebRtcSessions`; the nine parts of `Components`.
2. `ManagedProcess`, and the start and shutdown of the services in `main.cpp`.
3. Proofs: done for what section 4 lists, which is every property of the runs that pass but
   liveness.
