---------------------------- MODULE MCComponents ----------------------------
(***************************************************************************)
(* One run for the components that share no variable with another one: an  *)
(* initial state chooses the part of the system that moves, and the other  *)
(* parts keep the value Idle.  Each part is checked on its own instance.   *)
(* What a property excepts is said in the module of its part.              *)
(***************************************************************************)
EXTENDS Integers, Sequences

CONSTANTS
    User, QueueMax, CacheMax, EncGop, MaxGen, MaxCalls,            \* pool
    MaxSockets,                                                    \* publish
    RtpClock, Word, MaxComposition, MinInterval, MaxInterval,      \* ingest
    DefaultInterval, SdpIntervals, AudioGap, MaxUnits, MaxFaults,
    MaxPayload, NalLengths, CacheLen, MaxMessages,                 \* play
    Stream, Escape, Clock, Sizes, Times, Lengths, MaxSent,         \* chunks
    Conn, MaxBody,                                                 \* http
    HlsKey, HlsNames, Caller, MaxStarts,                           \* hls
    RecordingKey, Starter, MaxRecorders,                           \* recording
    EventKey, Reporter,                                            \* events
    Idle                                                           \* of a part at rest

VARIABLES
    part, \* the part that moves
    gen, stage, hold, member, seen, feed, source, latestConfig, sourceQueue,
    sourceWaiting, resetRequested, taken, videoConfig, keyframeSeen,
    lastEpoch, coder, gopCache, encoders,
    serving, conn, named, announced, rtpFd, sockets, receiver, rxFd,
    rxKey, receiving, session, active,
    track, times, wire, hit, faults, current, lastTs, ticks, decodeTime,
    laps, deltaGcd, interval, fromSdp, sentSequence, output,
    published, restart, handler, cached, transport, listed, inFlight, pending,
    running, playing, packets, written, missed, connected, played, lost,
    server, writer, behind, writeSize, chunks, begun, completed, states,
    readSize, received, garbled,
    gateway, listening, asked, sent, hung, patient, handlers, got, continued,
    outcome,
    calls, processes, ffmpeg, ofKey, exited, backoff, dir, sweep, raced,
    starting, recordings, recorder, ofStream, crowded,
    reports, eventState, heard, repeated, overlapped

\* All requests that media is published with, and all others without Expect, chunks
\* or pipelining and with at most one part of a body.
Everything == INSTANCE HttpServer WITH Requests <- {}
AskedRequests ==
    {r \in Everything!Request :
        \/ r.call = "publish" /\ r.names
        \/ r.expect = "none" /\ ~r.chunked /\ ~r.extra /\ r.size < 2}

\* Of two streams, one has its directory inside the other's.
NestedNames ==
    [k \in HlsKey |-> IF k = "live/a/b" THEN << "live", "a", "b" >> ELSE << "live", "a" >>]

Pool == INSTANCE TranscodePool
Publish == INSTANCE RtspPublish
Ingest == INSTANCE RtpIngest WITH Clock <- RtpClock, Steps <- {3, -1}
Play == INSTANCE RtspPlay WITH Lengths <- NalLengths
Chunks == INSTANCE RtmpChunks
Http == INSTANCE HttpServer WITH Requests <- AskedRequests
Hls == INSTANCE HlsManager WITH Key <- HlsKey, SplitStreamKey <- HlsNames
Recordings == INSTANCE RecordingManager WITH Key <- RecordingKey, MaxStarts <- MaxRecorders
Events == INSTANCE StreamEvents WITH Key <- EventKey

ASSUME PoolAssumption == Pool!PoolBounds
ASSUME PublishAssumption == Publish!PublishBounds
ASSUME IngestAssumption == Ingest!IngestBounds
ASSUME PlayAssumption == Play!PlayBounds
ASSUME ChunksAssumption == Chunks!ChunkBounds
ASSUME HttpAssumption == Http!HttpBounds
ASSUME HlsAssumption == Hls!HlsBounds
ASSUME RecordingAssumption == Recordings!RecordingBounds
ASSUME EventAssumption == Events!EventBounds

-----------------------------------------------------------------------------
PoolAtRest ==
    /\ gen = Idle /\ stage = Idle /\ hold = Idle /\ member = Idle
    /\ seen = Idle /\ feed = Idle /\ source = Idle /\ latestConfig = Idle
    /\ sourceQueue = Idle /\ sourceWaiting = Idle /\ resetRequested = Idle
    /\ taken = Idle /\ videoConfig = Idle /\ keyframeSeen = Idle
    /\ lastEpoch = Idle /\ coder = Idle /\ gopCache = Idle /\ encoders = Idle

PublishAtRest ==
    /\ serving = Idle /\ conn = Idle /\ named = Idle /\ announced = Idle
    /\ rtpFd = Idle /\ sockets = Idle /\ receiver = Idle /\ rxFd = Idle
    /\ rxKey = Idle /\ receiving = Idle /\ session = Idle /\ active = Idle

IngestAtRest ==
    /\ track = Idle /\ times = Idle /\ wire = Idle /\ hit = Idle
    /\ faults = Idle /\ current = Idle /\ lastTs = Idle /\ ticks = Idle
    /\ decodeTime = Idle /\ laps = Idle /\ deltaGcd = Idle /\ interval = Idle
    /\ fromSdp = Idle /\ sentSequence = Idle /\ output = Idle

PlayAtRest ==
    /\ published = Idle /\ restart = Idle /\ handler = Idle /\ cached = Idle
    /\ transport = Idle /\ listed = Idle /\ inFlight = Idle /\ pending = Idle
    /\ running = Idle /\ playing = Idle /\ packets = Idle /\ written = Idle
    /\ missed = Idle /\ connected = Idle /\ played = Idle /\ lost = Idle

ChunksAtRest ==
    /\ server = Idle /\ writer = Idle /\ behind = Idle /\ writeSize = Idle
    /\ chunks = Idle /\ begun = Idle /\ completed = Idle /\ states = Idle /\ readSize = Idle
    /\ received = Idle /\ garbled = Idle

HttpAtRest ==
    /\ gateway = Idle /\ listening = Idle /\ asked = Idle /\ sent = Idle
    /\ hung = Idle /\ patient = Idle /\ handlers = Idle /\ got = Idle
    /\ continued = Idle /\ outcome = Idle

HlsAtRest ==
    /\ calls = Idle /\ processes = Idle /\ ffmpeg = Idle /\ ofKey = Idle
    /\ exited = Idle /\ backoff = Idle /\ dir = Idle /\ sweep = Idle
    /\ raced = Idle

RecordingsAtRest ==
    /\ starting = Idle /\ recordings = Idle /\ recorder = Idle
    /\ ofStream = Idle /\ crowded = Idle

EventsAtRest ==
    /\ reports = Idle /\ eventState = Idle /\ heard = Idle
    /\ repeated = Idle /\ overlapped = Idle

Init ==
    \/ /\ part = "pool" /\ Pool!Init
       /\ PublishAtRest /\ IngestAtRest /\ PlayAtRest /\ ChunksAtRest
       /\ HttpAtRest /\ HlsAtRest /\ RecordingsAtRest /\ EventsAtRest
    \/ /\ part = "publish" /\ Publish!Init
       /\ PoolAtRest /\ IngestAtRest /\ PlayAtRest /\ ChunksAtRest
       /\ HttpAtRest /\ HlsAtRest /\ RecordingsAtRest /\ EventsAtRest
    \/ /\ part = "ingest" /\ Ingest!Init
       /\ PoolAtRest /\ PublishAtRest /\ PlayAtRest /\ ChunksAtRest
       /\ HttpAtRest /\ HlsAtRest /\ RecordingsAtRest /\ EventsAtRest
    \/ /\ part = "play" /\ Play!Init
       /\ PoolAtRest /\ PublishAtRest /\ IngestAtRest /\ ChunksAtRest
       /\ HttpAtRest /\ HlsAtRest /\ RecordingsAtRest /\ EventsAtRest
    \/ /\ part = "chunks" /\ Chunks!Init
       /\ PoolAtRest /\ PublishAtRest /\ IngestAtRest /\ PlayAtRest
       /\ HttpAtRest /\ HlsAtRest /\ RecordingsAtRest /\ EventsAtRest
    \/ /\ part = "http" /\ Http!Init
       /\ PoolAtRest /\ PublishAtRest /\ IngestAtRest /\ PlayAtRest
       /\ ChunksAtRest /\ HlsAtRest /\ RecordingsAtRest /\ EventsAtRest
    \/ /\ part = "hls" /\ Hls!Init
       /\ PoolAtRest /\ PublishAtRest /\ IngestAtRest /\ PlayAtRest
       /\ ChunksAtRest /\ HttpAtRest /\ RecordingsAtRest /\ EventsAtRest
    \/ /\ part = "recordings" /\ Recordings!Init
       /\ PoolAtRest /\ PublishAtRest /\ IngestAtRest /\ PlayAtRest
       /\ ChunksAtRest /\ HttpAtRest /\ HlsAtRest /\ EventsAtRest
    \/ /\ part = "events" /\ Events!Init
       /\ PoolAtRest /\ PublishAtRest /\ IngestAtRest /\ PlayAtRest
       /\ ChunksAtRest /\ HttpAtRest /\ HlsAtRest /\ RecordingsAtRest

poolVs ==
    << gen, stage, hold, member, seen, feed, source, latestConfig,
       sourceQueue, sourceWaiting, resetRequested, taken, videoConfig,
       keyframeSeen, lastEpoch, coder, gopCache, encoders >>
publishVs ==
    << serving, conn, named, announced, rtpFd, sockets, receiver, rxFd,
       rxKey, receiving, session, active >>
ingestVs ==
    << track, times, wire, hit, faults, current, lastTs, ticks, decodeTime,
       laps, deltaGcd, interval, fromSdp, sentSequence, output >>
playVs ==
    << published, restart, handler, cached, transport, listed, inFlight,
       pending, running, playing, packets, written, missed, connected, played,
       lost >>
chunksVs ==
    << server, writer, behind, writeSize, chunks, begun, completed, states,
       readSize, received, garbled >>
httpVs ==
    << gateway, listening, asked, sent, hung, patient, handlers, got,
       continued, outcome >>
hlsVs ==
    << calls, processes, ffmpeg, ofKey, exited, backoff, dir, sweep, raced >>
recordingsVs == << starting, recordings, recorder, ofStream, crowded >>
eventsVs == << reports, eventState, heard, repeated, overlapped >>

\* The variables that a step of each part leaves alone.
notPool ==
    << part, publishVs, ingestVs, playVs, chunksVs, httpVs,
       hlsVs, recordingsVs, eventsVs >>
notPublish ==
    << part, poolVs, ingestVs, playVs, chunksVs, httpVs,
       hlsVs, recordingsVs, eventsVs >>
notIngest ==
    << part, poolVs, publishVs, playVs, chunksVs, httpVs,
       hlsVs, recordingsVs, eventsVs >>
notPlay ==
    << part, poolVs, publishVs, ingestVs, chunksVs, httpVs,
       hlsVs, recordingsVs, eventsVs >>
notChunks ==
    << part, poolVs, publishVs, ingestVs, playVs, httpVs,
       hlsVs, recordingsVs, eventsVs >>
notHttp ==
    << part, poolVs, publishVs, ingestVs, playVs, chunksVs,
       hlsVs, recordingsVs, eventsVs >>
notHls ==
    << part, poolVs, publishVs, ingestVs, playVs, chunksVs,
       httpVs, recordingsVs, eventsVs >>
notRecordings ==
    << part, poolVs, publishVs, ingestVs, playVs, chunksVs,
       httpVs, hlsVs, eventsVs >>
notEvents ==
    << part, poolVs, publishVs, ingestVs, playVs, chunksVs,
       httpVs, hlsVs, recordingsVs >>

Next ==
    \/ part = "pool" /\ Pool!Next /\ UNCHANGED notPool
    \/ part = "publish" /\ Publish!Next /\ UNCHANGED notPublish
    \/ part = "ingest" /\ Ingest!Next /\ UNCHANGED notIngest
    \/ part = "play" /\ Play!Next /\ UNCHANGED notPlay
    \/ part = "chunks" /\ Chunks!Next /\ UNCHANGED notChunks
    \/ part = "http" /\ Http!Next /\ UNCHANGED notHttp
    \/ part = "hls" /\ Hls!Next /\ UNCHANGED notHls
    \/ part = "recordings" /\ Recordings!Next /\ UNCHANGED notRecordings
    \/ part = "events" /\ Events!Next /\ UNCHANGED notEvents

Spec == Init /\ [][Next]_<< notPool, poolVs >>

-----------------------------------------------------------------------------
\* Whoever works on a pipeline - a session, the feeder in its callback, the
\* worker - works on one that is not destroyed, and all sessions share it.
InUseIsShared == part = "pool" => Pool!InUseIsShared

\* "Every cached GOP must be independently decodable by a late WHEP subscriber":
\* what any subscriber gets, from the cache and then live, begins with a keyframe
\* and has no gap.
FirstIsKey == part = "pool" => Pool!FirstIsKey

\* The decoder gets whole GOPs: a keyframe under the parameter sets in force when
\* the pipeline got it, any other frame right after its predecessor - whatever
\* overflowed, failed, changed or jumped in between.
WholeGop == [][part = "pool" => Pool!EntersWhole]_poolVs

\* A receiver that cleanup waits for will end: it finds receiving cleared, its
\* socket closed before recv, or its socket shut down in recv.
JoinEnds == part = "publish" => Publish!JoinEnds

\* A connection that has ended leaves nothing: no receiver that would enter the
\* stream again, no ingest, no session.
EndedIsQuiet == part = "publish" => Publish!EndedIsQuiet

\* The damage that the network does is confined to the unit it hits and the next
\* one, which a lost marker joins to it: any other unit is published as it was
\* sent, once.
DamageConfined == part = "ingest" => Ingest!DamageConfined

\* Times are the source's.  Decode time always advances, however often it wraps.
\* Video is presented at the intervals it was sent for, across the wrap of both
\* clocks, for frames sent out of order and with units missing, as long as the
\* composition time fits its field; audio advances from frame to frame by the
\* source's step or, when that is back, none or beyond the limit, by one frame.
OnTime == part = "ingest" => Ingest!OnTime

\* Messages of one kind are played in the order they were published, although the
\* worker sorts by timestamp what it has - except when timestamps begin again:
\* what is queued from before is then played after what is new.
PlayedInOrder == part = "play" => Play!PlayedInOrder

\* A frame on the wire is the frame: no packet is longer than MaxPayload, and
\* unless one was dropped their pieces join to the NAL unit, the first and the
\* last of them marked.
FrameOnWire == part = "play" => Play!FrameOnWire

\* The reader returns the messages that were written, each with its timestamp and
\* length, in the order they were completed: however their chunks alternate,
\* whichever formats say them, when times do not fit the field or wrap, and when
\* the chunk size changes between the chunks of a message.  The timestamp is
\* excepted after a message that begins with no header where the last one said all.
ReadsWhatIsWritten == part = "chunks" => Chunks!ReadsWhatIsWritten

\* What a handler does is what its client asked, with the key and the whole body
\* of the request and nothing of what follows, however the request came in
\* pieces.
DoesWhatIsAsked == part = "http" => Http!DoesWhatIsAsked

\* A handler never waits for the body of a client that waits to be told to send
\* it.
NoMutualWait == part = "http" => Http!NoMutualWait

\* An ffmpeg that lives is the one the manager knows for its stream, so that stop
\* reaches it, and its directory is not taken away under it, unless it is inside
\* the directory of another stream.
OneFfmpeg == part = "hls" => Hls!OneFfmpeg

\* A recorder that lives is the one the manager knows for its stream, so that stop
\* reaches it.
OneRecorder == part = "recordings" => Recordings!OneRecorder

\* The events of a stream report each transition once, and between two calls say
\* of it what the console noted of it.
ReportedOnce == part = "events" => Events!ReportedOnce

=============================================================================
