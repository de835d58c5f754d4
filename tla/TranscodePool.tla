---------------------------- MODULE TranscodePool ----------------------------
(***************************************************************************)
(* The shared HEVC-to-AVC transcoder of one stream: the WHEP sessions that *)
(* acquire, join and leave it, the feeder thread that calls it back, its   *)
(* worker, and its destruction by whoever drops the last reference, while  *)
(* the next generation may already be running.                             *)
(*                                                                         *)
(* The registry calls with any messages in any order (MediaDelivery is     *)
(* about what it calls with); FFmpeg's decoder and encoder are a library   *)
(* that answers a picture with at most one, the first one of an encoder    *)
(* and at least every EncGop-th an IDR.                                    *)
(***************************************************************************)
EXTENDS Naturals, Sequences

CONSTANTS
    User,      \* WHEP sessions
    QueueMax,  \* kMaxSourceQueue
    CacheMax,  \* kMaxCachedFrames
    EncGop,    \* gop_size of the encoder
    MaxGen, MaxCalls \* bounds of the model: pipelines made, callbacks

\* The defaults are 1024, 512 and 60.
PoolBounds ==
    /\ {QueueMax, CacheMax, EncGop, MaxGen} \subseteq Nat \ {0}
    /\ MaxCalls \in Nat
    /\ EncGop <= CacheMax

VARIABLES
    gen,       \* the pipeline that pipeline_pool points to, 0 none
    stage,     \* of each: unmade, live, stop, join, gone
    hold,      \* the pipeline each session has a reference to, 0 none
    member,    \* the sessions in its subscribers
    seen,      \* the frames each got since it subscribed
    feed,      \* the feeder: the message in hand, and the pipeline it locked
    source,    \* what the calls said: messages, frames, parameters, epoch
    latestConfig, sourceQueue, sourceWaiting, resetRequested,
    taken,     \* the worker's message, or NoMessage
    videoConfig, keyframeSeen, lastEpoch, \* locals of worker_loop
    coder,     \* the transcoder: decoded frame, and the encoder's last frame
    gopCache,  \* gop_cache, begun with a keyframe unless empty
    encoders   \* encoders made so far

feeder == << feed, source >>
input  == << latestConfig, sourceQueue, sourceWaiting, resetRequested >>
worker == << taken, videoConfig, keyframeSeen, lastEpoch, coder, encoders >>
users  == << hold, member, seen >>
poolVars == << gen, stage, users, feeder, input, worker, gopCache >>

NoMessage == [kind |-> "none"]
NoCoder == [frame |-> 0, enc |-> 0, pos |-> 0]

Init ==
    /\ gen = 0 /\ stage = [g \in 1..MaxGen |-> "unmade"]
    /\ hold = [u \in User |-> 0] /\ member = {} /\ seen = [u \in User |-> << >>]
    /\ feed = [msg |-> NoMessage, lock |-> 0]
    /\ source = [calls |-> 0, frame |-> 0, config |-> "none", epoch |-> 0]
    /\ encoders = 0
    /\ latestConfig = NoMessage /\ sourceQueue = << >>
    /\ sourceWaiting = FALSE /\ resetRequested = FALSE
    /\ taken = NoMessage
    /\ videoConfig = "none" /\ keyframeSeen = FALSE /\ lastEpoch = 0
    /\ coder = NoCoder /\ gopCache = << >>

Live == gen # 0 /\ stage[gen] = "live"
Holders(g) == {u \in User : hold[u] = g}

-----------------------------------------------------------------------------
(* Sessions and the life of the pipelines *)

\* acquire_shared_hevc_to_avc_pipeline finds the pipeline alive.
Reuse(u) ==
    /\ hold[u] = 0 /\ Live
    /\ hold' = [hold EXCEPT ![u] = gen]
    /\ UNCHANGED << gen, stage, member, seen, feeder, input, worker, gopCache >>

\* It finds none, or an expired one, whatever is left of that one to shut down.
\* Parameters count from here: the registry gives them again on joining.
Create(u) ==
    /\ hold[u] = 0 /\ ~Live /\ gen < MaxGen
    /\ gen' = gen + 1
    /\ stage' = [stage EXCEPT ![gen + 1] = "live"]
    /\ hold' = [hold EXCEPT ![u] = gen + 1]
    /\ latestConfig' = NoMessage /\ sourceQueue' = << >>
    /\ sourceWaiting' = FALSE /\ resetRequested' = FALSE
    /\ taken' = NoMessage
    /\ videoConfig' = "none" /\ keyframeSeen' = FALSE /\ lastEpoch' = 0
    /\ coder' = NoCoder /\ gopCache' = << >>
    /\ source' = [source EXCEPT !.config = "none"]
    /\ UNCHANGED << member, seen, feed, encoders >>

\* subscribe: the cached frames, then the live ones, under one mutex.
Subscribe(u) ==
    /\ hold[u] # 0 /\ u \notin member
    /\ member' = member \cup {u}
    /\ seen' = [seen EXCEPT ![u] = gopCache]
    /\ UNCHANGED << gen, stage, hold, feeder, input, worker, gopCache >>

\* What is left when a reference to g goes: the last one destroys it.
Dropped(g, others) ==
    stage' = IF others THEN stage ELSE [stage EXCEPT ![g] = "stop"]

\* Mutant: the feeder's lock does not keep the pipeline (a plain pointer).
LeaveUnlocked(u) ==
    /\ u \in member
    /\ member' = member \ {u} /\ seen' = [seen EXCEPT ![u] = << >>]
    /\ hold' = [hold EXCEPT ![u] = 0]
    /\ Dropped(gen, Holders(gen) # {u})
    /\ UNCHANGED << gen, feeder, input, worker, gopCache >>

\* detach_shared_video_transcode: unsubscribe, then drop the reference.
Leave(u) ==
    /\ u \in member
    /\ member' = member \ {u} /\ seen' = [seen EXCEPT ![u] = << >>]
    /\ hold' = [hold EXCEPT ![u] = 0]
    /\ Dropped(gen, Holders(gen) # {u} \/ feed.lock = gen)
    /\ UNCHANGED << gen, feeder, input, worker, gopCache >>

\* shutdown of a pipeline that nobody refers to, up to the join.  A callback that
\* the registry copied before the removal finds no pipeline to lock.
Stop(g) ==
    /\ stage[g] = "stop"
    /\ stage' = [stage EXCEPT ![g] = "join"]
    /\ sourceQueue' = IF g = gen THEN << >> ELSE sourceQueue
    /\ UNCHANGED << gen, users, feeder, worker, gopCache,
                    latestConfig, sourceWaiting, resetRequested >>

\* The worker breaks out of its loop; it may still be in an older message.
Join(g) ==
    /\ stage[g] = "join"
    /\ g = gen => taken = NoMessage
    /\ stage' = [stage EXCEPT ![g] = "gone"]
    /\ UNCHANGED << gen, users, feeder, input, worker, gopCache >>

-----------------------------------------------------------------------------
(* The feeder *)

\* The next message: parameter sets A or B, a keyframe or another frame, at a
\* time more than a second before its predecessor's if epoch rises.
NextMessage(kind, back) ==
    [ kind   |-> kind,
      frame  |-> source.frame + (IF kind \in {"key", "delta"} THEN 1 ELSE 0),
      config |-> IF kind \in {"A", "B"} THEN kind ELSE source.config,
      epoch  |-> source.epoch + (IF back THEN 1 ELSE 0) ]

\* The registry calls the callback back; weak.lock() may come too late.
Feed(kind, back) ==
    /\ feed.msg = NoMessage /\ Live /\ source.calls < MaxCalls
    /\ back => source.epoch = 0
    /\ LET m == NextMessage(kind, back) IN
       /\ feed' = [msg |-> m, lock |-> gen]
       /\ source' = [calls |-> source.calls + 1, frame |-> m.frame,
                     config |-> m.config, epoch |-> m.epoch]
    /\ UNCHANGED << gen, stage, users, input, worker, gopCache >>

\* Mutant: an overflow empties the queue and goes on without a keyframe.
EnqueueNoWait(m) ==
    LET config == IF m.kind \in {"A", "B"} THEN m ELSE latestConfig
        over   == Len(sourceQueue) >= QueueMax
        queue  == IF over THEN << >> ELSE sourceQueue
        wait   == sourceWaiting
    IN  /\ latestConfig' = config
        /\ resetRequested' = (over \/ resetRequested)
        /\ \/ /\ wait /\ m.kind # "key"
              /\ sourceQueue' = queue /\ sourceWaiting' = TRUE
           \/ /\ wait /\ m.kind = "key" /\ sourceWaiting' = FALSE
              /\ sourceQueue' =
                   queue \o (IF config # NoMessage THEN << config, m >> ELSE << m >>)
           \/ /\ ~wait
              /\ sourceQueue' = Append(queue, m) /\ sourceWaiting' = FALSE

\* enqueue_source of a message m, under source_mutex.
EnqueueSource(m) ==
    LET config == IF m.kind \in {"A", "B"} THEN m ELSE latestConfig
        over   == Len(sourceQueue) >= QueueMax
        queue  == IF over THEN << >> ELSE sourceQueue
        wait   == over \/ sourceWaiting
    IN  /\ latestConfig' = config
        /\ resetRequested' = (over \/ resetRequested)
        /\ \/ /\ wait /\ m.kind # "key"
              /\ sourceQueue' = queue /\ sourceWaiting' = TRUE
           \/ /\ wait /\ m.kind = "key" /\ sourceWaiting' = FALSE
              /\ sourceQueue' =
                   queue \o (IF config # NoMessage THEN << config, m >> ELSE << m >>)
           \/ /\ ~wait
              /\ sourceQueue' = Append(queue, m) /\ sourceWaiting' = FALSE

\* The callback: with its reference the pipeline cannot have been stopped.
Enqueue ==
    /\ feed.msg # NoMessage
    /\ EnqueueSource(feed.msg)
    /\ feed' = [feed EXCEPT !.msg = NoMessage]
    /\ UNCHANGED << gen, stage, users, source, worker, gopCache >>

\* It drops the reference, and the pipeline if the sessions have left.
Unlock ==
    /\ feed.msg = NoMessage /\ feed.lock # 0
    /\ feed' = [feed EXCEPT !.lock = 0]
    /\ Dropped(feed.lock, Holders(feed.lock) # {})
    /\ UNCHANGED << gen, users, source, input, worker, gopCache >>

-----------------------------------------------------------------------------
(* The worker *)

\* What a message does to the worker before it looks at the frame: a reset that
\* was asked for, or that a jump back in time or new parameter sets call for.
Resets(m) ==
    \/ resetRequested
    \/ m.epoch > lastEpoch
    \/ m.kind \in {"A", "B"} /\ videoConfig \notin {"none", m.kind}

\* worker_loop takes a message: headers are kept, frames go to the decoder or,
\* before a keyframe, nowhere.
Take ==
    /\ taken = NoMessage /\ sourceQueue # << >>
    /\ LET m == Head(sourceQueue)
           ready == keyframeSeen /\ ~Resets(m)
       IN /\ sourceQueue' = Tail(sourceQueue) /\ resetRequested' = FALSE
          /\ lastEpoch' = m.epoch
          /\ coder' = IF Resets(m) THEN NoCoder ELSE coder
          /\ gopCache' = IF Resets(m) THEN << >> ELSE gopCache
          /\ videoConfig' = IF m.kind \in {"A", "B"} THEN m.kind ELSE videoConfig
          /\ keyframeSeen' = (ready \/ m.kind = "key")
          /\ taken' = IF m.kind = "key" \/ (m.kind = "delta" /\ ready)
                      THEN m ELSE NoMessage
    /\ UNCHANGED << gen, stage, users, feeder, latestConfig, sourceWaiting, encoders >>

\* create_hevc_to_avc fails for a frame that needs a new transcoder.
CreateFails ==
    /\ taken # NoMessage /\ coder = NoCoder
    /\ keyframeSeen' = FALSE /\ taken' = NoMessage
    /\ UNCHANGED << gen, stage, users, feeder, input, videoConfig, lastEpoch,
                    coder, encoders, gopCache >>

\* Mutant: the limit of the cache is one frame short of a GOP.
PublishFrameShort(f) ==
    LET cache == IF f.pos = 1 THEN << f >>
                 ELSE IF gopCache # << >> THEN Append(gopCache, f) ELSE << >>
    IN  /\ gopCache' = IF Len(cache) >= CacheMax /\ CacheMax > 1 THEN Tail(cache) ELSE cache
        /\ seen' = [u \in User |-> IF u \in member THEN Append(seen[u], f) ELSE seen[u]]

\* publish_frame, under subscriber_mutex.
PublishFrame(f) ==
    LET cache == IF f.pos = 1 THEN << f >>
                 ELSE IF gopCache # << >> THEN Append(gopCache, f) ELSE << >>
    IN  /\ gopCache' = IF Len(cache) > CacheMax THEN Tail(cache) ELSE cache
        /\ seen' = [u \in User |-> IF u \in member THEN Append(seen[u], f) ELSE seen[u]]

\* The frame the encoder may give next: an IDR (pos 1) first, after EncGop
\* frames, and whenever it likes.
NextFrames ==
    IF coder.enc = 0 THEN {[enc |-> encoders + 1, pos |-> 1]}
    ELSE {[enc |-> coder.enc, pos |-> 1]} \cup
         {[enc |-> coder.enc, pos |-> p] : p \in {coder.pos + 1} \cap 1..EncGop}

\* transcode with no picture out of it, and with one.
DecodeOnly ==
    /\ taken # NoMessage
    /\ coder' = [coder EXCEPT !.frame = taken.frame]
    /\ taken' = NoMessage
    /\ UNCHANGED << gen, stage, users, feeder, input, videoConfig, keyframeSeen,
                    lastEpoch, encoders, gopCache >>

Transcode ==
    /\ taken # NoMessage
    /\ \E f \in NextFrames :
          /\ PublishFrame(f)
          /\ coder' = [frame |-> taken.frame, enc |-> f.enc, pos |-> f.pos]
          /\ encoders' = IF f.enc > encoders THEN f.enc ELSE encoders
    /\ taken' = NoMessage
    /\ UNCHANGED << gen, stage, hold, member, feeder, input, videoConfig,
                    keyframeSeen, lastEpoch >>

-----------------------------------------------------------------------------
Next ==
    \/ \E u \in User : Reuse(u) \/ Create(u) \/ Subscribe(u) \/ Leave(u)
    \/ \E g \in 1..MaxGen : Stop(g) \/ Join(g)
    \/ \E kind \in {"A", "B", "key", "delta"}, back \in BOOLEAN : Feed(kind, back)
    \/ Enqueue \/ Unlock
    \/ Take \/ CreateFails \/ DecodeOnly \/ Transcode

Spec == Init /\ [][Next]_poolVars

-----------------------------------------------------------------------------
(* Properties *)

\* Whoever works on a pipeline - a session, the feeder in its callback, the
\* worker - works on one that is not destroyed, and all sessions share it.
InUseIsShared ==
    /\ \A u \in User : hold[u] # 0 => hold[u] = gen /\ Live
    /\ feed.lock # 0 => feed.lock = gen /\ Live
    /\ taken # NoMessage => stage[gen] # "gone"
    /\ \A g \in 1..MaxGen : stage[g] = "live" => g = gen

\* A frame that enters the decoder is a keyframe under the parameter sets in force,
\* or follows its predecessor.
EntersWhole ==
    coder'.frame \notin {coder.frame, 0} =>
        IF taken.kind = "key" THEN videoConfig = taken.config
        ELSE coder.frame = taken.frame - 1

\* The decoder gets whole GOPs: a keyframe under the parameter sets in force
\* when the pipeline got it, any other frame right after its predecessor - whatever
\* overflowed, failed, changed or jumped in between.
WholeGop == [][EntersWhole]_poolVars

\* f can follow e in what a decoder gets.
Follows(e, f) == f.pos = 1 \/ (f.enc = e.enc /\ f.pos = e.pos + 1)

\* "Every cached GOP must be independently decodable by a late WHEP
\* subscriber": what any subscriber gets, from the cache and then live, begins
\* with a keyframe and has no gap.
FirstIsKey ==
    \A u \in member : \A i \in DOMAIN seen[u] :
        IF i = 1 THEN seen[u][1].pos = 1 ELSE Follows(seen[u][i - 1], seen[u][i])

=============================================================================
