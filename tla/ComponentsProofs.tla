-------------------------- MODULE ComponentsProofs --------------------------
(***************************************************************************)
(* Theorems about the components that MCComponents puts side by side, for  *)
(* every value of their constants.  A step is a step of the part that      *)
(* moves, so each part has an inductive invariant of its own, which holds  *)
(* where the initial state chose that part.                                *)
(***************************************************************************)
EXTENDS MCComponents, SequenceLemmas, TLAPS

allVars == << notPool, poolVs >>

Part == {"pool", "publish", "ingest", "play", "chunks", "http", "hls", "recordings", "events"}

\* The part that the initial state chooses is in its own initial state.
LEMMA InitOfPart ==
    ASSUME Init
    PROVE  /\ part = "pool" => Pool!Init
           /\ part = "publish" => Publish!Init
           /\ part = "ingest" => Ingest!Init
           /\ part = "play" => Play!Init
           /\ part = "chunks" => Chunks!Init
           /\ part = "http" => Http!Init
           /\ part = "hls" => Hls!Init
           /\ part = "recordings" => Recordings!Init
           /\ part = "events" => Events!Init
  BY DEF Init

\* A step is one of the part that moves, or leaves it alone.
LEMMA StepOfPart ==
    ASSUME [Next]_allVars
    PROVE  /\ part' = part
           /\ part = "pool" => Pool!Next \/ UNCHANGED poolVs
           /\ part = "publish" => Publish!Next \/ UNCHANGED publishVs
           /\ part = "ingest" => Ingest!Next \/ UNCHANGED ingestVs
           /\ part = "play" => Play!Next \/ UNCHANGED playVs
           /\ part = "chunks" => Chunks!Next \/ UNCHANGED chunksVs
           /\ part = "http" => Http!Next \/ UNCHANGED httpVs
           /\ part = "hls" => Hls!Next \/ UNCHANGED hlsVs
           /\ part = "recordings" => Recordings!Next \/ UNCHANGED recordingsVs
           /\ part = "events" => Events!Next \/ UNCHANGED eventsVs
<1>1. CASE Next
  BY <1>1 DEF Next, notPool, notPublish, notIngest, notPlay, notChunks, notHttp, notHls,
              notRecordings, notEvents
<1>2. CASE UNCHANGED allVars
  BY <1>2 DEF allVars, notPool
<1> QED
  BY <1>1, <1>2

-----------------------------------------------------------------------------
(* The shared transcoder *)

Message == [kind : {"A", "B", "key", "delta"}, frame : Nat, config : {"none", "A", "B"},
            epoch : Nat]

PipelineTypes ==
    /\ gen \in 0..MaxGen
    /\ stage \in [1..MaxGen -> {"unmade", "live", "stop", "join", "gone"}]
    /\ hold \in [User -> 0..MaxGen] /\ member \subseteq User /\ DOMAIN seen = User

MessageTypes ==
    /\ feed \in [msg : Message \cup {Pool!NoMessage}, lock : 0..MaxGen]
    /\ source \in [calls : Nat, frame : Nat, config : {"none", "A", "B"}, epoch : Nat]
    /\ latestConfig \in Message \cup {Pool!NoMessage}
    /\ latestConfig # Pool!NoMessage =>
          latestConfig.kind \in {"A", "B"} /\ latestConfig.config = latestConfig.kind
    /\ feed.msg.kind \in {"A", "B"} => feed.msg.config = feed.msg.kind
    /\ sourceQueue \in Seq(Message)
    /\ taken \in Message \cup {Pool!NoMessage}
    /\ taken # Pool!NoMessage => taken.kind \in {"key", "delta"}

WorkerTypes ==
    /\ coder \in [frame : Nat, enc : Nat, pos : Nat] /\ encoders \in Nat
    /\ sourceWaiting \in BOOLEAN /\ resetRequested \in BOOLEAN /\ keyframeSeen \in BOOLEAN
    /\ videoConfig \in {"none", "A", "B"}

\* A session that has subscribed has a reference, and so has the feeder in its callback:
\* what they refer to is the pipeline that the pool points to, alive.  A queue is empty
\* from when its pipeline is shut down, and after the join no message is in hand.
Referred ==
    /\ \A u \in User : hold[u] # 0 => hold[u] = gen /\ Pool!Live
    /\ \A u \in member : hold[u] # 0
    /\ feed.lock # 0 => feed.lock = gen /\ Pool!Live
    /\ feed.msg # Pool!NoMessage => feed.lock # 0
    /\ \A g \in 1..MaxGen : stage[g] = "live" => g = gen
    /\ gen = 0 => sourceQueue = << >> /\ taken = Pool!NoMessage
    /\ gen # 0 /\ stage[gen] \in {"join", "gone"} => sourceQueue = << >>
    /\ gen # 0 /\ stage[gen] = "gone" => taken = Pool!NoMessage

PipelineInv == PipelineTypes /\ MessageTypes /\ WorkerTypes /\ Referred

\* The encoder's frames since its last IDR.
Gop(enc, pos) == [i \in 1..pos |-> [enc |-> enc, pos |-> i]]

Chain(frames) ==
    \A i \in DOMAIN frames :
       IF i = 1 THEN frames[1].pos = 1 ELSE Pool!Follows(frames[i - 1], frames[i])

\* The cache is the GOP that the encoder is in, which fits; whoever has subscribed has got
\* a chain that ends where the encoder is.
CacheInv ==
    /\ coder.enc = 0 => gopCache = << >>
    /\ coder.enc # 0 => coder.pos \in 1..EncGop /\ gopCache = Gop(coder.enc, coder.pos)
    /\ \A u \in member :
          /\ seen[u] \in Seq([enc : Nat, pos : Nat]) /\ Chain(seen[u])
          /\ coder.enc # 0 => /\ seen[u] # << >>
                              /\ seen[u][Len(seen[u])] = [enc |-> coder.enc, pos |-> coder.pos]

\* m can come after f frames, and under the parameter sets c.
FrameNext(f, m) ==
    (m.kind = "delta" => m.frame = f + 1) /\ (m.kind \in {"A", "B"} => m.frame = f)
ConfigNext(c, m) == m.config = IF m.kind \in {"A", "B"} THEN m.kind ELSE c

\* What the feeder has in hand, or will have next, can.
FrameEnd(f) == IF feed.msg = Pool!NoMessage THEN f = source.frame ELSE FrameNext(f, feed.msg)
ConfigEnd(c) == IF feed.msg = Pool!NoMessage THEN c = source.config ELSE ConfigNext(c, feed.msg)

\* The frame the worker is at.
At == IF taken # Pool!NoMessage THEN taken.frame ELSE coder.frame

LastQueued == sourceQueue[Len(sourceQueue)]

\* b can come after a in the queue.
Adjoins(a, b) == FrameNext(a.frame, b) /\ ConfigNext(a.config, b)

\* The queue has no gap in it, nor before what the feeder has.
QueueFollows ==
    /\ feed.msg # Pool!NoMessage =>
          feed.msg.frame = source.frame /\ feed.msg.config = source.config
    /\ sourceWaiting => sourceQueue = << >> /\ resetRequested
    /\ \A i \in 1..(Len(sourceQueue) - 1) : Adjoins(sourceQueue[i], sourceQueue[i + 1])
    /\ Pool!Live /\ ~sourceWaiting /\ sourceQueue # << >> =>
          FrameEnd(LastQueued.frame) /\ ConfigEnd(LastQueued.config)

\* Frames are lost only where the worker will reset, or waits for a keyframe.
FramesFollow ==
    /\ keyframeSeen /\ ~resetRequested =>
          /\ sourceQueue # << >> => FrameNext(At, sourceQueue[1])
          /\ Pool!Live /\ sourceQueue = << >> => FrameEnd(At)
    /\ taken.kind = "delta" => taken.frame = coder.frame + 1

\* No parameter sets are lost: those in force are the worker's, in the queue, or kept for
\* the keyframe it waits for.
ConfigsFollow ==
    /\ sourceQueue # << >> => ConfigNext(videoConfig, sourceQueue[1])
    /\ Pool!Live /\ ~sourceWaiting /\ sourceQueue = << >> => ConfigEnd(videoConfig)
    /\ latestConfig = Pool!NoMessage =>
          /\ videoConfig = "none" /\ (Pool!Live => ConfigEnd("none"))
          /\ \A i \in DOMAIN sourceQueue : sourceQueue[i].kind \notin {"A", "B"}
    /\ latestConfig # Pool!NoMessage /\ Pool!Live => ConfigEnd(latestConfig.kind)
    /\ taken.kind = "key" => taken.config = videoConfig

GopInv == QueueFollows /\ FramesFollow /\ ConfigsFollow

LEMMA MessageKinds ==
    /\ \A m \in Message :
          /\ m # Pool!NoMessage /\ m.kind \in {"A", "B", "key", "delta"}
          /\ m.frame \in Nat /\ m.config \in {"none", "A", "B"} /\ m.epoch \in Nat
    /\ Pool!NoMessage.kind = "none"
  BY DEF Message, Pool!NoMessage

LEMMA PoolNumbers ==
    {QueueMax, CacheMax, EncGop, MaxGen} \subseteq Nat \ {0} /\ EncGop <= CacheMax
  BY PoolAssumption DEF Pool!PoolBounds

LEMMA PipelineInit ==
    ASSUME Pool!Init
    PROVE  PipelineInv
<1>1. PipelineTypes
  BY PoolNumbers DEF Pool!Init, PipelineTypes
<1>2. MessageTypes
  BY PoolNumbers, MessageKinds DEF Pool!Init, MessageTypes
<1>3. WorkerTypes
  BY Zenon DEF Pool!Init, WorkerTypes, Pool!NoCoder
<1>4. Referred
  BY DEF Pool!Init, Referred
<1> QED
  BY <1>1, <1>2, <1>3, <1>4 DEF PipelineInv

LEMMA PipelineKeeps ==
    ASSUME PipelineInv, Pool!Next
    PROVE  PipelineInv'
<1> USE DEF PipelineInv
<1>1. ASSUME NEW u \in User, Pool!Reuse(u) PROVE PipelineInv'
  <2>1. PipelineTypes'
    BY <1>1, MessageKinds, PoolNumbers DEF Pool!Reuse, Pool!feeder, Pool!input, Pool!worker,
        Pool!users, Pool!Live, PipelineTypes
  <2>2. MessageTypes'
    BY <1>1, MessageKinds, PoolNumbers DEF Pool!Reuse, Pool!feeder, Pool!input, Pool!worker,
        Pool!users, Pool!Live, MessageTypes, PipelineTypes
  <2>3. WorkerTypes'
    BY <1>1, MessageKinds, PoolNumbers DEF Pool!Reuse, Pool!feeder, Pool!input, Pool!worker,
        Pool!users, Pool!Live, WorkerTypes, MessageTypes
  <2>4. Referred'
    BY <1>1, MessageKinds, PoolNumbers DEF Pool!Reuse, Pool!feeder, Pool!input, Pool!worker,
        Pool!users, Pool!Live, Referred, PipelineTypes, MessageTypes
  <2> QED
    BY <2>1, <2>2, <2>3, <2>4 DEF PipelineInv
<1>2. ASSUME NEW u \in User, Pool!Create(u) PROVE PipelineInv'
  <2>1. PipelineTypes'
    BY <1>2, MessageKinds, PoolNumbers DEF Pool!Create, Pool!NoCoder, Pool!feeder, Pool!input,
        Pool!worker, Pool!users, Pool!Live, PipelineTypes
  <2>2. MessageTypes'
    <3>1. /\ latestConfig' = Pool!NoMessage /\ taken' = Pool!NoMessage
          /\ sourceQueue' = << >> /\ feed' = feed
          /\ source' = [source EXCEPT !.config = "none"]
      BY <1>2 DEF Pool!Create
    <3>2. source' \in [calls : Nat, frame : Nat, config : {"none", "A", "B"}, epoch : Nat]
      BY <3>1 DEF MessageTypes
    <3> QED
      BY <3>1, <3>2, MessageKinds DEF MessageTypes
  <2>3. WorkerTypes'
    BY <1>2, MessageKinds, PoolNumbers, Zenon DEF Pool!Create, Pool!NoCoder, Pool!feeder, Pool!input,
        Pool!worker, Pool!users, Pool!Live, WorkerTypes, MessageTypes
  <2>4. Referred'
    BY <1>2, MessageKinds, PoolNumbers DEF Pool!Create, Pool!NoCoder, Pool!feeder, Pool!input,
        Pool!worker, Pool!users, Pool!Live, Referred, PipelineTypes, MessageTypes
  <2> QED
    BY <2>1, <2>2, <2>3, <2>4 DEF PipelineInv
<1>3. ASSUME NEW u \in User, Pool!Subscribe(u) PROVE PipelineInv'
  <2>1. PipelineTypes'
    BY <1>3, MessageKinds, PoolNumbers DEF Pool!Subscribe, Pool!feeder, Pool!input,
        Pool!worker, Pool!users, Pool!Live, PipelineTypes
  <2>2. MessageTypes'
    BY <1>3, MessageKinds, PoolNumbers DEF Pool!Subscribe, Pool!feeder, Pool!input,
        Pool!worker, Pool!users, Pool!Live, MessageTypes, PipelineTypes
  <2>3. WorkerTypes'
    BY <1>3, MessageKinds, PoolNumbers DEF Pool!Subscribe, Pool!feeder, Pool!input,
        Pool!worker, Pool!users, Pool!Live, WorkerTypes, MessageTypes
  <2>4. Referred'
    BY <1>3, MessageKinds, PoolNumbers DEF Pool!Subscribe, Pool!feeder, Pool!input,
        Pool!worker, Pool!users, Pool!Live, Referred, PipelineTypes, MessageTypes
  <2> QED
    BY <2>1, <2>2, <2>3, <2>4 DEF PipelineInv
<1>4. ASSUME NEW u \in User, Pool!Leave(u) PROVE PipelineInv'
  <2>1. PipelineTypes'
    <3>1. /\ gen' = gen /\ member' = member \ {u}
          /\ seen' = [seen EXCEPT ![u] = << >>] /\ hold' = [hold EXCEPT ![u] = 0]
          /\ stage' = stage \/ stage' = [stage EXCEPT ![gen] = "stop"]
      BY <1>4 DEF Pool!Leave, Pool!Dropped
    <3> QED
      BY <3>1, PoolNumbers DEF PipelineTypes
  <2>2. MessageTypes'
    BY <1>4, MessageKinds, PoolNumbers DEF Pool!Leave, Pool!Dropped, Pool!Holders,
        Pool!feeder, Pool!input, Pool!worker, Pool!users, Pool!Live, MessageTypes,
        PipelineTypes
  <2>3. WorkerTypes'
    BY <1>4, MessageKinds, PoolNumbers DEF Pool!Leave, Pool!Dropped, Pool!Holders,
        Pool!feeder, Pool!input, Pool!worker, Pool!users, Pool!Live, WorkerTypes, MessageTypes
  <2>4. Referred'
    BY <1>4, MessageKinds, PoolNumbers DEF Pool!Leave, Pool!Dropped, Pool!Holders,
        Pool!feeder, Pool!input, Pool!worker, Pool!users, Pool!Live, Referred, PipelineTypes,
        MessageTypes
  <2> QED
    BY <2>1, <2>2, <2>3, <2>4 DEF PipelineInv
<1>5. ASSUME NEW g \in 1..MaxGen, Pool!Stop(g) PROVE PipelineInv'
  <2>1. PipelineTypes'
    BY <1>5, MessageKinds, PoolNumbers DEF Pool!Stop, Pool!feeder, Pool!input, Pool!worker,
        Pool!users, Pool!Live, PipelineTypes
  <2>2. MessageTypes'
    BY <1>5, MessageKinds, PoolNumbers DEF Pool!Stop, Pool!feeder, Pool!input, Pool!worker,
        Pool!users, Pool!Live, MessageTypes, PipelineTypes
  <2>3. WorkerTypes'
    BY <1>5, MessageKinds, PoolNumbers DEF Pool!Stop, Pool!feeder, Pool!input, Pool!worker,
        Pool!users, Pool!Live, WorkerTypes, MessageTypes
  <2>4. Referred'
    BY <1>5, MessageKinds, PoolNumbers DEF Pool!Stop, Pool!feeder, Pool!input, Pool!worker,
        Pool!users, Pool!Live, Referred, PipelineTypes, MessageTypes
  <2> QED
    BY <2>1, <2>2, <2>3, <2>4 DEF PipelineInv
<1>6. ASSUME NEW g \in 1..MaxGen, Pool!Join(g) PROVE PipelineInv'
  <2>1. PipelineTypes'
    BY <1>6, MessageKinds, PoolNumbers DEF Pool!Join, Pool!feeder, Pool!input, Pool!worker,
        Pool!users, Pool!Live, PipelineTypes
  <2>2. MessageTypes'
    BY <1>6, MessageKinds, PoolNumbers DEF Pool!Join, Pool!feeder, Pool!input, Pool!worker,
        Pool!users, Pool!Live, MessageTypes, PipelineTypes
  <2>3. WorkerTypes'
    BY <1>6, MessageKinds, PoolNumbers DEF Pool!Join, Pool!feeder, Pool!input, Pool!worker,
        Pool!users, Pool!Live, WorkerTypes, MessageTypes
  <2>4. Referred'
    BY <1>6, MessageKinds, PoolNumbers, SMTT(60) DEF Pool!Join, Pool!feeder, Pool!input, Pool!worker,
        Pool!users, Pool!Live, Referred, PipelineTypes, MessageTypes
  <2> QED
    BY <2>1, <2>2, <2>3, <2>4 DEF PipelineInv
<1>7. ASSUME NEW kind \in {"A", "B", "key", "delta"}, NEW back \in BOOLEAN, Pool!Feed(kind,
    back) PROVE PipelineInv'
  <2>1. PipelineTypes'
    BY <1>7, MessageKinds, PoolNumbers DEF Pool!Feed, Pool!NextMessage, Pool!feeder,
        Pool!input, Pool!worker, Pool!users, Pool!Live, PipelineTypes
  <2>2. MessageTypes'
    <3> DEFINE m == Pool!NextMessage(kind, back)
    <3>1. /\ UNCHANGED << latestConfig, sourceQueue, taken >>
          /\ feed' = [msg |-> m, lock |-> gen]
          /\ source' = [calls |-> source.calls + 1, frame |-> m.frame,
                        config |-> m.config, epoch |-> m.epoch]
      BY <1>7 DEF Pool!Feed, Pool!input, Pool!worker
    <3>2. m \in Message /\ (m.kind \in {"A", "B"} => m.config = m.kind)
      BY DEF Pool!NextMessage, Message, MessageTypes
    <3>3. source' \in [calls : Nat, frame : Nat, config : {"none", "A", "B"}, epoch : Nat]
      BY <3>1, <3>2, MessageKinds DEF MessageTypes
    <3> HIDE DEF m
    <3> QED
      BY <3>1, <3>2, <3>3 DEF MessageTypes, PipelineTypes
  <2>3. WorkerTypes'
    BY <1>7, MessageKinds, PoolNumbers DEF Pool!Feed, Pool!NextMessage, Pool!feeder,
        Pool!input, Pool!worker, Pool!users, Pool!Live, WorkerTypes, MessageTypes
  <2>4. Referred'
    BY <1>7, MessageKinds, PoolNumbers, Zenon DEF Pool!Feed, Pool!NextMessage, Pool!feeder,
        Pool!input, Pool!worker, Pool!users, Pool!Live, Referred, PipelineTypes, MessageTypes
  <2> QED
    BY <2>1, <2>2, <2>3, <2>4 DEF PipelineInv
<1>8. ASSUME Pool!Enqueue PROVE PipelineInv'
  <2>1. PipelineTypes'
    BY <1>8, MessageKinds, PoolNumbers DEF Pool!Enqueue, Pool!EnqueueSource, Pool!feeder,
        Pool!input, Pool!worker, Pool!users, Pool!Live, PipelineTypes
  <2>2. MessageTypes'
    <3> DEFINE m == feed.msg
               config == IF m.kind \in {"A", "B"} THEN m ELSE latestConfig
               queue == IF Len(sourceQueue) >= QueueMax THEN << >> ELSE sourceQueue
    <3>1. /\ latestConfig' = config /\ feed' = [feed EXCEPT !.msg = Pool!NoMessage]
          /\ UNCHANGED << source, taken >>
          /\ sourceQueue' \in {queue, Append(queue, m)} \/
             sourceQueue' = queue \o (IF config # Pool!NoMessage THEN << config, m >> ELSE << m >>)
      BY <1>8, Zenon DEF Pool!Enqueue, Pool!EnqueueSource, Pool!worker
    <3>2. m \in Message /\ queue \in Seq(Message)
      BY <1>8 DEF Pool!Enqueue, MessageTypes
    <3>3. /\ config \in Message \cup {Pool!NoMessage}
          /\ config # Pool!NoMessage => config.kind \in {"A", "B"} /\ config.config = config.kind
      BY <3>2 DEF MessageTypes
    <3> HIDE DEF m, config, queue
    <3>4. sourceQueue' \in Seq(Message)
      <4>1. << m >> \in Seq(Message) /\ (config # Pool!NoMessage => << config, m >> \in Seq(Message))
        BY <3>2, <3>3
      <4>2. ASSUME NEW more \in Seq(Message) PROVE queue \o more \in Seq(Message)
        BY <3>2
      <4>3. Append(queue, m) \in Seq(Message)
        BY <3>2
      <4> QED
        BY <3>1, <3>2, <4>1, <4>2, <4>3, Zenon
    <3> QED
      BY <3>1, <3>3, <3>4, MessageKinds DEF MessageTypes
  <2>3. WorkerTypes'
    BY <1>8, MessageKinds, PoolNumbers, Zenon DEF Pool!Enqueue, Pool!EnqueueSource, Pool!feeder,
        Pool!input, Pool!worker, Pool!users, Pool!Live, WorkerTypes, MessageTypes
  <2>4. Referred'
    BY <1>8, MessageKinds, PoolNumbers DEF Pool!Enqueue, Pool!EnqueueSource, Pool!feeder,
        Pool!input, Pool!worker, Pool!users, Pool!Live, Referred, PipelineTypes, MessageTypes
  <2> QED
    BY <2>1, <2>2, <2>3, <2>4 DEF PipelineInv
<1>9. ASSUME Pool!Unlock PROVE PipelineInv'
  <2>1. PipelineTypes'
    BY <1>9, MessageKinds, PoolNumbers, Zenon DEF Pool!Unlock, Pool!Dropped, Pool!Holders,
        Pool!feeder, Pool!input, Pool!worker, Pool!users, Pool!Live, PipelineTypes
  <2>2. MessageTypes'
    BY <1>9, MessageKinds, PoolNumbers, SMTT(60) DEF Pool!Unlock, Pool!Dropped, Pool!Holders,
        Pool!feeder, Pool!input, Pool!worker, Pool!users, Pool!Live, MessageTypes,
        PipelineTypes
  <2>3. WorkerTypes'
    BY <1>9, MessageKinds, PoolNumbers DEF Pool!Unlock, Pool!Dropped, Pool!Holders,
        Pool!feeder, Pool!input, Pool!worker, Pool!users, Pool!Live, WorkerTypes, MessageTypes
  <2>4. Referred'
    BY <1>9, MessageKinds, PoolNumbers DEF Pool!Unlock, Pool!Dropped, Pool!Holders,
        Pool!feeder, Pool!input, Pool!worker, Pool!users, Pool!Live, Referred, PipelineTypes,
        MessageTypes
  <2> QED
    BY <2>1, <2>2, <2>3, <2>4 DEF PipelineInv
<1>10. ASSUME Pool!Take PROVE PipelineInv'
  <2>1. PipelineTypes'
    BY <1>10, MessageKinds, PoolNumbers DEF Pool!Take, Pool!Resets, Pool!NoCoder, Pool!feeder,
        Pool!input, Pool!worker, Pool!users, Pool!Live, PipelineTypes
  <2>2. MessageTypes'
    BY <1>10, MessageKinds, PoolNumbers DEF Pool!Take, Pool!Resets, Pool!NoCoder, Pool!feeder,
        Pool!input, Pool!worker, Pool!users, Pool!Live, MessageTypes, PipelineTypes
  <2>3. WorkerTypes'
    BY <1>10, MessageKinds, PoolNumbers, Zenon DEF Pool!Take, Pool!Resets, Pool!NoCoder, Pool!feeder,
        Pool!input, Pool!worker, Pool!users, Pool!Live, WorkerTypes, MessageTypes
  <2>4. Referred'
    BY <1>10, MessageKinds, PoolNumbers DEF Pool!Take, Pool!Resets, Pool!NoCoder, Pool!feeder,
        Pool!input, Pool!worker, Pool!users, Pool!Live, Referred, PipelineTypes, MessageTypes
  <2> QED
    BY <2>1, <2>2, <2>3, <2>4 DEF PipelineInv
<1>11. ASSUME Pool!CreateFails PROVE PipelineInv'
  <2>1. PipelineTypes'
    BY <1>11, MessageKinds, PoolNumbers DEF Pool!CreateFails, Pool!NoCoder, Pool!feeder,
        Pool!input, Pool!worker, Pool!users, Pool!Live, PipelineTypes
  <2>2. MessageTypes'
    BY <1>11, MessageKinds, PoolNumbers DEF Pool!CreateFails, Pool!NoCoder, Pool!feeder,
        Pool!input, Pool!worker, Pool!users, Pool!Live, MessageTypes, PipelineTypes
  <2>3. WorkerTypes'
    BY <1>11, MessageKinds, PoolNumbers, Zenon DEF Pool!CreateFails, Pool!NoCoder, Pool!feeder,
        Pool!input, Pool!worker, Pool!users, Pool!Live, WorkerTypes, MessageTypes
  <2>4. Referred'
    BY <1>11, MessageKinds, PoolNumbers DEF Pool!CreateFails, Pool!NoCoder, Pool!feeder,
        Pool!input, Pool!worker, Pool!users, Pool!Live, Referred, PipelineTypes, MessageTypes
  <2> QED
    BY <2>1, <2>2, <2>3, <2>4 DEF PipelineInv
<1>12. ASSUME Pool!DecodeOnly PROVE PipelineInv'
  <2>1. PipelineTypes'
    BY <1>12, MessageKinds, PoolNumbers DEF Pool!DecodeOnly, Pool!feeder, Pool!input,
        Pool!worker, Pool!users, Pool!Live, PipelineTypes
  <2>2. MessageTypes'
    BY <1>12, MessageKinds, PoolNumbers DEF Pool!DecodeOnly, Pool!feeder, Pool!input,
        Pool!worker, Pool!users, Pool!Live, MessageTypes, PipelineTypes
  <2>3. WorkerTypes'
    BY <1>12, MessageKinds, PoolNumbers, Zenon DEF Pool!DecodeOnly, Pool!feeder, Pool!input,
        Pool!worker, Pool!users, Pool!Live, WorkerTypes, MessageTypes
  <2>4. Referred'
    BY <1>12, MessageKinds, PoolNumbers DEF Pool!DecodeOnly, Pool!feeder, Pool!input,
        Pool!worker, Pool!users, Pool!Live, Referred, PipelineTypes, MessageTypes
  <2> QED
    BY <2>1, <2>2, <2>3, <2>4 DEF PipelineInv
<1>13. ASSUME Pool!Transcode PROVE PipelineInv'
  <2>1. PipelineTypes'
    BY <1>13, MessageKinds, PoolNumbers DEF Pool!Transcode, Pool!NextFrames,
        Pool!PublishFrame, Pool!feeder, Pool!input, Pool!worker, Pool!users, Pool!Live,
        PipelineTypes
  <2>2. MessageTypes'
    BY <1>13, MessageKinds, PoolNumbers DEF Pool!Transcode, Pool!NextFrames,
        Pool!PublishFrame, Pool!feeder, Pool!input, Pool!worker, Pool!users, Pool!Live,
        MessageTypes, PipelineTypes
  <2>3. WorkerTypes'
    BY <1>13, MessageKinds, PoolNumbers, SMTT(60) DEF Pool!Transcode, Pool!NextFrames,
        Pool!PublishFrame, Pool!feeder, Pool!input, Pool!worker, Pool!users, Pool!Live,
        WorkerTypes, MessageTypes
  <2>4. Referred'
    BY <1>13, MessageKinds, PoolNumbers DEF Pool!Transcode, Pool!NextFrames,
        Pool!PublishFrame, Pool!feeder, Pool!input, Pool!worker, Pool!users, Pool!Live,
        Referred, PipelineTypes, MessageTypes
  <2> QED
    BY <2>1, <2>2, <2>3, <2>4 DEF PipelineInv
<1> QED
  BY <1>1, <1>2, <1>3, <1>4, <1>5, <1>6, <1>7, <1>8, <1>9, <1>10, <1>11, <1>12, <1>13 DEF
      Pool!Next

LEMMA GopChain ==
    ASSUME NEW enc \in Nat, NEW pos \in Nat
    PROVE  /\ Gop(enc, pos) \in Seq([enc : Nat, pos : Nat]) /\ Len(Gop(enc, pos)) = pos
           /\ Chain(Gop(enc, pos))
           /\ pos # 0 => Gop(enc, pos) # << >> /\ Gop(enc, pos)[pos] = [enc |-> enc, pos |-> pos]
<1>1. Gop(enc, pos) \in Seq([enc : Nat, pos : Nat]) /\ Len(Gop(enc, pos)) = pos
  BY DEF Gop
<1>2. \A i \in 1..pos : Gop(enc, pos)[i] = [enc |-> enc, pos |-> i]
  BY DEF Gop
<1>3. DOMAIN Gop(enc, pos) = 1..pos
  BY DEF Gop
<1>4. Chain(Gop(enc, pos))
  BY <1>2, <1>3 DEF Chain, Pool!Follows
<1> QED
  BY <1>1, <1>2, <1>4

LEMMA ChainAppend ==
    ASSUME NEW s \in Seq([enc : Nat, pos : Nat]), Chain(s), NEW f \in [enc : Nat, pos : Nat],
           s = << >> => f.pos = 1,
           s # << >> => Pool!Follows(s[Len(s)], f)
    PROVE  /\ Append(s, f) \in Seq([enc : Nat, pos : Nat]) /\ Append(s, f) # << >>
           /\ Append(s, f)[Len(Append(s, f))] = f
           /\ Chain(Append(s, f))
<1>1. /\ Append(s, f) \in Seq([enc : Nat, pos : Nat]) /\ Len(Append(s, f)) = Len(s) + 1
      /\ Append(s, f)[Len(s) + 1] = f /\ \A i \in 1..Len(s) : Append(s, f)[i] = s[i]
      /\ Len(s) \in Nat /\ DOMAIN Append(s, f) = 1..(Len(s) + 1) /\ DOMAIN s = 1..Len(s)
  OBVIOUS
<1>2. Chain(Append(s, f))
  <2> SUFFICES ASSUME NEW i \in 1..(Len(s) + 1)
               PROVE  IF i = 1 THEN Append(s, f)[1].pos = 1
                      ELSE Pool!Follows(Append(s, f)[i - 1], Append(s, f)[i])
    BY <1>1, Zenon DEF Chain
  <2>1. CASE i = Len(s) + 1
    <3>1. CASE s = << >>
      <4>1. Len(s) = 0
        BY <3>1
      <4> QED
        BY <1>1, <2>1, <3>1, <4>1
    <3>2. CASE s # << >>
      <4>1. Len(s) \in 1..Len(s)
        BY <3>2
      <4>2. i # 1 /\ Append(s, f)[i - 1] = s[Len(s)] /\ Append(s, f)[i] = f
        BY <1>1, <2>1, <4>1
      <4> QED
        BY <3>2, <4>2
    <3> QED
      BY <3>1, <3>2, Zenon
  <2>2. CASE i # Len(s) + 1
    <3>1. i \in 1..Len(s) /\ (i # 1 => i - 1 \in 1..Len(s))
      BY <1>1, <2>2
    <3> QED
      BY <1>1, <3>1, Zenon DEF Chain
  <2> QED
    BY <2>1, <2>2, Zenon
<1> QED
  BY <1>1, <1>2

LEMMA CacheInit ==
    ASSUME Pool!Init
    PROVE  CacheInv
  BY DEF Pool!Init, CacheInv, Pool!NoCoder

\* A frame that the encoder may give next comes after what the cache and the sessions have.
LEMMA FrameKeeps ==
    ASSUME PipelineInv, CacheInv, NEW f \in Pool!NextFrames, Pool!PublishFrame(f), member' = member,
           coder'.enc = f.enc, coder'.pos = f.pos
    PROVE  CacheInv'
<1> USE DEF PipelineInv
<1>1. /\ f \in [enc : Nat, pos : Nat] /\ f = [enc |-> f.enc, pos |-> f.pos]
      /\ f.enc # 0 /\ f.pos \in 1..EncGop
      /\ f.pos = 1 \/ (coder.enc # 0 /\ f.enc = coder.enc /\ f.pos = coder.pos + 1)
  BY PoolNumbers DEF Pool!NextFrames, WorkerTypes, CacheInv
<1>2. gopCache' = Gop(f.enc, f.pos)
  <2> DEFINE cache == IF f.pos = 1 THEN << f >>
                      ELSE IF gopCache # << >> THEN Append(gopCache, f) ELSE << >>
  <2>1. gopCache' = IF Len(cache) > CacheMax THEN Tail(cache) ELSE cache
    BY DEF Pool!PublishFrame
  <2>2. cache = Gop(f.enc, f.pos)
    <3>1. CASE f.pos = 1
      BY <1>1, <3>1 DEF Gop
    <3>2. CASE f.pos # 1
      <4>1. gopCache = Gop(coder.enc, coder.pos) /\ coder.enc \in Nat /\ coder.pos \in Nat
            /\ coder.pos # 0
        BY <1>1, <3>2, PoolNumbers DEF CacheInv, WorkerTypes
      <4>2. Append(gopCache, f) = Gop(f.enc, f.pos)
        BY <1>1, <3>2, <4>1 DEF Gop
      <4> QED
        BY <3>2, <4>1, <4>2, GopChain, Zenon
    <3> QED
      BY <3>1, <3>2
  <2>3. Len(cache) = f.pos
    BY <1>1, <2>2, GopChain
  <2> QED
    BY <1>1, <2>1, <2>2, <2>3, PoolNumbers
<1>3. ASSUME NEW u \in member
      PROVE  /\ seen'[u] \in Seq([enc : Nat, pos : Nat]) /\ Chain(seen'[u])
             /\ seen'[u] # << >> /\ seen'[u][Len(seen'[u])] = f
  <2>1. seen'[u] = Append(seen[u], f)
    BY DEF Pool!PublishFrame, PipelineTypes
  <2>2. /\ seen[u] \in Seq([enc : Nat, pos : Nat]) /\ Chain(seen[u])
        /\ seen[u] = << >> => f.pos = 1
        /\ seen[u] # << >> => Pool!Follows(seen[u][Len(seen[u])], f)
    BY <1>1 DEF CacheInv, Pool!Follows
  <2> QED
    BY <1>1, <2>1, <2>2, ChainAppend, Zenon
<1> QED
  BY <1>1, <1>2, <1>3 DEF CacheInv

LEMMA CacheKeeps ==
    ASSUME PipelineInv, CacheInv, Pool!Next
    PROVE  CacheInv'
<1> USE DEF PipelineInv
<1>1. ASSUME NEW u \in User, Pool!Create(u) PROVE CacheInv'
  <2>1. member' = {} /\ coder'.enc = 0 /\ gopCache' = << >>
    BY <1>1 DEF Pool!Create, Pool!NoCoder, Referred, PipelineTypes
  <2> QED
    BY <2>1 DEF CacheInv
<1>2. ASSUME NEW u \in User, Pool!Subscribe(u) PROVE CacheInv'
  <2>1. /\ member' = member \cup {u} /\ seen' = [seen EXCEPT ![u] = gopCache]
        /\ UNCHANGED << coder, gopCache >>
    BY <1>2 DEF Pool!Subscribe, Pool!worker
  <2>2. /\ gopCache \in Seq([enc : Nat, pos : Nat]) /\ Chain(gopCache)
        /\ coder.enc # 0 => /\ gopCache # << >>
                            /\ gopCache[Len(gopCache)] = [enc |-> coder.enc, pos |-> coder.pos]
    <3>1. CASE coder.enc = 0
      BY <3>1 DEF CacheInv, Chain
    <3>2. CASE coder.enc # 0
      BY <3>2, GopChain, PoolNumbers DEF CacheInv, WorkerTypes
    <3> QED
      BY <3>1, <3>2
  <2>3. seen'[u] = gopCache /\ \A v \in member : v # u => seen'[v] = seen[v]
    BY <2>1 DEF PipelineTypes
  <2> QED
    BY <2>1, <2>2, <2>3 DEF CacheInv
<1>3. ASSUME NEW u \in User, Pool!Leave(u) PROVE CacheInv'
  <2>1. /\ member' = member \ {u} /\ seen' = [seen EXCEPT ![u] = << >>]
        /\ UNCHANGED << coder, gopCache >>
    BY <1>3 DEF Pool!Leave, Pool!worker
  <2>2. \A v \in member' : v \in member /\ seen'[v] = seen[v]
    BY <2>1 DEF PipelineTypes
  <2> QED
    BY <2>1, <2>2 DEF CacheInv
<1>4. CASE \/ \E u \in User : Pool!Reuse(u)
           \/ \E g \in 1..MaxGen : Pool!Stop(g) \/ Pool!Join(g)
           \/ \E kind \in {"A", "B", "key", "delta"}, back \in BOOLEAN : Pool!Feed(kind, back)
           \/ Pool!Enqueue \/ Pool!Unlock \/ Pool!CreateFails
  <2>1. UNCHANGED << member, seen, coder, gopCache >>
    BY <1>4 DEF Pool!Reuse, Pool!Stop, Pool!Join, Pool!Feed, Pool!Enqueue, Pool!Unlock,
                Pool!CreateFails, Pool!users, Pool!worker
  <2> QED
    BY <2>1 DEF CacheInv
<1>5. CASE Pool!Take
  <2>1. /\ UNCHANGED << member, seen >>
        /\ \/ UNCHANGED << coder, gopCache >>
           \/ coder' = Pool!NoCoder /\ gopCache' = << >>
    BY <1>5 DEF Pool!Take, Pool!users
  <2>2. CASE UNCHANGED << coder, gopCache >>
    BY <2>1, <2>2 DEF CacheInv
  <2>3. CASE coder' = Pool!NoCoder /\ gopCache' = << >>
    BY <2>1, <2>3 DEF CacheInv, Pool!NoCoder
  <2> QED
    BY <2>1, <2>2, <2>3
<1>6. CASE Pool!DecodeOnly
  <2>1. /\ UNCHANGED << member, seen, gopCache >>
        /\ coder'.enc = coder.enc /\ coder'.pos = coder.pos
    BY <1>6 DEF Pool!DecodeOnly, Pool!users, WorkerTypes
  <2> QED
    BY <2>1 DEF CacheInv
<1>7. CASE Pool!Transcode
  <2>1. PICK f \in Pool!NextFrames :
           Pool!PublishFrame(f) /\ coder' = [frame |-> taken.frame, enc |-> f.enc, pos |-> f.pos]
    BY <1>7 DEF Pool!Transcode
  <2>2. member' = member /\ coder'.enc = f.enc /\ coder'.pos = f.pos
    BY <1>7, <2>1 DEF Pool!Transcode
  <2> QED
    BY <2>1, <2>2, FrameKeeps
<1> QED
  BY <1>1, <1>2, <1>3, <1>4, <1>5, <1>6, <1>7 DEF Pool!Next

LEMMA GopInit ==
    ASSUME Pool!Init
    PROVE  GopInv
<1>1. ~Pool!Live /\ sourceQueue = << >> /\ taken = Pool!NoMessage /\ feed.msg = Pool!NoMessage
      /\ ~sourceWaiting /\ ~keyframeSeen /\ latestConfig = Pool!NoMessage /\ videoConfig = "none"
  BY DEF Pool!Init, Pool!Live
<1> QED
  BY <1>1, MessageKinds DEF GopInv, QueueFollows, FramesFollow, ConfigsFollow

\* Messages that can come after the last one of a queue.
LEMMA Adjoined ==
    ASSUME NEW queue \in Seq(Message), NEW m \in Message,
           \A i \in 1..(Len(queue) - 1) : Adjoins(queue[i], queue[i + 1]),
           queue # << >> => Adjoins(queue[Len(queue)], m)
    PROVE  /\ Append(queue, m) # << >> /\ Append(queue, m)[Len(Append(queue, m))] = m
           /\ queue = << >> => Append(queue, m)[1] = m
           /\ queue # << >> => Append(queue, m)[1] = queue[1]
           /\ \A i \in DOMAIN Append(queue, m) :
                 Append(queue, m)[i] = m \/ \E j \in DOMAIN queue : Append(queue, m)[i] = queue[j]
           /\ \A i \in 1..(Len(Append(queue, m)) - 1) :
                 Adjoins(Append(queue, m)[i], Append(queue, m)[i + 1])
<1>1. /\ Append(queue, m) \in Seq(Message) /\ Len(Append(queue, m)) = Len(queue) + 1
      /\ Append(queue, m)[Len(queue) + 1] = m
      /\ \A i \in 1..Len(queue) : Append(queue, m)[i] = queue[i]
      /\ Len(queue) \in Nat /\ DOMAIN Append(queue, m) = 1..(Len(queue) + 1)
      /\ DOMAIN queue = 1..Len(queue) /\ (queue = << >> <=> Len(queue) = 0)
  OBVIOUS
<1>2. ASSUME NEW i \in 1..Len(queue)
      PROVE  Adjoins(Append(queue, m)[i], Append(queue, m)[i + 1])
  <2>1. CASE i = Len(queue)
    BY <1>1, <2>1
  <2>2. CASE i # Len(queue)
    <3>1. \A n \in Nat : \A k \in 1..n : k # n => k \in 1..(n - 1) /\ k + 1 \in 1..n
      OBVIOUS
    <3>2. i \in 1..(Len(queue) - 1) /\ i + 1 \in 1..Len(queue)
      BY <1>1, <2>2, <3>1, Zenon
    <3> QED
      BY <1>1, <3>2
  <2> QED
    BY <2>1, <2>2
<1>3. Append(queue, m) # << >> /\ (queue # << >> => 1 \in 1..Len(queue))
  <2>1. Len(Append(queue, m)) # 0 /\ (queue # << >> => Len(queue) # 0)
    BY <1>1
  <2>2. Append(queue, m) # << >>
    <3>1. Len(<< >>) = 0
      OBVIOUS
    <3> QED
      BY <2>1, <3>1, Zenon
  <2>3. \A n \in Nat : n # 0 => 1 \in 1..n
    OBVIOUS
  <2> QED
    BY <1>1, <2>1, <2>2, <2>3
<1>4. \A i \in 1..(Len(queue) + 1) : i \in 1..Len(queue) \/ i = Len(queue) + 1
  BY <1>1
<1> QED
  BY <1>1, <1>2, <1>3, <1>4

\* A step that does not touch what is enqueued, and after which the pipeline lives only if
\* it did.
LEMMA QuietKeeps ==
    ASSUME GopInv, Pool!Live' => Pool!Live, feed'.msg = feed.msg,
           UNCHANGED << source, Pool!input, Pool!worker >>
    PROVE  GopInv'
<1> USE DEF GopInv, Pool!input, Pool!worker, FrameEnd, ConfigEnd, At, LastQueued
<1>1. QueueFollows'
  BY DEF QueueFollows
<1>2. FramesFollow'
  BY DEF FramesFollow
<1>3. ConfigsFollow'
  BY DEF ConfigsFollow
<1> QED
  BY <1>1, <1>2, <1>3

\* The feeder has a new message, which comes after what it said before.
LEMMA FeedKeeps ==
    ASSUME PipelineInv, GopInv, NEW kind \in {"A", "B", "key", "delta"}, NEW back \in BOOLEAN,
           Pool!Feed(kind, back)
    PROVE  GopInv'
<1> DEFINE m == Pool!NextMessage(kind, back)
<1> USE DEF GopInv, PipelineInv
<1>1. /\ feed.msg = Pool!NoMessage /\ Pool!Live /\ feed'.msg = m
      /\ source'.frame = m.frame /\ source'.config = m.config
      /\ UNCHANGED << Pool!input, Pool!worker, gen, stage >>
  BY DEF Pool!Feed
<1>2. /\ m \in Message
      /\ FrameNext(source.frame, m) /\ ConfigNext(source.config, m)
  BY DEF Pool!NextMessage, Message, MessageTypes, FrameNext, ConfigNext
<1> HIDE DEF m
<1>3. m # Pool!NoMessage
  BY <1>2, MessageKinds
<1>4. Pool!Live' /\ At' = At /\ LastQueued' = LastQueued
  BY <1>1 DEF Pool!Live, At, LastQueued, Pool!input, Pool!worker
<1>5. \A f : FrameEnd(f) => FrameEnd(f)'
  BY <1>1, <1>2, <1>3 DEF FrameEnd
<1>6. \A c : ConfigEnd(c) => ConfigEnd(c)'
  BY <1>1, <1>2, <1>3 DEF ConfigEnd
<1>7. QueueFollows'
  BY <1>1, <1>3, <1>4, <1>5, <1>6 DEF QueueFollows, Pool!input
<1>8. FramesFollow'
  BY <1>1, <1>4, <1>5 DEF FramesFollow, Pool!input, Pool!worker
<1>9. ConfigsFollow'
  BY <1>1, <1>4, <1>6 DEF ConfigsFollow, Pool!input, Pool!worker
<1> QED
  BY <1>7, <1>8, <1>9

\* A message that is queued comes after the last one, or is a keyframe, with the parameter
\* sets in force before it, in an empty queue whose reset is due.
LEMMA EnqueueKeeps ==
    ASSUME PipelineInv, GopInv, Pool!Enqueue
    PROVE  GopInv'
<1> DEFINE m == feed.msg
           config == IF m.kind \in {"A", "B"} THEN m ELSE latestConfig
           over == Len(sourceQueue) >= QueueMax
           queue == IF over THEN << >> ELSE sourceQueue
           wait == over \/ sourceWaiting
<1> USE DEF GopInv, PipelineInv
<1>1. /\ latestConfig' = config /\ resetRequested' = (over \/ resetRequested)
      /\ \/ wait /\ m.kind # "key" /\ sourceQueue' = queue /\ sourceWaiting' = TRUE
         \/ /\ wait /\ m.kind = "key" /\ sourceWaiting' = FALSE
            /\ sourceQueue' =
                 queue \o (IF config # Pool!NoMessage THEN << config, m >> ELSE << m >>)
         \/ ~wait /\ sourceQueue' = Append(queue, m) /\ sourceWaiting' = FALSE
      /\ feed'.msg = Pool!NoMessage /\ m # Pool!NoMessage
      /\ UNCHANGED << source, Pool!worker, gen, stage >>
  BY Zenon DEF Pool!Enqueue, Pool!EnqueueSource, MessageTypes
<1>2. /\ m \in Message /\ m.frame = source.frame /\ m.config = source.config
      /\ Pool!Live /\ Pool!Live' /\ At' = At
      /\ m.kind \in {"A", "B"} => m.config = m.kind
  BY <1>1 DEF MessageTypes, QueueFollows, Referred, Pool!Live, At, Pool!worker
<1>3. wait => queue = << >> /\ resetRequested' = TRUE
  BY <1>1, Zenon DEF QueueFollows
<1>4. FrameEnd(source.frame)' /\ ConfigEnd(source.config)'
  BY <1>1 DEF FrameEnd, ConfigEnd
<1>5. /\ \A f : FrameEnd(f) <=> FrameNext(f, m)
      /\ \A c : ConfigEnd(c) <=> ConfigNext(c, m)
  BY <1>1 DEF FrameEnd, ConfigEnd
<1>6. /\ config \in Message \cup {Pool!NoMessage}
      /\ config # Pool!NoMessage =>
            /\ config.kind \in {"A", "B"} /\ config.config = config.kind
            /\ m.kind \notin {"A", "B"} => ConfigNext(config.kind, m)
      /\ config = Pool!NoMessage => /\ latestConfig = Pool!NoMessage
                                   /\ m.kind \notin {"A", "B"} /\ m.config = "none"
      /\ config # Pool!NoMessage => source.config = config.kind
  BY <1>1, <1>2, <1>5 DEF MessageTypes, ConfigsFollow, ConfigNext
<1> HIDE DEF m, config, over, queue, wait
<1>7. CASE sourceWaiting' = TRUE
  <2>1. sourceQueue' = << >> /\ resetRequested' = TRUE
    BY <1>1, <1>3, <1>7
  <2>2. QueueFollows'
    BY <1>1, <2>1 DEF QueueFollows
  <2>3. FramesFollow'
    BY <1>1, <2>1 DEF FramesFollow, Pool!worker
  <2>4. ConfigsFollow'
    BY <1>1, <1>2, <1>4, <1>6, <1>7, <2>1 DEF ConfigsFollow, Pool!worker
  <2> QED
    BY <2>2, <2>3, <2>4
<1>8. CASE wait /\ m.kind = "key" /\ sourceWaiting' = FALSE
  <2>1. CASE config # Pool!NoMessage
    <3>1. sourceQueue' = << config, m >>
      BY <1>1, <1>3, <1>8, <2>1
    <3>2. Adjoins(config, m) /\ ConfigNext(videoConfig, config)
      BY <1>6, <1>8, <2>1 DEF Adjoins, FrameNext, ConfigNext
    <3>3. QueueFollows'
      BY <1>1, <1>2, <1>4, <1>8, <3>1, <3>2 DEF QueueFollows, LastQueued
    <3>4. FramesFollow'
      BY <1>1, <1>3, <1>8 DEF FramesFollow, Pool!worker
    <3>5. ConfigsFollow'
      BY <1>1, <1>4, <1>6, <2>1, <3>1, <3>2 DEF ConfigsFollow, Pool!worker
    <3> QED
      BY <3>3, <3>4, <3>5
  <2>2. CASE config = Pool!NoMessage
    <3>1. sourceQueue' = << m >>
      BY <1>1, <1>3, <1>8, <2>2
    <3>2. ConfigNext(videoConfig, m)
      BY <1>6, <2>2 DEF ConfigsFollow, ConfigNext
    <3>3. QueueFollows'
      BY <1>1, <1>2, <1>4, <1>8, <3>1 DEF QueueFollows, LastQueued
    <3>4. FramesFollow'
      BY <1>1, <1>3, <1>8 DEF FramesFollow, Pool!worker
    <3>5. ConfigsFollow'
      BY <1>1, <1>2, <1>4, <1>6, <2>2, <3>1, <3>2 DEF ConfigsFollow, Pool!worker
    <3> QED
      BY <3>3, <3>4, <3>5
  <2> QED
    BY <2>1, <2>2
<1>9. CASE ~wait /\ sourceQueue' = Append(queue, m) /\ sourceWaiting' = FALSE
  <2>1. ~sourceWaiting /\ queue = sourceQueue /\ (resetRequested' <=> resetRequested)
    BY <1>1, <1>9, Zenon DEF wait, queue, over
  <2>2. sourceQueue # << >> => Adjoins(LastQueued, m)
    BY <1>2, <1>5, <2>1 DEF QueueFollows, Adjoins
  <2>3. /\ sourceQueue' # << >> /\ LastQueued' = m
        /\ sourceQueue = << >> => sourceQueue'[1] = m
        /\ sourceQueue # << >> => sourceQueue'[1] = sourceQueue[1]
        /\ \A i \in DOMAIN sourceQueue' : sourceQueue'[i] = m \/
              \E j \in DOMAIN sourceQueue : sourceQueue'[i] = sourceQueue[j]
        /\ \A i \in 1..(Len(sourceQueue') - 1) : Adjoins(sourceQueue'[i], sourceQueue'[i + 1])
    BY <1>2, <1>9, <2>1, <2>2, Adjoined DEF MessageTypes, QueueFollows, LastQueued
  <2>4. QueueFollows'
    BY <1>1, <1>2, <1>4, <1>9, <2>3 DEF QueueFollows
  <2>5. FramesFollow'
    <3>1. keyframeSeen /\ ~resetRequested => FrameNext(At, sourceQueue'[1])
      BY <1>2, <1>5, <2>1, <2>3 DEF FramesFollow
    <3> QED
      BY <1>1, <1>2, <2>1, <2>3, <3>1 DEF FramesFollow, Pool!worker
  <2>6. ConfigsFollow'
    <3>1. ConfigNext(videoConfig, sourceQueue'[1])
      BY <1>2, <1>5, <2>1, <2>3 DEF ConfigsFollow
    <3>2. config = Pool!NoMessage =>
             \A i \in DOMAIN sourceQueue' : sourceQueue'[i].kind \notin {"A", "B"}
      BY <1>6, <2>3 DEF ConfigsFollow
    <3> QED
      BY <1>1, <1>2, <1>4, <1>6, <2>3, <3>1, <3>2 DEF ConfigsFollow, Pool!worker
  <2> QED
    BY <2>4, <2>5, <2>6
<1> QED
  BY <1>1, <1>7, <1>8, <1>9, Zenon

\* The worker's message is the one after where it is, or it begins anew.
LEMMA TakeKeeps ==
    ASSUME PipelineInv, GopInv, Pool!Take
    PROVE  GopInv'
<1> USE DEF GopInv, PipelineInv
<1> DEFINE m == sourceQueue[1]
           ready == keyframeSeen /\ ~Pool!Resets(m)
<1>1. /\ taken = Pool!NoMessage /\ sourceQueue # << >> /\ sourceQueue' = Tail(sourceQueue)
      /\ resetRequested' = FALSE
      /\ coder' = IF Pool!Resets(m) THEN Pool!NoCoder ELSE coder
      /\ videoConfig' = IF m.kind \in {"A", "B"} THEN m.kind ELSE videoConfig
      /\ keyframeSeen' = (ready \/ m.kind = "key")
      /\ taken' = IF m.kind = "key" \/ (m.kind = "delta" /\ ready) THEN m ELSE Pool!NoMessage
      /\ UNCHANGED << gen, stage, feed, source, latestConfig, sourceWaiting >>
  BY DEF Pool!Take, Pool!feeder, MessageTypes
<1>2. m \in Message /\ ~sourceWaiting /\ (ready => ~resetRequested)
  BY <1>1 DEF MessageTypes, QueueFollows, Pool!Resets
<1> HIDE DEF m, ready
<1>3. /\ \A i \in 1..(Len(sourceQueue') - 1) : Adjoins(sourceQueue'[i], sourceQueue'[i + 1])
      /\ sourceQueue' # << >> => Adjoins(m, sourceQueue'[1]) /\ LastQueued' = LastQueued
      /\ sourceQueue' = << >> => LastQueued = m
      /\ \A i \in DOMAIN sourceQueue' : \E j \in DOMAIN sourceQueue :
            sourceQueue'[i] = sourceQueue[j]
  <2>1. /\ sourceQueue \in Seq(Message) /\ Len(sourceQueue') = Len(sourceQueue) - 1
        /\ \A i \in 1..(Len(sourceQueue) - 1) : sourceQueue'[i] = sourceQueue[i + 1]
        /\ Len(sourceQueue) \in Nat \ {0} /\ DOMAIN sourceQueue = 1..Len(sourceQueue)
        /\ DOMAIN sourceQueue' = 1..(Len(sourceQueue) - 1)
    BY <1>1 DEF MessageTypes
  <2>6. sourceQueue' = << >> <=> Len(sourceQueue) = 1
    <3>1. sourceQueue' \in Seq(Message)
      BY <1>1 DEF MessageTypes
    <3>2. sourceQueue' = << >> <=> Len(sourceQueue') = 0
      BY <3>1
    <3> QED
      BY <2>1, <3>2
  <2>7. /\ Len(sourceQueue') - 1 = Len(sourceQueue) - 2
        /\ \A i \in DOMAIN sourceQueue' :
              i + 1 \in DOMAIN sourceQueue /\ sourceQueue'[i] = sourceQueue[i + 1]
    BY <2>1
  <2>2. \A i \in 1..(Len(sourceQueue) - 2) : Adjoins(sourceQueue'[i], sourceQueue'[i + 1])
    BY <2>1, <2>6 DEF QueueFollows
  <2>3. sourceQueue' # << >> => Adjoins(m, sourceQueue'[1])
    BY <2>1, <2>6 DEF QueueFollows, m
  <2>4. sourceQueue' # << >> => LastQueued' = LastQueued
    BY <2>1, <2>6 DEF LastQueued
  <2>5. sourceQueue' = << >> => LastQueued = m
    BY <2>1, <2>6, Zenon DEF LastQueued, m
  <2> QED
    BY <2>2, <2>3, <2>4, <2>5, <2>7
<1>4. /\ Pool!Live' <=> Pool!Live
      /\ \A f : FrameEnd(f)' <=> FrameEnd(f)
      /\ \A c : ConfigEnd(c)' <=> ConfigEnd(c)
  BY <1>1 DEF Pool!Live, FrameEnd, ConfigEnd
<1>5. /\ sourceQueue' # << >> => FrameNext(m.frame, sourceQueue'[1])
                                 /\ ConfigNext(m.config, sourceQueue'[1])
      /\ Pool!Live => FrameEnd(LastQueued.frame) /\ ConfigEnd(LastQueued.config)
  BY <1>1, <1>2, <1>3 DEF Adjoins, QueueFollows
<1>6. QueueFollows'
  BY <1>1, <1>2, <1>3, <1>4, <1>5 DEF QueueFollows
<1>7. FramesFollow'
  <2>1. ready => FrameNext(coder.frame, m) /\ coder' = coder
    BY <1>1, <1>2 DEF FramesFollow, ready, m, At
  <2>2. keyframeSeen' => At' = m.frame
    BY <1>1, <1>2, <2>1, MessageKinds, Zenon DEF At, FrameNext
  <2>3. taken'.kind = "delta" => taken'.frame = coder'.frame + 1
    BY <1>1, <2>1, MessageKinds DEF FrameNext
  <2> QED
    BY <1>3, <1>4, <1>5, <2>2, <2>3 DEF FramesFollow
<1>8. ConfigsFollow'
  <2>1. videoConfig' = m.config
    BY <1>1 DEF ConfigsFollow, ConfigNext, m
  <2>2. latestConfig = Pool!NoMessage => videoConfig' = videoConfig
    BY <1>1, <1>2 DEF ConfigsFollow, m, MessageTypes
  <2>3. taken'.kind = "key" => taken'.config = videoConfig'
    BY <1>1, <2>1, MessageKinds
  <2> QED
    BY <1>1, <1>3, <1>4, <1>5, <2>1, <2>2, <2>3 DEF ConfigsFollow
<1> QED
  BY <1>6, <1>7, <1>8

\* The other steps: a new pipeline begins with nothing, one that is shut down has nothing
\* left, and the worker is done with its message.
LEMMA GopKeeps ==
    ASSUME PipelineInv, GopInv, Pool!Next
    PROVE  GopInv'
<1> USE DEF GopInv, PipelineInv
<1>1. ASSUME NEW u \in User, Pool!Create(u) PROVE GopInv'
  <2>1. /\ latestConfig' = Pool!NoMessage /\ sourceQueue' = << >> /\ ~sourceWaiting'
        /\ taken' = Pool!NoMessage /\ videoConfig' = "none" /\ ~keyframeSeen'
        /\ source'.config = "none" /\ feed' = feed
    BY <1>1 DEF Pool!Create, MessageTypes
  <2>2. feed.msg = Pool!NoMessage
    BY <1>1 DEF Pool!Create, Referred
  <2> QED
    BY <2>1, <2>2, MessageKinds DEF QueueFollows, FramesFollow, ConfigsFollow, ConfigEnd
<1>2. CASE \/ \E u \in User : Pool!Reuse(u) \/ Pool!Subscribe(u) \/ Pool!Leave(u)
           \/ \E g \in 1..MaxGen : Pool!Join(g)
           \/ Pool!Unlock
  <2>1. feed'.msg = feed.msg /\ UNCHANGED << source, Pool!input, Pool!worker, gen >>
    BY <1>2 DEF Pool!Reuse, Pool!Subscribe, Pool!Leave, Pool!Join, Pool!Unlock, Pool!feeder,
                MessageTypes
  <2>2. \A g \in 1..MaxGen : stage'[g] = "live" => stage[g] = "live"
    <3>1. \/ stage' = stage
          \/ \E g \in 0..MaxGen, next \in {"stop", "gone"} : stage' = [stage EXCEPT ![g] = next]
      BY <1>2 DEF Pool!Reuse, Pool!Subscribe, Pool!Leave, Pool!Join, Pool!Unlock, Pool!Dropped,
                  PipelineTypes, MessageTypes
    <3> QED
      BY <3>1, Zenon DEF PipelineTypes
  <2>3. Pool!Live' => Pool!Live
    BY <2>1, <2>2 DEF Pool!Live, PipelineTypes
  <2> QED
    BY <2>1, <2>3, QuietKeeps
<1>3. ASSUME NEW g \in 1..MaxGen, Pool!Stop(g) PROVE GopInv'
  <2>1. /\ stage[g] = "stop" /\ stage' = [stage EXCEPT ![g] = "join"]
        /\ sourceQueue' = IF g = gen THEN << >> ELSE sourceQueue
        /\ UNCHANGED << gen, feed, source, latestConfig, sourceWaiting, resetRequested,
                        Pool!worker >>
    BY <1>3 DEF Pool!Stop, Pool!feeder
  <2>2. CASE g = gen
    <3>1. ~Pool!Live' /\ sourceQueue' = << >>
      BY <2>1, <2>2 DEF Pool!Live, PipelineTypes
    <3> QED
      BY <2>1, <3>1 DEF QueueFollows, FramesFollow, ConfigsFollow, Pool!worker
  <2>3. CASE g # gen
    <3>1. Pool!Live' <=> Pool!Live
      BY <2>1, <2>3 DEF Pool!Live, PipelineTypes
    <3> QED
      BY <2>1, <2>3, <3>1, QuietKeeps DEF Pool!input
  <2> QED
    BY <2>2, <2>3
<1>4. CASE Pool!CreateFails
  <2>1. ~keyframeSeen' /\ taken' = Pool!NoMessage /\ (Pool!Live' <=> Pool!Live)
        /\ UNCHANGED << feed, source, Pool!input, videoConfig >>
    BY <1>4 DEF Pool!CreateFails, Pool!feeder, Pool!Live
  <2> QED
    BY <2>1, MessageKinds DEF QueueFollows, FramesFollow, ConfigsFollow, Pool!input, LastQueued,
                              FrameEnd, ConfigEnd
<1>5. CASE Pool!DecodeOnly \/ Pool!Transcode
  <2>1. /\ taken # Pool!NoMessage /\ coder'.frame = taken.frame /\ taken' = Pool!NoMessage
        /\ (Pool!Live' <=> Pool!Live)
        /\ UNCHANGED << feed, source, Pool!input, videoConfig, keyframeSeen >>
    BY <1>5 DEF Pool!DecodeOnly, Pool!Transcode, Pool!feeder, Pool!Live, WorkerTypes
  <2>2. At' = At
    BY <2>1 DEF At
  <2> QED
    BY <2>1, <2>2, MessageKinds DEF QueueFollows, FramesFollow, ConfigsFollow, Pool!input,
                                    LastQueued, FrameEnd, ConfigEnd
<1> QED
  BY <1>1, <1>2, <1>3, <1>4, <1>5, FeedKeeps, EnqueueKeeps, TakeKeeps DEF Pool!Next

\* What the three theorems share.
LEMMA PoolInvariant ==
    Spec => [](part = "pool" => PipelineInv /\ CacheInv /\ GopInv)
<1> DEFINE Inv == part = "pool" => PipelineInv /\ CacheInv /\ GopInv
<1>1. Init => Inv
  BY InitOfPart, PipelineInit, CacheInit, GopInit
<1>2. Inv /\ [Next]_allVars => Inv'
  <2> SUFFICES ASSUME part = "pool", PipelineInv, CacheInv, GopInv, [Next]_allVars
               PROVE  PipelineInv' /\ CacheInv' /\ GopInv'
    BY StepOfPart
  <2>1. CASE Pool!Next
    BY <2>1, PipelineKeeps, CacheKeeps, GopKeeps
  <2>2. CASE UNCHANGED poolVs
    <3>1. PipelineInv'
      BY <2>2 DEF poolVs, PipelineInv, PipelineTypes, MessageTypes, WorkerTypes, Referred, Pool!Live
    <3>2. CacheInv'
      BY <2>2 DEF poolVs, CacheInv
    <3>3. GopInv'
      BY <2>2, QuietKeeps DEF poolVs, Pool!input, Pool!worker, Pool!Live
    <3> QED
      BY <3>1, <3>2, <3>3
  <2> QED
    BY <2>1, <2>2, StepOfPart
<1> QED
  BY <1>1, <1>2, PTL DEF Spec, allVars

\* Whoever works on a pipeline works on the one that all sessions share, which is not
\* destroyed under it (webrtc_service.cpp, acquire_shared_hevc_to_avc_pipeline).
THEOREM InUseIsSharedHolds ==
    Spec => []InUseIsShared
<1>1. (part = "pool" => PipelineInv /\ CacheInv /\ GopInv) => InUseIsShared
  BY DEF InUseIsShared, Pool!InUseIsShared, PipelineInv, Referred
<1> QED
  BY <1>1, PoolInvariant, PTL

\* What any subscriber gets, from the cache and then live, begins with a keyframe and has no
\* gap (webrtc_service.cpp, subscribe and publish_frame).
THEOREM FirstIsKeyHolds ==
    Spec => []FirstIsKey
<1>1. (part = "pool" => PipelineInv /\ CacheInv /\ GopInv) => FirstIsKey
  BY DEF FirstIsKey, Pool!FirstIsKey, CacheInv, Chain
<1> QED
  BY <1>1, PoolInvariant, PTL

\* The decoder gets whole GOPs, whatever overflows, fails, changes or jumps in between
\* (webrtc_service.cpp, enqueue_source and worker_loop).
THEOREM WholeGopHolds ==
    Spec => WholeGop
<1>1. ASSUME part = "pool" => PipelineInv /\ CacheInv /\ GopInv, [Next]_allVars
      PROVE  [part = "pool" => Pool!EntersWhole]_poolVs
  <2> SUFFICES ASSUME part = "pool", PipelineInv, GopInv, Pool!Next
               PROVE  Pool!EntersWhole
    BY <1>1, StepOfPart
  <2>1. CASE Pool!DecodeOnly \/ Pool!Transcode
    <3>1. taken \in Message /\ taken.kind \in {"key", "delta"}
      BY <2>1 DEF Pool!DecodeOnly, Pool!Transcode, PipelineInv, MessageTypes
    <3>2. taken.kind = "key" => videoConfig = taken.config
      BY DEF GopInv, ConfigsFollow
    <3>3. taken.kind = "delta" => coder.frame = taken.frame - 1
      BY <3>1 DEF GopInv, FramesFollow, PipelineInv, WorkerTypes
    <3> QED
      BY <3>1, <3>2, <3>3 DEF Pool!EntersWhole
  <2>2. CASE ~(Pool!DecodeOnly \/ Pool!Transcode)
    <3>1. coder' = coder \/ coder' = Pool!NoCoder
      BY <2>2 DEF Pool!Next, Pool!Reuse, Pool!Create, Pool!Subscribe, Pool!Leave, Pool!Stop,
                  Pool!Join, Pool!Feed, Pool!Enqueue, Pool!Unlock, Pool!Take, Pool!CreateFails,
                  Pool!worker
    <3> QED
      BY <3>1 DEF Pool!EntersWhole, Pool!NoCoder
  <2> QED
    BY <2>1, <2>2
<1> QED
  BY <1>1, PoolInvariant, PTL DEF Spec, WholeGop, allVars

-----------------------------------------------------------------------------
(* The RTSP publish server *)

PublishTypes ==
    /\ serving \in {"off", "on", "stopped"}
    /\ conn \in {"unaccepted", "open", "join video", "join audio", "unregister", "ended",
                 "terminated"}
    /\ named \in BOOLEAN /\ announced \in {"no", "video", "with audio"}
    /\ receiving \in BOOLEAN
    /\ session \in {"none", "announced", "setup", "recording"}
    /\ active \subseteq {"empty", "key"}

SocketTypes ==
    /\ rtpFd \in [Publish!Track -> {0} \cup Publish!Socket]
    /\ sockets \in [Publish!Socket -> {"unopened", "open", "replaced", "closed", "shut"}]
    /\ rxFd \in [Publish!Track -> {0} \cup Publish!Socket]

ReceiverTypes ==
    /\ receiver \in [Publish!Track -> {"none", "testing", "entering", "waiting", "astray",
                                     "handling", "done"}]
    /\ rxKey \in [Publish!Track -> {"none", "empty", "key"}]

\* The open sockets are those that the tracks have, each its own, so that cleanup shuts
\* every one of them.
TracksOwn ==
    /\ \A t \in Publish!Track : rtpFd[t] # 0 => sockets[rtpFd[t]] = "open"
    /\ \A t, u \in Publish!Track : rtpFd[t] = rtpFd[u] /\ rtpFd[t] # 0 => t = u
    /\ \A s \in Publish!Socket : sockets[s] = "open" => \E t \in Publish!Track : rtpFd[t] = s
    /\ \A s \in Publish!Socket : sockets[s] # "closed"

\* A receiver that runs reads a socket, and has a key once it has a packet.
ReceiversRead ==
    \A t \in Publish!Track :
       /\ receiver[t] \notin {"none", "done"} =>
             rxFd[t] \in Publish!Socket /\ sockets[rxFd[t]] # "unopened"
       /\ receiver[t] = "handling" => rxKey[t] # "none"

\* A connection that is being cleaned up has no sockets left, and no receiver of a track
\* that has been joined.
CleansUp ==
    /\ conn \in {"join video", "join audio", "unregister", "ended"} =>
          ~receiving /\ \A t \in Publish!Track : rtpFd[t] = 0
    /\ conn \in {"join audio", "unregister", "ended"} => receiver["video"] \in {"none", "done"}
    /\ conn \in {"unregister", "ended"} => receiver["audio"] \in {"none", "done"}

\* Nothing is entered under a key that the connection has not named, and what was is gone
\* at the end.
NamedEnters ==
    /\ ~named => "key" \notin active /\ \A t \in Publish!Track : rxKey[t] # "key"
    /\ conn = "ended" => active \subseteq {"empty"} /\ (named => session = "none")

PublishInv ==
    /\ PublishTypes /\ SocketTypes /\ ReceiverTypes
    /\ TracksOwn /\ ReceiversRead /\ CleansUp /\ NamedEnters

LEMMA SocketNonzero ==
    0 \notin Publish!Socket
  BY DEF Publish!Socket

LEMMA PublishInit ==
    ASSUME Publish!Init
    PROVE  PublishInv
  BY Zenon DEF Publish!Init, PublishInv, PublishTypes, SocketTypes, ReceiverTypes, TracksOwn,
         ReceiversRead, CleansUp, NamedEnters

\* The server starts and stops, and a connection is accepted, joins its receivers and is
\* unregistered.
LEMMA ConnectionKeeps ==
    ASSUME PublishInv,
           \/ Publish!StartServer \/ Publish!StopServer \/ Publish!Accept
           \/ \E t \in Publish!Track : Publish!JoinReceiver(t)
           \/ Publish!Unregister
    PROVE  PublishInv'
<1> USE DEF PublishInv
<1>1. CASE Publish!StartServer \/ Publish!StopServer \/ Publish!Accept
  <2>1. PublishTypes'
    BY <1>1, ZenonT(60) DEF Publish!StartServer, Publish!StopServer, Publish!Accept, Publish!sharedRx,
        Publish!registered, PublishTypes
  <2>2. SocketTypes'
    BY <1>1 DEF Publish!StartServer, Publish!StopServer, Publish!Accept, Publish!sharedRx,
        SocketTypes
  <2>3. ReceiverTypes'
    BY <1>1 DEF Publish!StartServer, Publish!StopServer, Publish!Accept, Publish!sharedRx,
        ReceiverTypes
  <2>4. TracksOwn'
    BY <1>1 DEF Publish!StartServer, Publish!StopServer, Publish!Accept, Publish!sharedRx,
        TracksOwn
  <2>5. ReceiversRead'
    BY <1>1 DEF Publish!StartServer, Publish!StopServer, Publish!Accept, Publish!sharedRx,
        ReceiversRead
  <2>6. CleansUp'
    <3>1. UNCHANGED << rtpFd, receiver, receiving >>
          /\ (conn' = conn \/ conn' = "open")
      BY <1>1 DEF Publish!StartServer, Publish!StopServer, Publish!Accept, Publish!sharedRx
    <3> QED
      BY <3>1, Zenon DEF CleansUp
  <2>7. NamedEnters'
    <3>1. UNCHANGED << named, active, rxKey, session >>
          /\ (conn' = conn \/ conn' = "open")
      BY <1>1 DEF Publish!StartServer, Publish!StopServer, Publish!Accept, Publish!sharedRx,
          Publish!registered
    <3> QED
      BY <3>1 DEF NamedEnters
  <2> QED
    BY <2>1, <2>2, <2>3, <2>4, <2>5, <2>6, <2>7
<1>2. ASSUME NEW t \in Publish!Track, Publish!JoinReceiver(t) PROVE PublishInv'
  <2>1. PublishTypes'
    BY <1>2, Zenon DEF Publish!JoinReceiver, Publish!sharedRx, Publish!registered, PublishTypes
  <2>2. SocketTypes'
    BY <1>2, Zenon DEF Publish!JoinReceiver, Publish!sharedRx, SocketTypes
  <2>3. ReceiverTypes'
    BY <1>2, Zenon DEF Publish!JoinReceiver, Publish!sharedRx, ReceiverTypes
  <2>4. TracksOwn'
    BY <1>2, Zenon DEF Publish!JoinReceiver, Publish!sharedRx, TracksOwn
  <2>5. ReceiversRead'
    BY <1>2, Zenon DEF Publish!JoinReceiver, Publish!sharedRx, ReceiversRead
  <2>6. CleansUp'
    <3>1. UNCHANGED << rtpFd, receiver, receiving >>
          /\ conn = Publish!JoinOf[t] /\ receiver[t] \in {"none", "done"}
          /\ conn' = (IF t = "video" THEN "join audio" ELSE "unregister")
      BY <1>2, Zenon DEF Publish!JoinReceiver, Publish!sharedRx
    <3>2. CASE t = "video"
      BY <3>1, <3>2, Zenon DEF CleansUp, Publish!JoinOf
    <3>3. CASE t = "audio"
      BY <3>1, <3>3, Zenon DEF CleansUp, Publish!JoinOf
    <3> QED
      BY <3>2, <3>3 DEF Publish!Track
  <2>7. NamedEnters'
    BY <1>2, Zenon DEF Publish!JoinReceiver, Publish!sharedRx, Publish!registered, NamedEnters
  <2> QED
    BY <2>1, <2>2, <2>3, <2>4, <2>5, <2>6, <2>7
<1>3. CASE Publish!Unregister
  <2>1. PublishTypes'
    BY <1>3, Zenon DEF Publish!Unregister, Publish!sharedRx, PublishTypes
  <2>2. SocketTypes'
    BY <1>3 DEF Publish!Unregister, Publish!sharedRx, SocketTypes
  <2>3. ReceiverTypes'
    BY <1>3 DEF Publish!Unregister, Publish!sharedRx, ReceiverTypes
  <2>4. TracksOwn'
    BY <1>3 DEF Publish!Unregister, Publish!sharedRx, TracksOwn
  <2>5. ReceiversRead'
    BY <1>3 DEF Publish!Unregister, Publish!sharedRx, ReceiversRead
  <2>6. CleansUp'
    BY <1>3 DEF Publish!Unregister, Publish!sharedRx, CleansUp
  <2>7. NamedEnters'
    BY <1>3, Zenon DEF Publish!Unregister, Publish!sharedRx, NamedEnters, PublishTypes
  <2> QED
    BY <2>1, <2>2, <2>3, <2>4, <2>5, <2>6, <2>7
<1> QED
  BY <1>1, <1>2, <1>3

\* Requests: each names the key at most, closes every socket, or gives a track another.
LEMMA RequestKeeps ==
    ASSUME PublishInv,
           \/ Publish!Hangup
           \/ \E path \in BOOLEAN :
                 \/ Publish!Teardown(path) \/ Publish!Record(path) \/ Publish!AnswerOnly(path)
                 \/ \E audio \in BOOLEAN : Publish!Announce(path, audio)
                 \/ \E t \in Publish!Track : Publish!Setup(path, t)
    PROVE  PublishInv'
<1> USE DEF PublishInv
<1>1. CASE Publish!Hangup
  <2>1. PublishTypes'
    BY <1>1, Zenon DEF Publish!Hangup, Publish!CloseSockets, Publish!registered, PublishTypes
  <2>2. SocketTypes'
    BY <1>1, Zenon DEF Publish!Hangup, Publish!CloseSockets, SocketTypes
  <2>3. ReceiverTypes'
    BY <1>1 DEF Publish!Hangup, ReceiverTypes
  <2>4. TracksOwn'
    BY <1>1, Zenon DEF Publish!Hangup, Publish!CloseSockets, TracksOwn
  <2>5. ReceiversRead'
    BY <1>1, Zenon DEF Publish!Hangup, Publish!CloseSockets, ReceiversRead
  <2>6. CleansUp'
    BY <1>1, Zenon DEF Publish!Hangup, Publish!CloseSockets, CleansUp
  <2>7. NamedEnters'
    BY <1>1, Zenon DEF Publish!Hangup, Publish!CloseSockets, Publish!registered, NamedEnters
  <2> QED
    BY <2>1, <2>2, <2>3, <2>4, <2>5, <2>6, <2>7
<1>2. ASSUME NEW path \in BOOLEAN, Publish!Teardown(path) PROVE PublishInv'
  <2>1. PublishTypes'
    BY <1>2, Zenon DEF Publish!Teardown, Publish!CloseSockets, Publish!KeyFrom, Publish!registered,
        PublishTypes
  <2>2. SocketTypes'
    BY <1>2, Zenon DEF Publish!Teardown, Publish!CloseSockets, SocketTypes
  <2>3. ReceiverTypes'
    BY <1>2 DEF Publish!Teardown, ReceiverTypes
  <2>4. TracksOwn'
    BY <1>2, Zenon DEF Publish!Teardown, Publish!CloseSockets, TracksOwn
  <2>5. ReceiversRead'
    BY <1>2, Zenon DEF Publish!Teardown, Publish!CloseSockets, ReceiversRead
  <2>6. CleansUp'
    BY <1>2, Zenon DEF Publish!Teardown, Publish!CloseSockets, CleansUp
  <2>7. NamedEnters'
    BY <1>2, Zenon DEF Publish!Teardown, Publish!CloseSockets, Publish!KeyFrom, Publish!registered,
        NamedEnters
  <2> QED
    BY <2>1, <2>2, <2>3, <2>4, <2>5, <2>6, <2>7
<1>3. ASSUME NEW path \in BOOLEAN, Publish!Record(path) PROVE PublishInv'
  <2>0. UNCHANGED << sockets, rtpFd >>
        /\ \/ UNCHANGED << receiver, rxFd, rxKey >>
           \/ \E started \in SUBSET Publish!Track :
                 /\ \A t \in started : rtpFd[t] # 0
                 /\ receiver' = [t \in Publish!Track |->
                                    IF t \in started THEN "testing" ELSE receiver[t]]
                 /\ rxFd' = [t \in Publish!Track |->
                                IF t \in started THEN rtpFd[t] ELSE rxFd[t]]
                 /\ rxKey' = [t \in Publish!Track |->
                                 IF t \in started /\ named' THEN "key" ELSE rxKey[t]]
    <3> DEFINE chosen == {"video"} \cup
                 (IF rtpFd["audio"] # 0 /\ announced = "with audio" THEN {"audio"} ELSE {})
    <3>1. chosen \in SUBSET Publish!Track /\ \A t \in chosen : rtpFd[t] # 0
      BY <1>3, Zenon DEF Publish!Record, Publish!Track
    <3>2. /\ UNCHANGED << sockets, rtpFd >>
          /\ \/ UNCHANGED << receiver, rxFd, rxKey >>
             \/ /\ receiver' = [t \in Publish!Track |->
                                   IF t \in chosen THEN "testing" ELSE receiver[t]]
                /\ rxFd' = [t \in Publish!Track |->
                               IF t \in chosen THEN rtpFd[t] ELSE rxFd[t]]
                /\ rxKey' = [t \in Publish!Track |->
                                IF t \in chosen /\ named' THEN "key" ELSE rxKey[t]]
      BY <1>3, Zenon DEF Publish!Record, Publish!sharedRx
    <3> HIDE DEF chosen
    <3> QED
      BY <3>1, <3>2
  <2>1. PublishTypes'
    BY <1>3, Zenon DEF Publish!Record, Publish!KeyFrom, Publish!sharedRx, PublishTypes
  <2>2. SocketTypes'
    BY <2>0 DEF SocketTypes
  <2>3. ReceiverTypes'
    BY <2>0 DEF ReceiverTypes
  <2>4. TracksOwn'
    BY <1>3, Zenon DEF Publish!Record, Publish!sharedRx, TracksOwn
  <2>5. ReceiversRead'
    <3>1. \A t \in Publish!Track : rtpFd[t] # 0 =>
             rtpFd[t] \in Publish!Socket /\ sockets[rtpFd[t]] # "unopened"
      BY DEF SocketTypes, TracksOwn
    <3> QED
      BY <2>0, <3>1 DEF ReceiversRead
  <2>6. CleansUp'
    BY <1>3, Zenon DEF Publish!Record, CleansUp
  <2>7. NamedEnters'
    BY <1>3, Zenon DEF Publish!Record, Publish!KeyFrom, Publish!sharedRx, NamedEnters
  <2> QED
    BY <2>1, <2>2, <2>3, <2>4, <2>5, <2>6, <2>7
<1>4. ASSUME NEW path \in BOOLEAN, Publish!AnswerOnly(path) PROVE PublishInv'
  <2>1. PublishTypes'
    BY <1>4, Zenon DEF Publish!AnswerOnly, Publish!KeyFrom, Publish!sharedRx, Publish!registered,
        PublishTypes
  <2>2. SocketTypes'
    BY <1>4 DEF Publish!AnswerOnly, Publish!sharedRx, SocketTypes
  <2>3. ReceiverTypes'
    BY <1>4 DEF Publish!AnswerOnly, Publish!sharedRx, ReceiverTypes
  <2>4. TracksOwn'
    BY <1>4 DEF Publish!AnswerOnly, Publish!sharedRx, TracksOwn
  <2>5. ReceiversRead'
    BY <1>4 DEF Publish!AnswerOnly, Publish!sharedRx, ReceiversRead
  <2>6. CleansUp'
    BY <1>4 DEF Publish!AnswerOnly, CleansUp
  <2>7. NamedEnters'
    BY <1>4, Zenon DEF Publish!AnswerOnly, Publish!KeyFrom, Publish!sharedRx, Publish!registered,
        NamedEnters
  <2> QED
    BY <2>1, <2>2, <2>3, <2>4, <2>5, <2>6, <2>7
<1>5. ASSUME NEW path \in BOOLEAN, NEW audio \in BOOLEAN, Publish!Announce(path, audio) PROVE PublishInv'
  <2>1. PublishTypes'
    BY <1>5, Zenon DEF Publish!Announce, Publish!KeyFrom, Publish!Key, Publish!sharedRx, PublishTypes
  <2>2. SocketTypes'
    BY <1>5, Zenon DEF Publish!Announce, Publish!sharedRx, SocketTypes
  <2>3. ReceiverTypes'
    BY <1>5, Zenon DEF Publish!Announce, Publish!sharedRx, ReceiverTypes
  <2>4. TracksOwn'
    BY <1>5, Zenon DEF Publish!Announce, Publish!sharedRx, TracksOwn
  <2>5. ReceiversRead'
    BY <1>5, Zenon DEF Publish!Announce, Publish!sharedRx, ReceiversRead
  <2>6. CleansUp'
    BY <1>5, Zenon DEF Publish!Announce, CleansUp
  <2>7. NamedEnters'
    BY <1>5, Zenon DEF Publish!Announce, Publish!KeyFrom, Publish!Key, Publish!sharedRx, NamedEnters
  <2> QED
    BY <2>1, <2>2, <2>3, <2>4, <2>5, <2>6, <2>7
<1>6. ASSUME NEW path \in BOOLEAN, NEW t \in Publish!Track, Publish!Setup(path, t) PROVE PublishInv'
  <2>0. \E s \in {0} \cup Publish!Socket :
           /\ rtpFd' = [rtpFd EXCEPT ![t] = s]
           /\ s # 0 => sockets[s] = "unopened"
           /\ sockets' = [r \in Publish!Socket |-> IF r = s THEN "open"
                            ELSE IF r = rtpFd[t] THEN "replaced" ELSE sockets[r]]
    <3> DEFINE old == [s \in Publish!Socket |-> IF s = rtpFd[t] THEN "replaced" ELSE sockets[s]]
    <3>1. \/ rtpFd' = [rtpFd EXCEPT ![t] = 0] /\ sockets' = old
          \/ \E s \in Publish!Socket : /\ sockets[s] = "unopened"
                                       /\ rtpFd' = [rtpFd EXCEPT ![t] = s]
                                       /\ sockets' = [old EXCEPT ![s] = "open"]
      BY <1>6 DEF Publish!Setup
    <3>2. CASE rtpFd' = [rtpFd EXCEPT ![t] = 0] /\ sockets' = old
      BY <3>2, SocketNonzero, Zenon
    <3>3. ASSUME NEW s \in Publish!Socket, sockets[s] = "unopened",
                 rtpFd' = [rtpFd EXCEPT ![t] = s], sockets' = [old EXCEPT ![s] = "open"]
          PROVE  sockets' = [r \in Publish!Socket |-> IF r = s THEN "open"
                               ELSE IF r = rtpFd[t] THEN "replaced" ELSE sockets[r]]
      BY <3>3, Zenon
    <3> QED
      BY <3>1, <3>2, <3>3, Zenon
  <2>1. PublishTypes'
    BY <1>6, Zenon DEF Publish!Setup, Publish!KeyFrom, PublishTypes
  <2>2. SocketTypes'
    BY <1>6, <2>0 DEF Publish!Setup, SocketTypes
  <2>3. ReceiverTypes'
    BY <1>6 DEF Publish!Setup, ReceiverTypes
  <2>4. TracksOwn'
    <3>1. PICK s \in {0} \cup Publish!Socket :
             /\ rtpFd' = [rtpFd EXCEPT ![t] = s]
             /\ s # 0 => sockets[s] = "unopened"
             /\ sockets' = [r \in Publish!Socket |-> IF r = s THEN "open"
                              ELSE IF r = rtpFd[t] THEN "replaced" ELSE sockets[r]]
      BY <2>0, Zenon
    <3>2. \A u \in Publish!Track : rtpFd[u] # 0 => rtpFd[u] \in Publish!Socket /\ rtpFd[u] # s
      BY <3>1 DEF SocketTypes, TracksOwn
    <3>3. \A u \in Publish!Track : rtpFd'[u] = IF u = t THEN s ELSE rtpFd[u]
      BY <3>1 DEF SocketTypes
    <3>4. \A u \in Publish!Track : rtpFd'[u] # 0 => sockets'[rtpFd'[u]] = "open"
      BY <3>1, <3>2, <3>3 DEF TracksOwn
    <3>5. \A u, v \in Publish!Track : rtpFd'[u] = rtpFd'[v] /\ rtpFd'[u] # 0 => u = v
      BY <3>2, <3>3 DEF TracksOwn
    <3>6. \A r \in Publish!Socket : sockets'[r] = "open" => \E u \in Publish!Track : rtpFd'[u] = r
      BY <3>1, <3>3 DEF TracksOwn
    <3>7. \A r \in Publish!Socket : sockets'[r] # "closed"
      BY <3>1 DEF TracksOwn
    <3> QED
      BY <3>4, <3>5, <3>6, <3>7 DEF TracksOwn
  <2>5. ReceiversRead'
    <3>1. UNCHANGED << receiver, rxFd, rxKey >>
      BY <1>6 DEF Publish!Setup
    <3>2. \A s \in Publish!Socket : sockets[s] # "unopened" => sockets'[s] # "unopened"
      BY <2>0
    <3> QED
      BY <3>1, <3>2 DEF ReceiversRead
  <2>6. CleansUp'
    BY <1>6 DEF Publish!Setup, CleansUp
  <2>7. NamedEnters'
    BY <1>6, Zenon DEF Publish!Setup, Publish!KeyFrom, NamedEnters
  <2> QED
    BY <2>1, <2>2, <2>3, <2>4, <2>5, <2>6, <2>7
<1> QED
  BY <1>1, <1>2, <1>3, <1>4, <1>5, <1>6

\* A receiver reads on only from an open socket, and enters its key.
LEMMA ReceiverKeeps ==
    ASSUME PublishInv,
           \E t \in Publish!Track :
              \/ Publish!Test(t) \/ Publish!Enter(t) \/ Publish!Receive(t)
              \/ Publish!Handle(t) \/ Publish!Woken(t)
    PROVE  PublishInv'
<1> USE DEF PublishInv
<1>1. ASSUME NEW t \in Publish!Track, Publish!Receive(t) PROVE PublishInv'
  <2>1. PublishTypes'
    BY <1>1, Zenon DEF Publish!Receive, Publish!registered, PublishTypes
  <2>2. SocketTypes'
    BY <1>1 DEF Publish!Receive, SocketTypes
  <2>3. ReceiverTypes'
    BY <1>1 DEF Publish!Receive, ReceiverTypes
  <2>4. TracksOwn'
    BY <1>1 DEF Publish!Receive, TracksOwn
  <2>5. ReceiversRead'
    BY <1>1 DEF Publish!Receive, ReceiversRead, ReceiverTypes
  <2>6. CleansUp'
    BY <1>1, Zenon DEF Publish!Receive, Publish!Track, CleansUp, ReceiverTypes
  <2>7. NamedEnters'
    BY <1>1 DEF Publish!Receive, Publish!registered, NamedEnters, ReceiverTypes
  <2> QED
    BY <2>1, <2>2, <2>3, <2>4, <2>5, <2>6, <2>7
<1>2. ASSUME NEW t \in Publish!Track, Publish!Handle(t) PROVE PublishInv'
  <2>1. PublishTypes'
    BY <1>2, Zenon DEF Publish!Handle, PublishTypes, ReceiverTypes, ReceiversRead
  <2>2. SocketTypes'
    BY <1>2 DEF Publish!Handle, SocketTypes
  <2>3. ReceiverTypes'
    BY <1>2 DEF Publish!Handle, ReceiverTypes
  <2>4. TracksOwn'
    BY <1>2 DEF Publish!Handle, TracksOwn
  <2>5. ReceiversRead'
    BY <1>2 DEF Publish!Handle, ReceiversRead, SocketTypes, ReceiverTypes
  <2>6. CleansUp'
    BY <1>2, Zenon DEF Publish!Handle, Publish!Track, CleansUp, ReceiverTypes
  <2>7. NamedEnters'
    BY <1>2, Zenon DEF Publish!Handle, Publish!Track, NamedEnters, CleansUp
  <2> QED
    BY <2>1, <2>2, <2>3, <2>4, <2>5, <2>6, <2>7
<1>3. ASSUME NEW t \in Publish!Track, Publish!Woken(t) PROVE PublishInv'
  <2>1. PublishTypes'
    BY <1>3, Zenon DEF Publish!Woken, Publish!registered, PublishTypes
  <2>2. SocketTypes'
    BY <1>3 DEF Publish!Woken, SocketTypes
  <2>3. ReceiverTypes'
    BY <1>3 DEF Publish!Woken, ReceiverTypes
  <2>4. TracksOwn'
    BY <1>3 DEF Publish!Woken, TracksOwn
  <2>5. ReceiversRead'
    BY <1>3 DEF Publish!Woken, ReceiversRead
  <2>6. CleansUp'
    BY <1>3, Zenon DEF Publish!Woken, Publish!Track, CleansUp, ReceiverTypes
  <2>7. NamedEnters'
    BY <1>3 DEF Publish!Woken, Publish!registered, NamedEnters
  <2> QED
    BY <2>1, <2>2, <2>3, <2>4, <2>5, <2>6, <2>7
<1>4. ASSUME NEW t \in Publish!Track, Publish!Test(t) PROVE PublishInv'
  <2>1. PublishTypes'
    BY <1>4, Zenon DEF Publish!Test, Publish!registered, PublishTypes
  <2>2. SocketTypes'
    BY <1>4 DEF Publish!Test, SocketTypes
  <2>3. ReceiverTypes'
    BY <1>4 DEF Publish!Test, ReceiverTypes
  <2>4. TracksOwn'
    BY <1>4 DEF Publish!Test, TracksOwn
  <2>5. ReceiversRead'
    BY <1>4 DEF Publish!Test, ReceiversRead, TracksOwn, SocketTypes, ReceiverTypes
  <2>6. CleansUp'
    BY <1>4, Zenon DEF Publish!Test, Publish!Track, CleansUp, ReceiverTypes
  <2>7. NamedEnters'
    BY <1>4 DEF Publish!Test, Publish!registered, NamedEnters
  <2> QED
    BY <2>1, <2>2, <2>3, <2>4, <2>5, <2>6, <2>7
<1>5. ASSUME NEW t \in Publish!Track, Publish!Enter(t) PROVE PublishInv'
  <2>1. PublishTypes'
    BY <1>5, Zenon DEF Publish!Enter, Publish!registered, PublishTypes
  <2>2. SocketTypes'
    BY <1>5 DEF Publish!Enter, SocketTypes
  <2>0. PICK place \in {"waiting", "astray", "done"} :
              receiver' = [receiver EXCEPT ![t] = place]
    BY <1>5, Zenon DEF Publish!Enter
  <2>3. ReceiverTypes'
    <3>1. rxKey' = rxKey
      BY <1>5, Zenon DEF Publish!Enter
    <3> QED
      BY <2>0, <3>1 DEF ReceiverTypes
  <2>4. TracksOwn'
    BY <1>5 DEF Publish!Enter, TracksOwn
  <2>5. ReceiversRead'
    <3>1. rxFd[t] \in Publish!Socket /\ sockets[rxFd[t]] # "unopened"
      BY <1>5 DEF Publish!Enter, ReceiversRead
    <3>2. \E s \in Publish!Socket :
             sockets[s] # "unopened" /\ rxFd' = [rxFd EXCEPT ![t] = s]
      <4>1. CASE rxFd' = [rxFd EXCEPT ![t] = rxFd[t]]
        BY <3>1, <4>1, Zenon
      <4>2. ASSUME NEW u \in Publish!Track, rtpFd[u] > rxFd[t],
                   rxFd' = [rxFd EXCEPT ![t] = rtpFd[u]]
            PROVE  \E s \in Publish!Socket :
                      sockets[s] # "unopened" /\ rxFd' = [rxFd EXCEPT ![t] = s]
        <5>1. rtpFd[u] \in Publish!Socket
          BY <3>1, <4>2 DEF SocketTypes, Publish!Socket
        <5> QED
          BY <4>2, <5>1, SocketNonzero DEF TracksOwn
      <4> QED
        BY <1>5, <4>1, <4>2, Zenon DEF Publish!Enter
    <3>3. UNCHANGED << sockets, rxKey >>
      BY <1>5, Zenon DEF Publish!Enter
    <3> QED
      BY <2>0, <3>2, <3>3 DEF ReceiversRead, SocketTypes, ReceiverTypes
  <2>6. CleansUp'
    BY <1>5, Zenon DEF Publish!Enter, Publish!Track, CleansUp, ReceiverTypes
  <2>7. NamedEnters'
    BY <1>5 DEF Publish!Enter, Publish!registered, NamedEnters
  <2> QED
    BY <2>1, <2>2, <2>3, <2>4, <2>5, <2>6, <2>7
<1> QED
  BY <1>1, <1>2, <1>3, <1>4, <1>5

\* What the two theorems share.
LEMMA PublishInvariant ==
    Spec => [](part = "publish" => PublishInv)
<1> DEFINE Inv == part = "publish" => PublishInv
<1>1. Init => Inv
  BY InitOfPart, PublishInit
<1>2. Inv /\ [Next]_allVars => Inv'
  <2> SUFFICES ASSUME part = "publish", PublishInv, [Next]_allVars PROVE PublishInv'
    BY StepOfPart
  <2>1. CASE Publish!Next
    BY <2>1, ConnectionKeeps, RequestKeeps, ReceiverKeeps DEF Publish!Next
  <2>2. CASE UNCHANGED publishVs
    <3>1. PublishTypes' /\ SocketTypes' /\ ReceiverTypes'
      BY <2>2, Zenon DEF publishVs, PublishInv, PublishTypes, SocketTypes, ReceiverTypes
    <3>2. TracksOwn' /\ ReceiversRead'
      BY <2>2 DEF publishVs, PublishInv, TracksOwn, ReceiversRead
    <3>3. CleansUp' /\ NamedEnters'
      BY <2>2, Zenon DEF publishVs, PublishInv, CleansUp, NamedEnters
    <3> QED
      BY <3>1, <3>2, <3>3 DEF PublishInv
  <2> QED
    BY <2>1, <2>2, StepOfPart
<1> QED
  BY <1>1, <1>2, PTL DEF Spec, allVars

\* A receiver that cleanup waits for will end, except one whose socket a later SETUP closed
\* under it, or whose number somebody else took (rtsp_publish_server.cpp, cleanup).
THEOREM JoinEndsHolds ==
    Spec => []JoinEnds
<1>1. (part = "publish" => PublishInv) => JoinEnds
  <2> SUFFICES ASSUME part = "publish", PublishInv, NEW t \in Publish!Track,
                      conn = Publish!JoinOf[t]
               PROVE  /\ ~receiving
                      /\ receiver[t] = "entering" => sockets[rxFd[t]] # "open"
                      /\ receiver[t] = "waiting" => sockets[rxFd[t]] \in {"shut", "replaced"}
    BY DEF JoinEnds, Publish!JoinEnds
  <2>1. ~receiving /\ \A u \in Publish!Track : rtpFd[u] = 0
    <3>1. conn \in {"join video", "join audio"}
      <4>1. CASE t = "video"
        BY <4>1, Zenon DEF Publish!JoinOf
      <4>2. CASE t = "audio"
        BY <4>2, Zenon DEF Publish!JoinOf
      <4> QED
        BY <4>1, <4>2, Zenon DEF Publish!Track
    <3> QED
      BY <3>1, Zenon DEF PublishInv, CleansUp
  <2>2. \A s \in Publish!Socket : sockets[s] \notin {"open", "closed"}
    BY <2>1, SocketNonzero DEF PublishInv, TracksOwn
  <2>3. ASSUME receiver[t] \in {"entering", "waiting"}
        PROVE  rxFd[t] \in Publish!Socket /\ sockets[rxFd[t]] # "unopened"
    BY <2>3 DEF PublishInv, ReceiversRead
  <2>4. receiver[t] = "entering" => sockets[rxFd[t]] # "open"
    BY <2>2, <2>3
  <2>5. receiver[t] = "waiting" => sockets[rxFd[t]] \in {"shut", "replaced"}
    BY <2>2, <2>3 DEF PublishInv, SocketTypes
  <2> QED
    BY <2>1, <2>4, <2>5
<1> QED
  BY <1>1, PublishInvariant, PTL

\* A connection that has ended leaves no receiver, socket, ingest or session, except what it
\* entered under the empty key (rtsp_publish_server.cpp, cleanup).
THEOREM EndedIsQuietHolds ==
    Spec => []EndedIsQuiet
<1>1. (part = "publish" => PublishInv) => EndedIsQuiet
  BY DEF PublishInv, CleansUp, NamedEnters, EndedIsQuiet, Publish!EndedIsQuiet, Publish!Track
<1> QED
  BY <1>1, PublishInvariant, PTL

-----------------------------------------------------------------------------
(* The RTSP play server *)

Piece == [from : Nat, to : Nat, size : Nat, flags : SUBSET {"whole", "start", "end", "torn"}]

Frame == [length : NalLengths, codec : {"avc", "hevc"}]

\* The pieces of a frame that fit, unbroken.
Fitting(pieces) ==
    \A i \in DOMAIN pieces : pieces[i].size <= MaxPayload /\ "torn" \notin pieces[i].flags

\* The pieces join to the NAL unit, the first and the last of them marked.
Joined(pieces, length, codec) ==
    /\ Len(pieces) >= 1
    /\ IF Len(pieces) = 1
       THEN pieces[1].flags = {"whole"} /\ pieces[1].from = 1
       ELSE /\ pieces[1].from = IF codec = "hevc" THEN 3 ELSE 2
            /\ \A i \in DOMAIN pieces :
                  /\ "start" \in pieces[i].flags <=> i = 1
                  /\ "end" \in pieces[i].flags <=> i = Len(pieces)
    /\ \A i \in 1..(Len(pieces) - 1) : pieces[i].to + 1 = pieces[i + 1].from
    /\ pieces[Len(pieces)].to = length

\* What is written and what is still to send is the frame, unless a packet was dropped;
\* after a packet that was torn the control connection is closed.
WireInv ==
    /\ transport \in {"none", "udp", "tcp"} /\ connected \in BOOLEAN /\ missed \in BOOLEAN
    /\ playing \in Frame \cup {Play!NoFrame}
    /\ packets \in Seq(Piece) /\ written \in Seq(Piece)
    /\ playing = Play!NoFrame => packets = << >> /\ written = << >> /\ ~missed
    /\ playing # Play!NoFrame /\ ~missed =>
          written \o packets = Play!Fragments(playing.length, playing.codec)
    /\ Fitting(packets)
    /\ \A i \in DOMAIN written :
          /\ written[i].size <= MaxPayload
          /\ "torn" \in written[i].flags =>
                i = Len(written) /\ ~connected /\ transport = "tcp"

LEMMA PlayNumbers ==
    MaxPayload \in Nat /\ MaxPayload > 3 /\ \A n \in NalLengths : n \in Nat /\ n > 2
  BY PlayAssumption DEF Play!PlayBounds

LEMMA Smaller ==
    ASSUME NEW a \in Int, NEW b \in Int
    PROVE  Play!Min({a, b}) = IF a <= b THEN a ELSE b
<1>1. \E x \in {a, b} : \A y \in {a, b} : x <= y
  OBVIOUS
<1>2. Play!Min({a, b}) \in {a, b} /\ \A y \in {a, b} : Play!Min({a, b}) <= y
  BY <1>1 DEF Play!Min
<1> QED
  BY <1>2

LEMMA Quotient ==
    ASSUME NEW a \in Nat, NEW b \in Nat \ {0}
    PROVE  a \div b \in Nat /\ (a \div b) * b <= a /\ a < (a \div b) * b + b
  OBVIOUS

LEMMA Products ==
    ASSUME NEW a \in Nat, NEW b \in Nat, NEW c \in Nat, a <= b
    PROVE  a * c \in Nat /\ b * c \in Nat /\ a * c <= b * c /\ (b + 1) * c = b * c + c
  OBVIOUS

\* What send_nal cuts is the NAL unit, in packets that fit.
LEMMA FragmentsJoin ==
    ASSUME NEW length \in NalLengths, NEW codec \in {"avc", "hevc"},
           NEW pieces, pieces = Play!Fragments(length, codec)
    PROVE  /\ pieces \in Seq(Piece) /\ Fitting(pieces) /\ Joined(pieces, length, codec)
<1> DEFINE header == IF codec = "hevc" THEN 2 ELSE 1
           room == MaxPayload - header - 1
           count == (length - header + room - 1) \div room
           From(k) == header + (k - 1) * room + 1
           To(k) == Play!Min({length, From(k) + room - 1})
<1>0. length \in Nat /\ length > 2 /\ header \in {1, 2} /\ room \in Nat \ {0}
      /\ MaxPayload \in Nat /\ room = MaxPayload - header - 1
  BY PlayNumbers
<1>1. CASE length <= MaxPayload
  <2>1. pieces = << [from |-> 1, to |-> length, size |-> length, flags |-> {"whole"}] >>
    BY <1>1 DEF Play!Fragments
  <2> QED
    BY <1>0, <1>1, <2>1 DEF Piece, Fitting, Joined
<1>2. CASE length > MaxPayload
  <2>1. pieces = [k \in 1..count |->
                    [from |-> From(k), to |-> To(k), size |-> header + 1 + To(k) - From(k) + 1,
                     flags |-> (IF k = 1 THEN {"start"} ELSE {}) \cup
                               (IF k = count THEN {"end"} ELSE {})]]
    BY <1>0, <1>2 DEF Play!Fragments
  <2>2. PICK full \in Nat : full = count * room /\ count \in Nat
            /\ full <= length - header + room - 1 /\ length - header + room - 1 < full + room
    <3>1. length - header + room - 1 \in Nat
      BY <1>0
    <3> HIDE DEF room, header
    <3>2. /\ count \in Nat /\ count * room <= length - header + room - 1
          /\ length - header + room - 1 < count * room + room
      BY <1>0, <3>1, Quotient, Zenon
    <3>3. count * room \in Nat
      BY <1>0, <3>2, Products
    <3> QED
      BY <3>2, <3>3
  <2> HIDE DEF count
  <2>3. length - header <= full
    BY <1>0, <2>2
  <2>4. count >= 2
    <3>1. full > room
      BY <1>0, <1>2, <2>3
    <3> HIDE DEF room, header
    <3>2. count # 0 /\ count # 1
      BY <1>0, <2>2, <3>1
    <3> QED
      BY <2>2, <3>2
  <2>5. ASSUME NEW k \in 1..count
        PROVE  /\ From(k) \in Nat /\ To(k) \in Nat /\ To(k) <= From(k) + room - 1
               /\ From(k) <= To(k) + 1
               /\ k # count => To(k) + 1 = From(k + 1)
               /\ k = count => To(k) = length
    <3>1. header \in Nat /\ length \in Nat /\ room \in Nat \ {0}
      BY <1>0
    <3> HIDE DEF room, header
    <3>2. PICK from, to : /\ from = From(k) /\ to = To(k)
                          /\ from = header + (k - 1) * room + 1
                          /\ to = Play!Min({length, from + room - 1})
      OBVIOUS
    <3>3. /\ from \in Nat /\ to \in Nat /\ to <= from + room - 1 /\ from <= to + 1
          /\ k # count => to + 1 = header + ((k + 1) - 1) * room + 1
          /\ k = count => to = length
      <4> HIDE DEF From, To
      <4>0. /\ k \in 1..count /\ count \in Nat /\ full \in Nat /\ full = count * room
            /\ length - header <= full /\ full <= length - header + room - 1
        BY <2>2, <2>3, <2>5
      <4>1. PICK before \in Nat : before = (k - 1) * room /\ k * room = before + room
        <5>1. (k - 1) * room \in Nat /\ ((k - 1) + 1) * room = (k - 1) * room + room
          <6>1. k - 1 \in Nat /\ k - 1 <= k - 1 /\ room \in Nat
            BY <3>1, <4>0
          <6> QED
            BY <6>1, Products
        <5>2. (k - 1) + 1 = k
          OBVIOUS
        <5> QED
          BY <5>1, <5>2
      <4>2. from = header + before + 1 /\ from \in Nat
        BY <3>1, <3>2, <4>0, <4>1
      <4>3. to = IF length <= header + before + room THEN length ELSE header + before + room
        <5>1. from + room - 1 = header + before + room /\ header + before + room \in Int
          BY <3>1, <3>2, <4>0, <4>1, <4>2
        <5> QED
          BY <3>1, <3>2, <5>1, Smaller
      <4>4. CASE k = count
        BY <3>1, <3>2, <4>0, <4>1, <4>2, <4>3, <4>4
      <4>5. CASE k # count
        <5>1. k * room <= (count - 1) * room /\ count * room = (count - 1) * room + room
          <6>1. k \in Nat /\ count - 1 \in Nat /\ k <= count - 1 /\ room \in Nat
            BY <3>1, <4>0, <4>5
          <6>2. k * room <= (count - 1) * room
                /\ ((count - 1) + 1) * room = (count - 1) * room + room
            BY <6>1, Products
          <6>3. (count - 1) + 1 = count
            BY <4>0
          <6> QED
            BY <6>2, <6>3
        <5>2. PICK most \in Int : most = (count - 1) * room
          BY <3>1, <4>0
        <5>3. before + room <= most /\ full = most + room
          BY <4>0, <4>1, <5>1, <5>2
        <5>4. before + room < length - header
          BY <3>1, <4>0, <5>3
        <5>5. to = header + before + room
          BY <3>1, <4>0, <4>3, <5>4
        <5>6. ((k + 1) - 1) * room = before + room
          <6>1. (k + 1) - 1 = k
            OBVIOUS
          <6> QED
            BY <4>1, <6>1
        <5> QED
          BY <3>1, <3>2, <4>0, <4>1, <4>2, <4>5, <5>4, <5>5, <5>6
      <4> QED
        BY <4>4, <4>5
    <3> QED
      BY <3>2, <3>3
  <2>6. From(1) = header + 1
    BY <1>0
  <2>7. \A k \in 1..count : header + 1 + To(k) - From(k) + 1 \in Nat
                            /\ header + 1 + To(k) - From(k) + 1 <= MaxPayload
    <3> HIDE DEF From, To
    <3>1. SUFFICES ASSUME NEW k \in 1..count
          PROVE  /\ header + 1 + To(k) - From(k) + 1 \in Nat
                 /\ header + 1 + To(k) - From(k) + 1 <= MaxPayload
      OBVIOUS
    <3>2. /\ From(k) \in Nat /\ To(k) \in Nat /\ To(k) <= From(k) + room - 1
          /\ From(k) <= To(k) + 1
      BY <2>5
    <3> QED
      BY <1>0, <3>2
  <2> HIDE DEF From, To
  <2>8. DOMAIN pieces = 1..count /\ Len(pieces) = count
    BY <2>1, <2>2
  <2>9. pieces \in Seq(Piece)
    BY <2>1, <2>2, <2>5, <2>7 DEF Piece
  <2>10. Fitting(pieces)
    BY <2>1, <2>7, <2>8 DEF Fitting
  <2>11. \A i \in DOMAIN pieces :
        /\ "start" \in pieces[i].flags <=> i = 1
        /\ "end" \in pieces[i].flags <=> i = count
    BY <2>1, <2>8
  <2>12. \A i \in 1..(count - 1) : pieces[i].to + 1 = pieces[i + 1].from
    BY <2>1, <2>2, <2>5
  <2>13. pieces[count].to = length /\ pieces[1].from = header + 1
    BY <2>1, <2>2, <2>4, <2>5, <2>6
  <2> QED
    <3>1. Len(pieces) >= 1 /\ Len(pieces) # 1 /\ Len(pieces) = count
      BY <2>2, <2>4, <2>8
    <3>2. pieces[1].from = IF codec = "hevc" THEN 3 ELSE 2
      BY <2>13
    <3>3. \A i \in DOMAIN pieces :
          /\ "start" \in pieces[i].flags <=> i = 1
          /\ "end" \in pieces[i].flags <=> i = Len(pieces)
      BY <2>11, <3>1
    <3>4. \A i \in 1..(Len(pieces) - 1) : pieces[i].to + 1 = pieces[i + 1].from
      BY <2>12, <3>1
    <3>5. pieces[Len(pieces)].to = length
      BY <2>13, <3>1
    <3>6. Joined(pieces, length, codec)
      BY <3>1, <3>2, <3>3, <3>4, <3>5, Zenon DEF Joined
    <3> QED
      BY <2>9, <2>10, <3>6
<1> QED
  BY <1>0, <1>1, <1>2

\* A packet that is sent leaves the packets to send for those written.
LEMMA MoveHead ==
    ASSUME NEW S, NEW p \in Seq(S), p # << >>, NEW w \in Seq(S)
    PROVE  /\ Head(p) \in S /\ Head(p) = p[1] /\ 1 \in DOMAIN p /\ Tail(p) \in Seq(S)
           /\ \A i \in DOMAIN Tail(p) : i + 1 \in DOMAIN p /\ Tail(p)[i] = p[i + 1]
           /\ Append(w, Head(p)) \o Tail(p) = w \o p
<1>1. /\ Len(p) \in Nat \ {0} /\ Tail(p) \in Seq(S) /\ Len(Tail(p)) = Len(p) - 1
      /\ \A i \in 1..(Len(p) - 1) : Tail(p)[i] = p[i + 1]
      /\ Head(p) = p[1] /\ Head(p) \in S /\ DOMAIN p = 1..Len(p)
      /\ DOMAIN Tail(p) = 1..(Len(p) - 1)
  OBVIOUS
<1> DEFINE moved == Append(w, Head(p))
<1>2. /\ moved \in Seq(S) /\ Len(w) \in Nat /\ Len(moved) = Len(w) + 1
      /\ \A i \in 1..Len(w) : moved[i] = w[i]
      /\ moved[Len(w) + 1] = p[1]
  BY <1>1
<1> HIDE DEF moved
<1>3. moved \o Tail(p) \in Seq(S) /\ w \o p \in Seq(S)
      /\ Len(moved \o Tail(p)) = Len(w) + Len(p) /\ Len(w \o p) = Len(w) + Len(p)
  BY <1>1, <1>2
<1>4. ASSUME NEW i \in 1..(Len(w) + Len(p))
      PROVE  (moved \o Tail(p))[i] = (w \o p)[i]
  <2>1. (w \o p)[i] = IF i <= Len(w) THEN w[i] ELSE p[i - Len(w)]
    BY <1>1, <1>2
  <2>2. (moved \o Tail(p))[i] = IF i <= Len(w) + 1 THEN moved[i] ELSE Tail(p)[i - (Len(w) + 1)]
    <3>1. PICK rest \in Seq(S) : rest = Tail(p) /\ Len(rest) = Len(p) - 1
      BY <1>1, Zenon
    <3>2. (moved \o rest)[i] = IF i <= Len(w) + 1 THEN moved[i] ELSE rest[i - (Len(w) + 1)]
      BY <1>1, <1>2, <3>1
    <3> QED
      BY <3>1, <3>2, Zenon
  <2>3. CASE i <= Len(w)
    BY <1>2, <2>1, <2>2, <2>3
  <2>4. CASE i = Len(w) + 1
    BY <1>2, <2>1, <2>2, <2>4
  <2>5. CASE i > Len(w) + 1
    <3>1. i - (Len(w) + 1) \in 1..(Len(p) - 1) /\ (i - (Len(w) + 1)) + 1 = i - Len(w)
      BY <1>1, <1>2, <2>5
    <3> QED
      BY <1>1, <1>2, <2>1, <2>2, <2>5, <3>1
  <2> QED
    BY <1>2, <2>3, <2>4, <2>5
<1>5. moved \o Tail(p) = w \o p
  BY <1>1, <1>2, <1>3, <1>4
<1> QED
  BY <1>1, <1>5 DEF moved

LEMMA WireInit ==
    ASSUME Play!Init
    PROVE  WireInv
<1>1. Len(<< >>) = 0
  OBVIOUS
<1>2. << >> \in Seq(Piece) /\ \A i \in DOMAIN << >> : FALSE
  OBVIOUS
<1>3. /\ transport = "none" /\ connected = TRUE /\ missed = FALSE
      /\ playing = Play!NoFrame /\ packets = << >> /\ written = << >>
  BY DEF Play!Init
<1>4. Fitting(packets)
  BY <1>2, <1>3 DEF Fitting
<1> QED
  BY <1>2, <1>3, <1>4, Zenon DEF WireInv

LEMMA WireKeeps ==
    ASSUME WireInv, Play!Next
    PROVE  WireInv'
<1> USE DEF WireInv
<1>1. CASE \/ \E kind \in {"video", "audio"}, step \in 0..1, again \in BOOLEAN :
                 Play!Publish(kind, step, again)
           \/ Play!CallBack \/ Play!PlayCopy \/ Play!PlayJoin \/ Play!Cleanup
           \/ Play!WorkerEnds
  <2>1. /\ UNCHANGED << transport, connected, missed, playing, packets, written >>
    BY <1>1, Zenon DEF Play!Publish, Play!CallBack, Play!PlayCopy, Play!PlayJoin, Play!Cleanup,
                Play!WorkerEnds, Play!requests, Play!workers
  <2> QED
    BY <2>1 DEF Fitting
<1>2. CASE Play!SetupUdp \/ Play!SetupTcp \/ Play!Return
  <2>1. /\ UNCHANGED << missed, playing, packets, written >>
        /\ transport' \in {"none", "udp", "tcp"} /\ (transport = "tcp" => transport' = "tcp")
        /\ connected' \in BOOLEAN /\ (~connected => ~connected')
    BY <1>2, Zenon DEF Play!SetupUdp, Play!SetupTcp, Play!Return, Play!Answering, Play!workers
  <2> QED
    BY <2>1 DEF Fitting
<1>3. CASE Play!Take
  <2>1. CASE UNCHANGED << playing, packets >>
    BY <1>3, <2>1 DEF Play!Take, Play!requests, Fitting
  <2>2. ASSUME NEW length \in NalLengths, NEW codec \in {"avc", "hevc"},
               playing' = [length |-> length, codec |-> codec],
               packets' = Play!Fragments(length, codec)
        PROVE  WireInv'
    <3>1. /\ UNCHANGED << transport, connected, missed, written >>
          /\ written = << >> /\ ~missed
      BY <1>3 DEF Play!Take, Play!requests
    <3>2. packets' \in Seq(Piece) /\ Fitting(packets')
      BY <2>2, FragmentsJoin
    <3>3. playing' \in Frame /\ playing' # Play!NoFrame
      BY <2>2, PlayNumbers DEF Frame, Play!NoFrame
    <3>4. written' \o packets' = packets'
      BY <3>1, <3>2
    <3> QED
      BY <2>2, <3>1, <3>2, <3>3, <3>4 DEF Fitting
  <2> QED
    BY <1>3, <2>1, <2>2 DEF Play!Take
<1>4. CASE Play!SendPacket \/ Play!DropPacket \/ Play!TearPacket
  <2>1. /\ packets # << >> /\ packets' = Tail(packets) /\ playing # Play!NoFrame
        /\ UNCHANGED << transport, playing >>
    BY <1>4 DEF Play!SendPacket, Play!DropPacket, Play!TearPacket, Play!requests
  <2>2. packets' \in Seq(Piece) /\ Fitting(packets')
    BY <2>1, MoveHead DEF Fitting
  <2>3. Head(packets) \in Piece /\ Head(packets).size <= MaxPayload
        /\ "torn" \notin Head(packets).flags
    BY <2>1, MoveHead DEF Fitting
  <2>4. CASE Play!SendPacket
    <3>1. /\ written' = Append(written, Head(packets))
          /\ UNCHANGED << missed, connected >>
          /\ transport = "udp" \/ connected
      BY <2>4 DEF Play!SendPacket
    <3>2. written' \in Seq(Piece) /\ written' \o packets' = written \o packets
      BY <2>1, <2>3, <3>1, MoveHead
    <3>3. \A i \in DOMAIN written' :
             written'[i].size <= MaxPayload /\ "torn" \notin written'[i].flags
      BY <2>3, <3>1
    <3> QED
      BY <2>1, <2>2, <3>1, <3>2, <3>3, Zenon
  <2>5. CASE Play!DropPacket
    <3>1. missed' = TRUE /\ UNCHANGED << written, connected >>
      BY <2>5 DEF Play!DropPacket
    <3> QED
      BY <2>1, <2>2, <3>1
  <2>6. CASE Play!TearPacket
    <3>1. PICK torn \in Piece : torn = [Head(packets) EXCEPT !.flags = {"torn"}]
      BY <2>3, Zenon DEF Piece
    <3>2. torn.size <= MaxPayload
      BY <2>3, <3>1 DEF Piece
    <3>3. /\ written' = Append(written, torn)
          /\ missed' = TRUE /\ connected' = FALSE /\ transport = "tcp" /\ connected
      BY <2>6, <3>1 DEF Play!TearPacket
    <3>4. \A i \in DOMAIN written' :
             /\ written'[i].size <= MaxPayload
             /\ "torn" \in written'[i].flags => i = Len(written')
      BY <3>2, <3>3
    <3>5. written' \in Seq(Piece)
      BY <3>3
    <3> QED
      BY <2>1, <2>2, <3>3, <3>4, <3>5, Zenon
  <2> QED
    BY <1>4, <2>4, <2>5, <2>6
<1>5. CASE Play!FrameDone
  <2>1. /\ playing' = Play!NoFrame /\ written' = << >> /\ missed' = FALSE
        /\ packets = << >> /\ UNCHANGED << transport, packets, connected >>
    BY <1>5 DEF Play!FrameDone, Play!requests
  <2>2. Len(<< >>) = 0
    OBVIOUS
  <2> QED
    BY <2>1, <2>2, Zenon DEF Fitting
<1> QED
  BY <1>1, <1>2, <1>3, <1>4, <1>5 DEF Play!Next

\* A frame on the wire is the frame, whatever its length: cut into packets that fit,
\* joined by its receiver, and nothing behind a torn one (rtsp_play_server.cpp, send_nal and
\* send_packet).
THEOREM FrameOnWireHolds ==
    Spec => []FrameOnWire
<1> DEFINE Inv == part = "play" => WireInv
<1>1. Init => Inv
  BY InitOfPart, WireInit
<1>2. Inv /\ [Next]_allVars => Inv'
  <2> SUFFICES ASSUME part = "play", WireInv, [Next]_allVars PROVE WireInv'
    BY StepOfPart
  <2>1. CASE UNCHANGED playVs
    BY <2>1 DEF playVs, WireInv, Fitting
  <2> QED
    BY <2>1, WireKeeps, StepOfPart
<1>3. Inv => FrameOnWire
  <2> SUFFICES ASSUME part = "play", WireInv PROVE Play!FrameOnWire
    BY DEF FrameOnWire
  <2>1. \A i \in DOMAIN written :
           /\ written[i].size <= MaxPayload
           /\ "torn" \in written[i].flags => i = Len(written)
    BY DEF WireInv
  <2>2. ASSUME playing # Play!NoFrame, packets = << >>, ~missed
        PROVE  Joined(written, playing.length, playing.codec)
    <3>1. written = Play!Fragments(playing.length, playing.codec)
      <4>1. written \in Seq(Piece) /\ written \o packets = written
        BY <2>2 DEF WireInv
      <4> QED
        BY <2>2, <4>1 DEF WireInv
    <3>2. playing.length \in NalLengths /\ playing.codec \in {"avc", "hevc"}
      BY <2>2 DEF WireInv, Frame
    <3> QED
      BY <3>1, <3>2, FragmentsJoin
  <2> QED
    BY <2>1, <2>2 DEF Play!FrameOnWire, Joined
<1> QED
  BY <1>1, <1>2, <1>3, PTL DEF Spec, allVars

\* Of a message, and of the queues: their messages are those that were published, and in
\* that order.
Shown == [n : Nat, kind : {"video", "audio"}, ts : Nat]

FromStream(queue) ==
    /\ queue \in Seq(Shown)
    /\ \A k \in DOMAIN queue : queue[k].n \in DOMAIN published /\ queue[k] = published[queue[k].n]

Ascending(queue) == \A k, l \in DOMAIN queue : k < l => queue[k].n < queue[l].n

\* Timestamps of a kind do not go back but where they begin again.
StreamInv ==
    /\ published \in Seq(Shown) /\ restart \in 0..Len(published)
    /\ \A i \in DOMAIN published : published[i].n = i
    /\ \A i, j \in DOMAIN published :
          i < j /\ published[i].kind = published[j].kind /\ restart \notin (i + 1)..j
             => published[i].ts <= published[j].ts

\* PLAY joins once, and before it nothing is queued.
QueuesInv ==
    /\ handler \in {"open", "cached", "join", "close", "returned"} /\ listed \in BOOLEAN
    /\ FromStream(cached) /\ Ascending(cached)
    /\ FromStream(pending) /\ Ascending(pending)
    /\ FromStream(inFlight) /\ Ascending(inFlight)
    /\ FromStream(played)
    /\ \A k \in DOMAIN pending, l \in DOMAIN inFlight : pending[k].n < inFlight[l].n
    /\ handler = "cached" => ~listed
    /\ (handler = "open" /\ ~listed) \/ handler = "cached" =>
          pending = << >> /\ inFlight = << >> /\ played = << >>

\* What was played comes before what waits.
PlayedBefore(queue) ==
    \A i \in DOMAIN played, k \in DOMAIN queue :
        /\ played[i].kind = queue[k].kind
        /\ restart \notin (queue[k].n + 1)..played[i].n
        => played[i].n < queue[k].n

OrderInv ==
    /\ StreamInv /\ QueuesInv /\ Play!PlayedInOrder
    /\ PlayedBefore(pending) /\ PlayedBefore(inFlight)

\* The message that min_element finds: none is earlier, and those before it are later.
LEMMA EarliestFound ==
    ASSUME NEW queue \in Seq(Shown), queue # << >>
    PROVE  /\ Play!Earliest(queue) \in DOMAIN queue
           /\ \A j \in DOMAIN queue : j < Play!Earliest(queue) =>
                 queue[Play!Earliest(queue)].ts < queue[j].ts
<1>1. /\ DOMAIN queue = 1..Len(queue) /\ Len(queue) \in Nat \ {0}
      /\ \A i \in DOMAIN queue : queue[i].ts \in Nat
  <2>1. DOMAIN queue = 1..Len(queue) /\ Len(queue) \in Nat \ {0}
    OBVIOUS
  <2>2. \A i \in DOMAIN queue : queue[i] \in Shown
    BY <2>1
  <2> QED
    BY <2>1, <2>2 DEF Shown
<1>2. PICK i \in DOMAIN queue : \A j \in DOMAIN queue :
         queue[i].ts < queue[j].ts \/ (queue[i].ts = queue[j].ts /\ i <= j)
  <2> DEFINE stamps == {queue[i].ts : i \in DOMAIN queue}
  <2>1. stamps \in SUBSET Nat /\ stamps # {}
    BY <1>1
  <2> HIDE DEF stamps
  <2>2. PICK t \in stamps : \A y \in stamps : t <= y
    BY <2>1, Least
  <2> DEFINE first == {i \in DOMAIN queue : queue[i].ts = t}
  <2>3. first \in SUBSET Nat /\ first # {}
    BY <1>1, <2>2 DEF stamps
  <2> HIDE DEF first
  <2>4. PICK i \in first : \A y \in first : i <= y
    BY <2>3, Least
  <2>5. i \in DOMAIN queue /\ queue[i].ts = t
    BY DEF first
  <2>6. \A j \in DOMAIN queue : t <= queue[j].ts /\ (queue[j].ts = t => i <= j)
    BY <2>2, <2>4 DEF stamps, first
  <2> QED
    BY <1>1, <2>1, <2>2, <2>5, <2>6
<1>3. /\ Play!Earliest(queue) \in DOMAIN queue
      /\ \A j \in DOMAIN queue :
            \/ queue[Play!Earliest(queue)].ts < queue[j].ts
            \/ queue[Play!Earliest(queue)].ts = queue[j].ts /\ Play!Earliest(queue) <= j
  BY <1>2, Zenon DEF Play!Earliest
<1> QED
  BY <1>1, <1>3

\* Taking one message out of a queue leaves the others in order.
LEMMA OthersStay ==
    ASSUME NEW S, NEW s \in Seq(S), NEW i \in DOMAIN s
    PROVE  /\ Play!Without(s, i) \in Seq(S)
           /\ DOMAIN Play!Without(s, i) = 1..(Len(s) - 1)
           /\ \A k \in 1..(Len(s) - 1) :
                 Play!Without(s, i)[k] = IF k < i THEN s[k] ELSE s[k + 1]
<1>1. Len(s) \in Nat /\ i \in 1..Len(s) /\ DOMAIN s = 1..Len(s)
  OBVIOUS
<1>2. PICK a, b : a = SubSeq(s, 1, i - 1) /\ b = SubSeq(s, i + 1, Len(s))
  BY Zenon
<1>3. /\ a \in Seq(S) /\ Len(a) = i - 1 /\ \A k \in 1..(i - 1) : a[k] = s[k]
  BY <1>1, <1>2
<1>4. /\ b \in Seq(S) /\ Len(b) = Len(s) - i
      /\ \A k \in 1..(Len(s) - i) : b[k] = s[k + i]
  BY <1>1, <1>2
<1>5. /\ a \o b \in Seq(S) /\ Len(a \o b) = Len(s) - 1
      /\ \A k \in 1..(Len(s) - 1) :
            (a \o b)[k] = IF k <= i - 1 THEN a[k] ELSE b[k - (i - 1)]
  <2>1. /\ a \o b \in Seq(S) /\ Len(a \o b) = Len(a) + Len(b)
        /\ \A k \in 1..(Len(a) + Len(b)) :
              (a \o b)[k] = IF k <= Len(a) THEN a[k] ELSE b[k - Len(a)]
    BY <1>3, <1>4, ConcatPlaces, Zenon
  <2> QED
    BY <1>1, <1>3, <1>4, <2>1, SMTT(60)
<1>6. ASSUME NEW k \in 1..(Len(s) - 1)
      PROVE  (a \o b)[k] = IF k < i THEN s[k] ELSE s[k + 1]
  <2>1. CASE k < i
    <3>1. k <= i - 1 /\ k \in 1..(i - 1)
      BY <1>1, <2>1
    <3>2. (a \o b)[k] = a[k]
      BY <1>5, <3>1
    <3> QED
      BY <1>3, <2>1, <3>1, <3>2
  <2>2. CASE ~(k < i)
    <3>1. /\ ~(k <= i - 1) /\ k - (i - 1) \in 1..(Len(s) - i)
          /\ (k - (i - 1)) + i = k + 1
      BY <1>1, <2>2
    <3>2. (a \o b)[k] = b[k - (i - 1)]
      BY <1>5, <3>1, Zenon
    <3>3. b[k - (i - 1)] = s[k + 1]
      BY <1>4, <3>1
    <3> QED
      BY <2>2, <3>2, <3>3
  <2> QED
    BY <2>1, <2>2, Zenon
<1>7. Play!Without(s, i) = a \o b
  BY <1>2 DEF Play!Without
<1>8. PICK others : others = a \o b
  BY Zenon
<1>9. /\ others \in Seq(S) /\ DOMAIN others = 1..(Len(s) - 1)
      /\ \A k \in 1..(Len(s) - 1) : others[k] = IF k < i THEN s[k] ELSE s[k + 1]
  <2>1. others \in Seq(S) /\ Len(others) = Len(s) - 1
    BY <1>5, <1>8
  <2> QED
    BY <1>6, <1>8, <2>1
<1> QED
  BY <1>7, <1>8, <1>9

LEMMA OrderInit ==
    ASSUME Play!Init
    PROVE  OrderInv
<1>1. << >> \in Seq(Shown) /\ (\A i \in DOMAIN << >> : FALSE) /\ Len(<< >>) = 0
  OBVIOUS
<1>2. /\ published = << >> /\ restart = 0 /\ handler = "open" /\ listed = FALSE
      /\ cached = << >> /\ pending = << >> /\ inFlight = << >> /\ played = << >>
  BY DEF Play!Init
<1>3. StreamInv
  BY <1>1, <1>2 DEF StreamInv
<1>4. QueuesInv
  BY <1>1, <1>2, Zenon DEF QueuesInv, FromStream, Ascending
<1> QED
  BY <1>1, <1>2, <1>3, <1>4 DEF OrderInv, PlayedBefore, Play!PlayedInOrder

\* The last of the messages of a kind, since timestamps began.
LEMMA LastTsIsLast ==
    ASSUME StreamInv, NEW kind \in {"video", "audio"}
    PROVE  /\ Play!LastTs(kind) \in Nat
           /\ \A i \in DOMAIN published :
                 i >= restart /\ published[i].kind = kind => published[i].ts <= Play!LastTs(kind)
<1> DEFINE same == {i \in DOMAIN published : i >= restart /\ published[i].kind = kind}
<1>1. /\ Play!LastTs(kind) = IF same = {} THEN 0 ELSE published[Play!Max(same)].ts
      /\ DOMAIN published = 1..Len(published) /\ Len(published) \in Nat /\ restart \in Nat
      /\ \A i \in DOMAIN published : published[i].ts \in Nat
  <2>1. DOMAIN published = 1..Len(published) /\ Len(published) \in Nat /\ restart \in Nat
    BY DEF StreamInv
  <2>2. \A i \in DOMAIN published : published[i] \in Shown
    BY <2>1 DEF StreamInv
  <2> QED
    BY <2>1, <2>2 DEF Play!LastTs, Shown
<1>2. CASE same = {}
  BY <1>1, <1>2
<1>3. CASE same # {}
  <2>1. \E x \in same : \A y \in same : y <= x
    <3>1. same \in SUBSET (0..Len(published))
      BY <1>1
    <3> HIDE DEF same
    <3> QED
      BY <1>1, <1>3, <3>1, Greatest, Zenon
  <2>2. same \subseteq Nat
    BY <1>1
  <2>3. Play!Max(same) \in same /\ \A y \in same : y <= Play!Max(same)
    <3> HIDE DEF same
    <3>1. \E x \in same : \A y \in same : x >= y
      BY <2>1, <2>2
    <3>2. Play!Max(same) \in same /\ \A y \in same : Play!Max(same) >= y
      BY <3>1 DEF Play!Max
    <3> QED
      BY <2>2, <3>2
  <2>4. PICK last : last = Play!Max(same)
    OBVIOUS
  <2>5. ASSUME NEW i \in DOMAIN published, i >= restart, published[i].kind = kind
        PROVE  published[i].ts <= published[last].ts
    <3>1. i \in same /\ i <= last /\ last \in DOMAIN published /\ published[last].kind = kind
      BY <2>3, <2>4, <2>5
    <3>2. restart \notin (i + 1)..last
      BY <1>1, <2>5
    <3> QED
      BY <1>1, <3>1, <3>2 DEF StreamInv
  <2> QED
    BY <1>1, <1>3, <2>3, <2>4, <2>5
<1> QED
  BY <1>2, <1>3

LEMMA OrderKeeps ==
    ASSUME OrderInv, Play!Next
    PROVE  OrderInv'
<1> USE DEF OrderInv
<1>0. /\ DOMAIN published = 1..Len(published) /\ Len(published) \in Nat /\ restart \in Nat
      /\ restart <= Len(published)
  BY DEF StreamInv
<1>1. ASSUME UNCHANGED << published, restart >>
      PROVE  StreamInv' /\ \A queue : FromStream(queue) => FromStream(queue)'
  BY <1>1 DEF StreamInv, FromStream
<1>2. ASSUME NEW kind \in {"video", "audio"}, NEW step \in 0..1, NEW again \in BOOLEAN,
             Play!Publish(kind, step, again)
      PROVE  OrderInv'
  <2>1. PICK m \in Shown :
           /\ m.n = Len(published) + 1 /\ m.kind = kind
           /\ again \/ m.ts = Play!LastTs(kind) + step
           /\ published' = Append(published, m)
           /\ restart' = IF again THEN Len(published) + 1 ELSE restart
           /\ again => restart = 0
           /\ inFlight' = IF listed THEN Append(inFlight, m) ELSE inFlight
           /\ handler # "returned"
           /\ UNCHANGED << handler, cached, listed, pending, played >>
    <3>1. Play!LastTs(kind) \in Nat
      BY LastTsIsLast
    <3>2. [n |-> Len(published) + 1, kind |-> kind,
           ts |-> IF again THEN 0 ELSE Play!LastTs(kind) + step] \in Shown
      BY <1>0, <3>1 DEF Shown
    <3> QED
      BY <1>2, <3>2 DEF Play!Publish, Play!requests, Play!workers
  <2>2. /\ published' \in Seq(Shown) /\ Len(published') = Len(published) + 1
        /\ DOMAIN published' = 1..(Len(published) + 1)
        /\ published'[Len(published) + 1] = m
        /\ \A i \in DOMAIN published : published'[i] = published[i]
    BY <1>0, <2>1 DEF StreamInv
  <2>3. \A i, j \in DOMAIN published : restart \in (i + 1)..j => restart' \in (i + 1)..j
    BY <1>0, <2>1
  <2>4. StreamInv'
    <3>1. restart' \in 0..Len(published')
      BY <1>0, <2>1, <2>2
    <3>2. \A i \in DOMAIN published' : published'[i].n = i
      BY <1>0, <2>1, <2>2 DEF StreamInv
    <3>3. ASSUME NEW i \in DOMAIN published', NEW j \in DOMAIN published', i < j,
                 published'[i].kind = published'[j].kind, restart' \notin (i + 1)..j
          PROVE  published'[i].ts <= published'[j].ts
      <4>1. CASE j \in DOMAIN published
        BY <1>0, <2>2, <2>3, <3>3, <4>1 DEF StreamInv
      <4>2. CASE j = Len(published) + 1
        <5>1. i \in DOMAIN published /\ published'[i] = published[i] /\ published[i].kind = kind
          BY <1>0, <2>1, <2>2, <3>3, <4>2
        <5>2. ~again /\ restart <= i
          BY <1>0, <2>1, <3>3, <4>2, <5>1
        <5>3. published[i].ts <= Play!LastTs(kind) /\ Play!LastTs(kind) \in Nat
          BY <1>0, <5>1, <5>2, LastTsIsLast
        <5>4. published[i].ts \in Nat
          <6>1. published[i] \in Shown
            BY <1>0, <5>1 DEF StreamInv
          <6> QED
            BY <6>1 DEF Shown
        <5> QED
          BY <2>1, <2>2, <4>2, <5>1, <5>2, <5>3, <5>4
      <4> QED
        BY <1>0, <2>2, <4>1, <4>2
    <3> QED
      BY <2>2, <3>1, <3>2, <3>3 DEF StreamInv
  <2>5. \A queue : FromStream(queue) => FromStream(queue)'
    BY <1>0, <2>2 DEF FromStream
  <2>6. /\ FromStream(inFlight)' /\ Ascending(inFlight)'
        /\ \A k \in DOMAIN inFlight' :
              \/ k \in DOMAIN inFlight /\ inFlight'[k] = inFlight[k]
              \/ listed /\ inFlight'[k] = m
    <3>1. CASE ~listed
      <4>1. inFlight' = inFlight
        BY <2>1, <3>1
      <4>2. FromStream(inFlight) /\ Ascending(inFlight)
        BY DEF QueuesInv
      <4>3. FromStream(inFlight)'
        BY <1>0, <2>2, <4>1, <4>2 DEF FromStream
      <4> QED
        BY <4>1, <4>2, <4>3 DEF Ascending
    <3>2. CASE listed
      <4>1. /\ inFlight \in Seq(Shown) /\ inFlight' \in Seq(Shown)
            /\ DOMAIN inFlight' = 1..(Len(inFlight) + 1) /\ DOMAIN inFlight = 1..Len(inFlight)
            /\ Len(inFlight) \in Nat
            /\ \A k \in DOMAIN inFlight : inFlight'[k] = inFlight[k]
            /\ inFlight'[Len(inFlight) + 1] = m
        BY <2>1, <3>2 DEF QueuesInv, FromStream
      <4>2. \A k \in DOMAIN inFlight : inFlight[k].n < m.n
        BY <1>0, <2>1 DEF QueuesInv, FromStream
      <4>3. Ascending(inFlight)'
        BY <4>1, <4>2 DEF QueuesInv, Ascending
      <4>4. FromStream(inFlight)'
        BY <1>0, <2>1, <2>2, <4>1 DEF QueuesInv, FromStream
      <4>5. \A k \in DOMAIN inFlight' : k \in DOMAIN inFlight \/ k = Len(inFlight) + 1
        BY <4>1
      <4> QED
        BY <3>2, <4>1, <4>3, <4>4, <4>5
    <3> QED
      BY <3>1, <3>2
  <2>7. \A k \in DOMAIN pending : pending[k].n < m.n
    BY <1>0, <2>1 DEF QueuesInv, FromStream
  <2>8. QueuesInv'
    <3>1. /\ handler' \in {"open", "cached", "join", "close", "returned"} /\ listed' \in BOOLEAN
          /\ FromStream(cached)' /\ Ascending(cached)' /\ FromStream(pending)'
          /\ Ascending(pending)' /\ FromStream(played)'
          /\ handler' = "cached" => ~listed'
      BY <2>1, <2>5 DEF QueuesInv, Ascending
    <3>2. (handler' = "open" /\ ~listed') \/ handler' = "cached" =>
             pending' = << >> /\ inFlight' = << >> /\ played' = << >>
      BY <2>1 DEF QueuesInv
    <3>3. \A k \in DOMAIN pending', l \in DOMAIN inFlight' : pending'[k].n < inFlight'[l].n
      BY <2>1, <2>6, <2>7 DEF QueuesInv
    <3> QED
      BY <2>6, <3>1, <3>2, <3>3 DEF QueuesInv
  <2>9. ASSUME NEW a \in Shown, NEW b \in Shown, a.n \in DOMAIN published, b.n \in DOMAIN published,
               restart' \notin (b.n + 1)..a.n
        PROVE  restart \notin (b.n + 1)..a.n
    BY <2>3, <2>9
  <2>10. /\ \A i \in DOMAIN played : played[i] \in Shown /\ played[i].n \in DOMAIN published
         /\ \A k \in DOMAIN pending : pending[k] \in Shown /\ pending[k].n \in DOMAIN published
         /\ \A k \in DOMAIN inFlight : inFlight[k] \in Shown /\ inFlight[k].n \in DOMAIN published
    <3>1. \A s \in Seq(Shown) : \A i \in DOMAIN s : s[i] \in Shown
      OBVIOUS
    <3> QED
      BY <3>1 DEF QueuesInv, FromStream
  <2>11. Play!PlayedInOrder'
    BY <2>1, <2>9, <2>10 DEF Play!PlayedInOrder
  <2>12. PlayedBefore(pending)'
    BY <2>1, <2>9, <2>10 DEF PlayedBefore
  <2>13. PlayedBefore(inFlight)'
    <3> SUFFICES ASSUME NEW i \in DOMAIN played, NEW k \in DOMAIN inFlight',
                        played[i].kind = inFlight'[k].kind,
                        restart' \notin (inFlight'[k].n + 1)..played[i].n
                 PROVE  played[i].n < inFlight'[k].n
      BY <2>1 DEF PlayedBefore
    <3>1. CASE k \in DOMAIN inFlight /\ inFlight'[k] = inFlight[k]
      BY <2>9, <2>10, <3>1 DEF PlayedBefore
    <3>2. CASE inFlight'[k] = m
      BY <1>0, <2>1, <2>10, <3>2
    <3> QED
      BY <2>6, <3>1, <3>2
  <2> QED
    BY <2>4, <2>8, <2>11, <2>12, <2>13
<1>3. CASE Play!CallBack
  <2>1. /\ inFlight # << >> /\ inFlight' = Tail(inFlight)
        /\ UNCHANGED << published, restart, handler, cached, listed, played >>
        /\ pending' = pending \/ pending' = Append(pending, Head(inFlight))
    BY <1>3 DEF Play!CallBack, Play!stream, Play!requests, Play!workers
  <2>2. /\ inFlight \in Seq(Shown) /\ pending \in Seq(Shown)
        /\ DOMAIN inFlight = 1..Len(inFlight) /\ DOMAIN pending = 1..Len(pending)
        /\ Len(inFlight) \in Nat /\ Len(pending) \in Nat
    BY DEF QueuesInv, FromStream
  <2>3. /\ inFlight' \in Seq(Shown) /\ Head(inFlight) = inFlight[1] /\ 1 \in DOMAIN inFlight
        /\ inFlight[1] \in Shown
        /\ \A k \in DOMAIN inFlight' : k \in Nat \ {0} /\ k + 1 \in DOMAIN inFlight
                                       /\ inFlight'[k] = inFlight[k + 1]
    BY <2>1, <2>2, MoveHead
  <2>4. FromStream(inFlight)' /\ Ascending(inFlight)'
    <3>1. Ascending(inFlight)'
      BY <2>2, <2>3, SMTT(60) DEF QueuesInv, Ascending
    <3>2. FromStream(inFlight)'
      BY <2>1, <2>3 DEF QueuesInv, FromStream
    <3> QED
      BY <3>1, <3>2
  <2>5. /\ pending' \in Seq(Shown)
        /\ \A k \in DOMAIN pending' :
              \/ k \in DOMAIN pending /\ pending'[k] = pending[k]
              \/ k = Len(pending) + 1 /\ pending'[k] = inFlight[1]
    <3>1. CASE pending' = pending
      BY <2>2, <3>1
    <3>2. CASE pending' = Append(pending, Head(inFlight))
      BY <2>2, <2>3, <3>2
    <3> QED
      BY <2>1, <3>1, <3>2
  <2>6. FromStream(pending)' /\ Ascending(pending)'
    <3>1. Ascending(pending)'
      BY <2>2, <2>3, <2>5, SMTT(60) DEF QueuesInv, Ascending
    <3>2. FromStream(pending)'
      BY <2>1, <2>3, <2>5 DEF QueuesInv, FromStream
    <3> QED
      BY <3>1, <3>2
  <2>7. \A k \in DOMAIN pending', l \in DOMAIN inFlight' : pending'[k].n < inFlight'[l].n
    <3> SUFFICES ASSUME NEW k \in DOMAIN pending', NEW l \in DOMAIN inFlight'
                 PROVE  pending'[k].n < inFlight'[l].n
      OBVIOUS
    <3>1. /\ l + 1 \in DOMAIN inFlight /\ 1 < l + 1 /\ inFlight'[l] = inFlight[l + 1]
          /\ 1 \in DOMAIN inFlight
      BY <2>3
    <3>2. CASE k \in DOMAIN pending /\ pending'[k] = pending[k]
      BY <3>1, <3>2 DEF QueuesInv
    <3>3. CASE pending'[k] = inFlight[1]
      BY <3>1, <3>3 DEF QueuesInv, Ascending
    <3> QED
      BY <2>5, <3>2, <3>3
  <2>8. QueuesInv'
    <3>1. FromStream(cached)' /\ Ascending(cached)' /\ FromStream(played)'
      BY <1>1, <2>1 DEF QueuesInv, Ascending, FromStream
    <3>2. ~((handler' = "open" /\ ~listed') \/ handler' = "cached")
      BY <2>1 DEF QueuesInv
    <3> QED
      BY <2>1, <2>4, <2>6, <2>7, <3>1, <3>2 DEF QueuesInv
  <2>9. PlayedBefore(pending)' /\ PlayedBefore(inFlight)'
    <3>1. ASSUME NEW k \in DOMAIN pending'
          PROVE  \/ \E l \in DOMAIN pending : pending'[k] = pending[l]
                 \/ \E l \in DOMAIN inFlight : pending'[k] = inFlight[l]
      BY <2>3, <2>5
    <3>2. ASSUME NEW k \in DOMAIN inFlight'
          PROVE  \E l \in DOMAIN inFlight : inFlight'[k] = inFlight[l]
      BY <2>3
    <3>3. PlayedBefore(pending)'
      BY <2>1, <3>1 DEF PlayedBefore
    <3>4. PlayedBefore(inFlight)'
      BY <2>1, <3>2 DEF PlayedBefore
    <3> QED
      BY <3>3, <3>4
  <2>10. StreamInv' /\ Play!PlayedInOrder'
    BY <1>1, <2>1 DEF Play!PlayedInOrder
  <2> QED
    BY <2>8, <2>9, <2>10
<1>4. CASE Play!PlayCopy
  <2>1. /\ handler = "open" /\ ~listed /\ handler' = "cached"
        /\ cached' = SubSeq(published, Play!Max({1, Len(published) - CacheLen + 1}), Len(published))
        /\ UNCHANGED << published, restart, listed, pending, inFlight, played >>
    BY <1>4 DEF Play!PlayCopy, Play!Answering, Play!stream, Play!feeding, Play!workers
  <2>2. PICK from \in Nat \ {0} : from = Play!Max({1, Len(published) - CacheLen + 1})
    <3>1. CacheLen \in Nat
      BY PlayAssumption DEF Play!PlayBounds
    <3>2. \E x \in {1, Len(published) - CacheLen + 1} :
             \A y \in {1, Len(published) - CacheLen + 1} : x >= y
      BY <1>0, <3>1
    <3>3. /\ Play!Max({1, Len(published) - CacheLen + 1}) \in {1, Len(published) - CacheLen + 1}
          /\ \A y \in {1, Len(published) - CacheLen + 1} :
                Play!Max({1, Len(published) - CacheLen + 1}) >= y
      BY <3>2 DEF Play!Max
    <3> QED
      BY <1>0, <3>1, <3>3
  <2>3. /\ cached' \in Seq(Shown)
        /\ \A k \in DOMAIN cached' : /\ k \in Nat /\ k + from - 1 \in DOMAIN published
                                     /\ cached'[k] = published[k + from - 1]
    <3>1. PICK copy : copy = SubSeq(published, from, Len(published))
      BY Zenon
    <3>2. published \in Seq(Shown)
      BY DEF StreamInv
    <3>3. /\ copy \in Seq(Shown)
          /\ Len(copy) = IF from <= Len(published) THEN Len(published) - from + 1 ELSE 0
          /\ \A k \in 1..(Len(published) - from + 1) : copy[k] = published[from + k - 1]
      <4>1. copy \in Seq(Shown)
        BY <3>1, <3>2, EndOfSeq
      <4>2. Len(copy) = IF from <= Len(published) THEN Len(published) - from + 1 ELSE 0
        BY <3>1, <3>2, EndOfSeq
      <4>3. \A k \in 1..(Len(published) - from + 1) : copy[k] = published[from + k - 1]
        BY <3>1, <3>2, EndOfSeq
      <4> QED
        BY <4>1, <4>2, <4>3
    <3>4. DOMAIN copy = 1..Len(copy)
      BY <3>3
    <3>5. cached' = copy
      BY <2>1, <2>2, <3>1
    <3>6. ASSUME NEW k \in DOMAIN copy
          PROVE  /\ k \in Nat /\ k + from - 1 \in DOMAIN published
                 /\ copy[k] = published[k + from - 1]
      <4>1. k \in 1..(Len(published) - from + 1) /\ from + k - 1 = k + from - 1
        BY <1>0, <2>2, <3>3, <3>4
      <4>2. k \in Nat /\ k + from - 1 \in 1..Len(published)
        BY <1>0, <2>2, <4>1
      <4>3. copy[k] = published[from + k - 1]
        BY <3>3, <4>1, Zenon
      <4> QED
        BY <1>0, <4>1, <4>2, <4>3
    <3> QED
      BY <3>3, <3>5, <3>6
  <2>4. FromStream(cached)' /\ Ascending(cached)'
    <3>1. \A k \in DOMAIN cached' : cached'[k].n = k + from - 1
      BY <2>3 DEF StreamInv
    <3>2. Ascending(cached)'
      <4> SUFFICES ASSUME NEW k \in DOMAIN cached', NEW l \in DOMAIN cached', k < l
                   PROVE  cached'[k].n < cached'[l].n
        BY DEF Ascending
      <4>1. k \in Nat /\ l \in Nat /\ cached'[k].n = k + from - 1 /\ cached'[l].n = l + from - 1
        BY <2>3, <3>1
      <4> QED
        BY <2>2, <4>1
    <3>3. FromStream(cached)'
      BY <2>1, <2>3, <3>1, Zenon DEF FromStream
    <3> QED
      BY <3>2, <3>3
  <2>5. /\ FromStream(pending)' /\ Ascending(pending)' /\ FromStream(inFlight)'
        /\ Ascending(inFlight)' /\ FromStream(played)'
    BY <2>1 DEF QueuesInv, Ascending, FromStream
  <2>6. QueuesInv'
    BY <2>1, <2>4, <2>5 DEF QueuesInv
  <2> QED
    BY <1>1, <2>1, <2>6 DEF Play!PlayedInOrder, PlayedBefore
<1>5. CASE Play!PlayJoin
  <2>1. /\ handler = "cached" /\ handler' = "open" /\ listed' = TRUE
        /\ pending' = cached /\ cached' = << >>
        /\ UNCHANGED << published, restart, inFlight, played >>
    BY <1>5 DEF Play!PlayJoin, Play!stream, Play!workers
  <2>2. /\ DOMAIN inFlight = {} /\ DOMAIN played = {} /\ DOMAIN cached' = {}
        /\ cached' \in Seq(Shown)
    BY <2>1 DEF QueuesInv
  <2>3. /\ FromStream(cached)' /\ Ascending(cached)' /\ FromStream(pending)'
        /\ Ascending(pending)' /\ FromStream(inFlight)' /\ Ascending(inFlight)'
        /\ FromStream(played)'
    BY <2>1, <2>2 DEF QueuesInv, Ascending, FromStream
  <2>4. QueuesInv'
    BY <2>1, <2>2, <2>3 DEF QueuesInv
  <2> QED
    BY <1>1, <2>1, <2>2, <2>4 DEF Play!PlayedInOrder, PlayedBefore
<1>6. CASE Play!Take
  <2>1. PICK i : /\ i = Play!Earliest(pending) /\ pending # << >>
                 /\ played' = Append(played, pending[i])
                 /\ pending' = Play!Without(pending, i)
                 /\ UNCHANGED << published, restart, handler, cached, listed, inFlight >>
    BY <1>6 DEF Play!Take, Play!stream, Play!requests, Play!feeding
  <2>2. /\ pending \in Seq(Shown) /\ DOMAIN pending = 1..Len(pending) /\ Len(pending) \in Nat
        /\ played \in Seq(Shown) /\ DOMAIN played = 1..Len(played) /\ Len(played) \in Nat
        /\ \A k \in DOMAIN pending : pending[k] \in Shown
        /\ \A k \in DOMAIN played : played[k] \in Shown
    BY DEF QueuesInv, FromStream
  <2>3. /\ i \in DOMAIN pending
        /\ \A j \in DOMAIN pending : j < i => pending[i].ts < pending[j].ts
    BY <2>1, <2>2, EarliestFound
  <2>4. /\ pending' \in Seq(Shown)
        /\ \A k \in DOMAIN pending' :
              \/ k < i /\ k \in DOMAIN pending /\ pending'[k] = pending[k]
              \/ k >= i /\ k + 1 \in DOMAIN pending /\ k \in Nat /\ pending'[k] = pending[k + 1]
    <3>1. /\ pending' \in Seq(Shown) /\ DOMAIN pending' = 1..(Len(pending) - 1)
          /\ \A k \in 1..(Len(pending) - 1) :
                pending'[k] = IF k < i THEN pending[k] ELSE pending[k + 1]
      BY <2>1, <2>2, <2>3, OthersStay
    <3> QED
      BY <2>2, <2>3, <3>1
  <2>5. /\ played' \in Seq(Shown)
        /\ \A k \in DOMAIN played' :
              \/ k \in DOMAIN played /\ played'[k] = played[k]
              \/ k = Len(played) + 1 /\ played'[k] = pending[i]
    BY <2>1, <2>2, <2>3
  <2>6. FromStream(pending)' /\ Ascending(pending)' /\ FromStream(played)'
    <3>1. Ascending(pending)'
      <4> SUFFICES ASSUME NEW k \in DOMAIN pending', NEW l \in DOMAIN pending', k < l
                   PROVE  pending'[k].n < pending'[l].n
        BY DEF Ascending
      <4>1. /\ DOMAIN pending \subseteq Nat /\ k \in Nat /\ l \in Nat /\ i \in Nat
        BY <2>2, <2>3, <2>4
      <4>2. PICK a \in DOMAIN pending, b \in DOMAIN pending :
               a < b /\ pending'[k] = pending[a] /\ pending'[l] = pending[b]
        <5>1. CASE l < i
          BY <2>4, <4>1, <5>1
        <5>2. CASE l >= i
          BY <2>4, <4>1, <5>2
        <5> QED
          BY <4>1, <5>1, <5>2
      <4> QED
        BY <4>2 DEF QueuesInv, Ascending
    <3>2. FromStream(pending)'
      BY <2>1, <2>4, ZenonT(60) DEF QueuesInv, FromStream
    <3>3. FromStream(played)'
      BY <2>1, <2>3, <2>5 DEF QueuesInv, FromStream
    <3> QED
      BY <3>1, <3>2, <3>3
  <2>7. QueuesInv'
    <3>1. /\ FromStream(cached)' /\ Ascending(cached)' /\ FromStream(inFlight)'
          /\ Ascending(inFlight)'
      BY <2>1 DEF QueuesInv, Ascending, FromStream
    <3>2. \A k \in DOMAIN pending', l \in DOMAIN inFlight' : pending'[k].n < inFlight'[l].n
      BY <2>1, <2>4 DEF QueuesInv
    <3>3. ~((handler' = "open" /\ ~listed') \/ handler' = "cached")
      BY <2>1 DEF QueuesInv
    <3> QED
      BY <2>1, <2>6, <3>1, <3>2, <3>3 DEF QueuesInv
  <2>8. Play!PlayedInOrder'
    BY <2>1, <2>2, <2>3, <2>5 DEF Play!PlayedInOrder, PlayedBefore
  <2>9. ASSUME NEW j \in DOMAIN pending, j # i, pending[i].kind = pending[j].kind,
               restart \notin (pending[j].n + 1)..pending[i].n
        PROVE  pending[i].n < pending[j].n
    <3>1. CASE i < j
      BY <2>3, <3>1 DEF QueuesInv, Ascending
    <3>2. CASE j < i
      <4>1. /\ pending[j].n < pending[i].n /\ pending[i].ts < pending[j].ts
            /\ pending[i].ts \in Nat /\ pending[j].ts \in Nat
        BY <2>2, <2>3, <3>2 DEF QueuesInv, Ascending, Shown
      <4>2. /\ pending[i] = published[pending[i].n] /\ pending[i].n \in DOMAIN published
            /\ pending[j] = published[pending[j].n] /\ pending[j].n \in DOMAIN published
        BY <2>3 DEF QueuesInv, FromStream
      <4>3. pending[j].ts <= pending[i].ts
        BY <2>9, <4>1, <4>2 DEF StreamInv
      <4> QED
        BY <4>1, <4>3
    <3> QED
      BY <2>2, <2>3, <2>9, <3>1, <3>2
  <2>10. PlayedBefore(pending)'
    <3> SUFFICES ASSUME NEW p \in DOMAIN played', NEW k \in DOMAIN pending',
                        played'[p].kind = pending'[k].kind,
                        restart \notin (pending'[k].n + 1)..played'[p].n
                 PROVE  played'[p].n < pending'[k].n
      BY <2>1 DEF PlayedBefore
    <3>1. PICK j \in DOMAIN pending : j # i /\ pending'[k] = pending[j]
      BY <2>2, <2>3, <2>4
    <3>2. CASE p \in DOMAIN played /\ played'[p] = played[p]
      BY <3>1, <3>2 DEF PlayedBefore
    <3>3. CASE played'[p] = pending[i]
      BY <2>9, <3>1, <3>3
    <3> QED
      BY <2>5, <3>2, <3>3
  <2>11. PlayedBefore(inFlight)'
    BY <2>1, <2>3, <2>5 DEF PlayedBefore, QueuesInv
  <2> QED
    BY <1>1, <2>1, <2>7, <2>8, <2>10, <2>11
<1>7. CASE \/ Play!SetupUdp \/ Play!SetupTcp \/ Play!Cleanup \/ Play!Return \/ Play!WorkerEnds
           \/ Play!SendPacket \/ Play!DropPacket \/ Play!TearPacket \/ Play!FrameDone
  <2>1. /\ UNCHANGED << published, restart, cached, inFlight, pending, played >>
        /\ \/ UNCHANGED << handler, listed >>
           \/ handler' \in {"join", "close", "returned"} /\ listed' \in BOOLEAN
    BY <1>7, Zenon DEF QueuesInv, Play!SetupUdp, Play!SetupTcp, Play!Cleanup, Play!Return,
       Play!WorkerEnds, Play!SendPacket, Play!DropPacket, Play!TearPacket, Play!FrameDone,
       Play!stream, Play!requests, Play!feeding, Play!workers
  <2>2. /\ FromStream(cached)' /\ Ascending(cached)' /\ FromStream(pending)'
        /\ Ascending(pending)' /\ FromStream(inFlight)' /\ Ascending(inFlight)'
        /\ FromStream(played)'
    BY <2>1 DEF QueuesInv, Ascending, FromStream
  <2>3. QueuesInv'
    BY <2>1, <2>2 DEF QueuesInv
  <2> QED
    BY <1>1, <2>1, <2>3 DEF Play!PlayedInOrder, PlayedBefore
<1> QED
  BY <1>2, <1>3, <1>4, <1>5, <1>6, <1>7 DEF Play!Next

\* However the worker sorts what it has, messages of a kind are played in the order they
\* were published, but where timestamps begin again (rtsp_play_server.cpp, playback_worker).
THEOREM PlayedInOrderHolds ==
    Spec => []PlayedInOrder
<1> DEFINE Inv == part = "play" => OrderInv
<1>1. Init => Inv
  BY InitOfPart, OrderInit
<1>2. Inv /\ [Next]_allVars => Inv'
  <2> SUFFICES ASSUME part = "play", OrderInv, [Next]_allVars PROVE OrderInv'
    BY StepOfPart
  <2>1. CASE UNCHANGED playVs
    BY <2>1 DEF playVs, OrderInv, StreamInv, QueuesInv, FromStream, Ascending, PlayedBefore,
                Play!PlayedInOrder
  <2> QED
    BY <2>1, OrderKeeps, StepOfPart
<1>3. Inv => PlayedInOrder
  BY DEF OrderInv, PlayedInOrder
<1> QED
  BY <1>1, <1>2, <1>3, PTL DEF Spec, allVars

-----------------------------------------------------------------------------
(* What a receiver makes of packets *)

LEMMA IngestNumbers ==
    /\ MaxUnits \in Nat /\ MaxFaults \in Nat
    /\ RtpClock \in Nat \ {0} /\ RtpClock > 1
    /\ MinInterval \in Nat \ {0} /\ MaxInterval \in Nat \ {0} /\ AudioGap \in Nat \ {0}
    /\ Word \in Nat \ {0} /\ MaxComposition \in Nat \ {0} /\ DefaultInterval \in Nat \ {0}
    /\ SdpIntervals \subseteq Nat \ {0} /\ AudioGap < RtpClock \div 2
<1>1. /\ {MaxUnits, MaxFaults} \subseteq Nat
      /\ {RtpClock, Word, MaxComposition, MinInterval, MaxInterval, DefaultInterval, AudioGap}
             \cup SdpIntervals \subseteq Nat \ {0}
      /\ RtpClock > 1 /\ AudioGap < RtpClock \div 2
  BY IngestAssumption, Zenon DEF Ingest!IngestBounds
<1>2. ASSUME NEW n \in {RtpClock, Word, MaxComposition, MinInterval, MaxInterval, DefaultInterval,
                       AudioGap} \cup SdpIntervals
      PROVE  n \in Nat \ {0}
  BY <1>1, Zenon
<1>3. MaxUnits \in Nat /\ MaxFaults \in Nat
  BY <1>1, Zenon
<1> QED
  BY <1>1, <1>2, <1>3, Zenon

\* The most that the source's time moves between two units.
LEMMA StepIsSmall ==
    /\ Ingest!MaxStep \in Nat
    /\ \A s \in {3, -1} : -Ingest!MaxStep <= s /\ s <= Ingest!MaxStep
    /\ (2 * MaxFaults + 2) * Ingest!MaxStep <= RtpClock \div 2 - 1
    /\ RtpClock \div 2 \in Nat
<1>1. PICK half \in Nat : half = RtpClock \div 2 /\ half >= 1
  BY IngestNumbers
<1>2. PICK units \in Nat \ {0} : units = 2 * MaxFaults + 2
  BY IngestNumbers
<1>3. Ingest!MaxStep = (half - 1) \div units
  BY <1>1, <1>2 DEF Ingest!MaxStep
<1>4. half - 1 \in Nat
  BY <1>1
<1>5. (half - 1) \div units \in Nat /\ ((half - 1) \div units) * units <= half - 1
  BY <1>4, Quotient
<1>6. Ingest!MaxStep \in Nat /\ units * Ingest!MaxStep <= half - 1
  BY <1>3, <1>5
<1>7. {3, -1} \subseteq -Ingest!MaxStep..Ingest!MaxStep
  BY IngestAssumption DEF Ingest!IngestBounds
<1> QED
  BY <1>1, <1>2, <1>6, <1>7

LEMMA NoMultiple ==
    ASSUME NEW c \in Nat, NEW k \in Int, -c < c * k, c * k < c
    PROVE  k = 0
<1>1. CASE k >= 1
  BY <1>1
<1>2. CASE k <= -1
  BY <1>2
<1> QED
  BY <1>1, <1>2

LEMMA Remainder ==
    ASSUME NEW c \in Nat \ {0}, NEW x \in Int, NEW r, r = x % c
    PROVE  r \in Nat /\ r < c /\ \E k \in Int : x = c * k + r
<1>1. x % c \in 0..(c - 1)
  OBVIOUS
<1>2. x % c = x - c * (x \div c)
  OBVIOUS
<1>3. x \div c \in Int
  OBVIOUS
<1>4. PICK k \in Int : k = x \div c /\ r \in Nat /\ r < c
  BY <1>1, <1>3
<1>5. x = c * k + r
  BY <1>2, <1>4
<1> QED
  BY <1>4, <1>5, Zenon

\* A signed difference of two times on the clock is the difference of the times, when that is
\* less than half the clock.
LEMMA SignedDeltaIsDelta ==
    ASSUME NEW x \in Int, NEW y \in Int,
           x - y < RtpClock \div 2, y - x < RtpClock \div 2
    PROVE  Ingest!SignedDelta(x % RtpClock, y % RtpClock) = x - y
<1>1. PICK c \in Nat \ {0} : c = RtpClock
  BY IngestNumbers
<1>2. PICK half \in Nat : half = c \div 2 /\ 2 * half <= c /\ c <= 2 * half + 1
  BY <1>1
<1>3. PICK r : r = x % c
  OBVIOUS
<1>4. PICK q : q = y % c
  OBVIOUS
<1>5. PICK k \in Int, l \in Int : x = c * k + r /\ y = c * l + q /\ r \in Int /\ q \in Int
  <2>1. r \in Nat /\ \E k \in Int : x = c * k + r
    BY <1>3, Remainder, Zenon
  <2>2. q \in Nat /\ \E l \in Int : y = c * l + q
    BY <1>4, Remainder, Zenon
  <2> QED
    BY <2>1, <2>2
<1>6. PICK d \in Nat, m \in Int : d = (r - q) % c /\ d < c /\ r - q = c * m + d
  <2>1. r - q \in Int
    BY <1>5
  <2>2. PICK d : d = (r - q) % c
    OBVIOUS
  <2>3. d \in Nat /\ d < c /\ \E m \in Int : r - q = c * m + d
    BY <2>1, <2>2, Remainder, ZenonT(60)
  <2> QED
    BY <2>2, <2>3, Zenon
<1>7. Ingest!SignedDelta(x % RtpClock, y % RtpClock) = IF d < half THEN d ELSE d - c
  BY <1>1, <1>2, <1>3, <1>4, <1>6 DEF Ingest!SignedDelta
<1>8. PICK n \in Int : n = k - l + m /\ x - y = c * n + d
  <2>1. c * (k - l + m) = c * k - c * l + c * m
    BY <1>1
  <2>2. PICK a \in Int, b \in Int, e \in Int : a = c * k /\ b = c * l /\ e = c * m
    BY <1>1
  <2>3. PICK n \in Int : n = k - l + m
    BY <1>1
  <2>4. x = a + r /\ y = b + q /\ r - q = e + d /\ c * n = a - b + e
    BY <1>5, <1>6, <2>1, <2>2, <2>3
  <2>5. x - y = c * n + d
    BY <1>5, <1>6, <2>4
  <2> QED
    BY <2>3, <2>5
<1>9. PICK whole \in Int : whole = c * n
  BY <1>1
<1>10. x - y < half /\ y - x < half
  BY <1>1, <1>2
<1>11. CASE d < half
  <2>1. -c < whole /\ whole < c
    BY <1>2, <1>8, <1>9, <1>10, <1>11
  <2>2. n = 0
    BY <1>9, <2>1, NoMultiple
  <2>3. whole = 0
    BY <1>1, <1>9, <2>2
  <2> QED
    BY <1>7, <1>8, <1>9, <1>11, <2>3
<1>12. CASE ~(d < half)
  <2>1. -c < whole + c /\ whole + c < c
    BY <1>2, <1>6, <1>8, <1>9, <1>10, <1>12
  <2>2. c * (n + 1) = whole + c /\ n + 1 \in Int
    BY <1>1, <1>9
  <2>3. n + 1 = 0
    BY <2>1, <2>2, NoMultiple
  <2>4. whole + c = 0
    BY <1>1, <2>2, <2>3
  <2> QED
    BY <1>7, <1>8, <1>9, <1>12, <2>4
<1> QED
  BY <1>11, <1>12

\* A sum of steps counted in words of a clock, and what the clock shows.
LEMMA Counted ==
    ASSUME NEW l \in Nat, NEW t \in Nat, NEW w \in Nat \ {0}
    PROVE  /\ t % w \in Nat /\ t \div w \in Nat /\ l * w \in Nat
           /\ (l + (t \div w)) * w + (t % w) = l * w + t
<1>1. PICK r \in Nat : r = t % w
  OBVIOUS
<1>2. PICK q \in Nat : q = t \div w
  OBVIOUS
<1>3. t % w = t - w * (t \div w)
  OBVIOUS
<1>4. r = t - w * q
  BY <1>1, <1>2, <1>3
<1>5. PICK a \in Nat, b \in Nat : a = l * w /\ b = q * w /\ b = w * q
  OBVIOUS
<1>6. (l + q) * w = a + b
  BY <1>5
<1>7. (l + q) * w + r = l * w + t
  BY <1>4, <1>5, <1>6
<1> QED
  BY <1>1, <1>2, <1>5, <1>7

LEMMA OneWord ==
    ASSUME NEW t \in Nat, NEW w \in Nat \ {0}
    PROVE  (t \div w) * w + (t % w) = t
<1>1. t % w = t - w * (t \div w)
  OBVIOUS
<1>2. PICK q \in Nat : q = t \div w
  OBVIOUS
<1>3. q * w = w * q /\ w * q \in Nat
  OBVIOUS
<1>4. t % w = t - q * w
  BY <1>1, <1>2, <1>3
<1> QED
  BY <1>2, <1>3, <1>4

\* What is not at a limit has not been brought to it.
LEMMA WithinLimits ==
    ASSUME NEW d \in Int, NEW c,
           c = Ingest!Max({-MaxComposition, Ingest!Min({MaxComposition - 1, d})})
    PROVE  /\ c \in Int
           /\ c \in (1 - MaxComposition)..(MaxComposition - 2) => c = d
<1>1. PICK m \in Nat \ {0} : m = MaxComposition
  BY IngestNumbers
<1>2. PICK s : s = {m - 1, d}
  OBVIOUS
<1>3. /\ Ingest!Min(s) \in s /\ \A y \in s : Ingest!Min(s) <= y
  <2>1. \E x \in s : \A y \in s : x <= y
    BY <1>2
  <2> QED
    BY <2>1 DEF Ingest!Min
<1>4. PICK low : low = Ingest!Min(s)
  OBVIOUS
<1>5. low \in Int /\ low <= d /\ low <= m - 1 /\ (low = d \/ low = m - 1)
  BY <1>2, <1>3, <1>4
<1>6. PICK e : e = {-m, low}
  OBVIOUS
<1>7. Ingest!Max(e) \in e /\ \A y \in e : Ingest!Max(e) >= y
  <2>1. \E x \in e : \A y \in e : x >= y
    BY <1>5, <1>6
  <2> QED
    BY <2>1 DEF Ingest!Max
<1>8. c = Ingest!Max(e)
  BY <1>1, <1>2, <1>4, <1>6, Zenon
<1>9. c \in Int /\ (c = -m \/ c = low)
  BY <1>5, <1>6, <1>7, <1>8
<1> QED
  BY <1>1, <1>5, <1>9

\* How far a clock that wraps has come: a step of less than half of it, or none that counts.
Counts(d, gap) == IF d \in 1..gap THEN d ELSE 1

LEMMA StepOfClock ==
    ASSUME NEW x \in Int, NEW y \in Int,
           x - y < RtpClock \div 2, y - x < RtpClock \div 2
    PROVE  Counts(((x % RtpClock) - (y % RtpClock)) % RtpClock, AudioGap) = Counts(x - y, AudioGap)
<1>1. PICK half \in Int : half = RtpClock \div 2
  BY IngestNumbers
<1>2. PICK d : d = ((x % RtpClock) - (y % RtpClock)) % RtpClock
  OBVIOUS
<1>3. d \in Nat /\ d < RtpClock
  <2>1. (x % RtpClock) - (y % RtpClock) \in Int
    BY IngestNumbers
  <2> QED
    BY <1>2, <2>1, IngestNumbers
<1>4. (IF d < half THEN d ELSE d - RtpClock) = x - y
  BY <1>1, <1>2, SignedDeltaIsDelta, Zenon DEF Ingest!SignedDelta
<1>5. PICK gap \in Nat : gap = AudioGap /\ gap < half
  BY <1>1, IngestNumbers
<1>6. PICK c \in Nat : c = RtpClock
  BY IngestNumbers
<1>7. d \in 1..gap <=> x - y \in 1..gap
  BY <1>1, <1>3, <1>4, <1>5, <1>6
<1>8. x - y \in 1..gap => d = x - y
  BY <1>1, <1>3, <1>4, <1>5, <1>6
<1>9. Counts(d, gap) = Counts(x - y, gap)
  BY <1>7, <1>8, Zenon DEF Counts
<1> QED
  BY <1>2, <1>5, <1>9, Zenon

Datagram == [unit : Nat, form : {"nal", "sets", "start", "rest", "frames"}, marker : BOOLEAN]

\* How many units were sent after the n-th: twice those that were hit, and those whose
\* markers are still behind the k-th packet.
Late(k, n) ==
    LET after == {i \in DOMAIN wire : i > k /\ wire[i].marker} IN
    /\ n \in DOMAIN times
    /\ Len(times) - n <= 2 * faults + 2
    /\ (\A i, j \in after : i = j) => Len(times) - n <= 2 * faults + 1
    /\ after = {} => Len(times) - n <= 2 * faults

\* The source's time moves by no more than a step from unit to unit.
NetworkInv ==
    /\ track \in {"video", "aac"} /\ times \in Seq(Int) /\ faults \in 0..MaxFaults
    /\ wire \in Seq(Datagram)
    /\ \A i \in DOMAIN wire :
          Late(i, wire[i].unit) /\ (track = "video" => wire[i].form # "frames")
    /\ \A a, b \in DOMAIN times : a <= b =>
          /\ times[b] - times[a] <= Ingest!MaxStep * (b - a)
          /\ times[a] - times[b] <= Ingest!MaxStep * (b - a)

LEMMA Spans ==
    ASSUME NEW g \in Nat, NEW d \in Nat
    PROVE  g * d \in Nat /\ g * (d + 1) = g * d + g
  OBVIOUS

LEMMA PacketsSent ==
    ASSUME NEW n \in Nat, NEW shape \in Ingest!Shapes,
           NEW more, more = Ingest!Packets(n, shape)
    PROVE  /\ more \in Seq(Datagram) /\ Len(more) \in {1, 3}
           /\ \A i \in DOMAIN more :
                 /\ more[i].unit = n /\ (track = "video" => more[i].form # "frames")
                 /\ more[i].marker <=> i = Len(more)
<1>1. CASE shape = "whole"
  <2>1. more = << [unit |-> n, form |-> "nal", marker |-> TRUE] >> /\ track # "aac"
    BY <1>1, Zenon DEF Ingest!Packets, Ingest!Packet, Ingest!Shapes
  <2> QED
    BY <2>1 DEF Datagram
<1>2. CASE shape = "parts"
  <2>1. more = << [unit |-> n, form |-> "sets", marker |-> FALSE],
                  [unit |-> n, form |-> "start", marker |-> FALSE],
                  [unit |-> n, form |-> "rest", marker |-> TRUE] >>
    BY <1>2, Zenon DEF Ingest!Packets, Ingest!Packet
  <2> QED
    BY <2>1 DEF Datagram
<1>3. CASE shape = "frames"
  <2>1. more = << [unit |-> n, form |-> "frames", marker |-> TRUE] >> /\ track = "aac"
    BY <1>3, Zenon DEF Ingest!Packets, Ingest!Packet, Ingest!Shapes
  <2> QED
    BY <2>1 DEF Datagram
<1> QED
  BY <1>1, <1>2, <1>3 DEF Ingest!Shapes

\* A unit more: its marker is behind all that is on the wire, a packet at most.
LEMMA LateBySending ==
    ASSUME NetworkInv, Ingest!Send
    PROVE  /\ NetworkInv'
           /\ \A n \in DOMAIN times : /\ n \in DOMAIN times' /\ times'[n] = times[n]
                                      /\ Late(0, n) => Late(0, n)'
<1>1. PICK shape \in Ingest!Shapes, step \in {3, -1} :
         /\ Len(wire) <= 1
         /\ times' = Append(times, IF times = << >> THEN RtpClock - 2 ELSE times[Len(times)] + step)
         /\ wire' = wire \o Ingest!Packets(Len(times) + 1, shape)
         /\ UNCHANGED << track, faults >>
  BY Zenon DEF Ingest!Send
<1>2. /\ times \in Seq(Int) /\ wire \in Seq(Datagram) /\ faults \in Nat
      /\ Len(times) \in Nat /\ Len(wire) \in {0, 1}
      /\ DOMAIN times = 1..Len(times) /\ DOMAIN wire = 1..Len(wire)
  <2>1. times \in Seq(Int) /\ wire \in Seq(Datagram) /\ faults \in Nat
    BY DEF NetworkInv
  <2>2. Len(wire) \in Nat /\ Len(wire) <= 1
    BY <1>1, <2>1
  <2>3. Len(wire) = 0 \/ Len(wire) = 1
    <3>1. \A l \in Nat : l <= 1 => l = 0 \/ l = 1
      OBVIOUS
    <3> QED
      BY <2>2, <3>1, Zenon
  <2>4. /\ Len(times) \in Nat /\ DOMAIN times = 1..Len(times)
        /\ DOMAIN wire = 1..Len(wire)
    BY <2>1
  <2> QED
    BY <2>1, <2>3, <2>4
<1>3. PICK last \in Int :
         /\ times' = Append(times, last)
         /\ times # << >> => /\ last - times[Len(times)] <= Ingest!MaxStep
                             /\ times[Len(times)] - last <= Ingest!MaxStep
  <2>1. CASE times = << >>
    BY <1>1, <2>1, IngestNumbers
  <2>2. CASE times # << >>
    <3>1. PICK before \in Int : before = times[Len(times)] /\ times[Len(times)] = before
      BY <1>2, <2>2
    <3>2. /\ -Ingest!MaxStep <= step /\ step <= Ingest!MaxStep /\ Ingest!MaxStep \in Nat
          /\ step \in Int
      BY StepIsSmall
    <3>3. times' = Append(times, before + step)
      BY <1>1, <2>2, <3>1
    <3>4. /\ before + step \in Int
          /\ (before + step) - before <= Ingest!MaxStep /\ before - (before + step) <= Ingest!MaxStep
      BY <3>1, <3>2
    <3> QED
      BY <3>1, <3>3, <3>4, Zenon
  <2> QED
    BY <2>1, <2>2
<1>4. PICK next \in Nat :
         /\ next = Len(times) + 1
         /\ times' \in Seq(Int) /\ Len(times') = next
         /\ DOMAIN times' = 1..next /\ times'[next] = last
         /\ \A n \in DOMAIN times : times'[n] = times[n]
  BY <1>2, <1>3
<1>5. PICK more :
      /\ more = Ingest!Packets(next, shape) /\ wire' = wire \o more
      /\ more \in Seq(Datagram) /\ Len(more) \in {1, 3} /\ DOMAIN more = 1..Len(more)
      /\ \A i \in DOMAIN more :
            /\ more[i].unit = next /\ (track = "video" => more[i].form # "frames")
            /\ more[i].marker <=> i = Len(more)
  <2>1. PICK more : more = Ingest!Packets(next, shape) /\ wire' = wire \o more
    BY <1>1, <1>4, Zenon
  <2>2. /\ more \in Seq(Datagram) /\ Len(more) \in {1, 3}
        /\ \A i \in DOMAIN more :
              /\ more[i].unit = next /\ (track = "video" => more[i].form # "frames")
              /\ more[i].marker <=> i = Len(more)
    BY <2>1, PacketsSent, SMTT(60)
  <2> QED
    BY <2>1, <2>2
<1>6. /\ wire' \in Seq(Datagram) /\ Len(wire') = Len(wire) + Len(more)
      /\ DOMAIN wire' = 1..(Len(wire) + Len(more))
      /\ \A i \in DOMAIN wire : wire'[i] = wire[i]
      /\ \A i \in (Len(wire) + 1)..(Len(wire) + Len(more)) : wire'[i] = more[i - Len(wire)]
  <2>1. /\ wire' \in Seq(Datagram) /\ Len(wire') = Len(wire) + Len(more)
        /\ \A i \in 1..(Len(wire) + Len(more)) :
              wire'[i] = IF i <= Len(wire) THEN wire[i] ELSE more[i - Len(wire)]
    BY <1>2, <1>5, ConcatPlaces
  <2> QED
    BY <1>2, <1>5, <2>1
<1>7. wire'[Len(wire')].marker /\ Len(wire') \in DOMAIN wire' /\ Len(wire') > Len(wire)
  <2>1. /\ Len(wire') \in (Len(wire) + 1)..(Len(wire) + Len(more))
        /\ Len(wire') - Len(wire) = Len(more) /\ Len(more) \in DOMAIN more
        /\ Len(wire') \in DOMAIN wire' /\ Len(wire') > Len(wire)
    BY <1>2, <1>5, <1>6
  <2>2. wire'[Len(wire')] = more[Len(more)] /\ more[Len(more)].marker
    BY <1>5, <1>6, <2>1
  <2> QED
    BY <2>1, <2>2
<1>8. ASSUME NEW k \in 0..Len(wire), NEW n \in DOMAIN times, Late(k, n)
      PROVE  Late(k, n)'
  <2> DEFINE after == {i \in DOMAIN wire : i > k /\ wire[i].marker}
  <2>1. \A i \in after : i \in DOMAIN wire' /\ i > k /\ wire'[i].marker /\ i # Len(wire')
    BY <1>2, <1>6, <1>7
  <2>2. \A i, j \in after : i = j
    BY <1>2
  <2>3. Len(times) - n <= 2 * faults + 1
    BY <1>8, <2>2 DEF Late
  <2>4. Len(wire') > k
    BY <1>2, <1>7
  <2>5. (\A i, j \in DOMAIN wire' :
           i > k /\ wire'[i].marker /\ j > k /\ wire'[j].marker => i = j) => after = {}
    BY <1>7, <2>1, <2>4
  <2>6. after = {} => Len(times) - n <= 2 * faults
    BY <1>8 DEF Late
  <2> HIDE DEF after
  <2>7. (\A i, j \in DOMAIN wire' :
           i > k /\ wire'[i].marker /\ j > k /\ wire'[j].marker => i = j)
              => Len(times) - n <= 2 * faults
    BY <2>5, <2>6
  <2>8. n \in 1..Len(times) /\ Len(times') = Len(times) + 1 /\ n \in DOMAIN times'
    BY <1>2, <1>4
  <2>9. Len(times') - n <= 2 * faults' + 2
    BY <1>1, <1>2, <2>3, <2>8
  <2> DEFINE trailing == {i \in DOMAIN wire' : i > k /\ wire'[i].marker}
  <2>10. trailing # {}
    BY <1>7, <2>4
  <2>11. (\A i, j \in trailing : i = j) => Len(times') - n <= 2 * faults' + 1
    <3>1. (\A i, j \in trailing : i = j) => Len(times) - n <= 2 * faults
      BY <2>7
    <3> HIDE DEF trailing
    <3> QED
      BY <1>1, <1>2, <2>8, <3>1
  <2> HIDE DEF trailing
  <2>12. (LET there == {i \in DOMAIN wire' : i > k /\ wire'[i].marker}
          IN  /\ n \in DOMAIN times'
              /\ Len(times') - n <= 2 * faults' + 2
              /\ (\A i, j \in there : i = j) => Len(times') - n <= 2 * faults' + 1
              /\ there = {} => Len(times') - n <= 2 * faults')
    BY <2>8, <2>9, <2>10, <2>11 DEF trailing
  <2> QED
    BY <2>12 DEF Late
<1>9. ASSUME NEW k \in Nat PROVE Late(k, next)'
  <2>1. next \in DOMAIN times' /\ Len(times') - next = 0 /\ faults' \in Nat
    BY <1>1, <1>2, <1>4
  <2> QED
    BY <2>1 DEF Late
<1>10. ASSUME NEW i \in DOMAIN wire'
       PROVE  Late(i, wire[i].unit)' /\ (track' = "video" => wire'[i].form # "frames")
  <2>1. CASE i \in DOMAIN wire
    <3>1. wire'[i] = wire[i] /\ Late(i, wire[i].unit) /\ i \in 0..Len(wire)
          /\ wire[i].unit \in DOMAIN times
      BY <1>2, <1>6, <2>1 DEF NetworkInv, Late
    <3>2. PICK n : n = wire[i].unit
      OBVIOUS
    <3>3. Late(i, n)' /\ wire'[i].unit = n
      BY <1>8, <3>1, <3>2
    <3> QED
      BY <1>1, <2>1, <3>1, <3>3 DEF NetworkInv
  <2>2. CASE i > Len(wire)
    <3>1. i - Len(wire) \in DOMAIN more /\ wire'[i] = more[i - Len(wire)] /\ i \in Nat
      BY <1>2, <1>5, <1>6, <2>2
    <3>2. wire'[i].unit = next /\ (track = "video" => wire'[i].form # "frames")
      BY <1>5, <3>1
    <3>3. Late(i, next)'
      BY <1>9, <3>1
    <3> QED
      BY <1>1, <3>2, <3>3
  <2> QED
    BY <1>2, <1>6, <2>1, <2>2
<1>11. ASSUME NEW a \in DOMAIN times', NEW b \in DOMAIN times', a <= b
       PROVE  /\ times'[b] - times'[a] <= Ingest!MaxStep * (b - a)
              /\ times'[a] - times'[b] <= Ingest!MaxStep * (b - a)
  <2>1. CASE b \in DOMAIN times
    <3>1. a \in DOMAIN times
      BY <1>2, <1>4, <1>11, <2>1
    <3> QED
      BY <1>4, <1>11, <2>1, <3>1 DEF NetworkInv
  <2>2. CASE a = b
    <3>1. times'[a] \in Int /\ b - a = 0 /\ Ingest!MaxStep * 0 = 0
      BY <1>2, <1>4, <2>2, StepIsSmall
    <3> QED
      BY <2>2, <3>1
  <2>3. CASE b = next /\ a \in DOMAIN times
    <3>1. PICK n \in DOMAIN times : n = Len(times) /\ a <= n /\ n \in Nat /\ a \in Nat /\ b = n + 1
      <4>1. a \in 1..Len(times) /\ Len(times) \in Nat
        BY <1>2, <2>3
      <4>2. Len(times) \in 1..Len(times) /\ a <= Len(times) /\ a \in Nat
        BY <4>1
      <4> QED
        BY <1>2, <1>4, <2>3, <4>2, Zenon
    <3>2. times # << >>
      BY <1>2, <2>3
    <3>3. PICK d \in Nat : d = n - a /\ d + 1 = b - a
      BY <3>1
    <3>4. PICK most \in Nat : most = Ingest!MaxStep * d
                              /\ Ingest!MaxStep * (d + 1) = most + Ingest!MaxStep
      BY StepIsSmall, Spans
    <3>5. times[n] - times[a] <= most /\ times[a] - times[n] <= most
          /\ times[n] \in Int /\ times[a] \in Int
      BY <1>2, <2>3, <3>1, <3>3, <3>4, SMTT(60) DEF NetworkInv
    <3>6. times'[b] = last /\ times'[a] = times[a]
      BY <1>4, <2>3
    <3>7. last - times[n] <= Ingest!MaxStep /\ times[n] - last <= Ingest!MaxStep
          /\ Ingest!MaxStep \in Nat
      BY <1>3, <3>1, <3>2, StepIsSmall
    <3> QED
      BY <3>3, <3>4, <3>5, <3>6, <3>7
  <2> QED
    BY <1>2, <1>4, <1>11, <2>1, <2>2, <2>3
<1>12. NetworkInv'
  BY <1>1, <1>4, <1>6, <1>10, <1>11, Zenon DEF NetworkInv
<1>13. ASSUME NEW n \in DOMAIN times
       PROVE  n \in DOMAIN times' /\ times'[n] = times[n] /\ (Late(0, n) => Late(0, n)')
  <2>1. n \in DOMAIN times' /\ times'[n] = times[n]
    BY <1>2, <1>4
  <2>2. 0 \in 0..Len(wire)
    BY <1>2
  <2>3. Late(0, n) => Late(0, n)'
    BY <1>8, <2>2
  <2> QED
    BY <2>1, <2>3
<1> QED
  BY <1>12, <1>13

\* Units on the wire and the one before them are less than half the clock apart.
LEMMA UnitsAreNear ==
    ASSUME NetworkInv, NEW k \in Nat, NEW l \in Nat, NEW u, NEW n, Late(k, u), Late(l, n)
    PROVE  /\ u \in DOMAIN times /\ n \in DOMAIN times /\ times[u] \in Int /\ times[n] \in Int
           /\ times[n] - times[u] < RtpClock \div 2 /\ times[u] - times[n] < RtpClock \div 2
<1>1. /\ u \in 1..Len(times) /\ n \in 1..Len(times) /\ Len(times) \in Nat
      /\ DOMAIN times = 1..Len(times) /\ times[u] \in Int /\ times[n] \in Int
      /\ Len(times) - u <= 2 * faults + 2 /\ Len(times) - n <= 2 * faults + 2
      /\ faults \in Nat /\ faults <= MaxFaults
  BY DEF NetworkInv, Late
<1>2. PICK units \in Nat : units = 2 * MaxFaults + 2 /\ units * Ingest!MaxStep <= RtpClock \div 2 - 1
  BY IngestNumbers, StepIsSmall
<1>3. PICK d \in Nat : /\ d = u - n \/ d = n - u
                       /\ d <= units
                       /\ times[n] - times[u] <= Ingest!MaxStep * d
                       /\ times[u] - times[n] <= Ingest!MaxStep * d
  <2>1. CASE u <= n
    <3>1. PICK d \in Nat : d = n - u
      BY <1>1, <2>1
    <3>2. times[n] - times[u] <= Ingest!MaxStep * d /\ times[u] - times[n] <= Ingest!MaxStep * d
      BY <1>1, <2>1, <3>1, Zenon DEF NetworkInv
    <3>3. d <= units
      BY <1>1, <1>2, <3>1, IngestNumbers
    <3> QED
      BY <3>1, <3>2, <3>3
  <2>2. CASE n <= u
    <3>1. PICK d \in Nat : d = u - n
      BY <1>1, <2>2
    <3>2. times[n] - times[u] <= Ingest!MaxStep * d /\ times[u] - times[n] <= Ingest!MaxStep * d
      BY <1>1, <2>2, <3>1, Zenon DEF NetworkInv
    <3>3. d <= units
      BY <1>1, <1>2, <3>1, IngestNumbers
    <3> QED
      BY <3>1, <3>2, <3>3
  <2> QED
    BY <1>1, <2>1, <2>2
<1>4. PICK most \in Nat : most = d * Ingest!MaxStep /\ most <= RtpClock \div 2 - 1
  <2>1. d * Ingest!MaxStep \in Nat /\ d * Ingest!MaxStep <= units * Ingest!MaxStep
        /\ units * Ingest!MaxStep \in Nat
    BY <1>2, <1>3, StepIsSmall, Products
  <2> QED
    BY <1>2, <2>1, StepIsSmall
<1>5. Ingest!MaxStep * d = most
  BY <1>3, <1>4, StepIsSmall
<1> QED
  BY <1>1, <1>3, <1>4, <1>5, StepIsSmall, SMTT(60)

\* A packet that is handled, or lost, leaves the markers trailing it.
LEMMA LateByTaking ==
    ASSUME NetworkInv, wire # << >>, wire' = Tail(wire), UNCHANGED << track, times, faults >>
    PROVE  /\ NetworkInv'
           /\ \A n : n = Head(wire).unit => Late(0, n)'
           /\ ~Head(wire).marker => \A n \in DOMAIN times : Late(0, n) => Late(0, n)'
<1>1. /\ wire \in Seq(Datagram) /\ DOMAIN wire = 1..Len(wire) /\ Len(wire) \in Nat
      /\ Head(wire) = wire[1] /\ 1 \in DOMAIN wire
      /\ wire' \in Seq(Datagram) /\ DOMAIN wire' = 1..(Len(wire) - 1)
      /\ \A i \in DOMAIN wire' : i + 1 \in DOMAIN wire /\ wire'[i] = wire[i + 1]
  <2>1. wire \in Seq(Datagram)
    BY DEF NetworkInv
  <2>2. DOMAIN Tail(wire) = 1..(Len(wire) - 1)
    BY <2>1
  <2> QED
    BY <2>1, <2>2, MoveHead
<1>2. ASSUME NEW k \in Nat, NEW n, Late(k + 1, n) \/ (k = 0 /\ ~wire[1].marker /\ Late(0, n))
      PROVE  Late(k, n)'
  <2> DEFINE trailing == {i \in DOMAIN wire' : i > k /\ wire'[i].marker}
             from == IF Late(k + 1, n) THEN k + 1 ELSE 0
             after == {i \in DOMAIN wire : i > from /\ wire[i].marker}
  <2>1. Late(from, n)
    BY <1>2
  <2>2. \A i \in after : i - 1 \in trailing
    <3> SUFFICES ASSUME NEW i \in after PROVE i - 1 \in trailing
      OBVIOUS
    <3>1. i \in 1..Len(wire) /\ i > 1 /\ i - 1 > k /\ (i - 1) + 1 = i /\ wire[i].marker
      BY <1>1, <1>2
    <3>2. i - 1 \in DOMAIN wire' /\ wire'[i - 1] = wire[i]
      BY <1>1, <3>1
    <3> QED
      BY <3>1, <3>2
  <2>3. n \in DOMAIN times /\ Len(times) - n <= 2 * faults + 2
        /\ ((\A i, j \in after : i = j) => Len(times) - n <= 2 * faults + 1)
        /\ (after = {} => Len(times) - n <= 2 * faults)
    BY <2>1 DEF Late
  <2>4. after \subseteq Nat
    BY <1>1
  <2> HIDE DEF trailing, after
  <2>5. (\A i, j \in trailing : i = j) => (\A i, j \in after : i = j)
    <3> SUFFICES ASSUME \A i, j \in trailing : i = j, NEW i \in after, NEW j \in after
                 PROVE  i = j
      OBVIOUS
    <3>1. i - 1 = j - 1 /\ i \in Nat /\ j \in Nat
      BY <2>2, <2>4
    <3> QED
      BY <3>1
  <2>6. trailing = {} => after = {}
    BY <2>2
  <2>7. /\ n \in DOMAIN times /\ Len(times) - n <= 2 * faults + 2
        /\ ((\A i, j \in trailing : i = j) => Len(times) - n <= 2 * faults + 1)
        /\ (trailing = {} => Len(times) - n <= 2 * faults)
    BY <2>3, <2>5, <2>6
  <2> QED
    BY <2>7 DEF Late, trailing
<1>3. ASSUME NEW i \in DOMAIN wire'
      PROVE  Late(i, wire[i].unit)' /\ (track' = "video" => wire'[i].form # "frames")
  <2>1. i \in Nat /\ i + 1 \in DOMAIN wire /\ wire'[i] = wire[i + 1]
    BY <1>1
  <2>2. PICK n : n = wire[i + 1].unit
    OBVIOUS
  <2>3. Late(i + 1, n)
    BY <2>1, <2>2 DEF NetworkInv
  <2>4. Late(i, n)' /\ wire'[i].unit = n
    BY <1>2, <2>1, <2>2, <2>3
  <2> QED
    BY <2>1, <2>4 DEF NetworkInv
<1>4. NetworkInv'
  BY <1>1, <1>3 DEF NetworkInv
<1>5. ASSUME NEW n, n = Head(wire).unit PROVE Late(0, n)'
  <2>1. Late(1, n)
    BY <1>1, <1>5 DEF NetworkInv
  <2> QED
    BY <1>2, <2>1
<1>6. ~Head(wire).marker => \A n \in DOMAIN times : Late(0, n) => Late(0, n)'
  BY <1>1, <1>2
<1> QED
  BY <1>4, <1>5, <1>6

\* A fault more.
LEMMA LateByFault ==
    ASSUME NetworkInv, Ingest!Fault
    PROVE  NetworkInv' /\ \A n \in DOMAIN times : Late(0, n) => Late(0, n)'
<1>1. /\ faults \in Nat /\ faults' = faults + 1 /\ faults' <= MaxFaults
      /\ UNCHANGED << track, times >>
      /\ Ingest!Lose \/ Ingest!Repeat \/ Ingest!Swap
      /\ wire \in Seq(Datagram) /\ DOMAIN wire = 1..Len(wire) /\ Len(wire) \in Nat
      /\ DOMAIN times = 1..Len(times) /\ Len(times) \in Nat
  BY IngestNumbers DEF NetworkInv, Ingest!Fault
<1>2. /\ wire' \in Seq(Datagram)
      /\ \A i \in DOMAIN wire' : i \in Nat /\ \E j \in DOMAIN wire : wire'[i] = wire[j]
  <2>1. CASE Ingest!Lose
    <3>1. wire # << >> /\ wire' = Tail(wire)
      BY <2>1 DEF Ingest!Lose
    <3> QED
      BY <1>1, <3>1, MoveHead
  <2>2. CASE Ingest!Repeat
    <3>1. wire # << >> /\ wire' = << wire[1] >> \o wire /\ wire[1] \in Datagram /\ 1 \in DOMAIN wire
      BY <1>1, <2>2 DEF Ingest!Repeat
    <3>2. << wire[1] >> \in Seq(Datagram) /\ Len(<< wire[1] >>) = 1 /\ << wire[1] >>[1] = wire[1]
      BY <3>1
    <3>3. /\ wire' \in Seq(Datagram) /\ Len(wire') = 1 + Len(wire)
          /\ \A i \in 1..(1 + Len(wire)) :
                wire'[i] = IF i <= 1 THEN << wire[1] >>[i] ELSE wire[i - 1]
      BY <1>1, <3>1, <3>2, ConcatPlaces
    <3>4. ASSUME NEW i \in DOMAIN wire' PROVE i \in Nat /\ \E j \in DOMAIN wire : wire'[i] = wire[j]
      <4>1. i \in 1..(1 + Len(wire))
        BY <1>1, <3>3
      <4>2. CASE i = 1
        BY <3>1, <3>2, <3>3, <4>1, <4>2
      <4>3. CASE i > 1
        <5>1. i - 1 \in DOMAIN wire /\ ~(i <= 1)
          BY <1>1, <4>1, <4>3
        <5> QED
          BY <3>3, <4>1, <5>1
      <4> QED
        BY <4>1, <4>2, <4>3
    <3> QED
      BY <3>3, <3>4
  <2>3. CASE Ingest!Swap
    <3>1. PICK tail, two : /\ Len(wire) > 1 /\ wire' = two \o tail
                           /\ two = << wire[2], wire[1] >>
                           /\ tail = SubSeq(wire, 3, Len(wire))
      BY <2>3, Zenon DEF Ingest!Swap
    <3>2. tail \in Seq(Datagram) /\ Len(tail) \in Nat
      BY <1>1, <3>1, EndOfSeq
    <3>3. \A k \in 1..Len(tail) : k + 2 \in DOMAIN wire /\ tail[k] = wire[k + 2]
      <4>1. Len(tail) = IF 3 <= Len(wire) THEN Len(wire) - 3 + 1 ELSE 0
        BY <1>1, <3>1, EndOfSeq
      <4>2. \A k \in 1..(Len(wire) - 3 + 1) : tail[k] = wire[3 + k - 1]
        BY <1>1, <3>1, EndOfSeq
      <4>3. ASSUME NEW k \in 1..Len(tail) PROVE k + 2 \in DOMAIN wire /\ tail[k] = wire[k + 2]
        <5>1. k \in 1..(Len(wire) - 3 + 1) /\ 3 + k - 1 = k + 2 /\ k + 2 \in 1..Len(wire)
          BY <1>1, <3>1, <4>1
        <5> QED
          BY <1>1, <4>2, <5>1
      <4> QED
        BY <4>3
    <3>4. /\ two \in Seq(Datagram) /\ Len(two) = 2 /\ two[1] = wire[2] /\ two[2] = wire[1]
          /\ 1 \in DOMAIN wire /\ 2 \in DOMAIN wire
      BY <1>1, <3>1
    <3>5. /\ wire' \in Seq(Datagram) /\ Len(wire') = 2 + Len(tail)
          /\ \A i \in 1..(2 + Len(tail)) : wire'[i] = IF i <= 2 THEN two[i] ELSE tail[i - 2]
      BY <3>1, <3>2, <3>4, ConcatPlaces
    <3>6. ASSUME NEW i \in DOMAIN wire' PROVE i \in Nat /\ \E j \in DOMAIN wire : wire'[i] = wire[j]
      <4>1. i \in 1..(2 + Len(tail))
        BY <3>5
      <4>2. CASE i \in {1, 2}
        BY <3>4, <3>5, <4>1, <4>2
      <4>3. CASE i > 2
        <5>1. i - 2 \in 1..Len(tail) /\ ~(i <= 2)
          BY <3>2, <4>1, <4>3
        <5> QED
          BY <3>3, <3>5, <4>1, <5>1
      <4> QED
        BY <4>1, <4>2, <4>3
    <3> QED
      BY <3>5, <3>6
  <2> QED
    BY <1>1, <2>1, <2>2, <2>3
<1>3. ASSUME NEW k \in Nat, NEW l \in Nat, NEW n, Late(l, n)
      PROVE  Late(k, n)'
  <2>1. n \in 1..Len(times) /\ Len(times) - n <= 2 * faults + 2
    BY <1>1, <1>3 DEF Late
  <2>2. n \in DOMAIN times' /\ Len(times') - n <= 2 * faults'
    BY <1>1, <2>1
  <2>3. Len(times') - n <= 2 * faults' + 1 /\ Len(times') - n <= 2 * faults' + 2
    BY <1>1, <2>1, <2>2
  <2> QED
    BY <2>2, <2>3 DEF Late
<1>4. ASSUME NEW i \in DOMAIN wire'
      PROVE  Late(i, wire[i].unit)' /\ (track' = "video" => wire'[i].form # "frames")
  <2>1. PICK j \in DOMAIN wire : wire'[i] = wire[j] /\ i \in Nat /\ j \in Nat
    BY <1>1, <1>2
  <2>2. PICK n : n = wire[j].unit
    OBVIOUS
  <2>3. Late(i, n)' /\ wire'[i].unit = n
    BY <1>3, <2>1, <2>2 DEF NetworkInv
  <2>4. track' = "video" => wire'[i].form # "frames"
    BY <1>1, <2>1 DEF NetworkInv
  <2>5. Late(i, wire[i].unit)'
    BY <2>3
  <2> QED
    BY <2>4, <2>5
<1>5. NetworkInv'
  BY <1>1, <1>2, <1>4, IngestNumbers DEF NetworkInv
<1>6. ASSUME NEW n \in DOMAIN times, Late(0, n) PROVE Late(0, n)'
  BY <1>3, <1>6
<1> QED
  BY <1>5, <1>6

\* The decode time, with the words that it lost.
Decoded == laps * Word + decodeTime

\* What video presents when its clock is at t for the unit u.
PresentedBy(u, t, decoded) ==
    \A i \in DOMAIN output : ~output[i].header =>
        /\ Ingest!Exact(output[i]) => Ingest!Pts(output[i]) - times[output[i].unit] = t - times[u]
        /\ Ingest!Elapsed(output[i]) <= decoded

\* The last frame heard gives the clock its time.
HeardBy(t) ==
    /\ Len(output) > 0 /\ ~output[Len(output)].header
    /\ lastTs = times[output[Len(output)].unit] % RtpClock
    /\ Late(0, output[Len(output)].unit)
    /\ Ingest!Elapsed(output[Len(output)]) = t
    /\ \A i \in DOMAIN output : ~output[i].header => Ingest!Elapsed(output[i]) <= t

\* The last unit presented gives the clock its time; what was published before was as much
\* earlier than it as the source's.
TimesInv ==
    /\ output \in Seq(Range(output))
    /\ \A i \in DOMAIN output :
          /\ output[i].unit \in DOMAIN times
          /\ Ingest!Pts(output[i]) \in Int /\ Ingest!Elapsed(output[i]) \in Int
    /\ ticks \in Int /\ decodeTime \in Nat /\ laps \in Nat /\ interval \in Nat \ {0}
    /\ lastTs \in Int
    /\ lastTs = -1 => \A i \in DOMAIN output : output[i].header
    /\ track = "video" /\ lastTs # -1 =>
          \E u \in DOMAIN times :
             /\ lastTs = times[u] % RtpClock /\ Late(0, u)
             /\ PresentedBy(u, ticks, Decoded)
    /\ track = "aac" => ticks \in Nat
    /\ track = "aac" /\ lastTs # -1 => HeardBy(ticks)
    /\ Ingest!OnTime

\* Where an element of a longer sequence comes from: the old one, a header, or its end.
From(q, h, m, r) ==
    /\ Len(r) \in Nat /\ Len(q) \in Nat /\ Len(r) >= Len(q)
    /\ DOMAIN r = 1..Len(r) /\ DOMAIN q = 1..Len(q)
    /\ \A i \in DOMAIN r :
          \/ i \in DOMAIN q /\ r[i] = q[i]
          \/ i > Len(q) /\ r[i] = h
          \/ i > Len(q) /\ i = Len(r) /\ r[i] = m

LEMMA OwnRange ==
    ASSUME NEW S, NEW s \in Seq(S)
    PROVE  s \in Seq(Range(s))
<1>1. Len(s) \in Nat /\ DOMAIN s = 1..Len(s) /\ s = [i \in 1..Len(s) |-> s[i]]
  OBVIOUS
<1>2. \A i \in 1..Len(s) : s[i] \in Range(s)
  BY <1>1 DEF Range
<1> QED
  BY <1>1, <1>2

LEMMA WiderRange ==
    ASSUME NEW q, q \in Seq(Range(q)), NEW h, NEW m
    PROVE  \E S : q \in Seq(S) /\ h \in S /\ m \in S
<1>1. PICK S : S = Range(q) \cup {h, m}
  BY Zenon
<1>2. Len(q) \in Nat /\ DOMAIN q = 1..Len(q) /\ q = [i \in 1..Len(q) |-> q[i]]
  OBVIOUS
<1>3. \A i \in 1..Len(q) : q[i] \in S
  BY <1>1, <1>2 DEF Range
<1>4. q \in Seq(S)
  BY <1>2, <1>3
<1> QED
  BY <1>1, <1>4

LEMMA AtMostOne ==
    ASSUME NEW S, NEW x \in S, NEW a \in {<< >>, << x >>}
    PROVE  /\ a \in Seq(S) /\ Len(a) \in Nat /\ Len(a) <= 1
           /\ a # << >> => Len(a) = 1
           /\ \A i \in 1..Len(a) : a[i] = x
<1>1. CASE a = << x >>
  BY <1>1
<1>2. CASE a = << >>
  <2>1. a \in Seq(S) /\ Len(a) = 0
    BY <1>2
  <2> QED
    BY <1>2, <2>1
<1> QED
  BY <1>1, <1>2

\* What is published follows what was, the unit behind the header.
LEMMA Publishing ==
    ASSUME NEW q, q \in Seq(Range(q)), NEW h, NEW m,
           NEW a \in {<< >>, << h >>}, NEW b \in {<< >>, << m >>},
           NEW r, r = (q \o a) \o b
    PROVE  /\ r \in Seq(Range(r)) /\ From(q, h, m, r)
           /\ b # << >> => Len(r) > Len(q)
<1>1. PICK S : q \in Seq(S) /\ h \in S /\ m \in S
  BY WiderRange, Zenon
<1>2. /\ a \in Seq(S) /\ Len(a) \in Nat /\ Len(a) <= 1
      /\ \A i \in 1..Len(a) : a[i] = h
  BY <1>1, AtMostOne, ZenonT(60)
<1>3. /\ b \in Seq(S) /\ Len(b) \in Nat /\ Len(b) <= 1
      /\ b # << >> => Len(b) = 1
      /\ \A i \in 1..Len(b) : b[i] = m
  BY <1>1, AtMostOne, ZenonT(60)
<1>4. PICK c : c = q \o a
  BY Zenon
<1>5. /\ c \in Seq(S) /\ Len(c) = Len(q) + Len(a)
      /\ \A i \in 1..(Len(q) + Len(a)) :
            c[i] = IF i <= Len(q) THEN q[i] ELSE a[i - Len(q)]
  BY <1>1, <1>2, <1>4, ConcatPlaces
<1>6. r = c \o b
  BY <1>4
<1>7. /\ r \in Seq(S) /\ Len(r) = Len(c) + Len(b)
      /\ \A i \in 1..(Len(c) + Len(b)) :
            r[i] = IF i <= Len(c) THEN c[i] ELSE b[i - Len(c)]
  <2>1. c \in Seq(S) /\ b \in Seq(S)
    BY <1>3, <1>5
  <2>2. /\ c \o b \in Seq(S) /\ Len(c \o b) = Len(c) + Len(b)
        /\ \A i \in 1..(Len(c) + Len(b)) :
              (c \o b)[i] = IF i <= Len(c) THEN c[i] ELSE b[i - Len(c)]
    BY <2>1, ConcatPlaces
  <2> QED
    BY <1>6, <2>2
<1>8. Len(q) \in Nat /\ DOMAIN q = 1..Len(q)
  BY <1>1
<1>9. Len(r) \in Nat /\ DOMAIN r = 1..Len(r) /\ r \in Seq(Range(r))
  <2>1. r \in Seq(S)
    BY <1>7
  <2>2. r \in Seq(Range(r))
    BY <2>1, OwnRange, Zenon
  <2>3. Len(r) \in Nat /\ DOMAIN r = 1..Len(r)
    BY <2>1
  <2> QED
    BY <2>2, <2>3
<1>10. ASSUME NEW i \in DOMAIN r
      PROVE  \/ i \in DOMAIN q /\ r[i] = q[i]
             \/ i > Len(q) /\ r[i] = h
             \/ i > Len(q) /\ i = Len(r) /\ r[i] = m
  <2>1. i \in Nat /\ 1 <= i /\ i <= Len(q) + Len(a) + Len(b)
    BY <1>5, <1>7, <1>9
  <2>2. CASE i <= Len(q)
    <3>1. i \in DOMAIN q /\ i \in 1..(Len(q) + Len(a)) /\ i \in 1..(Len(c) + Len(b))
          /\ i <= Len(c)
      BY <1>2, <1>3, <1>5, <1>8, <2>1, <2>2
    <3>2. c[i] = q[i]
      BY <1>5, <2>2, <3>1
    <3> QED
      BY <1>7, <3>1, <3>2
  <2>3. CASE i > Len(q) /\ i <= Len(c)
    <3>1. /\ i - Len(q) \in 1..Len(a) /\ ~(i <= Len(q)) /\ i \in 1..(Len(q) + Len(a))
          /\ i \in 1..(Len(c) + Len(b))
      BY <1>2, <1>3, <1>5, <1>8, <2>1, <2>3
    <3>2. c[i] = h
      BY <1>2, <1>5, <3>1
    <3> QED
      BY <1>7, <2>3, <3>1, <3>2, Zenon
  <2>4. CASE i > Len(c)
    <3>1. /\ i - Len(c) \in 1..Len(b) /\ ~(i <= Len(c)) /\ i > Len(q) /\ i = Len(r)
          /\ i \in 1..(Len(c) + Len(b))
      BY <1>2, <1>3, <1>5, <1>7, <1>8, <2>1, <2>4
    <3> QED
      BY <1>3, <1>7, <3>1
  <2>5. Len(c) \in Nat
    BY <1>2, <1>5, <1>8
  <2> QED
    BY <1>8, <2>1, <2>2, <2>3, <2>4, <2>5
<1>11. Len(r) >= Len(q) /\ (b # << >> => Len(r) > Len(q))
  <2>1. Len(r) = Len(q) + Len(a) + Len(b)
    BY <1>2, <1>3, <1>5, <1>7, <1>8
  <2>2. Len(r) >= Len(q)
    BY <1>2, <1>3, <1>8, <2>1
  <2>3. ASSUME Len(b) = 1 PROVE Len(r) > Len(q)
    BY <1>2, <1>8, <2>1, <2>3
  <2> QED
    BY <1>3, <2>2, <2>3
<1> QED
  BY <1>8, <1>9, <1>10, <1>11, Zenon DEF From

\* An element more than the old sequence had is at the end.
Grown(q, m, r) == Len(r) > Len(q) /\ r[Len(r)] = m

\* Of what is published at once, the unit is the last.
LEMMA LastPublished ==
    ASSUME NEW q, q \in Seq(Range(q)), NEW h, NEW m, NEW a \in {<< >>, << h >>},
           NEW b, b = << m >>, NEW r, r = (q \o a) \o b
    PROVE  Grown(q, m, r)
<1>1. PICK S : q \in Seq(S) /\ h \in S /\ m \in S
  BY WiderRange, Zenon
<1>2. a \in Seq(S) /\ Len(a) \in Nat
  BY <1>1, AtMostOne, Zenon
<1>3. b \in Seq(S) /\ Len(b) = 1 /\ b[1] = m
  BY <1>1
<1>4. PICK c : c = q \o a
  BY Zenon
<1>5. c \in Seq(S) /\ Len(c) = Len(q) + Len(a)
  BY <1>1, <1>2, <1>4, ConcatPlaces
<1>6. r = c \o b
  BY <1>4, Zenon
<1>7. /\ Len(r) = Len(c) + Len(b)
      /\ \A i \in 1..(Len(c) + Len(b)) :
            r[i] = IF i <= Len(c) THEN c[i] ELSE b[i - Len(c)]
  BY <1>3, <1>5, <1>6, ConcatPlaces
<1>8. Len(q) \in Nat /\ Len(c) \in Nat
  BY <1>1, <1>5
<1>9. /\ Len(r) \in 1..(Len(c) + Len(b)) /\ ~(Len(r) <= Len(c)) /\ Len(r) - Len(c) = 1
      /\ Len(r) > Len(q)
  BY <1>2, <1>3, <1>5, <1>7, <1>8
<1> QED
  BY <1>3, <1>7, <1>9 DEF Grown

LEMMA IngestInit ==
    ASSUME Ingest!Init
    PROVE  NetworkInv /\ TimesInv
<1>1. (\A i \in DOMAIN << >> : FALSE) /\ << >> \in Seq(Range(<< >>)) /\ \A S : << >> \in Seq(S)
  OBVIOUS
<1>2. NetworkInv
  BY <1>1, IngestNumbers DEF NetworkInv, Ingest!Init
<1>3. Ingest!OnTime
  BY <1>1 DEF Ingest!Init, Ingest!OnTime, Ingest!Media
<1>4. interval \in Nat \ {0}
  BY IngestNumbers, Zenon DEF Ingest!Init
<1>5. TimesInv
  BY <1>1, <1>3, <1>4 DEF TimesInv, Ingest!Init
<1> QED
  BY <1>2, <1>5

LEMMA TimesUnchanged ==
    ASSUME NetworkInv, TimesInv,
           UNCHANGED << track, times, wire, faults, lastTs, ticks, decodeTime, laps, interval,
                        output >>
    PROVE  NetworkInv' /\ TimesInv'
<1>1. NetworkInv'
  BY DEF NetworkInv, Late
<1>2. Ingest!OnTime'
  <2>1. Ingest!OnTime
    BY DEF TimesInv
  <2> QED
    BY <2>1 DEF Ingest!OnTime, Ingest!Media
<1>3. /\ \A u, t, d : PresentedBy(u, t, d)' <=> PresentedBy(u, t, d)
      /\ Decoded' = Decoded
      /\ \A u : Late(0, u)' <=> Late(0, u)
  BY DEF PresentedBy, Decoded, Late
<1>4. \A t : HeardBy(t)' <=> HeardBy(t)
  BY DEF HeardBy, Late
<1> QED
  BY <1>1, <1>2, <1>3, <1>4 DEF TimesInv

\* The publisher and the network change no output, and what was near stays near.
LEMMA TimesByNetwork ==
    ASSUME NetworkInv, TimesInv, Ingest!Send \/ Ingest!Fault
    PROVE  NetworkInv' /\ TimesInv'
<1>1. /\ NetworkInv' /\ track' = track
      /\ \A n \in DOMAIN times : /\ n \in DOMAIN times' /\ times'[n] = times[n]
                                 /\ Late(0, n) => Late(0, n)'
  <2>1. CASE Ingest!Send
    <3>1. track' = track
      BY <2>1 DEF Ingest!Send
    <3> QED
      BY <2>1, <3>1, LateBySending
  <2>2. CASE Ingest!Fault
    <3>1. UNCHANGED << track, times >>
      BY <2>2 DEF Ingest!Fault
    <3> QED
      BY <2>2, <3>1, LateByFault
  <2> QED
    BY <2>1, <2>2
<1>2. UNCHANGED << output, ticks, decodeTime, laps, interval, lastTs >>
  BY DEF Ingest!Send, Ingest!Fault, Ingest!timing
<1>3. \A i \in DOMAIN output : output[i].unit \in DOMAIN times
  BY DEF TimesInv
<1>4. Ingest!OnTime'
  <2>1. Ingest!OnTime
    BY DEF TimesInv
  <2> QED
    BY <1>1, <1>2, <1>3, <2>1 DEF Ingest!OnTime, Ingest!Media
<1>5. Decoded' = Decoded
  BY <1>2 DEF Decoded
<1>6. ASSUME NEW u \in DOMAIN times, PresentedBy(u, ticks, Decoded)
      PROVE  PresentedBy(u, ticks, Decoded)'
  BY <1>1, <1>2, <1>3, <1>5, <1>6 DEF PresentedBy
<1>7. track' = "video" /\ lastTs' # -1 =>
          \E u \in DOMAIN times' :
             /\ lastTs' = times'[u] % RtpClock /\ Late(0, u)'
             /\ PresentedBy(u, ticks, Decoded)'
  <2> SUFFICES ASSUME track' = "video", lastTs' # -1
               PROVE  \E u \in DOMAIN times' : /\ lastTs' = times'[u] % RtpClock /\ Late(0, u)'
                                               /\ PresentedBy(u, ticks, Decoded)'
    OBVIOUS
  <2>1. PICK u \in DOMAIN times : /\ lastTs = times[u] % RtpClock /\ Late(0, u)
                                  /\ PresentedBy(u, ticks, Decoded)
    BY <1>1, <1>2 DEF TimesInv
  <2>2. u \in DOMAIN times' /\ lastTs' = times'[u] % RtpClock /\ Late(0, u)'
    BY <1>1, <1>2, <2>1
  <2> QED
    BY <1>6, <2>1, <2>2
<1>8. ASSUME HeardBy(ticks), output \in Seq(Range(output)) PROVE HeardBy(ticks)'
  <2>1. PICK u : u = output[Len(output)].unit /\ u \in DOMAIN times /\ Late(0, u)
    BY <1>3, <1>8 DEF HeardBy
  <2>2. times'[u] = times[u] /\ Late(0, u)'
    BY <1>1, <2>1
  <2>3. output'[Len(output')].unit = u
    BY <1>2, <2>1
  <2>4. Late(0, output[Len(output)].unit)'
    BY <2>2, <2>3
  <2> QED
    BY <1>2, <1>8, <2>1, <2>2, <2>3, <2>4 DEF HeardBy
<1>9. /\ output' \in Seq(Range(output'))
      /\ \A i \in DOMAIN output' :
            /\ output'[i].unit \in DOMAIN times'
            /\ Ingest!Pts(output'[i]) \in Int /\ Ingest!Elapsed(output'[i]) \in Int
      /\ ticks' \in Int /\ decodeTime' \in Nat /\ laps' \in Nat /\ interval' \in Nat \ {0}
      /\ lastTs' \in Int
      /\ lastTs' = -1 => \A i \in DOMAIN output' : output'[i].header
      /\ track' = "aac" => ticks' \in Nat
      /\ track' = "aac" /\ lastTs' # -1 => HeardBy(ticks)'
  BY <1>1, <1>2, <1>3, <1>8 DEF TimesInv
<1> QED
  BY <1>1, <1>4, <1>7, <1>9 DEF TimesInv

LEMMA TimesByVideo ==
    ASSUME NetworkInv, TimesInv, Ingest!HandleVideo
    PROVE  NetworkInv' /\ TimesInv'
<1>1. /\ track = "video" /\ wire # << >> /\ wire' = Tail(wire) /\ UNCHANGED << track, times, faults >>
  BY DEF Ingest!HandleVideo
<1>2. PICK p \in Datagram : p = Head(wire) /\ p.form # "frames"
  BY <1>1, MoveHead DEF NetworkInv
<1>3. PICK n : n = p.unit /\ n \in DOMAIN times /\ Late(1, n)
  BY <1>1, <1>2, MoveHead DEF NetworkInv, Late
<1>4. NetworkInv' /\ Late(0, n)'
  BY <1>1, <1>2, <1>3, LateByTaking
<1>5. PICK au : au = current \o Ingest!Pieces(p)
  BY Zenon
<1>6. CASE ~p.marker
  <2>1. UNCHANGED << output, ticks, decodeTime, laps, interval, lastTs >>
    BY <1>2, <1>5, <1>6 DEF Ingest!HandleVideo, Ingest!timing
  <2>2. \A u \in DOMAIN times : Late(0, u) => Late(0, u)'
    BY <1>1, <1>2, <1>6, LateByTaking
  <2>3. Ingest!OnTime'
    BY <1>1, <2>1 DEF TimesInv, Ingest!OnTime, Ingest!Media
  <2>4. \A u : PresentedBy(u, ticks, Decoded)' <=> PresentedBy(u, ticks, Decoded)
    BY <1>1, <2>1 DEF PresentedBy, Decoded
  <2> QED
    BY <1>1, <1>4, <2>1, <2>2, <2>3, <2>4 DEF TimesInv
<1>7. CASE p.marker
  <2>1. /\ Ingest!NextTiming(n) /\ Ingest!PublishUnit(n, au)
    BY <1>2, <1>3, <1>5, <1>7 DEF Ingest!HandleVideo
  <2>2. /\ lastTs' = times[n] % RtpClock /\ lastTs' # -1 /\ lastTs' \in Int
        /\ times[n] \in Int
    <3>1. lastTs' = times[n] % RtpClock /\ times[n] \in Int
      BY <1>3, <2>1 DEF Ingest!NextTiming, Ingest!RtpTime, NetworkInv
    <3> QED
      BY <3>1, IngestNumbers
  <2>3. /\ ticks' \in Int /\ decodeTime' \in Nat /\ laps' \in Nat /\ Decoded' \in Nat
        /\ interval' \in Nat \ {0}
        /\ \A i \in DOMAIN output : ~output[i].header =>
              /\ Ingest!Exact(output[i]) =>
                    Ingest!Pts(output[i]) - times[output[i].unit] = ticks' - times[n]
              /\ Ingest!Elapsed(output[i]) < Decoded'
    <3>1. CASE lastTs = -1
      <4>1. UNCHANGED << ticks, decodeTime, laps, interval >>
        BY <2>1, <3>1 DEF Ingest!NextTiming
      <4>2. \A i \in DOMAIN output : output[i].header
        BY <3>1 DEF TimesInv
      <4>3. ticks \in Int /\ decodeTime \in Nat /\ laps \in Nat /\ interval \in Nat \ {0}
        BY DEF TimesInv
      <4>4. laps * Word + decodeTime \in Nat
        BY <4>3, IngestNumbers
      <4> QED
        BY <4>1, <4>2, <4>3, <4>4 DEF Decoded
    <3>2. CASE lastTs # -1
      <4>1. PICK u \in DOMAIN times :
               /\ lastTs = times[u] % RtpClock /\ Late(0, u)
               /\ PresentedBy(u, ticks, Decoded)
        BY <1>1, <3>2 DEF TimesInv
      <4>2. PICK step \in Nat \ {0} :
               /\ ticks' = ticks + Ingest!SignedDelta(times[n] % RtpClock, lastTs)
               /\ decodeTime' = (decodeTime + step) % Word /\ interval' = step
               /\ laps' = laps + ((decodeTime + step) \div Word)
        <5>1. interval \in Nat \ {0}
          BY DEF TimesInv
        <5>2. PICK gcd, step :
                 /\ step = IF gcd # deltaGcd /\ gcd \in MinInterval..MaxInterval
                           THEN gcd ELSE interval
                 /\ ticks' = ticks + Ingest!SignedDelta(times[n] % RtpClock, lastTs)
                 /\ decodeTime' = (decodeTime + step) % Word /\ interval' = step
                 /\ laps' = laps + ((decodeTime + step) \div Word)
          BY <2>1, <3>2, Zenon DEF Ingest!NextTiming, Ingest!RtpTime
        <5>3. step \in Nat \ {0}
          BY <5>1, <5>2, IngestNumbers
        <5> QED
          BY <5>2, <5>3, Zenon
      <4>3. /\ times[u] \in Int
            /\ Ingest!SignedDelta(times[n] % RtpClock, lastTs) = times[n] - times[u]
        BY <1>3, <4>1, UnitsAreNear, SignedDeltaIsDelta
      <4>4. ticks \in Int /\ decodeTime \in Nat /\ laps \in Nat
        BY DEF TimesInv
      <4>5. /\ decodeTime' \in Nat /\ laps' \in Nat
            /\ Decoded \in Nat /\ Decoded' = Decoded + step
        <5>1. PICK t \in Nat : t = decodeTime + step
          BY <4>4
        <5>2. Word \in Nat \ {0}
          BY IngestNumbers
        <5>3. /\ t % Word \in Nat /\ t \div Word \in Nat /\ laps * Word \in Nat
              /\ (laps + (t \div Word)) * Word + (t % Word) = laps * Word + t
          BY <4>4, <5>2, Counted
        <5>4. decodeTime' = t % Word /\ laps' = laps + (t \div Word)
          BY <4>2, <5>1
        <5>5. laps' * Word + decodeTime' = laps * Word + t
          BY <5>3, <5>4, Zenon
        <5>6. decodeTime' \in Nat /\ laps' \in Nat
          BY <4>4, <5>3, <5>4
        <5>7. PICK whole \in Nat : whole = laps * Word
          BY <5>3
        <5>8. Decoded = whole + decodeTime /\ Decoded' = whole + t
          BY <5>5, <5>7, Zenon DEF Decoded
        <5> QED
          BY <4>4, <5>1, <5>6, <5>8
      <4>6. ASSUME NEW i \in DOMAIN output, ~output[i].header
            PROVE  /\ Ingest!Exact(output[i]) =>
                         Ingest!Pts(output[i]) - times[output[i].unit] = ticks' - times[n]
                   /\ Ingest!Elapsed(output[i]) < Decoded'
        <5>1. /\ Ingest!Elapsed(output[i]) \in Int /\ Ingest!Elapsed(output[i]) <= Decoded
              /\ Ingest!Exact(output[i]) =>
                    Ingest!Pts(output[i]) - times[output[i].unit] = ticks - times[u]
          BY <4>1, <4>6 DEF TimesInv, PresentedBy
        <5>2. ticks' - times[n] = ticks - times[u]
          BY <2>2, <4>2, <4>3, <4>4
        <5> QED
          BY <4>2, <4>5, <5>1, <5>2
      <4>7. ticks' \in Int
        BY <2>2, <4>2, <4>3, <4>4
      <4> QED
        BY <4>2, <4>5, <4>6, <4>7
    <3> QED
      BY <3>1, <3>2
  <2>4. PICK h, m :
           /\ h.header /\ h.unit = n /\ Ingest!Pts(h) \in Int /\ Ingest!Elapsed(h) \in Int
           /\ m.unit = n /\ Ingest!Pts(m) \in Int /\ Ingest!Elapsed(m) = Decoded'
           /\ Ingest!Exact(m) => Ingest!Pts(m) = ticks'
           /\ output' \in Seq(Range(output')) /\ From(output, h, m, output')
    <3>1. PICK h : h = Ingest!Message(n, TRUE, << >>, decodeTime', 0, laps')
      BY Zenon
    <3>2. PICK cts : cts = Ingest!Composition'
      BY Zenon
    <3>3. PICK m : m = Ingest!Message(n, FALSE, Ingest!Body(au), decodeTime', cts, laps')
      BY Zenon
    <3>4. PICK a : a = IF ~sentSequence /\ Ingest!HasSets(au) THEN << h >> ELSE << >>
      BY Zenon
    <3>5. PICK b : b = IF Ingest!Body(au) # << >> THEN << m >> ELSE << >>
      BY Zenon
    <3>6. a \in {<< >>, << h >>} /\ b \in {<< >>, << m >>}
      BY <3>4, <3>5
    <3>7. output' = (output \o a) \o b
      BY <2>1, <3>1, <3>2, <3>3, <3>4, <3>5 DEF Ingest!PublishUnit
    <3>8. PICK r : r = output'
      OBVIOUS
    <3>9. r = (output \o a) \o b
      BY <3>7, <3>8
    <3>10. /\ h.header /\ h.unit = n /\ h.dts = decodeTime' /\ h.cts = 0 /\ h.laps = laps'
           /\ m.unit = n /\ m.dts = decodeTime' /\ m.cts = cts /\ m.laps = laps'
      BY <3>1, <3>3 DEF Ingest!Message
    <3>11. output \in Seq(Range(output))
      BY DEF TimesInv
    <3>12. r \in Seq(Range(r)) /\ From(output, h, m, r)
      BY <3>6, <3>9, <3>11, Publishing, Zenon
    <3>13. /\ cts \in Int
           /\ cts \in (1 - MaxComposition)..(MaxComposition - 2) => cts = ticks' - decodeTime'
      <4>1. ticks' - decodeTime' \in Int
        BY <2>3
      <4>2. cts = Ingest!Max({-MaxComposition,
                              Ingest!Min({MaxComposition - 1, ticks' - decodeTime'})})
        BY <3>2, Zenon DEF Ingest!Composition
      <4> QED
        BY <4>1, <4>2, WithinLimits, Zenon
    <3>14. Ingest!Pts(h) \in Int /\ Ingest!Pts(m) \in Int
      BY <2>3, <3>10, <3>13 DEF Ingest!Pts
    <3>15. Ingest!Elapsed(h) = Decoded' /\ Ingest!Elapsed(m) = Decoded'
      BY <3>10, Zenon DEF Ingest!Elapsed, Decoded
    <3>16. Ingest!Exact(m) => Ingest!Pts(m) = ticks'
      <4>1. Ingest!Exact(m) => cts = ticks' - decodeTime'
        BY <3>10, <3>13, Zenon DEF Ingest!Exact
      <4>2. Ingest!Pts(m) = decodeTime' + cts
        BY <3>10, Zenon DEF Ingest!Pts
      <4> QED
        BY <2>3, <3>13, <4>1, <4>2
    <3>17. Ingest!Elapsed(h) \in Int
      BY <2>3, <3>15
    <3> QED
      BY <3>8, <3>10, <3>12, <3>14, <3>15, <3>16, <3>17, Zenon
  <2>5. From(output, h, m, output')
    BY <2>4
  <2>6. \A i \in DOMAIN output' :
           /\ output'[i].unit \in DOMAIN times'
           /\ Ingest!Pts(output'[i]) \in Int /\ Ingest!Elapsed(output'[i]) \in Int
    <3> SUFFICES ASSUME NEW i \in DOMAIN output'
                 PROVE  /\ output'[i].unit \in DOMAIN times
                        /\ Ingest!Pts(output'[i]) \in Int /\ Ingest!Elapsed(output'[i]) \in Int
      BY <1>1
    <3>1. CASE i \in DOMAIN output /\ output'[i] = output[i]
      BY <3>1 DEF TimesInv
    <3>2. CASE output'[i] = h \/ output'[i] = m
      BY <1>3, <2>3, <2>4, <3>2
    <3> QED
      BY <2>5, <3>1, <3>2 DEF From
  <2>7. \A i \in DOMAIN output' : ~output'[i].header =>
           /\ Ingest!Exact(output'[i]) =>
                 Ingest!Pts(output'[i]) - times'[output'[i].unit] = ticks' - times'[n]
           /\ Ingest!Elapsed(output'[i]) <= Decoded'
    <3> SUFFICES ASSUME NEW i \in DOMAIN output', ~output'[i].header
                 PROVE  /\ Ingest!Exact(output'[i]) =>
                              Ingest!Pts(output'[i]) - times[output'[i].unit] = ticks' - times[n]
                        /\ Ingest!Elapsed(output'[i]) <= Decoded'
      BY <1>1
    <3>1. CASE i \in DOMAIN output /\ output'[i] = output[i]
      <4>1. /\ Ingest!Elapsed(output[i]) \in Int /\ Ingest!Elapsed(output[i]) < Decoded'
            /\ Ingest!Exact(output[i]) =>
                  Ingest!Pts(output[i]) - times[output[i].unit] = ticks' - times[n]
        BY <2>3, <3>1 DEF TimesInv
      <4>2. Ingest!Elapsed(output[i]) <= Decoded'
        BY <2>3, <4>1
      <4> QED
        BY <3>1, <4>1, <4>2
    <3>2. CASE output'[i] = m
      <4>1. Decoded' <= Decoded'
        BY <2>3
      <4> QED
        BY <2>4, <3>2, <4>1
    <3> QED
      BY <2>4, <2>5, <3>1, <3>2 DEF From
  <2>8. Ingest!OnTime'
    <3> SUFFICES ASSUME NEW i \in DOMAIN output', NEW j \in DOMAIN output', i < j,
                        ~output'[i].header, ~output'[j].header
                 PROVE  /\ Ingest!Exact(output'[i]) /\ Ingest!Exact(output'[j]) =>
                              Ingest!Pts(output'[j]) - Ingest!Pts(output'[i])
                                 = times'[output'[j].unit] - times'[output'[i].unit]
                        /\ Ingest!Elapsed(output'[i]) < Ingest!Elapsed(output'[j])
      BY <1>1 DEF Ingest!OnTime, Ingest!Media
    <3>1. /\ Ingest!Pts(output'[j]) \in Int /\ Ingest!Pts(output'[i]) \in Int
          /\ times'[output'[j].unit] \in Int /\ times'[output'[i].unit] \in Int
          /\ times'[n] \in Int
      BY <1>1, <1>3, <2>6 DEF NetworkInv
    <3>2. ASSUME Ingest!Exact(output'[i]), Ingest!Exact(output'[j])
          PROVE  Ingest!Pts(output'[j]) - Ingest!Pts(output'[i])
                    = times'[output'[j].unit] - times'[output'[i].unit]
      <4>1. /\ Ingest!Pts(output'[i]) - times'[output'[i].unit] = ticks' - times'[n]
            /\ Ingest!Pts(output'[j]) - times'[output'[j].unit] = ticks' - times'[n]
        BY <2>7, <3>2
      <4>2. PICK late \in Int : late = ticks' - times'[n]
        BY <2>3, <3>1
      <4> QED
        BY <3>1, <4>1, <4>2
    <3>3. CASE j \in DOMAIN output /\ output'[j] = output[j]
      <4>1. i \in DOMAIN output /\ output'[i] = output[i]
        BY <2>5, <3>3 DEF From
      <4>2. Ingest!Elapsed(output[i]) < Ingest!Elapsed(output[j])
        BY <3>3, <4>1 DEF TimesInv, Ingest!OnTime, Ingest!Media
      <4> QED
        BY <3>2, <3>3, <4>1, <4>2
    <3>4. CASE j = Len(output') /\ output'[j] = m
      <4>1. i # Len(output')
        BY <2>5, <3>4 DEF From
      <4>2. output'[i] # h
        BY <2>4
      <4>3. i \in DOMAIN output /\ output'[i] = output[i]
        BY <2>5, <4>1, <4>2 DEF From
      <4> QED
        BY <2>3, <2>4, <3>2, <3>4, <4>3
    <3> QED
      BY <2>4, <2>5, <3>3, <3>4 DEF From
  <2>9. /\ lastTs' = -1 => \A i \in DOMAIN output' : output'[i].header
        /\ track' = "video" /\ lastTs' # -1 =>
              \E u \in DOMAIN times' :
                 /\ lastTs' = times'[u] % RtpClock /\ Late(0, u)'
                 /\ PresentedBy(u, ticks, Decoded)'
        /\ track' # "aac"
    <3>1. PresentedBy(n, ticks, Decoded)'
      BY <2>7 DEF PresentedBy
    <3> QED
      BY <1>1, <1>3, <1>4, <2>2, <3>1
  <2>10. TimesInv'
    BY <2>2, <2>3, <2>4, <2>6, <2>8, <2>9 DEF TimesInv
  <2> QED
    BY <1>4, <2>10
<1> QED
  BY <1>6, <1>7

LEMMA TimesByAudio ==
    ASSUME NetworkInv, TimesInv, Ingest!HandleAudio
    PROVE  NetworkInv' /\ TimesInv'
<1>1. /\ track = "aac" /\ wire # << >> /\ wire' = Tail(wire) /\ UNCHANGED << track, times, faults >>
      /\ UNCHANGED << decodeTime, laps, interval >>
  BY DEF Ingest!HandleAudio
<1>2. PICK n : n = Head(wire).unit /\ n \in DOMAIN times /\ Late(1, n)
  BY <1>1, MoveHead DEF NetworkInv, Late
<1>3. NetworkInv' /\ Late(0, n)'
  BY <1>1, <1>2, LateByTaking
<1>4. /\ lastTs' = times[n] % RtpClock /\ lastTs' # -1 /\ lastTs' \in Int
  <2>1. lastTs' = times[n] % RtpClock /\ times[n] \in Int
    BY <1>2 DEF Ingest!HandleAudio, Ingest!RtpTime, NetworkInv
  <2> QED
    BY <2>1, IngestNumbers
<1>5. /\ output \in Seq(Range(output)) /\ ticks \in Nat
      /\ lastTs = -1 => \A i \in DOMAIN output : output[i].header
      /\ lastTs # -1 => HeardBy(ticks)
      /\ Ingest!OnTime
  BY <1>1 DEF TimesInv
<1>6. /\ ticks' \in Nat
      /\ lastTs # -1 => /\ ticks < ticks'
                        /\ ticks' - ticks = Counts(((times[n] % RtpClock) - lastTs) % RtpClock,
                                                   AudioGap)
  <2>1. PICK delta : delta = ((times[n] % RtpClock) - lastTs) % RtpClock
    OBVIOUS
  <2>2. PICK step : step = Counts(delta, AudioGap)
    OBVIOUS
  <2>3. ticks' = IF lastTs = -1 THEN 0 ELSE ticks + step
    BY <1>2, <2>1, <2>2, Zenon
       DEF Ingest!HandleAudio, Ingest!NextElapsed, Ingest!RtpTime, Counts
  <2>4. step \in Nat \ {0}
    BY <2>2, IngestNumbers DEF Counts
  <2>5. ticks' \in Nat /\ (lastTs # -1 => ticks < ticks' /\ ticks' - ticks = step)
    BY <1>5, <2>3, <2>4
  <2> QED
    BY <2>1, <2>2, <2>5, Zenon
<1>7. PICK h, m :
         /\ h.header /\ h.unit = n /\ Ingest!Pts(h) \in Int /\ Ingest!Elapsed(h) \in Int
         /\ ~m.header /\ m.unit = n /\ Ingest!Pts(m) \in Int /\ Ingest!Elapsed(m) = ticks'
         /\ output' \in Seq(Range(output')) /\ From(output, h, m, output')
         /\ Grown(output, m, output')
  <2>1. PICK h : h = Ingest!Message(n, TRUE, << >>, 0, 0, 0)
    BY Zenon
  <2>2. PICK m : m = Ingest!Message(n, FALSE, << >>, ticks' % Word, 0, ticks' \div Word)
    BY Zenon
  <2>3. /\ h.header /\ h.unit = n /\ h.dts = 0 /\ h.cts = 0 /\ h.laps = 0
        /\ ~m.header /\ m.unit = n /\ m.dts = ticks' % Word /\ m.cts = 0
        /\ m.laps = ticks' \div Word
    BY <2>1, <2>2 DEF Ingest!Message
  <2>4. PICK a : a = IF sentSequence THEN << >> ELSE << h >>
    BY Zenon
  <2>5. PICK b : b = << m >>
    BY Zenon
  <2>6. a \in {<< >>, << h >>} /\ b \in {<< >>, << m >>} /\ b # << >>
    BY <2>4, <2>5
  <2>7. output' = output \o (IF sentSequence THEN << m >> ELSE << h, m >>)
    BY <1>2, <2>1, <2>2 DEF Ingest!HandleAudio
  <2>8. PICK r : r = output'
    OBVIOUS
  <2>9. r = (output \o a) \o b
    <3>1. PICK S : output \in Seq(S) /\ h \in S /\ m \in S
      BY <1>5, WiderRange, Zenon
    <3>2. CASE sentSequence
      BY <2>4, <2>5, <2>7, <2>8, <3>1, <3>2
    <3>3. CASE ~sentSequence
      BY <2>4, <2>5, <2>7, <2>8, <3>1, <3>3
    <3> QED
      BY <3>2, <3>3
  <2>10. r \in Seq(Range(r)) /\ From(output, h, m, r)
    BY <1>5, <2>6, <2>9, Publishing, Zenon
  <2>11. Grown(output, m, r)
    BY <1>5, <2>5, <2>6, <2>9, LastPublished, Zenon
  <2>12. Ingest!Elapsed(m) = ticks'
    <3>1. PICK w \in Nat \ {0} : w = Word
      BY IngestNumbers
    <3>2. PICK t \in Nat : t = ticks'
      BY <1>6
    <3>3. (t \div w) * w + (t % w) = t
      BY OneWord
    <3>4. (ticks' \div w) * w + (ticks' % w) = ticks'
      BY <3>2, <3>3, Zenon
    <3> QED
      BY <2>3, <3>1, <3>4, Zenon DEF Ingest!Elapsed
  <2>13. Ingest!Pts(h) \in Int /\ Ingest!Elapsed(h) \in Int
    BY <2>3, IngestNumbers DEF Ingest!Pts, Ingest!Elapsed
  <2>14. Ingest!Pts(m) \in Int
    BY <1>6, <2>3, IngestNumbers DEF Ingest!Pts
  <2> QED
    BY <2>3, <2>8, <2>10, <2>11, <2>12, <2>13, <2>14, Zenon
<1>8. \A i \in DOMAIN output' :
         /\ output'[i].unit \in DOMAIN times'
         /\ Ingest!Pts(output'[i]) \in Int /\ Ingest!Elapsed(output'[i]) \in Int
  <2> SUFFICES ASSUME NEW i \in DOMAIN output'
               PROVE  /\ output'[i].unit \in DOMAIN times
                      /\ Ingest!Pts(output'[i]) \in Int /\ Ingest!Elapsed(output'[i]) \in Int
    BY <1>1
  <2>1. CASE i \in DOMAIN output /\ output'[i] = output[i]
    BY <2>1 DEF TimesInv
  <2>2. CASE output'[i] = h \/ output'[i] = m
    BY <1>2, <1>6, <1>7, <2>2
  <2> QED
    BY <1>7, <2>1, <2>2 DEF From
<1>9. ASSUME NEW i \in DOMAIN output', ~output'[i].header
      PROVE  \/ /\ i \in DOMAIN output /\ output'[i] = output[i] /\ lastTs # -1
                /\ Ingest!Elapsed(output[i]) \in Int
                /\ Ingest!Elapsed(output[i]) <= ticks
             \/ i = Len(output') /\ output'[i] = m
  <2>1. CASE i \in DOMAIN output /\ output'[i] = output[i]
    <3>1. lastTs # -1
      BY <1>5, <1>9, <2>1
    <3>2. Ingest!Elapsed(output[i]) <= ticks
      BY <1>5, <1>9, <2>1, <3>1 DEF HeardBy
    <3> QED
      BY <2>1, <3>1, <3>2 DEF TimesInv
  <2>2. CASE output'[i] # output[i] \/ i \notin DOMAIN output
    BY <1>7, <1>9, <2>2 DEF From
  <2> QED
    BY <2>1, <2>2
<1>10. /\ Len(output') > Len(output) /\ output'[Len(output')] = m
       /\ Len(output) \in Nat /\ Len(output') \in Nat
       /\ DOMAIN output = 1..Len(output) /\ DOMAIN output' = 1..Len(output')
  BY <1>7, Zenon DEF Grown, From
<1>11. HeardBy(ticks)'
  <2>1. \A i \in DOMAIN output' : ~output'[i].header => Ingest!Elapsed(output'[i]) <= ticks'
    <3> SUFFICES ASSUME NEW i \in DOMAIN output', ~output'[i].header
                 PROVE  Ingest!Elapsed(output'[i]) <= ticks'
      OBVIOUS
    <3>1. CASE output'[i] = m
      <4>1. ticks' <= ticks'
        BY <1>6
      <4> QED
        BY <1>7, <3>1, <4>1
    <3>2. CASE output'[i] = output[i] /\ lastTs # -1 /\ Ingest!Elapsed(output[i]) \in Int
               /\ Ingest!Elapsed(output[i]) <= ticks
      BY <1>5, <1>6, <3>2
    <3> QED
      BY <1>9, <3>1, <3>2
  <2>2. Len(output') > 0
    BY <1>10
  <2>3. output'[Len(output')].unit = n
    BY <1>7, <1>10
  <2>4. Late(0, output[Len(output)].unit)'
    BY <1>3, <2>3
  <2>5. lastTs' = times'[n] % RtpClock
    BY <1>1, <1>4
  <2> QED
    BY <1>7, <1>10, <2>1, <2>2, <2>3, <2>4, <2>5 DEF HeardBy
<1>12. Ingest!OnTime'
  <2> SUFFICES ASSUME NEW i \in DOMAIN output', NEW j \in DOMAIN output', i < j,
                      ~output'[i].header, ~output'[j].header
               PROVE  /\ Ingest!Elapsed(output'[i]) < Ingest!Elapsed(output'[j])
                      /\ (\A k \in Ingest!Media' : k <= i \/ k >= j) =>
                            Ingest!Elapsed(output'[j]) - Ingest!Elapsed(output'[i])
                               = Counts(times'[output'[j].unit] - times'[output'[i].unit],
                                        AudioGap)
    BY <1>1 DEF Ingest!OnTime, Ingest!Media, Counts
  <2>1. CASE j \in DOMAIN output
    <3>1. \A k \in DOMAIN output : k \in DOMAIN output' /\ output'[k] = output[k]
      <4> SUFFICES ASSUME NEW k \in DOMAIN output
                   PROVE  k \in DOMAIN output' /\ output'[k] = output[k]
        OBVIOUS
      <4>1. k \in DOMAIN output' /\ ~(k > Len(output))
        BY <1>10
      <4> QED
        BY <1>7, <4>1 DEF From
    <3>2. i \in DOMAIN output /\ output'[i] = output[i] /\ output'[j] = output[j]
      BY <1>10, <2>1, <3>1
    <3>3. i \in Ingest!Media /\ j \in Ingest!Media
      BY <2>1, <3>2 DEF Ingest!Media
    <3>4. \A k \in Ingest!Media : k \in Ingest!Media'
      BY <3>1 DEF Ingest!Media
    <3>5. /\ Ingest!Elapsed(output[i]) < Ingest!Elapsed(output[j])
          /\ (\A k \in Ingest!Media : k <= i \/ k >= j) =>
                Ingest!Elapsed(output[j]) - Ingest!Elapsed(output[i])
                   = Counts(times[output[j].unit] - times[output[i].unit], AudioGap)
      BY <1>1, <1>5, <3>3, Zenon DEF Ingest!OnTime, Counts
    <3> QED
      BY <1>1, <3>2, <3>4, <3>5, Zenon
  <2>2. CASE j = Len(output') /\ output'[j] = m
    <3>1. i # Len(output')
      BY <1>10, <2>2
    <3>2. /\ i \in DOMAIN output /\ output'[i] = output[i] /\ lastTs # -1
          /\ Ingest!Elapsed(output[i]) \in Int /\ Ingest!Elapsed(output[i]) <= ticks
      BY <1>9, <3>1
    <3>3. Ingest!Elapsed(output'[j]) = ticks' /\ ticks < ticks'
      BY <1>6, <1>7, <2>2, <3>2
    <3>4. Ingest!Elapsed(output'[i]) < Ingest!Elapsed(output'[j])
      BY <1>5, <1>6, <3>2, <3>3
    <3>5. PICK k, u :
             /\ k = Len(output) /\ k > 0 /\ u = output[k].unit /\ ~output[k].header
             /\ lastTs = times[u] % RtpClock /\ Late(0, u) /\ Ingest!Elapsed(output[k]) = ticks
      BY <1>5, <3>2, Zenon DEF HeardBy
    <3>6. k \in Ingest!Media' /\ output'[k] = output[k]
      <4>1. k \in DOMAIN output /\ k \in DOMAIN output' /\ ~(k > Len(output))
        BY <1>10, <3>5
      <4>2. output'[k] = output[k]
        BY <1>7, <4>1 DEF From
      <4> QED
        BY <3>5, <4>1, <4>2 DEF Ingest!Media
    <3>7. ASSUME \A l \in Ingest!Media' : l <= i \/ l >= j
          PROVE  i = k
      <4>1. k <= i \/ k >= j
        BY <3>6, <3>7
      <4>2. /\ k \in Nat /\ i \in 1..k /\ j > k /\ j \in Nat
        BY <1>10, <2>2, <3>2, <3>5
      <4> QED
        BY <4>1, <4>2
    <3>8. Counts(((times[n] % RtpClock) - (times[u] % RtpClock)) % RtpClock, AudioGap)
             = Counts(times[n] - times[u], AudioGap)
      BY <1>2, <3>5, UnitsAreNear, StepOfClock
    <3>9. ticks' - ticks = Counts(times[n] - times[u], AudioGap)
      BY <1>6, <3>2, <3>5, <3>8
    <3>10. output'[j].unit = n /\ times' = times
      BY <1>1, <1>7, <2>2
    <3>11. ASSUME i = k
           PROVE  /\ Ingest!Elapsed(output'[i]) = ticks
                  /\ output'[i].unit = u
      BY <3>2, <3>5, <3>11
    <3> QED
      BY <3>3, <3>4, <3>7, <3>9, <3>10, <3>11, Zenon
  <2>3. j \in DOMAIN output \/ (j = Len(output') /\ output'[j] = m)
    BY <1>9
  <2> QED
    BY <2>1, <2>2, <2>3
<1>13. TimesInv'
  <2>1. decodeTime' \in Nat /\ laps' \in Nat /\ interval' \in Nat \ {0}
    BY <1>1 DEF TimesInv
  <2>2. track' = "aac" /\ ticks' \in Int
    BY <1>1, <1>6
  <2> QED
    BY <1>4, <1>6, <1>7, <1>8, <1>11, <1>12, <2>1, <2>2 DEF TimesInv
<1> QED
  BY <1>3, <1>13

\* What is published carries the source's times (RtpIngest's OnTime).
THEOREM OnTimeHolds ==
    Spec => []OnTime
<1> DEFINE Inv == part = "ingest" => NetworkInv /\ TimesInv
<1>1. Init => Inv
  BY InitOfPart, IngestInit
<1>2. Inv /\ [Next]_allVars => Inv'
  <2> SUFFICES ASSUME part = "ingest", NetworkInv, TimesInv, [Next]_allVars
               PROVE  NetworkInv' /\ TimesInv'
    BY StepOfPart
  <2>1. CASE Ingest!Send \/ Ingest!Fault
    BY <2>1, TimesByNetwork
  <2>2. CASE Ingest!HandleVideo
    BY <2>2, TimesByVideo
  <2>3. CASE Ingest!HandleAudio
    BY <2>3, TimesByAudio
  <2>4. CASE UNCHANGED ingestVs
    <3>1. UNCHANGED << track, times, wire, faults, lastTs, ticks, decodeTime, laps, interval,
                       output >>
      BY <2>4 DEF ingestVs
    <3> QED
      BY <3>1, TimesUnchanged
  <2> QED
    BY <2>1, <2>2, <2>3, <2>4, StepOfPart DEF Ingest!Next
<1>3. Inv => OnTime
  BY DEF TimesInv, OnTime
<1> QED
  BY <1>1, <1>2, <1>3, PTL DEF Spec, allVars


\* How many packets a unit has in a shape.
ShapeLen(shape) == IF shape = "whole" THEN 1 ELSE 3

\* The packet of a unit that has left - 1 others behind it.
PacketAt(n, shape, left) ==
    IF shape = "whole" THEN Ingest!Packet(n, "nal", TRUE)
    ELSE IF left = 3 THEN Ingest!Packet(n, "sets", FALSE)
    ELSE IF left = 2 THEN Ingest!Packet(n, "start", FALSE)
    ELSE Ingest!Packet(n, "rest", TRUE)

\* What is assembled of a unit when its last packets are left.
Begun(n, shape, left) ==
    IF left = ShapeLen(shape) THEN << >>
    ELSE IF left = 2 THEN << Ingest!StartCode, << n, "sps" >>, Ingest!StartCode, << n, "pps" >> >>
    ELSE << Ingest!StartCode, << n, "sps" >>, Ingest!StartCode, << n, "pps" >>,
            Ingest!StartCode, << n, "first" >> >>

\* The last packets of a unit that the network did not hit stand together on the wire, behind
\* all that is left of the units before and before all that came after.  The first of them to
\* be received find what the others left, when the unit before was not hit either.
Stand(n, shape, ahead, left) ==
    /\ left <= ShapeLen(shape) /\ ahead + left <= Len(wire)
    /\ \A i \in 1..left : wire[ahead + i] = PacketAt(n, shape, left + 1 - i)
    /\ \A i \in DOMAIN wire : /\ i <= ahead => wire[i].unit < n
                              /\ i > ahead + left => wire[i].unit > n
    /\ ahead > 0 => left = ShapeLen(shape)
    /\ ahead = 0 /\ left > 0 /\ n - 1 \notin hit => current = Begun(n, shape, left)

\* A unit is published when its last packet is received, as it was sent if what it found was.
PublishedOnce(n) ==
    \E i \in Ingest!Media :
        /\ output[i].unit = n /\ output[i].body \in Ingest!Sent(n)
        /\ \A j \in Ingest!Media \ {i} : output[j].unit # n

Placed(n, shape, ahead, left) ==
    /\ Stand(n, shape, ahead, left)
    /\ left > 0 => \A i \in Ingest!Media : output[i].unit # n
    /\ left = 0 /\ n - 1 \notin hit => PublishedOnce(n)

Unhit == {n \in DOMAIN times : n \notin hit}

DamageInv ==
    /\ hit \subseteq DOMAIN times
    /\ wire = << >> /\ Len(times) \notin hit => current = << >>
    /\ \A n \in Unhit : \E shape \in {"whole", "parts"}, ahead \in Nat, left \in 0..3 :
          Placed(n, shape, ahead, left)

\* A concatenation is the sequence that has the places of both.
LEMMA JoinIs ==
    ASSUME NEW S, NEW p \in Seq(S), NEW q \in Seq(S), NEW r \in Seq(S),
           Len(r) = Len(p) + Len(q),
           \A i \in 1..Len(p) : r[i] = p[i],
           \A i \in 1..Len(q) : r[Len(p) + i] = q[i]
    PROVE  p \o q = r
<1>1. /\ p \o q \in Seq(S) /\ Len(p \o q) = Len(p) + Len(q)
      /\ \A i \in 1..(Len(p) + Len(q)) :
            (p \o q)[i] = IF i <= Len(p) THEN p[i] ELSE q[i - Len(p)]
  BY ConcatPlaces
<1>2. Len(p) \in Nat /\ Len(q) \in Nat
  OBVIOUS
<1>3. ASSUME NEW i \in 1..(Len(p) + Len(q)) PROVE (p \o q)[i] = r[i]
  <2>1. CASE i <= Len(p)
    BY <1>1, <1>2, <2>1
  <2>2. CASE ~(i <= Len(p))
    <3>1. i - Len(p) \in 1..Len(q) /\ Len(p) + (i - Len(p)) = i
      BY <1>2, <2>2
    <3> QED
      BY <1>1, <2>2, <3>1
  <2> QED
    BY <2>1, <2>2
<1> QED
  BY <1>1, <1>2, <1>3

\* Tuples joined.
LEMMA Joins ==
    ASSUME NEW c, NEW x, NEW y, NEW z, NEW w
    PROVE  /\ << c, x >> \o << c, y >> = << c, x, c, y >>
           /\ << c, x, c, y >> \o << c, z >> = << c, x, c, y, c, z >>
           /\ << c, x, c, y, c, z >> \o << w >> = << c, x, c, y, c, z, w >>
<1>1. PICK S : S = {c, x, y, z, w}
  OBVIOUS
<1>2. << c, x >> \o << c, y >> = << c, x, c, y >>
  <2>1. PICK p, q, r : p = << c, x >> /\ q = << c, y >> /\ r = << c, x, c, y >>
    OBVIOUS
  <2>2. p \in Seq(S) /\ Len(p) = 2 /\ p[1] = c /\ p[2] = x
    BY <1>1, <2>1
  <2>3. q \in Seq(S) /\ Len(q) = 2 /\ q[1] = c /\ q[2] = y
    BY <1>1, <2>1
  <2>4. r \in Seq(S) /\ Len(r) = 4 /\ r[1] = c /\ r[2] = x /\ r[3] = c /\ r[4] = y
    BY <1>1, <2>1
  <2>5. /\ Len(r) = Len(p) + Len(q) /\ \A i \in 1..Len(p) : r[i] = p[i]
        /\ \A i \in 1..Len(q) : r[Len(p) + i] = q[i]
    BY <2>2, <2>3, <2>4
  <2>6. p \o q = r
    BY <2>2, <2>3, <2>4, <2>5, JoinIs, Zenon
  <2> QED
    BY <2>1, <2>6, Zenon
<1>3. << c, x, c, y >> \o << c, z >> = << c, x, c, y, c, z >>
  <2>1. PICK p, q, r : p = << c, x, c, y >> /\ q = << c, z >> /\ r = << c, x, c, y, c, z >>
    OBVIOUS
  <2>2. p \in Seq(S) /\ Len(p) = 4 /\ p[1] = c /\ p[2] = x /\ p[3] = c /\ p[4] = y
    BY <1>1, <2>1
  <2>3. q \in Seq(S) /\ Len(q) = 2 /\ q[1] = c /\ q[2] = z
    BY <1>1, <2>1
  <2>4. /\ r \in Seq(S) /\ Len(r) = 6 /\ r[1] = c /\ r[2] = x /\ r[3] = c /\ r[4] = y
        /\ r[5] = c /\ r[6] = z
    BY <1>1, <2>1
  <2>5. /\ Len(r) = Len(p) + Len(q) /\ \A i \in 1..Len(p) : r[i] = p[i]
        /\ \A i \in 1..Len(q) : r[Len(p) + i] = q[i]
    BY <2>2, <2>3, <2>4
  <2>6. p \o q = r
    BY <2>2, <2>3, <2>4, <2>5, JoinIs, Zenon
  <2> QED
    BY <2>1, <2>6, Zenon
<1>4. << c, x, c, y, c, z >> \o << w >> = << c, x, c, y, c, z, w >>
  <2>1. PICK p, q, r : p = << c, x, c, y, c, z >> /\ q = << w >> /\ r = << c, x, c, y, c, z, w >>
    OBVIOUS
  <2>2. /\ p \in Seq(S) /\ Len(p) = 6 /\ p[1] = c /\ p[2] = x /\ p[3] = c /\ p[4] = y
        /\ p[5] = c /\ p[6] = z
    BY <1>1, <2>1
  <2>3. q \in Seq(S) /\ Len(q) = 1 /\ q[1] = w
    BY <1>1, <2>1
  <2>4. /\ r \in Seq(S) /\ Len(r) = 7 /\ r[1] = c /\ r[2] = x /\ r[3] = c /\ r[4] = y
        /\ r[5] = c /\ r[6] = z /\ r[7] = w
    BY <1>1, <2>1
  <2>5. /\ Len(r) = Len(p) + Len(q) /\ \A i \in 1..Len(p) : r[i] = p[i]
        /\ \A i \in 1..Len(q) : r[Len(p) + i] = q[i]
    BY <2>2, <2>3, <2>4
  <2>6. p \o q = r
    BY <2>2, <2>3, <2>4, <2>5, JoinIs, Zenon
  <2> QED
    BY <2>1, <2>6, Zenon
<1> QED
  BY <1>2, <1>3, <1>4

\* Tuples joined to nothing.
LEMMA JoinsNone ==
    ASSUME NEW c, NEW x, NEW y
    PROVE  /\ << >> \o << c, x >> = << c, x >>
           /\ << >> \o << c, x, c, y >> = << c, x, c, y >>
  OBVIOUS

\* What a whole unit is a sequence of, and what it begins with.
LEMMA FirstOfTwo ==
    ASSUME NEW c, NEW x, NEW au, au = << c, x >>
    PROVE  au \in Seq({c, x}) /\ au # << >> /\ au[1] = c
  OBVIOUS

LEMMA FirstOfSeven ==
    ASSUME NEW c, NEW x, NEW y, NEW z, NEW w, NEW au, au = << c, x, c, y, c, z, w >>
    PROVE  au \in Seq({c, x, y, z, w}) /\ au # << >> /\ au[1] = c
  OBVIOUS

\* What each packet of a unit appends.
LEMMA PiecesOf ==
    ASSUME NEW n
    PROVE  /\ Ingest!Pieces(PacketAt(n, "whole", 1)) = << Ingest!StartCode, << n, "slice" >> >>
           /\ Ingest!Pieces(PacketAt(n, "parts", 3)) =
                 << Ingest!StartCode, << n, "sps" >>, Ingest!StartCode, << n, "pps" >> >>
           /\ Ingest!Pieces(PacketAt(n, "parts", 2)) = << Ingest!StartCode, << n, "first" >> >>
           /\ Ingest!Pieces(PacketAt(n, "parts", 1)) = << << n, "rest" >> >>
<1>1. PICK code : code = Ingest!StartCode
  BY Zenon
<1>2. /\ PacketAt(n, "whole", 1) = [unit |-> n, form |-> "nal", marker |-> TRUE]
      /\ PacketAt(n, "parts", 3) = [unit |-> n, form |-> "sets", marker |-> FALSE]
      /\ PacketAt(n, "parts", 2) = [unit |-> n, form |-> "start", marker |-> FALSE]
      /\ PacketAt(n, "parts", 1) = [unit |-> n, form |-> "rest", marker |-> TRUE]
  BY DEF PacketAt, Ingest!Packet
<1>3. /\ Ingest!Pieces([unit |-> n, form |-> "nal", marker |-> TRUE]) = << code, << n, "slice" >> >>
      /\ Ingest!Pieces([unit |-> n, form |-> "sets", marker |-> FALSE]) =
            << code, << n, "sps" >> >> \o << code, << n, "pps" >> >>
      /\ Ingest!Pieces([unit |-> n, form |-> "start", marker |-> FALSE]) = << code, << n, "first" >> >>
      /\ Ingest!Pieces([unit |-> n, form |-> "rest", marker |-> TRUE]) = << << n, "rest" >> >>
  BY <1>1 DEF Ingest!Pieces
<1> QED
  BY <1>1, <1>2, <1>3, Joins, ZenonT(60)

\* The two forms of a unit, as they were sent.
LEMMA SentWhole ==
    ASSUME NEW n, NEW au, au = << Ingest!StartCode, << n, "slice" >> >>
    PROVE  au \in Ingest!Sent(n)
  BY Zenon DEF Ingest!Sent

LEMMA SentInParts ==
    ASSUME NEW n, NEW au,
           au = << Ingest!StartCode, << n, "sps" >>, Ingest!StartCode, << n, "pps" >>,
                   Ingest!StartCode, << n, "first" >>, << n, "rest" >> >>
    PROVE  au \in Ingest!Sent(n)
  BY Zenon DEF Ingest!Sent

\* What begins with a start code is all of it found by the parser.
LEMMA BodyIsAll ==
    ASSUME NEW S, NEW au \in Seq(S), au # << >>, au[1] = Ingest!StartCode
    PROVE  Ingest!Body(au) = au
<1>1. PICK codes : codes = {i \in DOMAIN au : au[i] = Ingest!StartCode}
  BY Zenon
<1>2. /\ 1 \in codes /\ codes # {}
      /\ \A i \in codes : i \in Nat /\ 1 <= i
  BY <1>1
<1>3. Ingest!Min(codes) \in codes /\ \A y \in codes : Ingest!Min(codes) <= y
  BY <1>2 DEF Ingest!Min
<1>4. Ingest!Min(codes) = 1
  <2>1. PICK m : m = Ingest!Min(codes)
    BY Zenon
  <2>2. m \in Nat /\ 1 <= m /\ m <= 1
    BY <1>2, <1>3, <2>1
  <2>3. m = 1
    BY <2>2
  <2> QED
    BY <2>1, <2>3
<1>5. Ingest!Body(au) = SubSeq(au, 1, Len(au))
  BY <1>1, <1>2, <1>4, Zenon DEF Ingest!Body
<1>6. SubSeq(au, 1, Len(au)) = au
  OBVIOUS
<1> QED
  BY <1>5, <1>6, Zenon

\* A packet adds its part to what is begun.
LEMMA BegunNext ==
    ASSUME NEW n, NEW shape \in {"whole", "parts"}, NEW left \in 1..ShapeLen(shape), left > 1,
           NEW au, au = Begun(n, shape, left) \o Ingest!Pieces(PacketAt(n, shape, left))
    PROVE  au = Begun(n, shape, left - 1)
<1>1. PICK code, sps, pps, first, rest, slice :
         /\ code = Ingest!StartCode /\ sps = << n, "sps" >> /\ pps = << n, "pps" >>
         /\ first = << n, "first" >> /\ rest = << n, "rest" >> /\ slice = << n, "slice" >>
  BY Zenon
<1>2. shape = "parts" /\ left \in {2, 3}
  BY DEF ShapeLen
<1>3. CASE shape = "parts" /\ left = 3
  <2>1. Begun(n, shape, left) = << >> /\ Begun(n, shape, 2) = << code, sps, code, pps >>
    BY <1>1, <1>3 DEF Begun, ShapeLen
  <2>2. au = << >> \o << code, sps, code, pps >>
    <3>1. Ingest!Pieces(PacketAt(n, "parts", 3)) = << code, sps, code, pps >>
      BY <1>1, PiecesOf, Zenon
    <3> QED
      BY <1>3, <2>1, <3>1, Zenon
  <2>3. au = << code, sps, code, pps >>
    BY <2>2, JoinsNone, Zenon
  <2>4. left - 1 = 2
    BY <1>3
  <2> QED
    BY <2>1, <2>3, <2>4, Zenon
<1>4. CASE shape = "parts" /\ left = 2
  <2>1. /\ Begun(n, shape, left) = << code, sps, code, pps >>
        /\ Begun(n, shape, 1) = << code, sps, code, pps, code, first >>
    BY <1>1, <1>4 DEF Begun, ShapeLen
  <2>2. au = << code, sps, code, pps >> \o << code, first >>
    <3>1. Ingest!Pieces(PacketAt(n, "parts", 2)) = << code, first >>
      BY <1>1, PiecesOf, Zenon
    <3> QED
      BY <1>4, <2>1, <3>1, Zenon
  <2>3. au = << code, sps, code, pps, code, first >>
    BY <2>2, Joins, ZenonT(60)
  <2>4. left - 1 = 1 /\ left # 1
    BY <1>4
  <2> QED
    BY <2>1, <2>3, <2>4, Zenon
<1> QED
  BY <1>2, <1>3, <1>4

\* The last one makes the unit that was sent.
LEMMA BegunWhole ==
    ASSUME NEW n, NEW shape \in {"whole", "parts"}, NEW left \in 1..ShapeLen(shape), left = 1,
           NEW au, au = Begun(n, shape, left) \o Ingest!Pieces(PacketAt(n, shape, left))
    PROVE  au \in Ingest!Sent(n) /\ Ingest!Body(au) = au /\ au # << >>
<1>1. PICK code, sps, pps, first, rest, slice :
         /\ code = Ingest!StartCode /\ sps = << n, "sps" >> /\ pps = << n, "pps" >>
         /\ first = << n, "first" >> /\ rest = << n, "rest" >> /\ slice = << n, "slice" >>
  BY Zenon
<1>2. CASE shape = "whole" /\ left = 1
  <2>1. Begun(n, shape, left) = << >>
    BY <1>2 DEF Begun, ShapeLen
  <2>2. au = << >> \o << code, slice >>
    <3>1. Ingest!Pieces(PacketAt(n, "whole", 1)) = << code, slice >>
      BY <1>1, PiecesOf, Zenon
    <3> QED
      BY <1>2, <2>1, <3>1, Zenon
  <2>3. au = << code, slice >>
    BY <2>2, JoinsNone, Zenon
  <2>4. au \in Ingest!Sent(n)
    BY <1>1, <2>3, SentWhole, Zenon
  <2>5. au \in Seq({code, slice}) /\ au # << >> /\ au[1] = code
    BY <2>3, FirstOfTwo, Zenon
  <2>6. Ingest!Body(au) = au
    BY <1>1, <2>5, BodyIsAll, Zenon
  <2> QED
    BY <2>4, <2>5, <2>6, Zenon
<1>3. CASE shape = "parts" /\ left = 1
  <2>1. Begun(n, shape, left) = << code, sps, code, pps, code, first >>
    BY <1>1, <1>3 DEF Begun, ShapeLen
  <2>2. au = << code, sps, code, pps, code, first >> \o << rest >>
    <3>1. Ingest!Pieces(PacketAt(n, "parts", 1)) = << rest >>
      BY <1>1, PiecesOf, Zenon
    <3> QED
      BY <1>3, <2>1, <3>1, Zenon
  <2>3. au = << code, sps, code, pps, code, first, rest >>
    BY <2>2, Joins, ZenonT(60)
  <2>4. au \in Ingest!Sent(n)
    BY <1>1, <2>3, SentInParts, ZenonT(60)
  <2>5. au \in Seq({code, sps, pps, first, rest}) /\ au # << >> /\ au[1] = code
    BY <2>3, FirstOfSeven, ZenonT(60)
  <2>6. Ingest!Body(au) = au
    BY <1>1, <2>5, BodyIsAll, Zenon
  <2> QED
    BY <2>4, <2>5, <2>6, Zenon
<1> QED
  BY <1>2, <1>3

\* The last packet of a unit, and no other, has the marker.
LEMMA PacketIs ==
    ASSUME NEW n, NEW shape \in {"whole", "parts"}, NEW left \in Nat,
           1 <= left, left <= ShapeLen(shape), NEW p, p = PacketAt(n, shape, left)
    PROVE  p.unit = n /\ (p.marker <=> left = 1)
<1>1. ShapeLen(shape) \in {1, 3} /\ (shape = "whole" => left = 1)
      /\ (left = 1 \/ left = 2 \/ left = 3)
  BY DEF ShapeLen
<1>2. CASE left = 1
  BY <1>2 DEF PacketAt, Ingest!Packet
<1>3. CASE left = 2
  BY <1>1, <1>3 DEF PacketAt, Ingest!Packet
<1>4. CASE left = 3
  BY <1>1, <1>4 DEF PacketAt, Ingest!Packet
<1> QED
  BY <1>1, <1>2, <1>3, <1>4

\* The packet before all those of a unit that the network did not hit, nor the one before it,
\* is the last of that one.
LEMMA LastOfBefore ==
    ASSUME NetworkInv, DamageInv, wire # << >>,
           NEW n \in Nat, n <= Len(times) + 1, n - 1 \notin hit, wire[1].unit < n,
           \A i \in DOMAIN wire : i > 1 => wire[i].unit >= n
    PROVE  wire[1].unit = n - 1 /\ wire[1].marker
<1>1. /\ wire \in Seq(Datagram) /\ DOMAIN wire = 1..Len(wire) /\ Len(wire) \in Nat \ {0}
      /\ times \in Seq(Int) /\ DOMAIN times = 1..Len(times) /\ Len(times) \in Nat
      /\ \A i \in DOMAIN wire : wire[i].unit \in DOMAIN times
  BY DEF NetworkInv, Late
<1>2. wire[1].unit \in Nat /\ 1 <= wire[1].unit
  BY <1>1
<1>3. n - 1 \in Unhit /\ n - 1 \in Nat
  BY <1>1, <1>2 DEF Unhit
<1>4. PICK shape \in {"whole", "parts"}, ahead \in Nat, left \in 0..3 :
         Stand(n - 1, shape, ahead, left)
  BY <1>3 DEF DamageInv, Placed
<1>5. /\ ahead \in Nat /\ left \in Nat /\ left <= ShapeLen(shape) /\ ShapeLen(shape) \in {1, 3}
      /\ ahead + left <= Len(wire) /\ (ahead > 0 => left = ShapeLen(shape))
  BY <1>1, <1>4 DEF Stand, ShapeLen
<1>6. \A i \in 1..left : wire[ahead + i].unit = n - 1
  <2> SUFFICES ASSUME NEW i \in 1..left
               PROVE  wire[ahead + i].unit = n - 1
    OBVIOUS
  <2>1. wire[ahead + i] = PacketAt(n - 1, shape, left + 1 - i)
    BY <1>4, Zenon DEF Stand
  <2>2. PICK l : l = left + 1 - i
    BY Zenon
  <2>3. PacketAt(n - 1, shape, l).unit = n - 1
    BY DEF PacketAt, Ingest!Packet
  <2> QED
    BY <2>1, <2>2, <2>3, Zenon
<1>7. ahead = 0
  <2> SUFFICES ASSUME ahead > 0 PROVE FALSE
    BY <1>5
  <2>1. left >= 1
    BY <1>5
  <2>2. ahead + 1 \in DOMAIN wire /\ ahead + 1 > 1 /\ 1 \in 1..left
    BY <1>1, <1>5, <2>1
  <2>3. wire[ahead + 1].unit = n - 1 /\ wire[ahead + 1].unit >= n
    BY <1>6, <2>2
  <2> QED
    BY <2>3
<1>8. left >= 1
  <2> SUFFICES ASSUME left = 0 PROVE FALSE
    BY <1>5
  <2>1. wire[1].unit > n - 1
    BY <1>1, <1>4, <1>7 DEF Stand
  <2> QED
    BY <1>2, <2>1
<1>9. left = 1
  <2> SUFFICES ASSUME left >= 2 PROVE FALSE
    BY <1>5, <1>8
  <2>1. 2 \in 1..left /\ 2 \in DOMAIN wire /\ ahead + 2 = 2
    BY <1>1, <1>5, <1>7
  <2>2. wire[2].unit = n - 1 /\ wire[2].unit >= n
    BY <1>6, <2>1
  <2> QED
    BY <2>2
<1> QED
  <2>1. 1 \in 1..left /\ ahead + 1 = 1 /\ left + 1 - 1 = 1
    BY <1>7, <1>9
  <2>2. wire[1] = PacketAt(n - 1, shape, 1)
    BY <1>4, <2>1, Zenon DEF Stand
  <2>3. PacketAt(n - 1, shape, 1).marker
    BY DEF PacketAt, Ingest!Packet
  <2> QED
    BY <1>6, <2>1, <2>2, <2>3, Zenon

\* Nothing of it is left when all that is on the wire was sent after it.
LEMMA StandsGone ==
    ASSUME NEW n \in Nat, NEW shape \in {"whole", "parts"}, wire' \in Seq(Datagram),
           \A i \in DOMAIN wire' : wire'[i].unit > n
    PROVE  Stand(n, shape, 0, 0)'
<1>1. Len(wire') \in Nat /\ DOMAIN wire' = 1..Len(wire')
  OBVIOUS
<1> QED
  BY <1>1 DEF Stand, ShapeLen

\* The wire moves up by a packet that is not of the unit.
LEMMA StandsNearer ==
    ASSUME NEW n \in Nat, NEW shape \in {"whole", "parts"}, NEW ahead \in Nat, NEW left \in 0..3,
           Stand(n, shape, ahead, left), ahead > 0,
           wire \in Seq(Datagram), wire # << >>, wire' = Tail(wire),
           ahead = 1 /\ n - 1 \notin hit' => current' = << >>
    PROVE  Stand(n, shape, ahead - 1, left)'
<1>1. /\ Len(wire) \in Nat /\ DOMAIN wire = 1..Len(wire)
      /\ Len(wire') = Len(wire) - 1 /\ DOMAIN wire' = 1..(Len(wire) - 1)
      /\ \A i \in DOMAIN wire' : wire'[i] = wire[i + 1]
  OBVIOUS
<1>2. left <= ShapeLen(shape) /\ left = ShapeLen(shape) /\ ahead + left <= Len(wire)
  BY DEF Stand
<1>3. (ahead - 1) + left <= Len(wire') /\ ahead - 1 \in Nat
  BY <1>1, <1>2
<1>4. ASSUME NEW i \in 1..left PROVE wire'[(ahead - 1) + i] = PacketAt(n, shape, left + 1 - i)
  <2>1. (ahead - 1) + i \in DOMAIN wire' /\ (ahead - 1) + i + 1 = ahead + i
    BY <1>1, <1>2
  <2>2. wire'[(ahead - 1) + i] = wire[ahead + i]
    BY <1>1, <2>1
  <2> QED
    BY <2>2 DEF Stand
<1>5. ASSUME NEW i \in DOMAIN wire'
      PROVE  /\ i <= ahead - 1 => wire'[i].unit < n
             /\ i > (ahead - 1) + left => wire'[i].unit > n
  <2>1. i + 1 \in DOMAIN wire /\ wire'[i] = wire[i + 1] /\ i \in Nat
    BY <1>1
  <2> QED
    BY <2>1 DEF Stand
<1>6. ahead - 1 = 0 /\ left > 0 /\ n - 1 \notin hit' => current' = Begun(n, shape, left)
  BY <1>2 DEF Begun
<1> QED
  BY <1>2, <1>3, <1>4, <1>5, <1>6 DEF Stand

\* Packets of units sent later change nothing for it.
LEMMA StandsBefore ==
    ASSUME NEW n \in Nat, NEW shape \in {"whole", "parts"}, NEW ahead \in Nat, NEW left \in 0..3,
           Stand(n, shape, ahead, left),
           wire \in Seq(Datagram), wire' \in Seq(Datagram), Len(wire) <= Len(wire'),
           \A i \in DOMAIN wire : wire'[i] = wire[i],
           \A i \in DOMAIN wire' : i > Len(wire) => wire'[i].unit > n,
           UNCHANGED << hit, current >>
    PROVE  Stand(n, shape, ahead, left)'
<1>1. /\ Len(wire) \in Nat /\ DOMAIN wire = 1..Len(wire)
      /\ Len(wire') \in Nat /\ DOMAIN wire' = 1..Len(wire')
  OBVIOUS
<1>2. left <= ShapeLen(shape) /\ ahead + left <= Len(wire) /\ (ahead > 0 => left = ShapeLen(shape))
  BY DEF Stand
<1>3. ASSUME NEW i \in 1..left PROVE wire'[ahead + i] = PacketAt(n, shape, left + 1 - i)
  <2>1. ahead + i \in DOMAIN wire
    BY <1>1, <1>2
  <2> QED
    BY <2>1 DEF Stand
<1>4. ASSUME NEW i \in DOMAIN wire'
      PROVE  /\ i <= ahead => wire'[i].unit < n
             /\ i > ahead + left => wire'[i].unit > n
  <2>1. CASE i \in DOMAIN wire
    BY <2>1 DEF Stand
  <2>2. CASE i > Len(wire)
    BY <1>1, <1>2, <2>2
  <2> QED
    BY <1>1, <2>1, <2>2
<1>5. ahead = 0 /\ left > 0 /\ n - 1 \notin hit' => current' = Begun(n, shape, left)
  BY DEF Stand
<1>6. ahead + left <= Len(wire')
  BY <1>1, <1>2
<1> QED
  BY <1>2, <1>3, <1>4, <1>5, <1>6 DEF Stand

\* Its next packet is received.
LEMMA StandsLess ==
    ASSUME NEW n \in Nat, NEW shape \in {"whole", "parts"}, NEW left \in 1..3,
           Stand(n, shape, 0, left),
           wire \in Seq(Datagram), wire # << >>, wire' = Tail(wire), hit' = hit,
           left > 1 /\ n - 1 \notin hit =>
              current' = current \o Ingest!Pieces(PacketAt(n, shape, left))
    PROVE  Stand(n, shape, 0, left - 1)'
<1>1. /\ Len(wire) \in Nat /\ DOMAIN wire = 1..Len(wire)
      /\ Len(wire') = Len(wire) - 1 /\ DOMAIN wire' = 1..(Len(wire) - 1)
      /\ \A i \in DOMAIN wire' : wire'[i] = wire[i + 1]
  OBVIOUS
<1>2. left <= ShapeLen(shape) /\ left <= Len(wire) /\ ShapeLen(shape) \in Nat /\ left \in Nat
  BY <1>1 DEF Stand, ShapeLen
<1>3. ASSUME NEW i \in 1..(left - 1)
      PROVE  wire'[0 + i] = PacketAt(n, shape, (left - 1) + 1 - i)
  <2>1. 0 + i \in DOMAIN wire' /\ i + 1 \in 1..left /\ 0 + (i + 1) = i + 1 /\ 0 + i = i
        /\ left + 1 - (i + 1) = (left - 1) + 1 - i
    BY <1>1, <1>2
  <2>2. wire[0 + (i + 1)] = PacketAt(n, shape, left + 1 - (i + 1))
    BY <2>1, Zenon DEF Stand
  <2> QED
    BY <1>1, <2>1, <2>2
<1>4. ASSUME NEW i \in DOMAIN wire', i > 0 + (left - 1) PROVE wire'[i].unit > n
  <2>1. i + 1 \in DOMAIN wire /\ i + 1 > 0 + left /\ wire'[i] = wire[i + 1]
    BY <1>1, <1>2, <1>4
  <2> QED
    BY <2>1 DEF Stand
<1>5. ASSUME left - 1 > 0, n - 1 \notin hit' PROVE current' = Begun(n, shape, left - 1)
  <2>1. current = Begun(n, shape, left)
    BY <1>2, <1>5 DEF Stand
  <2>2. left > 1 /\ left \in 1..ShapeLen(shape)
    BY <1>2, <1>5
  <2>3. current' = Begun(n, shape, left) \o Ingest!Pieces(PacketAt(n, shape, left))
    BY <1>5, <2>1, <2>2
  <2> QED
    BY <2>2, <2>3, BegunNext, Zenon
<1>6. 0 + (left - 1) <= Len(wire') /\ left - 1 <= ShapeLen(shape)
  BY <1>1, <1>2
<1>7. \A i \in DOMAIN wire' : ~(i <= 0)
  BY <1>1
<1> QED
  BY <1>3, <1>4, <1>5, <1>6, <1>7 DEF Stand

\* A unit that is sent stands behind all the others.
LEMMA PlacedBySending ==
    ASSUME NetworkInv, TimesInv, track = "video", DamageInv, Ingest!Send
    PROVE  DamageInv'
<1>1. PICK kind \in Ingest!Shapes, step \in {3, -1} :
         /\ Len(wire) <= 1
         /\ times' = Append(times, IF times = << >> THEN RtpClock - 2 ELSE times[Len(times)] + step)
         /\ wire' = wire \o Ingest!Packets(Len(times) + 1, kind)
         /\ UNCHANGED << track, hit, current, output >>
  BY Zenon DEF Ingest!Send
<1>2. /\ times \in Seq(Int) /\ wire \in Seq(Datagram) /\ wire' \in Seq(Datagram)
      /\ Len(times) \in Nat /\ Len(wire) \in Nat /\ Len(wire') \in Nat
      /\ DOMAIN times = 1..Len(times) /\ DOMAIN wire = 1..Len(wire) /\ DOMAIN wire' = 1..Len(wire')
      /\ \A i \in DOMAIN wire : wire[i].unit \in DOMAIN times
      /\ \A i \in DOMAIN output : output[i].unit \in DOMAIN times
  <2>1. NetworkInv'
    BY LateBySending
  <2>2. times \in Seq(Int) /\ wire \in Seq(Datagram) /\ wire' \in Seq(Datagram)
    BY <2>1 DEF NetworkInv
  <2>3. \A i \in DOMAIN wire : wire[i].unit \in DOMAIN times
    BY DEF NetworkInv, Late
  <2> QED
    BY <2>2, <2>3 DEF TimesInv
<1>3. PICK m \in Nat : m = Len(times) + 1
  BY <1>2
<1>4. PICK more : more = Ingest!Packets(m, kind)
  BY Zenon
<1>5. /\ more \in Seq(Datagram) /\ Len(more) \in {1, 3} /\ kind \in {"whole", "parts"}
      /\ \A i \in 1..Len(more) : more[i].unit = m
      /\ Len(more) = ShapeLen(kind)
      /\ \A i \in 1..Len(more) : more[i] = PacketAt(m, kind, Len(more) + 1 - i)
  <2>1. /\ more \in Seq(Datagram) /\ Len(more) \in {1, 3}
        /\ \A i \in 1..Len(more) : more[i].unit = m
    <3>1. /\ more \in Seq(Datagram) /\ Len(more) \in {1, 3}
          /\ \A i \in DOMAIN more : more[i].unit = m
      <4>1. m \in Nat /\ kind \in Ingest!Shapes /\ more = Ingest!Packets(m, kind)
        BY <1>1, <1>3, <1>4, Zenon
      <4> QED
        BY <4>1, PacketsSent
    <3>2. DOMAIN more = 1..Len(more)
      BY <3>1
    <3> QED
      BY <3>1, <3>2, Zenon
  <2>2. CASE kind = "whole"
    <3>1. more = << Ingest!Packet(m, "nal", TRUE) >>
      BY <1>4, <2>2, Zenon DEF Ingest!Packets
    <3>2. Len(more) = 1 /\ more[1] = Ingest!Packet(m, "nal", TRUE)
      BY <3>1
    <3>3. more[1] = PacketAt(m, kind, 1)
      BY <2>2, <3>2 DEF PacketAt
    <3>4. \A i \in 1..Len(more) : i = 1 /\ Len(more) + 1 - i = 1
      BY <3>2
    <3>5. \A i \in 1..Len(more) : more[i] = PacketAt(m, kind, Len(more) + 1 - i)
      BY <3>3, <3>4, Zenon
    <3> QED
      BY <2>1, <2>2, <3>2, <3>5 DEF ShapeLen
  <2>3. CASE kind = "parts"
    <3>1. more = << Ingest!Packet(m, "sets", FALSE), Ingest!Packet(m, "start", FALSE),
                    Ingest!Packet(m, "rest", TRUE) >>
      BY <1>4, <2>3, Zenon DEF Ingest!Packets
    <3>2. /\ Len(more) = 3 /\ more[1] = Ingest!Packet(m, "sets", FALSE)
          /\ more[2] = Ingest!Packet(m, "start", FALSE) /\ more[3] = Ingest!Packet(m, "rest", TRUE)
      BY <3>1
    <3>3. ASSUME NEW i \in 1..Len(more) PROVE more[i] = PacketAt(m, kind, Len(more) + 1 - i)
      <4>1. \/ i = 1 /\ Len(more) + 1 - i = 3
            \/ i = 2 /\ Len(more) + 1 - i = 2
            \/ i = 3 /\ Len(more) + 1 - i = 1
        <5>1. Len(more) = 3
          BY <3>2
        <5> QED
          BY <5>1
      <4>2. /\ PacketAt(m, kind, 3) = Ingest!Packet(m, "sets", FALSE)
            /\ PacketAt(m, kind, 2) = Ingest!Packet(m, "start", FALSE)
            /\ PacketAt(m, kind, 1) = Ingest!Packet(m, "rest", TRUE)
        BY <2>3 DEF PacketAt
      <4> QED
        BY <3>2, <4>1, <4>2, Zenon
    <3> QED
      BY <2>1, <2>3, <3>2, <3>3 DEF ShapeLen
  <2>4. kind \in {"whole", "parts"}
    BY <1>1 DEF Ingest!Shapes
  <2> QED
    BY <2>1, <2>2, <2>3, <2>4
<1>6. /\ Len(wire') = Len(wire) + Len(more) /\ DOMAIN times' = 1..m /\ Len(times') = m
      /\ \A i \in DOMAIN wire : wire'[i] = wire[i]
      /\ \A i \in 1..Len(more) : wire'[Len(wire) + i] = more[i]
      /\ \A i \in DOMAIN wire' : i > Len(wire) => wire'[i].unit = m
  <2>1. /\ wire' = wire \o more
    BY <1>1, <1>3, <1>4
  <2>2. /\ Len(wire') = Len(wire) + Len(more)
        /\ \A i \in 1..(Len(wire) + Len(more)) :
              wire'[i] = IF i <= Len(wire) THEN wire[i] ELSE more[i - Len(wire)]
    BY <1>2, <1>5, <2>1, ConcatPlaces
  <2>3. ASSUME NEW i \in 1..Len(more) PROVE wire'[Len(wire) + i] = more[i]
    <3>1. Len(wire) + i \in 1..(Len(wire) + Len(more)) /\ ~(Len(wire) + i <= Len(wire))
          /\ Len(wire) + i - Len(wire) = i
      BY <1>2, <1>5
    <3> QED
      BY <2>2, <3>1
  <2>4. ASSUME NEW i \in DOMAIN wire', i > Len(wire) PROVE wire'[i].unit = m
    <3>1. i - Len(wire) \in 1..Len(more) /\ i \in 1..(Len(wire) + Len(more)) /\ ~(i <= Len(wire))
      BY <1>2, <1>5, <2>2, <2>4
    <3> QED
      BY <1>5, <2>2, <3>1
  <2>5. DOMAIN times' = 1..m /\ Len(times') = m
    <3>1. \A t : Len(Append(times, t)) = Len(times) + 1
                 /\ DOMAIN Append(times, t) = 1..(Len(times) + 1)
      BY <1>2
    <3> QED
      BY <1>1, <1>3, <3>1
  <2>6. \A i \in DOMAIN wire : wire'[i] = wire[i]
    BY <1>2, <1>5, <2>2
  <2> QED
    BY <2>2, <2>3, <2>4, <2>5, <2>6
<1>7. hit' \subseteq DOMAIN times' /\ m \notin hit'
  <2>1. hit \subseteq DOMAIN times
    BY DEF DamageInv
  <2> QED
    BY <1>1, <1>2, <1>3, <1>6, <2>1
<1>8. ~(wire' = << >>)
  BY <1>2, <1>5, <1>6
<1>9. ASSUME NEW n \in Unhit
      PROVE  \E shape \in {"whole", "parts"}, ahead \in Nat, left \in 0..3 :
                Placed(n, shape, ahead, left)'
  <2>1. PICK shape \in {"whole", "parts"}, ahead \in Nat, left \in 0..3 : Placed(n, shape, ahead, left)
    BY <1>9 DEF DamageInv
  <2>2. n \in Nat /\ n < m
    BY <1>2, <1>3 DEF Unhit
  <2>3. \A i \in DOMAIN wire' : i > Len(wire) => wire'[i].unit > n
    BY <1>6, <2>2
  <2>4. Stand(n, shape, ahead, left) /\ Len(wire) <= Len(wire')
    BY <1>2, <1>5, <1>6, <2>1 DEF Placed
  <2>5. Stand(n, shape, ahead, left)'
    BY <1>1, <1>2, <1>6, <2>1, <2>2, <2>3, <2>4, StandsBefore
  <2>6. Placed(n, shape, ahead, left)'
    BY <1>1, <2>1, <2>5 DEF Placed, PublishedOnce, Ingest!Media
  <2> QED
    BY <2>1, <2>6
<1>10. \E shape \in {"whole", "parts"}, ahead \in Nat, left \in 0..3 :
          Placed(m, shape, ahead, left)'
  <2>1. PICK length \in {1, 3}, before \in Nat : length = Len(more) /\ before = Len(wire)
    BY <1>2, <1>5
  <2>2. ASSUME wire = << >>, m - 1 \notin hit PROVE current = << >>
    BY <1>2, <1>3, <2>2 DEF DamageInv
  <2>3. ASSUME Len(wire) = 0 PROVE wire = << >>
    BY <1>2, <2>3
  <2>4. Stand(m, kind, before, length)'
    <3>1. \A i \in 1..length : wire'[before + i] = PacketAt(m, kind, length + 1 - i)
      BY <1>5, <1>6, <2>1
    <3>2. \A i \in DOMAIN wire' : /\ i <= before => wire'[i].unit < m
                                  /\ i > before + length => wire'[i].unit > m
      BY <1>2, <1>3, <1>5, <1>6, <2>1
    <3>3. before = 0 /\ length > 0 /\ m - 1 \notin hit' => current' = Begun(m, kind, length)
      BY <1>1, <1>5, <2>1, <2>2, <2>3 DEF Begun
    <3>4. length <= ShapeLen(kind) /\ before + length <= Len(wire') /\ length = ShapeLen(kind)
      BY <1>2, <1>5, <1>6, <2>1
    <3> QED
      BY <3>1, <3>2, <3>3, <3>4 DEF Stand
  <2>5. \A i \in Ingest!Media' : output'[i].unit # m
    BY <1>1, <1>2, <1>3 DEF Ingest!Media
  <2>6. Placed(m, kind, before, length)'
    BY <2>1, <2>4, <2>5 DEF Placed
  <2> QED
    BY <1>2, <1>5, <2>1, <2>6, SMTT(60)
<1>11. Unhit' \subseteq Unhit \cup {m}
  BY <1>1, <1>2, <1>3, <1>6 DEF Unhit
<1> QED
  BY <1>7, <1>8, <1>9, <1>10, <1>11 DEF DamageInv

\* What the network makes of the wire.
LEMMA WireRepeated ==
    ASSUME wire \in Seq(Datagram), Ingest!Repeat
    PROVE  /\ wire # << >> /\ wire' \in Seq(Datagram) /\ Len(wire') = Len(wire) + 1
           /\ wire'[1] = wire[1] /\ \A i \in DOMAIN wire : wire'[i + 1] = wire[i]
<1>1. wire # << >> /\ wire' = << wire[1] >> \o wire /\ wire[1] \in Datagram
  BY DEF Ingest!Repeat
<1>2. PICK p : p = << wire[1] >>
  OBVIOUS
<1>3. p \in Seq(Datagram) /\ Len(p) = 1 /\ p[1] = wire[1]
  BY <1>1, <1>2
<1>4. /\ wire' \in Seq(Datagram) /\ Len(wire') = Len(p) + Len(wire)
      /\ \A i \in 1..(Len(p) + Len(wire)) :
            wire'[i] = IF i <= Len(p) THEN p[i] ELSE wire[i - Len(p)]
  BY <1>1, <1>2, <1>3, ConcatPlaces
<1>5. Len(wire) \in Nat /\ DOMAIN wire = 1..Len(wire)
  OBVIOUS
<1>6. ASSUME NEW i \in DOMAIN wire PROVE wire'[i + 1] = wire[i]
  <2>1. i + 1 \in 1..(Len(p) + Len(wire)) /\ ~(i + 1 <= Len(p)) /\ i + 1 - Len(p) = i
    BY <1>3, <1>5
  <2> QED
    BY <1>4, <2>1
<1>7. wire'[1] = wire[1]
  <2>1. 1 \in 1..(Len(p) + Len(wire)) /\ 1 <= Len(p)
    BY <1>3, <1>5
  <2> QED
    BY <1>3, <1>4, <2>1
<1>8. Len(wire') = Len(wire) + 1
  BY <1>3, <1>4, <1>5
<1> QED
  BY <1>1, <1>4, <1>6, <1>7, <1>8

LEMMA WireSwapped ==
    ASSUME wire \in Seq(Datagram), Ingest!Swap
    PROVE  /\ Len(wire) > 1 /\ wire' \in Seq(Datagram) /\ Len(wire') = Len(wire)
           /\ wire'[1] = wire[2] /\ wire'[2] = wire[1]
           /\ \A i \in DOMAIN wire : i > 2 => wire'[i] = wire[i]
<1>1. PICK tail, two : /\ Len(wire) > 1 /\ wire' = two \o tail
                       /\ two = << wire[2], wire[1] >>
                       /\ tail = SubSeq(wire, 3, Len(wire))
  BY Zenon DEF Ingest!Swap
<1>2. Len(wire) \in Nat /\ DOMAIN wire = 1..Len(wire)
  OBVIOUS
<1>3. /\ tail \in Seq(Datagram) /\ Len(tail) = Len(wire) - 2
      /\ \A k \in 1..(Len(wire) - 2) : tail[k] = wire[k + 2]
  <2>1. /\ tail \in Seq(Datagram)
        /\ Len(tail) = IF 3 <= Len(wire) THEN Len(wire) - 3 + 1 ELSE 0
        /\ \A k \in 1..(Len(wire) - 3 + 1) : tail[k] = wire[3 + k - 1]
    BY <1>1, EndOfSeq
  <2>2. Len(tail) = Len(wire) - 2
    BY <1>1, <1>2, <2>1
  <2>3. ASSUME NEW k \in 1..(Len(wire) - 2) PROVE tail[k] = wire[k + 2]
    <3>1. k \in 1..(Len(wire) - 3 + 1) /\ 3 + k - 1 = k + 2
      BY <1>2
    <3> QED
      BY <2>1, <3>1
  <2> QED
    BY <2>1, <2>2, <2>3
<1>4. two \in Seq(Datagram) /\ Len(two) = 2 /\ two[1] = wire[2] /\ two[2] = wire[1]
  BY <1>1, <1>2
<1>5. /\ wire' \in Seq(Datagram) /\ Len(wire') = 2 + Len(tail)
      /\ \A i \in 1..(2 + Len(tail)) : wire'[i] = IF i <= 2 THEN two[i] ELSE tail[i - 2]
  BY <1>1, <1>3, <1>4, ConcatPlaces
<1>6. Len(wire') = Len(wire)
  BY <1>2, <1>3, <1>5
<1>7. wire'[1] = wire[2] /\ wire'[2] = wire[1]
  <2>1. 1 \in 1..(2 + Len(tail)) /\ 2 \in 1..(2 + Len(tail)) /\ 1 <= 2
    BY <1>1, <1>2, <1>3
  <2> QED
    BY <1>4, <1>5, <2>1
<1>8. ASSUME NEW i \in DOMAIN wire, i > 2 PROVE wire'[i] = wire[i]
  <2>1. /\ i \in 1..(2 + Len(tail)) /\ ~(i <= 2) /\ i - 2 \in 1..(Len(wire) - 2)
        /\ (i - 2) + 2 = i
    BY <1>2, <1>3, <1>8
  <2> QED
    BY <1>3, <1>5, <2>1
<1> QED
  BY <1>1, <1>5, <1>6, <1>7, <1>8

\* What it means for the last packets of a unit to stand behind one other packet.
LEMMA StandsSecond ==
    ASSUME wire \in Seq(Datagram), \A i \in DOMAIN wire : wire[i].unit \in Nat, wire # << >>,
           NEW n \in Nat, NEW shape \in {"whole", "parts"}, NEW left \in 0..3,
           Stand(n, shape, 1, left)
    PROVE  wire[1].unit < n /\ \A i \in DOMAIN wire : i > 1 => wire[i].unit >= n
<1>1. /\ Len(wire) \in Nat /\ DOMAIN wire = 1..Len(wire) /\ 1 \in DOMAIN wire
      /\ left <= ShapeLen(shape) /\ ShapeLen(shape) \in {1, 3}
  BY DEF Stand, ShapeLen
<1>2. wire[1].unit < n
  BY <1>1 DEF Stand
<1>3. ASSUME NEW i \in DOMAIN wire, i > 1 PROVE wire[i].unit >= n
  <2>1. CASE i > 1 + left
    <3>1. wire[i].unit > n
      BY <2>1, Zenon DEF Stand
    <3>2. wire[i].unit \in Nat
      BY Zenon
    <3> QED
      BY <3>1, <3>2
  <2>2. CASE i <= 1 + left
    <3>1. PICK k \in 1..left : i = 1 + k
      <4>1. i - 1 \in 1..left /\ i = 1 + (i - 1)
        BY <1>1, <1>3, <2>2
      <4> QED
        BY <4>1
    <3>2. PICK p : p = wire[i]
      OBVIOUS
    <3>3. PICK l \in Nat : l = left + 1 - k /\ 1 <= l /\ l <= ShapeLen(shape)
      BY <1>1
    <3>4. p = PacketAt(n, shape, l)
      BY <3>1, <3>2, <3>3 DEF Stand
    <3>5. p.unit = n
      BY <3>4 DEF PacketAt, Ingest!Packet
    <3> QED
      BY <3>2, <3>5
  <2> QED
    BY <1>1, <2>1, <2>2
<1> QED
  BY <1>2, <1>3

\* A fault leaves the packets of a unit alone that it does not hit.
LEMMA StandsAside ==
    ASSUME NetworkInv, DamageInv, Ingest!Lose \/ Ingest!Repeat \/ Ingest!Swap,
           UNCHANGED << times, current >>,
           NEW n \in Unhit, n \notin hit', NEW shape \in {"whole", "parts"},
           NEW ahead \in Nat, NEW left \in 0..3, Stand(n, shape, ahead, left)
    PROVE  \E a \in Nat : Stand(n, shape, a, left)'
<1>1. /\ wire \in Seq(Datagram) /\ wire # << >>
      /\ Len(wire) \in Nat /\ DOMAIN wire = 1..Len(wire) /\ 1 \in DOMAIN wire
      /\ \A i \in DOMAIN wire : wire[i].unit \in Nat
      /\ hit' = hit \cup {wire[1].unit} \/ hit' = hit \cup {wire[1].unit, wire[2].unit}
  <2>1. wire \in Seq(Datagram) /\ wire # << >> /\ times \in Seq(Int)
    BY DEF NetworkInv, Ingest!Lose, Ingest!Repeat, Ingest!Swap
  <2>2. \A i \in DOMAIN wire : wire[i].unit \in 1..Len(times)
    BY <2>1 DEF NetworkInv, Late
  <2>3. \A i \in DOMAIN wire : wire[i].unit \in Nat
    BY <2>1, <2>2
  <2> QED
    BY <2>1, <2>3 DEF Ingest!Lose, Ingest!Repeat, Ingest!Swap
<1>2. /\ n \in Nat /\ n <= Len(times) /\ n - 1 \in Int
      /\ hit \subseteq hit' /\ wire[1].unit \in hit' /\ wire[1].unit # n
  BY <1>1 DEF Unhit, NetworkInv
<1>3. /\ ahead + left <= Len(wire) /\ left <= ShapeLen(shape) /\ ShapeLen(shape) \in {1, 3}
      /\ ahead > 0 => left = ShapeLen(shape)
  BY DEF Stand, ShapeLen
<1>4. ASSUME ahead = 0 PROVE left = 0 /\ \A i \in DOMAIN wire : wire[i].unit > n
  <2>1. left = 0
    <3> SUFFICES ASSUME left >= 1 PROVE FALSE
      OBVIOUS
    <3>1. PICK p : p = wire[1]
      OBVIOUS
    <3>2. 1 \in 1..left /\ 0 + 1 = 1
      OBVIOUS
    <3>3. PICK l \in Nat : l = left + 1 - 1 /\ 1 <= l /\ l <= ShapeLen(shape)
      BY <1>3
    <3>4. p = PacketAt(n, shape, l)
      BY <1>4, <3>1, <3>2, <3>3 DEF Stand
    <3>5. p.unit = n
      BY <3>3, <3>4, PacketIs
    <3> QED
      BY <1>2, <3>1, <3>5
  <2> QED
    BY <1>1, <1>4, <2>1 DEF Stand
<1>5. CASE Ingest!Lose
  <2>1. wire' = Tail(wire) /\ wire' \in Seq(Datagram)
        /\ \A i \in DOMAIN wire' : i + 1 \in DOMAIN wire /\ wire'[i] = wire[i + 1]
    <3>1. wire' = Tail(wire)
      BY <1>5 DEF Ingest!Lose
    <3> QED
      BY <1>1, <3>1, MoveHead
  <2>2. CASE ahead = 0
    <3>1. left = 0 /\ \A i \in DOMAIN wire' : wire'[i].unit > n
      BY <1>4, <2>1, <2>2
    <3>2. Stand(n, shape, 0, 0)'
      BY <1>2, <2>1, <3>1, StandsGone
    <3> QED
      BY <3>1, <3>2
  <2>3. CASE ahead > 0
    <3>1. ASSUME ahead = 1, n - 1 \notin hit' PROVE FALSE
      <4>1. /\ wire[1].unit < n
            /\ \A i \in DOMAIN wire : i > 1 => wire[i].unit >= n
        BY <1>1, <1>2, <3>1, StandsSecond
      <4>2. n - 1 \notin hit /\ n <= Len(times) + 1
        BY <1>2, <3>1 DEF NetworkInv
      <4>3. wire[1].unit = n - 1
        BY <1>1, <1>2, <4>1, <4>2, LastOfBefore
      <4> QED
        BY <1>2, <3>1, <4>3
    <3>2. Stand(n, shape, ahead - 1, left)'
      BY <1>1, <1>2, <2>1, <2>3, <3>1, StandsNearer
    <3>3. ahead - 1 \in Nat
      BY <2>3
    <3> QED
      BY <3>2, <3>3
  <2> QED
    BY <2>2, <2>3
<1>6. CASE Ingest!Repeat
  <2>1. /\ wire' \in Seq(Datagram) /\ Len(wire') = Len(wire) + 1
        /\ wire'[1] = wire[1] /\ \A i \in DOMAIN wire : wire'[i + 1] = wire[i]
    BY <1>1, <1>6, WireRepeated
  <2>2. DOMAIN wire' = 1..(Len(wire) + 1)
    BY <2>1
  <2>3. ASSUME NEW i \in DOMAIN wire'
        PROVE  i = 1 \/ (i - 1 \in DOMAIN wire /\ wire'[i] = wire[i - 1])
    <3>1. CASE i > 1
      <4>1. i - 1 \in DOMAIN wire /\ (i - 1) + 1 = i
        BY <1>1, <2>2, <3>1
      <4> QED
        BY <2>1, <4>1
    <3> QED
      BY <1>1, <2>2, <3>1
  <2>4. CASE ahead = 0
    <3>1. left = 0 /\ \A i \in DOMAIN wire' : wire'[i].unit > n
      BY <1>1, <1>4, <2>1, <2>3, <2>4
    <3>2. Stand(n, shape, 0, 0)'
      BY <1>2, <2>1, <3>1, StandsGone
    <3> QED
      BY <3>1, <3>2
  <2>5. CASE ahead > 0
    <3>1. ASSUME NEW i \in 1..left
          PROVE  wire'[(ahead + 1) + i] = PacketAt(n, shape, left + 1 - i)
      <4>1. ahead + i \in DOMAIN wire /\ (ahead + i) + 1 = (ahead + 1) + i
        BY <1>1, <1>3
      <4>2. wire'[(ahead + i) + 1] = wire[ahead + i]
        BY <2>1, <4>1
      <4> QED
        BY <4>1, <4>2 DEF Stand
    <3>2. ASSUME NEW i \in DOMAIN wire'
          PROVE  /\ i <= ahead + 1 => wire'[i].unit < n
                 /\ i > (ahead + 1) + left => wire'[i].unit > n
      <4>1. CASE i = 1
        <5>1. wire[1].unit < n
          BY <1>1, <2>5 DEF Stand
        <5> QED
          BY <2>1, <4>1, <5>1
      <4>2. CASE i # 1
        <5>1. i - 1 \in DOMAIN wire /\ wire'[i] = wire[i - 1] /\ i \in Nat
          BY <2>2, <2>3, <4>2
        <5> QED
          BY <5>1 DEF Stand
      <4> QED
        BY <4>1, <4>2
    <3>3. /\ (ahead + 1) + left <= Len(wire') /\ left = ShapeLen(shape)
          /\ ahead + 1 \in Nat /\ ahead + 1 # 0
      BY <1>1, <1>3, <2>1, <2>5
    <3>4. Stand(n, shape, ahead + 1, left)'
      BY <3>1, <3>2, <3>3 DEF Stand
    <3> QED
      BY <3>3, <3>4
  <2> QED
    BY <2>4, <2>5
<1>7. CASE Ingest!Swap
  <2>1. /\ Len(wire) > 1 /\ wire' \in Seq(Datagram) /\ Len(wire') = Len(wire)
        /\ wire'[1] = wire[2] /\ wire'[2] = wire[1]
        /\ \A i \in DOMAIN wire : i > 2 => wire'[i] = wire[i]
    BY <1>1, <1>7, WireSwapped
  <2>2. 2 \in DOMAIN wire /\ DOMAIN wire' = DOMAIN wire /\ wire[2].unit # n
    <3>1. 2 \in DOMAIN wire /\ DOMAIN wire' = DOMAIN wire
      BY <1>1, <2>1
    <3>2. wire[2].unit \in hit'
      BY <1>7 DEF Ingest!Swap
    <3> QED
      BY <3>1, <3>2
  <2>3. ASSUME NEW i \in DOMAIN wire
        PROVE  \/ i = 1 /\ wire'[i] = wire[2]
               \/ i = 2 /\ wire'[i] = wire[1]
               \/ i > 2 /\ wire'[i] = wire[i]
    BY <1>1, <2>1
  <2>4. CASE ahead = 0
    <3>1. left = 0 /\ \A i \in DOMAIN wire' : wire'[i].unit > n
      BY <1>1, <1>4, <2>2, <2>3, <2>4
    <3>2. Stand(n, shape, 0, 0)'
      BY <1>2, <2>1, <3>1, StandsGone
    <3> QED
      BY <3>1, <3>2
  <2>5. CASE ahead > 0
    <3>1. ahead > 1
      <4> SUFFICES ASSUME ahead = 1 PROVE FALSE
        BY <2>5
      <4>1. 1 \in 1..left /\ ahead + 1 = 2
        BY <1>3
      <4>2. PICK p : p = wire[2]
        OBVIOUS
      <4>3. PICK l \in Nat : l = left + 1 - 1 /\ 1 <= l /\ l <= ShapeLen(shape)
        BY <1>3, <4>1
      <4>4. p = PacketAt(n, shape, l)
        BY <4>1, <4>2, <4>3 DEF Stand
      <4>5. p.unit = n
        BY <4>3, <4>4, PacketIs
      <4> QED
        BY <2>2, <4>2, <4>5
    <3>2. ASSUME NEW i \in 1..left PROVE wire'[ahead + i] = PacketAt(n, shape, left + 1 - i)
      <4>1. ahead + i \in DOMAIN wire /\ ahead + i > 2
        BY <1>1, <1>3, <3>1
      <4> QED
        BY <2>1, <4>1 DEF Stand
    <3>3. wire[1].unit < n /\ wire[2].unit < n
      BY <1>1, <2>2, <3>1 DEF Stand
    <3>4. ASSUME NEW i \in DOMAIN wire'
          PROVE  /\ i <= ahead => wire'[i].unit < n
                 /\ i > ahead + left => wire'[i].unit > n
      <4>1. CASE i > 2
        BY <2>2, <2>3, <4>1 DEF Stand
      <4>2. CASE i \in {1, 2}
        <5>1. wire'[i].unit < n /\ ~(i > ahead + left)
          BY <2>1, <3>1, <3>3, <4>2
        <5> QED
          BY <5>1
      <4> QED
        BY <1>1, <2>2, <4>1, <4>2
    <3>5. Stand(n, shape, ahead, left)'
      BY <1>3, <2>1, <3>1, <3>2, <3>4 DEF Stand
    <3> QED
      BY <3>5
  <2> QED
    BY <2>4, <2>5
<1> QED
  BY <1>5, <1>6, <1>7

\* The units that a fault does not hit keep their places.
LEMMA PlacedByFault ==
    ASSUME NetworkInv, DamageInv, Ingest!Fault
    PROVE  DamageInv'
<1>1. /\ UNCHANGED << times, current, output >>
      /\ Ingest!Lose \/ Ingest!Repeat \/ Ingest!Swap
      /\ hit \subseteq hit' /\ wire \in Seq(Datagram) /\ wire # << >>
      /\ DOMAIN wire = 1..Len(wire) /\ Len(wire) \in Nat \ {0}
      /\ DOMAIN times = 1..Len(times) /\ Len(times) \in Nat
      /\ \A i \in DOMAIN wire : wire[i].unit \in DOMAIN times
  <2>1. wire \in Seq(Datagram) /\ wire # << >>
    BY DEF NetworkInv, Ingest!Fault, Ingest!Lose, Ingest!Repeat, Ingest!Swap
  <2>2. times \in Seq(Int) /\ \A i \in DOMAIN wire : wire[i].unit \in DOMAIN times
    BY DEF NetworkInv, Late
  <2>3. /\ UNCHANGED << times, current, output >>
        /\ Ingest!Lose \/ Ingest!Repeat \/ Ingest!Swap
    BY Zenon DEF Ingest!Fault
  <2>4. hit \subseteq hit'
    BY <2>3 DEF Ingest!Lose, Ingest!Repeat, Ingest!Swap
  <2> QED
    BY <2>1, <2>2, <2>3, <2>4
<1>2. hit' \subseteq DOMAIN times'
  <2>1. hit \subseteq DOMAIN times
    BY DEF DamageInv
  <2>2. wire[1].unit \in DOMAIN times
    BY <1>1
  <2>3. CASE hit' = hit \cup {wire[1].unit}
    BY <1>1, <2>1, <2>2, <2>3
  <2>4. CASE Len(wire) > 1 /\ hit' = hit \cup {wire[1].unit, wire[2].unit}
    <3>1. 2 \in DOMAIN wire
      BY <1>1, <2>4
    <3> QED
      BY <1>1, <2>1, <2>2, <2>4, <3>1
  <2> QED
    BY <1>1, <2>3, <2>4 DEF Ingest!Lose, Ingest!Repeat, Ingest!Swap
<1>3. ASSUME wire' = << >>, Len(times') \notin hit' PROVE current' = << >>
  <2>1. CASE Ingest!Lose
    <3>1. wire' = Tail(wire) /\ wire[1].unit \in hit'
      BY <1>1, <2>1 DEF Ingest!Lose
    <3>2. Len(wire) = 1
      <4>1. Len(Tail(wire)) = Len(wire) - 1
        BY <1>1
      <4>2. Tail(wire) = << >> /\ Len(<< >>) = 0
        <5>1. Len(<< >>) = 0
          OBVIOUS
        <5> QED
          BY <1>3, <3>1, <5>1, Zenon
      <4>3. Len(wire) - 1 = 0 /\ Len(wire) \in Nat
        BY <1>1, <4>1, <4>2, Zenon
      <4> QED
        BY <4>3
    <3>3. PICK n \in Nat : n = Len(times) + 1 /\ n - 1 = Len(times)
      BY <1>1
    <3>4. wire[1].unit < n /\ \A i \in DOMAIN wire : i > 1 => wire[i].unit >= n
      BY <1>1, <3>2, <3>3
    <3>5. n - 1 \notin hit /\ n <= Len(times) + 1
      BY <1>1, <1>3, <3>3
    <3>6. wire[1].unit = n - 1
      BY <1>1, <3>4, <3>5, LastOfBefore
    <3> QED
      BY <1>1, <1>3, <3>1, <3>3, <3>6
  <2>2. CASE Ingest!Repeat
    <3>1. Len(wire') = Len(wire) + 1
      BY <1>1, <2>2, WireRepeated
    <3>2. Len(wire') = 0
      BY <1>3
    <3> QED
      BY <1>1, <3>1, <3>2
  <2>3. CASE Ingest!Swap
    <3>1. Len(wire') = Len(wire)
      BY <1>1, <2>3, WireSwapped
    <3>2. Len(wire') = 0
      BY <1>3
    <3> QED
      BY <1>1, <3>1, <3>2
  <2> QED
    BY <1>1, <2>1, <2>2, <2>3
<1>4. ASSUME NEW n \in Unhit'
      PROVE  \E shape \in {"whole", "parts"}, ahead \in Nat, left \in 0..3 :
                Placed(n, shape, ahead, left)'
  <2>1. n \in Unhit /\ n \notin hit'
    BY <1>1 DEF Unhit
  <2>2. PICK shape \in {"whole", "parts"}, ahead \in Nat, left \in 0..3 : Placed(n, shape, ahead, left)
    BY <2>1 DEF DamageInv
  <2>3. Stand(n, shape, ahead, left)
    BY <2>2 DEF Placed
  <2>4. PICK a \in Nat : Stand(n, shape, a, left)'
    BY <1>1, <2>1, <2>2, <2>3, StandsAside
  <2>5. Placed(n, shape, a, left)'
    <3>1. left > 0 => \A i \in Ingest!Media' : output'[i].unit # n
      BY <1>1, <2>2 DEF Placed, Ingest!Media
    <3>2. left = 0 /\ n - 1 \notin hit' => PublishedOnce(n)'
      BY <1>1, <2>2 DEF Placed, PublishedOnce, Ingest!Media
    <3> QED
      BY <2>4, <3>1, <3>2 DEF Placed
  <2> QED
    BY <2>2, <2>5
<1> QED
  BY <1>2, <1>3, <1>4 DEF DamageInv

\* What is published: a unit that ends adds at most itself, one that goes on adds nothing.
LEMMA PublishedByVideo ==
    ASSUME TimesInv, NEW n, NEW au, Ingest!PublishUnit(n, au)
    PROVE  /\ \A u : u # n /\ (\A i \in Ingest!Media : output[i].unit # u) =>
                 \A i \in Ingest!Media' : output'[i].unit # u
           /\ \A u : u # n /\ PublishedOnce(u) => PublishedOnce(u)'
           /\ /\ Ingest!Body(au) = au /\ au # << >> /\ au \in Ingest!Sent(n)
              /\ \A i \in Ingest!Media : output[i].unit # n
              => PublishedOnce(n)'
<1>1. PICK h : h = Ingest!Message(n, TRUE, << >>, decodeTime', 0, laps')
  BY Zenon
<1>2. PICK m : m = Ingest!Message(n, FALSE, Ingest!Body(au), decodeTime',
                                  Ingest!Composition', laps')
  BY Zenon
<1>3. PICK a : a = IF ~sentSequence /\ Ingest!HasSets(au) THEN << h >> ELSE << >>
  BY Zenon
<1>4. PICK b : b = IF Ingest!Body(au) # << >> THEN << m >> ELSE << >>
  BY Zenon
<1>5. a \in {<< >>, << h >>} /\ b \in {<< >>, << m >>}
  BY <1>3, <1>4
<1>6. PICK q, r : q = output /\ r = output' /\ r = (q \o a) \o b
  <2>1. output' = (output \o a) \o b
    BY <1>1, <1>2, <1>3, <1>4 DEF Ingest!PublishUnit
  <2> QED
    BY <2>1, Zenon
<1>7. /\ h.header /\ h.unit = n /\ ~m.header /\ m.unit = n /\ m.body = Ingest!Body(au)
  BY <1>1, <1>2 DEF Ingest!Message
<1>8. From(q, h, m, r) /\ (b # << >> => Len(r) > Len(q) /\ r[Len(r)] = m)
  <2>1. q \in Seq(Range(q))
    BY <1>6 DEF TimesInv
  <2> QED
    <3>1. r = (q \o a) \o b
      BY <1>6, Zenon
    <3>2. From(q, h, m, r) /\ (b # << >> => Len(r) > Len(q) /\ r[Len(r)] = m)
      <4>1. From(q, h, m, r)
        BY <1>5, <2>1, <3>1, Publishing, Zenon
      <4>2. ASSUME b # << >> PROVE Len(r) > Len(q) /\ r[Len(r)] = m
        <5>1. b = << m >>
          BY <1>5, <4>2
        <5>2. Grown(q, m, r)
          BY <1>5, <2>1, <3>1, <5>1, LastPublished, Zenon
        <5> QED
          BY <5>2 DEF Grown
      <4> QED
        BY <4>1, <4>2, Zenon
    <3> QED
      BY <3>2
<1>9. /\ Len(r) \in Nat /\ Len(q) \in Nat /\ Len(r) >= Len(q)
      /\ DOMAIN r = 1..Len(r) /\ DOMAIN q = 1..Len(q)
      /\ \A i \in DOMAIN r : \/ i \in DOMAIN q /\ r[i] = q[i]
                             \/ i > Len(q) /\ r[i].unit = n /\ (r[i].header \/ i = Len(r))
      /\ Ingest!Media = {i \in DOMAIN q : ~q[i].header}
      /\ Ingest!Media' = {i \in DOMAIN r : ~r[i].header}
  <2>1. Ingest!Media = {i \in DOMAIN q : ~q[i].header} /\ Ingest!Media' = {i \in DOMAIN r : ~r[i].header}
    BY <1>6 DEF Ingest!Media
  <2>2. /\ Len(r) \in Nat /\ Len(q) \in Nat /\ Len(r) >= Len(q)
        /\ DOMAIN r = 1..Len(r) /\ DOMAIN q = 1..Len(q)
    BY <1>8 DEF From
  <2>3. \A i \in DOMAIN r : \/ i \in DOMAIN q /\ r[i] = q[i]
                            \/ i > Len(q) /\ r[i].unit = n /\ (r[i].header \/ i = Len(r))
    BY <1>7, <1>8, Zenon DEF From
  <2> QED
    BY <2>1, <2>2, <2>3
<1>10. \A i \in DOMAIN q : i \in DOMAIN r /\ r[i] = q[i]
  <2> SUFFICES ASSUME NEW i \in DOMAIN q PROVE i \in DOMAIN r /\ r[i] = q[i]
    OBVIOUS
  <2>1. i \in DOMAIN r /\ ~(i > Len(q))
    BY <1>9
  <2> QED
    BY <1>9, <2>1, Zenon
<1>11. ASSUME NEW u, u # n, NEW i \in Ingest!Media', r[i].unit = u
       PROVE  i \in Ingest!Media /\ q[i].unit = u
  BY <1>9, <1>11, Zenon
<1>12. ASSUME NEW u, u # n, \A i \in Ingest!Media : output[i].unit # u
       PROVE  \A i \in Ingest!Media' : output'[i].unit # u
  BY <1>6, <1>11, <1>12, Zenon
<1>13. ASSUME NEW u, u # n, PublishedOnce(u) PROVE PublishedOnce(u)'
  <2>1. PICK i \in Ingest!Media : /\ q[i].unit = u /\ q[i].body \in Ingest!Sent(u)
                                  /\ \A j \in Ingest!Media \ {i} : q[j].unit # u
    BY <1>6, <1>13, Zenon DEF PublishedOnce
  <2>2. i \in DOMAIN q /\ ~q[i].header
    BY <1>9, <2>1, Zenon
  <2>3. i \in DOMAIN r /\ r[i] = q[i]
    BY <1>10, <2>2, Zenon
  <2>4. i \in Ingest!Media'
    BY <1>9, <2>2, <2>3, Zenon
  <2>5. ASSUME NEW j \in Ingest!Media', j # i PROVE r[j].unit # u
    <3> SUFFICES ASSUME r[j].unit = u PROVE FALSE
      OBVIOUS
    <3>1. j \in Ingest!Media /\ q[j].unit = u
      BY <1>11, <1>13, <2>5, Zenon
    <3> QED
      BY <2>1, <2>5, <3>1, Zenon
  <2>6. /\ output'[i].unit = u /\ output'[i].body \in Ingest!Sent(u)
        /\ \A j \in Ingest!Media' \ {i} : output'[j].unit # u
    BY <1>6, <2>1, <2>3, <2>5
  <2> QED
    BY <2>4, <2>6 DEF PublishedOnce, Ingest!Sent
<1>14. ASSUME Ingest!Body(au) = au, au # << >>, au \in Ingest!Sent(n),
              \A i \in Ingest!Media : output[i].unit # n
       PROVE  PublishedOnce(n)'
  <2>1. PICK last : last = Len(r) /\ last \in DOMAIN r /\ r[last] = m /\ last > Len(q)
    <3>1. b # << >>
      BY <1>4, <1>14
    <3>2. Len(r) > Len(q) /\ r[Len(r)] = m
      BY <1>8, <3>1, Zenon
    <3>3. Len(r) \in DOMAIN r
      BY <1>9, <3>2
    <3> QED
      BY <3>2, <3>3, Zenon
  <2>2. last \in Ingest!Media'
    BY <1>7, <1>9, <2>1, Zenon
  <2>3. ASSUME NEW j \in Ingest!Media', j # last PROVE r[j].unit # n
    <3>1. j \in DOMAIN r /\ ~r[j].header
      BY <1>9, Zenon
    <3>2. j \in DOMAIN q /\ r[j] = q[j]
      BY <1>9, <2>1, <2>3, <3>1, Zenon
    <3>3. j \in Ingest!Media
      BY <1>9, <3>1, <3>2, Zenon
    <3> QED
      BY <1>6, <1>14, <3>2, <3>3, Zenon
  <2>4. /\ output'[last].unit = n /\ output'[last].body \in Ingest!Sent(n)
        /\ \A j \in Ingest!Media' \ {last} : output'[j].unit # n
    BY <1>6, <1>7, <1>14, <2>1, <2>3
  <2> QED
    BY <2>2, <2>4 DEF PublishedOnce, Ingest!Sent
<1> QED
  BY <1>12, <1>13, <1>14

\* The packet received is of the first unit on the wire: no other changes.
LEMMA PlacedByVideo ==
    ASSUME NetworkInv, TimesInv, DamageInv, Ingest!HandleVideo
    PROVE  DamageInv'
<1>1. /\ UNCHANGED << times, hit >> /\ wire' = Tail(wire)
      /\ wire \in Seq(Datagram) /\ wire # << >> /\ wire' \in Seq(Datagram)
      /\ DOMAIN wire = 1..Len(wire) /\ Len(wire) \in Nat \ {0} /\ 1 \in DOMAIN wire
      /\ DOMAIN times = 1..Len(times) /\ Len(times) \in Nat
      /\ \A i \in DOMAIN wire : wire[i].unit \in DOMAIN times /\ wire[i].unit \in Nat
      /\ \A i \in DOMAIN wire' : i + 1 \in DOMAIN wire /\ wire'[i] = wire[i + 1]
  <2>1. wire \in Seq(Datagram) /\ wire # << >> /\ times \in Seq(Int)
        /\ UNCHANGED << times, hit >> /\ wire' = Tail(wire)
    BY DEF NetworkInv, Ingest!HandleVideo
  <2>2. \A i \in DOMAIN wire : wire[i].unit \in DOMAIN times
    BY DEF NetworkInv, Late
  <2>3. DOMAIN times = 1..Len(times) /\ Len(times) \in Nat
    BY <2>1
  <2>4. \A i \in DOMAIN wire : wire[i].unit \in Nat
    BY <2>2, <2>3
  <2>5. wire' \in Seq(Datagram) /\ \A i \in DOMAIN wire' : i + 1 \in DOMAIN wire /\ wire'[i] = wire[i + 1]
    BY <2>1, MoveHead
  <2> QED
    BY <2>1, <2>2, <2>3, <2>4, <2>5
<1>2. PICK p, n, au : /\ p = wire[1] /\ n = p.unit /\ n \in Nat
                      /\ au = current \o Ingest!Pieces(p)
  BY <1>1, Zenon
<1>3. /\ p.marker => Ingest!PublishUnit(n, au) /\ current' = << >>
      /\ ~p.marker => current' = au /\ output' = output
  <2>1. p = Head(wire)
    BY <1>1, <1>2
  <2> QED
    BY <1>2, <2>1, Zenon DEF Ingest!HandleVideo
<1>4. /\ \A u : u # n /\ (\A i \in Ingest!Media : output[i].unit # u) =>
            \A i \in Ingest!Media' : output'[i].unit # u
      /\ \A u : u # n /\ PublishedOnce(u) => PublishedOnce(u)'
  <2>1. CASE p.marker
    BY <1>3, <2>1, PublishedByVideo, Zenon
  <2>2. CASE ~p.marker
    BY <1>3, <2>2 DEF PublishedOnce, Ingest!Media, Ingest!Sent
  <2> QED
    BY <2>1, <2>2, Zenon
<1>5. ASSUME wire' = << >>, Len(times') \notin hit' PROVE current' = << >>
  <2>1. Len(wire) = 1
    <3>1. Len(Tail(wire)) = Len(wire) - 1
      BY <1>1
    <3>2. Len(<< >>) = 0
      OBVIOUS
    <3>3. Len(wire) - 1 = 0 /\ Len(wire) \in Nat
      BY <1>1, <1>5, <3>1, <3>2, Zenon
    <3> QED
      BY <3>3
  <2>2. PICK m \in Nat : m = Len(times) + 1 /\ m - 1 = Len(times)
    BY <1>1
  <2>3. wire[1].unit < m /\ \A i \in DOMAIN wire : i > 1 => wire[i].unit >= m
    BY <1>1, <2>1, <2>2
  <2>4. m - 1 \notin hit /\ m <= Len(times) + 1
    BY <1>1, <1>5, <2>2
  <2>5. wire[1].marker
    BY <1>1, <2>3, <2>4, LastOfBefore
  <2> QED
    BY <1>2, <1>3, <2>5, Zenon
<1>6. ASSUME NEW u \in Unhit
      PROVE  \E shape \in {"whole", "parts"}, ahead \in Nat, left \in 0..3 :
                Placed(u, shape, ahead, left)'
  <2>1. PICK shape \in {"whole", "parts"}, ahead \in Nat, left \in 0..3 : Placed(u, shape, ahead, left)
    BY DEF DamageInv
  <2>2. /\ Stand(u, shape, ahead, left) /\ u \in Nat /\ u <= Len(times)
        /\ left > 0 => \A i \in Ingest!Media : output[i].unit # u
        /\ left = 0 /\ u - 1 \notin hit => PublishedOnce(u)
        /\ ShapeLen(shape) \in {1, 3} /\ left <= ShapeLen(shape)
        /\ ahead > 0 => left = ShapeLen(shape)
    BY <1>1, <2>1 DEF Placed, Unhit, Stand, ShapeLen
  <2>3. CASE ahead > 0
    <3>1. n # u
      <4>1. \A i \in DOMAIN wire : i <= ahead => wire[i].unit < u
        BY <2>2, Zenon DEF Stand
      <4>2. 1 <= ahead
        BY <2>1, <2>3
      <4>3. n < u
        BY <1>1, <1>2, <4>1, <4>2, Zenon
      <4> QED
        BY <1>2, <2>2, <4>3
    <3>2. ASSUME ahead = 1, u - 1 \notin hit' PROVE current' = << >>
      <4>1. wire[1].unit < u /\ \A i \in DOMAIN wire : i > 1 => wire[i].unit >= u
        BY <1>1, <2>1, <2>2, <3>2, StandsSecond
      <4>2. u - 1 \notin hit /\ u <= Len(times) + 1
        BY <1>1, <2>2, <3>2
      <4>3. wire[1].marker
        BY <1>1, <2>2, <4>1, <4>2, LastOfBefore
      <4> QED
        BY <1>2, <1>3, <4>3, Zenon
    <3>3. Stand(u, shape, ahead - 1, left)'
      BY <1>1, <2>1, <2>2, <2>3, <3>2, StandsNearer
    <3>4. left > 0 /\ ahead - 1 \in Nat
      BY <2>2, <2>3
    <3>5. \A i \in Ingest!Media' : output'[i].unit # u
      BY <1>4, <2>2, <3>1, <3>4, Zenon
    <3>6. Placed(u, shape, ahead - 1, left)'
      BY <3>3, <3>4, <3>5 DEF Placed
    <3> QED
      BY <2>1, <3>4, <3>6
  <2>4. CASE ahead = 0 /\ left = 0
    <3>1. \A i \in DOMAIN wire : wire[i].unit > u
      <4>1. \A i \in DOMAIN wire : i > ahead + left => wire[i].unit > u
        BY <2>2, Zenon DEF Stand
      <4>2. \A i \in DOMAIN wire : i > ahead + left
        BY <1>1, <2>4
      <4> QED
        BY <4>1, <4>2, Zenon
    <3>2. n # u /\ \A i \in DOMAIN wire' : wire'[i].unit > u
      <4>1. n > u
        BY <1>1, <1>2, <3>1, Zenon
      <4>2. n # u
        BY <1>2, <2>2, <4>1
      <4>3. \A i \in DOMAIN wire' : wire'[i].unit > u
        BY <1>1, <3>1, Zenon
      <4> QED
        BY <4>2, <4>3, Zenon
    <3>3. Stand(u, shape, 0, 0)'
      BY <1>1, <2>1, <2>2, <3>2, StandsGone
    <3>4. u - 1 \notin hit' => PublishedOnce(u)'
      BY <1>1, <1>4, <2>2, <2>4, <3>2
    <3>5. Placed(u, shape, 0, 0)'
      BY <3>3, <3>4 DEF Placed
    <3> QED
      BY <2>1, <3>5
  <2>5. CASE ahead = 0 /\ left > 0
    <3>1. PICK l \in Nat : l = left /\ l \in 1..3 /\ l = left + 1 - 1 /\ l \in 1..ShapeLen(shape)
      BY <2>2, <2>5
    <3>2. p = PacketAt(u, shape, l) /\ Stand(u, shape, 0, l)
      <4>1. 1 \in 1..left /\ 0 + 1 = 1
        BY <2>5
      <4>2. wire[0 + 1] = PacketAt(u, shape, left + 1 - 1)
        BY <2>2, <2>5, <4>1 DEF Stand
      <4> QED
        BY <1>2, <2>2, <2>5, <3>1, <4>1, <4>2
    <3>3. n = u /\ (p.marker <=> l = 1)
      <4>1. 1 <= l /\ l <= ShapeLen(shape)
        BY <2>2, <3>1
      <4>2. p.unit = u /\ (p.marker <=> l = 1)
        BY <2>1, <3>1, <3>2, <4>1, PacketIs
      <4> QED
        BY <1>2, <4>2, Zenon
    <3>4. l > 1 => current' = current \o Ingest!Pieces(PacketAt(u, shape, l))
      BY <1>2, <1>3, <3>2, <3>3
    <3>5. Stand(u, shape, 0, l - 1)'
      BY <1>1, <2>1, <2>2, <3>1, <3>2, <3>4, StandsLess
    <3>6. ASSUME l > 1 PROVE \A i \in Ingest!Media' : output'[i].unit # u
      BY <1>3, <2>2, <3>1, <3>3, <3>6 DEF Ingest!Media
    <3>7. ASSUME l = 1, u - 1 \notin hit' PROVE PublishedOnce(u)'
      <4>1. current = Begun(u, shape, l)
        BY <1>1, <3>2, <3>7 DEF Stand
      <4>2. au = Begun(u, shape, l) \o Ingest!Pieces(PacketAt(u, shape, l))
        BY <1>2, <3>2, <4>1, Zenon
      <4>3. au \in Ingest!Sent(u) /\ Ingest!Body(au) = au /\ au # << >>
        BY <2>1, <3>1, <3>7, <4>2, BegunWhole, Zenon
      <4>4. Ingest!PublishUnit(u, au)
        BY <1>3, <3>3, <3>7, Zenon
      <4>5. \A i \in Ingest!Media : output[i].unit # u
        BY <2>2, <2>5
      <4> QED
        BY <4>3, <4>4, <4>5, PublishedByVideo, Zenon
    <3>8. PICK k \in 0..3 : k = l - 1 /\ (k > 0 => l > 1) /\ (k = 0 => l = 1)
      BY <3>1
    <3>9. Stand(u, shape, 0, k)'
      BY <3>5, <3>8
    <3>10. Placed(u, shape, 0, k)'
      BY <3>6, <3>7, <3>8, <3>9 DEF Placed
    <3> QED
      BY <2>1, <3>8, <3>10
  <2> QED
    BY <2>1, <2>3, <2>4, <2>5
<1>7. hit' \subseteq DOMAIN times' /\ Unhit' = Unhit
  BY <1>1 DEF DamageInv, Unhit
<1> QED
  BY <1>5, <1>6, <1>7 DEF DamageInv

\* VideoRtpIngest looks at no sequence number.  Still, a video unit that the network did not
\* hit, nor the one before it, is published as it was sent, once, whatever the number of
\* units and of packets lost, repeated or swapped.
THEOREM DamageConfinedHolds ==
    Spec => []DamageConfined
<1> DEFINE Inv == part = "ingest" => NetworkInv /\ TimesInv /\ (track = "video" => DamageInv)
<1>1. Init => Inv
  <2>1. ASSUME Ingest!Init PROVE DamageInv
    <3>1. DOMAIN << >> = {}
      OBVIOUS
    <3> QED
      BY <2>1, <3>1 DEF DamageInv, Unhit, Ingest!Init
  <2> QED
    BY <2>1, InitOfPart, IngestInit
<1>2. Inv /\ [Next]_allVars => Inv'
  <2> SUFFICES ASSUME part = "ingest", NetworkInv, TimesInv, track = "video" => DamageInv,
                      [Next]_allVars
               PROVE  NetworkInv' /\ TimesInv' /\ (track' = "video" => DamageInv')
    BY StepOfPart
  <2>1. CASE Ingest!Send
    <3>1. track' = track
      BY <2>1 DEF Ingest!Send
    <3> QED
      BY <2>1, <3>1, TimesByNetwork, PlacedBySending
  <2>2. CASE Ingest!Fault
    <3>1. track' = track
      BY <2>2 DEF Ingest!Fault
    <3> QED
      BY <2>2, <3>1, TimesByNetwork, PlacedByFault
  <2>3. CASE Ingest!HandleVideo
    <3>1. track = "video"
      BY <2>3 DEF Ingest!HandleVideo
    <3> QED
      BY <2>3, <3>1, TimesByVideo, PlacedByVideo
  <2>4. CASE Ingest!HandleAudio
    <3>1. track = "aac" /\ track' = track
      BY <2>4 DEF Ingest!HandleAudio
    <3> QED
      BY <2>4, <3>1, TimesByAudio
  <2>5. CASE UNCHANGED ingestVs
    <3>1. UNCHANGED << track, times, wire, faults, lastTs, ticks, decodeTime, laps, interval,
                       output, hit, current >>
      BY <2>5 DEF ingestVs
    <3>2. NetworkInv' /\ TimesInv'
      BY <3>1, TimesUnchanged
    <3>4. DamageInv => DamageInv'
      BY <3>1 DEF DamageInv, Unhit, Placed, Stand, PublishedOnce, Ingest!Media, Ingest!Sent
    <3> QED
      BY <3>1, <3>2, <3>4
  <2> QED
    BY <2>1, <2>2, <2>3, <2>4, <2>5, StepOfPart DEF Ingest!Next
<1>3. Inv => DamageConfined
  <2> SUFFICES ASSUME part = "ingest", NetworkInv, track = "video", DamageInv,
                      NEW n \in Ingest!Passed, {n - 1, n} \cap hit = {}
               PROVE  \E i \in Ingest!Media : /\ output[i].body \in Ingest!Sent(n)
                                              /\ \A j \in Ingest!Media \ {i} : output[j].unit # n
    BY DEF DamageConfined, Ingest!DamageConfined
  <2>1. n \in Unhit /\ n - 1 \notin hit /\ \A i \in DOMAIN wire : wire[i].unit # n
    BY DEF Unhit, Ingest!Passed
  <2>2. PICK shape \in {"whole", "parts"}, ahead \in Nat, left \in 0..3 : Placed(n, shape, ahead, left)
    BY <2>1 DEF DamageInv
  <2>3. left = 0
    <3> SUFFICES ASSUME left >= 1 PROVE FALSE
      BY <2>2
    <3>1. PICK l \in Nat : l = left + 1 - 1 /\ 1 <= l /\ l <= ShapeLen(shape) /\ 1 \in 1..left
      BY <2>2 DEF Placed, Stand, ShapeLen
    <3>2. PICK p : p = wire[ahead + 1]
      OBVIOUS
    <3>3. p = PacketAt(n, shape, l)
      BY <2>2, <3>1, <3>2 DEF Placed, Stand
    <3>4. p.unit = n
      BY <2>2, <3>1, <3>3, PacketIs
    <3>5. ahead + 1 \in DOMAIN wire
      <4>1. wire \in Seq(Datagram)
        BY DEF NetworkInv
      <4>2. ahead + left <= Len(wire)
        BY <2>2 DEF Placed, Stand
      <4> QED
        BY <2>2, <4>1, <4>2
    <3> QED
      BY <2>1, <3>2, <3>4, <3>5
  <2>4. PublishedOnce(n)
    BY <2>1, <2>2, <2>3 DEF Placed
  <2> QED
    BY <2>4 DEF PublishedOnce
<1> QED
  BY <1>1, <1>2, <1>3, PTL DEF Spec, allVars

-----------------------------------------------------------------------------
(* The HTTP server *)

\* A handler that reads on with the whole head of a request that says Expect has told its
\* client to go on.
HttpInv ==
    /\ asked \in [Conn -> Http!Request]
    /\ handlers \in [Conn -> {"none", "reading", "ready", "playing", "closed"}]
    /\ continued \in [Conn -> BOOLEAN]
    /\ DOMAIN got = Conn
    /\ \A c \in Conn : handlers[c] = "none" => got[c] = << >>
    /\ \A c \in Conn :
          handlers[c] = "reading" /\ Len(got[c]) >= 3 /\ asked[c].expect = "Expect" => continued[c]

LEMMA HttpInit ==
    ASSUME Http!Init
    PROVE  HttpInv
<1>1. Http!NoRequest \in Http!Request
  BY HttpAssumption DEF Http!NoRequest, Http!Request, Http!HttpBounds, Http!OtherCalls
<1> QED
  BY <1>1 DEF Http!Init, HttpInv

LEMMA HttpKeeps ==
    ASSUME HttpInv, Http!Next
    PROVE  HttpInv'
<1> USE DEF HttpInv
<1>1. CASE Http!StartServer \/ Http!StopServer
  BY <1>1 DEF Http!StartServer, Http!StopServer, Http!clientVars, Http!handlerVars
<1>2. ASSUME NEW c \in Conn, NEW r \in AskedRequests, Http!Accept(c, r) PROVE HttpInv'
  <2>1. r \in Http!Request
    BY HttpAssumption DEF Http!HttpBounds
  <2> QED
    BY <1>2, <2>1 DEF Http!Accept
<1>3. ASSUME NEW c \in Conn, Http!ClientSend(c) \/ Http!ClientGivesUp(c) PROVE HttpInv'
  BY <1>3 DEF Http!ClientSend, Http!ClientGivesUp, Http!handlerVars
<1>4. ASSUME NEW c \in Conn, NEW n \in 1..Len(Http!Wire(asked[c])), Http!Receive(c, n)
      PROVE  HttpInv'
  <2> DEFINE text == SubSeq(Http!Wire(asked[c]), 1, Len(got[c]) + n)
             whole == Http!Complete(asked[c], text)
             goOn == ~continued[c] /\ Len(text) >= Len(Http!HeadParts) /\ ~whole
                     /\ Http!Expects(asked[c])
             kept == IF whole THEN Http!Kept(asked[c], text) ELSE text
  <2>1. /\ handlers[c] = "reading" /\ asked' = asked
        /\ got' = [got EXCEPT ![c] = kept]
        /\ \/ /\ handlers' = [handlers EXCEPT ![c] = IF whole THEN "ready" ELSE "reading"]
              /\ continued' = [continued EXCEPT ![c] = @ \/ goOn]
           \/ /\ handlers' = [handlers EXCEPT ![c] = "closed"]
              /\ UNCHANGED continued
    BY <1>4 DEF Http!Receive, Http!clientVars
  <2>2. Len(Http!HeadParts) = 3
    BY DEF Http!HeadParts
  <2>3. ASSUME ~whole, Len(kept) >= 3, asked[c].expect = "Expect"
        PROVE  continued[c] \/ goOn
    BY <2>2, <2>3 DEF Http!Expects
  <2>4. goOn \in BOOLEAN
    OBVIOUS
  <2> HIDE DEF text, whole, goOn, kept
  <2> QED
    BY <2>1, <2>3, <2>4
<1>5. ASSUME NEW c \in Conn, Http!ReceiveEnd(c) PROVE HttpInv'
  BY <1>5 DEF Http!ReceiveEnd, Http!clientVars
<1>6. ASSUME NEW c \in Conn, Http!Handle(c) PROVE HttpInv'
  <2>1. UNCHANGED << asked, got, continued >>
        /\ \E place \in {"closed", "playing"} : handlers' = [handlers EXCEPT ![c] = place]
    BY <1>6, Zenon DEF Http!Handle, Http!clientVars
  <2> QED
    BY <2>1
<1> QED
  BY <1>1, <1>2, <1>3, <1>4, <1>5, <1>6 DEF Http!Next

\* A handler never waits for the body of a client that waits to be told to send it, unless
\* the client spells the header's name in another case (http_server.cpp,
\* has_expect_100_continue).
THEOREM NoMutualWaitHolds ==
    Spec => []NoMutualWait
<1> DEFINE Inv == part = "http" => HttpInv
<1>1. Init => Inv
  BY InitOfPart, HttpInit
<1>2. Inv /\ [Next]_allVars => Inv'
  <2> SUFFICES ASSUME part = "http", HttpInv, [Next]_allVars PROVE HttpInv'
    BY StepOfPart
  <2>1. CASE UNCHANGED httpVs
    BY <2>1 DEF httpVs, HttpInv
  <2> QED
    BY <2>1, HttpKeeps, StepOfPart
<1>3. Inv => NoMutualWait
  <2> SUFFICES ASSUME part = "http", HttpInv, NEW c \in Conn, Http!Waits(c),
                      handlers[c] = "reading", Len(got[c]) = sent[c]
               PROVE  asked[c].expect = "expect"
    BY DEF NoMutualWait, Http!NoMutualWait
  <2>1. Len(got[c]) >= 3 /\ ~continued[c] /\ asked[c].expect # "none"
    BY DEF Http!Waits, Http!HeadParts
  <2>2. asked[c].expect \in {"none", "Expect", "expect"}
    BY DEF HttpInv, Http!Request
  <2> QED
    BY <2>1, <2>2 DEF HttpInv
<1> QED
  BY <1>1, <1>2, <1>3, PTL DEF Spec, allVars

Text == {"target", "headers", "blank", "size", "body", "end", "next"}

\* A sequence of the places of p and then those of q.
IsJoined(S, p, q, r) ==
    /\ r \in Seq(S) /\ Len(r) = Len(p) + Len(q)
    /\ \A i \in 1..Len(p) : r[i] = p[i]
    /\ \A i \in 1..Len(q) : r[Len(p) + i] = q[i]

LEMMA JoinedText ==
    ASSUME NEW S, NEW p \in Seq(S), NEW q \in Seq(S), NEW r, r = p \o q
    PROVE  IsJoined(S, p, q, r)
<1>1. PICK s : s = p \o q
  BY Zenon
<1>2. /\ s \in Seq(S) /\ Len(s) = Len(p) + Len(q)
      /\ \A i \in 1..(Len(p) + Len(q)) : s[i] = IF i <= Len(p) THEN p[i] ELSE q[i - Len(p)]
  BY <1>1, ConcatPlaces, Zenon
<1>3. Len(p) \in Nat /\ Len(q) \in Nat
  BY Zenon, LenProperties
<1>4. \A i \in 1..Len(p) : s[i] = p[i]
  BY <1>2, <1>3
<1>5. ASSUME NEW i \in 1..Len(q) PROVE s[Len(p) + i] = q[i]
  <2>1. /\ Len(p) + i \in 1..(Len(p) + Len(q)) /\ ~(Len(p) + i <= Len(p))
        /\ (Len(p) + i) - Len(p) = i
    BY <1>3
  <2> QED
    BY <1>2, <2>1, Zenon
<1> QED
  BY <1>1, <1>2, <1>4, <1>5, Zenon DEF IsJoined

\* Where each part of a request is on the connection.
OnWire(r, k, whole, wire1) ==
    /\ k = r.size /\ k \in Nat
    /\ whole \in Seq(Text) /\ wire1 \in Seq(Text)
    /\ Len(whole) = 3 + IF r.chunked THEN 2 * k + 1 ELSE k
    /\ Len(wire1) \in {Len(whole), Len(whole) + 1}
    /\ \A i \in 1..Len(whole) : wire1[i] = whole[i]
    /\ \A i \in 1..Len(wire1) : i > Len(whole) => wire1[i] = "next"
    /\ \A i \in 1..3 : whole[i] \notin {"body", "end"}
    /\ ~r.chunked => \A i \in 1..k : whole[3 + i] = "body"
    /\ r.chunked => whole[3 + (2 * k + 1)] = "end"
    /\ r.chunked => \A i \in 1..(2 * k) : whole[3 + i] = IF i % 2 = 1 THEN "size" ELSE "body"

LEMMA RequestParts ==
    ASSUME NEW r \in Http!Request, NEW whole, whole = Http!Whole(r), NEW wire1, wire1 = Http!Wire(r)
    PROVE  OnWire(r, r.size, whole, wire1)
<1>1. PICK k \in Nat : k = r.size
  BY HttpAssumption DEF Http!Request, Http!HttpBounds
<1>2. PICK head : head = Http!HeadParts
  BY Zenon
<1>3. /\ head \in Seq(Text) /\ Len(head) = 3
      /\ head[1] = "target" /\ head[2] = "headers" /\ head[3] = "blank"
  BY <1>2 DEF Http!HeadParts, Text
<1>4. PICK chunks1 : chunks1 = [i \in 1..(2 * k) |-> IF i % 2 = 1 THEN "size" ELSE "body"]
  BY Zenon
<1>5. /\ chunks1 \in Seq(Text) /\ Len(chunks1) = 2 * k
      /\ \A i \in 1..(2 * k) : chunks1[i] = IF i % 2 = 1 THEN "size" ELSE "body"
  BY <1>1, <1>4, SMTT(60) DEF Text
<1>6. PICK ending : ending = << "end" >>
  BY Zenon
<1>7. ending \in Seq(Text) /\ Len(ending) = 1 /\ ending[1] = "end"
  BY <1>6 DEF Text
<1>8. PICK all : all = chunks1 \o ending
  BY Zenon
<1>9. /\ all \in Seq(Text) /\ Len(all) = 2 * k + 1 /\ all[2 * k + 1] = "end"
      /\ \A i \in 1..(2 * k) : all[i] = IF i % 2 = 1 THEN "size" ELSE "body"
  <2>1. IsJoined(Text, chunks1, ending, all)
    BY <1>5, <1>7, <1>8, JoinedText, Zenon
  <2>2. /\ all \in Seq(Text) /\ Len(all) = Len(chunks1) + Len(ending)
        /\ \A i \in 1..Len(chunks1) : all[i] = chunks1[i]
        /\ \A i \in 1..Len(ending) : all[Len(chunks1) + i] = ending[i]
    BY <2>1, Zenon DEF IsJoined
  <2> QED
    BY <1>1, <1>5, <1>7, <2>2
<1>10. PICK body : body = Http!BodyOf(r)
  BY Zenon
<1>11. /\ body \in Seq(Text) /\ Len(body) = k
       /\ \A i \in 1..k : body[i] = "body"
  BY <1>1, <1>10 DEF Http!BodyOf, Text
<1>12. PICK rest : rest = IF r.chunked THEN all ELSE body
  BY Zenon
<1>13. rest \in Seq(Text) /\ Len(rest) = IF r.chunked THEN 2 * k + 1 ELSE k
  BY <1>1, <1>9, <1>11, <1>12
<1>14. whole = head \o rest
  BY <1>1, <1>2, <1>4, <1>6, <1>8, <1>10, <1>12, Zenon DEF Http!Whole
<1>15. /\ whole \in Seq(Text) /\ Len(whole) = 3 + Len(rest)
       /\ \A i \in 1..3 : whole[i] = head[i]
       /\ \A i \in 1..Len(rest) : whole[3 + i] = rest[i]
  <2>1. IsJoined(Text, head, rest, whole)
    BY <1>3, <1>13, <1>14, JoinedText, Zenon
  <2> QED
    BY <1>3, <2>1, Zenon DEF IsJoined
<1>16. PICK after : after = IF r.extra THEN << "next" >> ELSE << >>
  BY Zenon
<1>17. /\ after \in Seq(Text) /\ Len(after) \in {0, 1}
       /\ \A i \in 1..Len(after) : after[i] = "next"
  <2>1. CASE r.extra
    <3>1. after = << "next" >>
      BY <1>16, <2>1, Zenon
    <3>2. Len(after) = 1 /\ after[1] = "next" /\ after \in Seq(Text)
      BY <3>1 DEF Text
    <3> QED
      BY <3>2
  <2>2. CASE ~r.extra
    <3>1. after = << >>
      BY <1>16, <2>2, Zenon
    <3>2. Len(after) = 0 /\ after \in Seq(Text)
      BY <3>1
    <3> QED
      BY <3>2
  <2> QED
    BY <2>1, <2>2
<1>18. wire1 = whole \o after
  BY <1>16, Zenon DEF Http!Wire
<1>19. /\ wire1 \in Seq(Text) /\ Len(wire1) = Len(whole) + Len(after)
       /\ \A i \in 1..Len(whole) : wire1[i] = whole[i]
       /\ \A i \in 1..Len(wire1) : i > Len(whole) => wire1[i] = "next"
  <2>1. /\ wire1 \in Seq(Text) /\ Len(wire1) = Len(whole) + Len(after)
        /\ \A i \in 1..Len(whole) : wire1[i] = whole[i]
        /\ \A i \in 1..Len(after) : wire1[Len(whole) + i] = after[i]
    <3>1. IsJoined(Text, whole, after, wire1)
      BY <1>15, <1>17, <1>18, JoinedText, Zenon
    <3> QED
      BY <3>1, Zenon DEF IsJoined
  <2>2. Len(whole) \in Nat /\ Len(after) \in Nat
    BY <1>15, <1>17
  <2>3. ASSUME NEW i \in 1..Len(wire1), i > Len(whole) PROVE wire1[i] = "next"
    <3>1. PICK j \in 1..Len(after) : i = Len(whole) + j
      <4>1. i - Len(whole) \in 1..Len(after) /\ i = Len(whole) + (i - Len(whole))
        BY <2>1, <2>2, <2>3
      <4> QED
        BY <4>1, Zenon
    <3> QED
      BY <1>17, <2>1, <3>1, Zenon
  <2> QED
    BY <2>1, <2>3, Zenon
<1>20. \A i \in 1..3 : whole[i] \notin {"body", "end"}
  BY <1>3, <1>15
<1>21. Len(wire1) \in {Len(whole), Len(whole) + 1} /\ Len(whole) \in Nat
  BY <1>15, <1>17, <1>19
<1>22. Len(whole) = 3 + IF r.chunked THEN 2 * k + 1 ELSE k
  BY <1>1, <1>13, <1>15
<1>23. ~r.chunked => \A i \in 1..k : whole[3 + i] = "body"
  BY <1>1, <1>11, <1>12, <1>13, <1>15
<1>24. r.chunked => whole[3 + (2 * k + 1)] = "end"
  BY <1>1, <1>9, <1>12, <1>13, <1>15
<1>25. r.chunked => \A i \in 1..(2 * k) :
                       whole[3 + i] = IF i % 2 = 1 THEN "size" ELSE "body"
  BY <1>1, <1>9, <1>12, <1>13, <1>15
<1> QED
  BY <1>1, <1>15, <1>19, <1>20, <1>21, <1>22, <1>23, <1>24, <1>25, Zenon DEF OnWire

\* The first n parts are taken for the request when it has no more, and then the request is
\* kept, or all that came when the body is in chunks.
Recognised(r, n, text) ==
    /\ Http!Complete(r, text) <=> n >= Len(Http!Whole(r))
    /\ n >= Len(Http!Whole(r)) =>
          \/ Http!Kept(r, text) = Http!Whole(r)
          \/ r.chunked /\ Http!Kept(r, text) = Http!Wire(r)

LEMMA CompleteWhen ==
    ASSUME NEW r \in Http!Request, NEW n \in 0..Len(Http!Wire(r)),
           NEW text, text = SubSeq(Http!Wire(r), 1, n)
    PROVE  Recognised(r, n, text)
<1>0. PICK whole, wire1 : whole = Http!Whole(r) /\ wire1 = Http!Wire(r)
  BY Zenon
<1>1. PICK k \in Nat : k = r.size
  BY HttpAssumption DEF Http!Request, Http!HttpBounds
<1>2. /\ whole \in Seq(Text) /\ wire1 \in Seq(Text)
      /\ Len(whole) = 3 + IF r.chunked THEN 2 * k + 1 ELSE k
      /\ Len(wire1) \in {Len(whole), Len(whole) + 1}
      /\ \A i \in 1..Len(whole) : wire1[i] = whole[i]
      /\ \A i \in 1..Len(wire1) : i > Len(whole) => wire1[i] = "next"
      /\ \A i \in 1..3 : whole[i] \notin {"body", "end"}
      /\ r.chunked => whole[3 + (2 * k + 1)] = "end"
      /\ r.chunked => \A i \in 1..(2 * k) : whole[3 + i] = IF i % 2 = 1 THEN "size" ELSE "body"
  <2>1. OnWire(r, r.size, whole, wire1)
    BY <1>0, RequestParts, Zenon
  <2> QED
    BY <1>1, <2>1, Zenon DEF OnWire
<1>3. n \in Nat /\ n <= Len(wire1) /\ Len(whole) \in Nat /\ Len(wire1) \in Nat
  BY <1>0, <1>2
<1>4. /\ text \in Seq(Text) /\ Len(text) = n /\ DOMAIN text = 1..n
      /\ \A i \in 1..n : text[i] = wire1[i]
  BY <1>0, <1>2, <1>3
<1>5. Len(Http!HeadParts) = 3
  BY DEF Http!HeadParts
<1>6. n >= Len(whole) =>
         \/ Http!Kept(r, text) = whole
         \/ r.chunked /\ Http!Kept(r, text) = wire1
  <2> HAVE n >= Len(whole)
  <2>1. CASE r.chunked
    <3>1. Http!Kept(r, text) = text
      BY <2>1, Zenon DEF Http!Kept
    <3>2. CASE n = Len(whole)
      <4>1. text = whole
        BY <1>2, <1>3, <1>4, <3>2, SeqEqual
      <4> QED
        BY <3>1, <4>1, Zenon
    <3>3. CASE n = Len(wire1)
      <4>1. text = wire1
        BY <1>2, <1>3, <1>4, <3>3, SeqEqual
      <4> QED
        BY <2>1, <3>1, <4>1, Zenon
    <3> QED
      BY <1>2, <1>3, <3>2, <3>3
  <2>2. CASE ~r.chunked
    <3>1. Http!Kept(r, text) = SubSeq(text, 1, 3 + k)
      BY <1>1, <1>5, <2>2, Zenon DEF Http!Kept, Http!TotalNeeded
    <3>2. PICK kept : kept = SubSeq(text, 1, 3 + k)
      BY Zenon
    <3>3. Len(whole) = 3 + k /\ 3 + k <= n
      BY <1>2, <2>2
    <3>4. kept \in Seq(Text) /\ Len(kept) = 3 + k /\ \A i \in 1..(3 + k) : kept[i] = text[i]
      BY <1>1, <1>3, <1>4, <3>2, <3>3, SMTT(60)
    <3>5. \A i \in 1..(3 + k) : text[i] = whole[i]
      BY <1>1, <1>2, <1>3, <1>4, <3>3
    <3>6. kept = whole
      BY <1>2, <3>3, <3>4, <3>5, SeqEqual
    <3> QED
      BY <3>1, <3>2, <3>6, Zenon
  <2> QED
    BY <2>1, <2>2
<1>7. Http!Complete(r, text) <=> n >= Len(whole)
  <2>1. CASE r.chunked
    <3>1. Http!Complete(r, text) <=> n >= 3 /\ \E i \in 1..n : text[i] = "end"
      BY <1>4, <1>5, <2>1 DEF Http!Complete
    <3>2. Len(whole) = 2 * k + 4 /\ whole[2 * k + 4] = "end"
      BY <1>1, <1>2, <2>1, SMTT(60)
    <3>3. ASSUME n >= Len(whole) PROVE Http!Complete(r, text)
      <4>1. 2 * k + 4 \in 1..n /\ n >= 3 /\ 2 * k + 4 \in 1..Len(whole)
        BY <1>1, <1>3, <3>2, <3>3, SMTT(60)
      <4>2. text[2 * k + 4] = "end"
        BY <1>2, <1>4, <3>2, <4>1
      <4> QED
        BY <3>1, <4>1, <4>2
    <3>4. ASSUME n < Len(whole), NEW i \in 1..n PROVE text[i] # "end"
      <4>1. i \in 1..Len(whole) /\ i <= 2 * k + 3 /\ text[i] = whole[i]
        <5>1. i \in 1..Len(whole) /\ i <= 2 * k + 3
          BY <1>1, <1>3, <3>2, <3>4
        <5> QED
          BY <1>2, <1>4, <5>1, Zenon
      <4>2. CASE i <= 3
        BY <1>2, <4>1, <4>2
      <4>3. CASE i > 3
        <5>1. i - 3 \in 1..(2 * k) /\ 3 + (i - 3) = i
          BY <1>1, <4>1, <4>3
        <5>2. whole[3 + (i - 3)] \in {"size", "body"}
          BY <1>2, <2>1, <5>1
        <5> QED
          BY <4>1, <5>1, <5>2
      <4> QED
        BY <4>1, <4>2, <4>3
    <3> QED
      BY <1>3, <3>1, <3>3, <3>4
  <2>2. CASE ~r.chunked
    <3>1. Http!TotalNeeded(r) = 3 + k /\ Len(whole) = 3 + k
      BY <1>1, <1>2, <1>5, <2>2 DEF Http!TotalNeeded
    <3> QED
      BY <1>1, <1>3, <1>4, <1>5, <2>2, <3>1 DEF Http!Complete
  <2> QED
    BY <2>1, <2>2
<1> QED
  BY <1>0, <1>6, <1>7, Zenon DEF Recognised

\* The body of a whole request is what its client sends.
LEMMA BodyAsSent ==
    ASSUME NEW r \in Http!Request, NEW text,
           text = Http!Whole(r) \/ (r.chunked /\ text = Http!Wire(r))
    PROVE  Http!BodyIn(r, text) = Http!BodyOf(r)
<1>1. PICK k \in Nat : k = r.size
  BY HttpAssumption DEF Http!Request, Http!HttpBounds
<1>2. PICK whole, wire1 : whole = Http!Whole(r) /\ wire1 = Http!Wire(r)
  BY Zenon
<1>3. /\ whole \in Seq(Text) /\ wire1 \in Seq(Text)
      /\ Len(whole) = 3 + IF r.chunked THEN 2 * k + 1 ELSE k
      /\ Len(wire1) \in {Len(whole), Len(whole) + 1}
      /\ \A i \in 1..Len(whole) : wire1[i] = whole[i]
      /\ \A i \in 1..Len(wire1) : i > Len(whole) => wire1[i] = "next"
      /\ ~r.chunked => \A i \in 1..k : whole[3 + i] = "body"
      /\ r.chunked => whole[3 + (2 * k + 1)] = "end"
      /\ r.chunked => \A i \in 1..(2 * k) : whole[3 + i] = IF i % 2 = 1 THEN "size" ELSE "body"
  <2>1. OnWire(r, r.size, whole, wire1)
    BY <1>2, RequestParts, Zenon
  <2> QED
    BY <1>1, <2>1, Zenon DEF OnWire
<1>4. Len(Http!HeadParts) = 3
  BY DEF Http!HeadParts
<1>5. PICK body : body = Http!BodyOf(r)
  BY Zenon
<1>6. body = [i \in 1..k |-> "body"]
  BY <1>1, <1>5, Zenon DEF Http!BodyOf
<1>7. CASE ~r.chunked
  <2>1. text = whole /\ Len(whole) = 3 + k
    BY <1>2, <1>3, <1>7
  <2>2. Http!BodyIn(r, text) = SubSeq(whole, 4, Len(whole))
    <3>1. 3 + 1 = 4
      OBVIOUS
    <3> QED
      BY <1>4, <1>7, <2>1, <3>1, Zenon DEF Http!BodyIn
  <2>3. PICK end : end = SubSeq(whole, 4, Len(whole))
    BY Zenon
  <2>4. end \in Seq(Text) /\ Len(end) = k /\ \A i \in 1..k : end[i] = "body"
    <3>1. /\ end \in Seq(Text)
          /\ Len(end) = IF 4 <= Len(whole) THEN Len(whole) - 4 + 1 ELSE 0
          /\ \A i \in 1..(Len(whole) - 4 + 1) : end[i] = whole[4 + i - 1]
      BY <1>3, <2>3, EndOfSeq
    <3>2. Len(whole) - 4 + 1 = k /\ \A i \in 1..k : 4 + i - 1 = 3 + i
      BY <1>1, <2>1
    <3>3. \A i \in 1..k : end[i] = whole[3 + i]
      BY <3>1, <3>2, Zenon
    <3>4. Len(end) = k
      BY <1>1, <2>1, <3>1
    <3> QED
      BY <1>3, <1>7, <3>1, <3>3, <3>4, Zenon
  <2>5. body \in Seq(Text) /\ Len(body) = k /\ \A i \in 1..k : body[i] = "body"
    BY <1>1, <1>6 DEF Text
  <2>6. end = body
    BY <2>4, <2>5, SeqEqual
  <2> QED
    BY <1>5, <2>2, <2>3, <2>6, Zenon
<1>8. CASE r.chunked
  <2>1. /\ text \in Seq(Text) /\ Len(whole) = 2 * k + 4 /\ Len(text) \in {2 * k + 4, 2 * k + 5}
        /\ DOMAIN text = 1..Len(text)
        /\ \A i \in 1..(2 * k + 4) : text[i] = whole[i]
        /\ Len(text) = 2 * k + 5 => text[2 * k + 5] = "next"
    <3>1. Len(whole) = 2 * k + 4 /\ Len(wire1) \in {2 * k + 4, 2 * k + 5}
      BY <1>1, <1>3, <1>8, SMTT(60)
    <3>2. CASE text = whole
      BY <1>1, <1>3, <3>1, <3>2, SMTT(60)
    <3>3. CASE text = wire1
      <4>1. 2 * k + 5 > Len(whole) /\ (Len(wire1) = 2 * k + 5 => 2 * k + 5 \in 1..Len(wire1))
        BY <1>1, <3>1
      <4>2. Len(wire1) = 2 * k + 5 => wire1[2 * k + 5] = "next"
        BY <1>3, <4>1, Zenon
      <4>3. \A i \in 1..(2 * k + 4) : wire1[i] = whole[i]
        BY <1>3, <3>1, Zenon
      <4> QED
        BY <1>3, <3>1, <3>3, <4>2, <4>3
    <3> QED
      BY <1>2, <3>2, <3>3, Zenon
  <2>2. \A i \in Nat \ {0} : 3 + 2 * i \in DOMAIN text /\ text[3 + 2 * i] = "body" <=> i <= k
    <3> SUFFICES ASSUME NEW i \in Nat \ {0}
                 PROVE  3 + 2 * i \in DOMAIN text /\ text[3 + 2 * i] = "body" <=> i <= k
      OBVIOUS
    <3>1. CASE i <= k
      <4>1. 2 * i \in 1..(2 * k) /\ (2 * i) % 2 # 1 /\ 3 + 2 * i \in 1..(2 * k + 4)
        BY <1>1, <3>1
      <4>2. whole[3 + 2 * i] = "body"
        BY <1>3, <1>8, <4>1
      <4> QED
        BY <1>1, <2>1, <3>1, <4>1, <4>2, SMTT(60)
    <3>2. CASE i > k
      <4>1. 3 + 2 * i >= 2 * k + 5
        BY <1>1, <3>2
      <4>2. ASSUME 3 + 2 * i \in DOMAIN text PROVE text[3 + 2 * i] = "next"
        <5>1. 3 + 2 * i = 2 * k + 5 /\ Len(text) = 2 * k + 5
          <6>1. PICK m : m = Len(text)
            BY Zenon
          <6>2. 3 + 2 * i <= m /\ m \in {2 * k + 4, 2 * k + 5}
            BY <1>1, <2>1, <4>2, <6>1
          <6>3. m = 2 * k + 5 /\ 3 + 2 * i = m
            BY <1>1, <4>1, <6>2
          <6> QED
            BY <6>1, <6>3, Zenon
        <5> QED
          BY <2>1, <5>1
      <4> QED
        BY <1>1, <3>2, <4>2
    <3> QED
      BY <1>1, <3>1, <3>2
  <2>3. {i \in DOMAIN text : 3 + 2 * i \in DOMAIN text /\ text[3 + 2 * i] = "body"} = 1..k
    <3>1. \A i \in DOMAIN text : i \in Nat \ {0}
      BY <1>1, <2>1
    <3>2. \A i \in 1..k : i \in DOMAIN text /\ i \in Nat \ {0} /\ i <= k
      BY <1>1, <2>1
    <3>3. \A i \in Nat \ {0} : i <= k => i \in 1..k
      BY <1>1
    <3> QED
      BY <2>2, <3>1, <3>2, <3>3, Zenon
  <2>4. Http!BodyIn(r, text) = [i \in 1..k |-> "body"]
    BY <1>4, <1>8, <2>3, Zenon DEF Http!BodyIn, Http!Decoded
  <2> QED
    BY <1>5, <1>6, <2>4, Zenon
<1> QED
  BY <1>7, <1>8

\* What a call does is what was asked, with the key and the body that came.
Asks(r, key, body, done) ==
    \/ done.call = "none"
    \/ /\ done.call = r.call /\ done.key \in {"", key}
       /\ done.body = body \/ ~Http!TakesBody(r)

\* One that is refused, with whatever status.
IsRefused(done) == \E status : done = Http!Refused(status)

LEMMA RefusedAsks ==
    ASSUME NEW r, NEW key, NEW body, NEW done, IsRefused(done)
    PROVE  Asks(r, key, body, done)
<1>1. PICK status : done = Http!Refused(status)
  BY Zenon DEF IsRefused
<1>2. done.call = "none"
  BY <1>1 DEF Http!Refused, Http!Did
<1> QED
  BY <1>2, Zenon DEF Asks

LEMMA RegistryAsks ==
    ASSUME NEW r, NEW key, NEW body, r.call \notin {"whip", "whep", "answer"},
           NEW done \in Http!RegistryRoutes(r, key, body)
    PROVE  Asks(r, key, body, done)
<1>1. \/ IsRefused(done)
      \/ r.call = "cleanup" /\ done = Http!Did("200", "cleanup", "", << >>)
      \/ r.call = "publish" /\ done = Http!Did("200", r.call, key, body)
      \/ r.call # "publish" /\ done = Http!Did("200", r.call, key, << >>)
  <2>1. CASE r.call \in {"report", "unknown"}
    BY <2>1 DEF Http!RegistryRoutes, IsRefused
  <2>2. CASE r.call = "cleanup"
    BY <2>2 DEF Http!RegistryRoutes, IsRefused
  <2>3. CASE r.call = "disconnect"
    BY <2>3 DEF Http!RegistryRoutes, IsRefused
  <2>4. CASE r.call \notin {"report", "unknown", "cleanup", "disconnect"}
    <3>1. CASE r.call \in Http!KeyedCalls \ {"disconnect"} /\ key = ""
      BY <2>4, <3>1 DEF Http!RegistryRoutes, IsRefused
    <3>2. CASE r.call = "publish" /\ key # ""
      BY <2>4, <3>2 DEF Http!RegistryRoutes, IsRefused
    <3>3. r.call = "publish" => r.call \in Http!KeyedCalls
      BY DEF Http!KeyedCalls
    <3>4. CASE r.call \notin Http!KeyedCalls \/ (r.call # "publish" /\ key # "")
      BY <2>4, <3>3, <3>4 DEF Http!RegistryRoutes, IsRefused
    <3> QED
      BY <2>4, <3>1, <3>2, <3>3, <3>4
  <2> QED
    BY <2>1, <2>2, <2>3, <2>4
<1>2. CASE IsRefused(done)
  BY <1>2, RefusedAsks, Zenon
<1>3. CASE r.call = "cleanup" /\ done = Http!Did("200", "cleanup", "", << >>)
  BY <1>3 DEF Http!Did, Asks, Http!TakesBody
<1>4. CASE done = Http!Did("200", r.call, key, body)
  BY <1>4 DEF Http!Did, Asks
<1>5. CASE r.call # "publish" /\ done = Http!Did("200", r.call, key, << >>)
  BY <1>5 DEF Http!Did, Asks, Http!TakesBody
<1> QED
  BY <1>1, <1>2, <1>3, <1>4, <1>5

LEMMA NativeAsks ==
    ASSUME NEW r, NEW key, NEW body, NEW done \in Http!NativeRoutes(r, key, body)
    PROVE  Asks(r, key, body, done)
<1>1. \/ IsRefused(done)
      \/ r.call = "answer" /\ done = Http!Did("200", "answer", key, body)
      \/ r.call = "delete" /\ done = Http!Did("200", "delete", key, << >>)
      \/ r.call = "offer" /\ \E s \in {"200", "500"} : done = Http!Did(s, r.call, key, << >>)
      \/ \E s \in {"200", "500"} : done = Http!Did(s, r.call, key, body)
  <2>1. CASE r.call = "patch"
    BY <2>1 DEF Http!NativeRoutes, IsRefused
  <2>2. CASE r.call = "answer"
    BY <2>2 DEF Http!NativeRoutes, IsRefused
  <2>3. CASE r.call = "delete"
    BY <2>3 DEF Http!NativeRoutes, IsRefused
  <2>4. CASE r.call \notin {"patch", "answer", "delete"} /\ r.call \in Http!KeyedCalls /\ key = ""
    BY <2>4 DEF Http!NativeRoutes, IsRefused
  <2>5. CASE r.call \notin {"patch", "answer", "delete"} /\ ~(r.call \in Http!KeyedCalls /\ key = "")
    BY <2>5 DEF Http!NativeRoutes, IsRefused
  <2> QED
    BY <2>1, <2>2, <2>3, <2>4, <2>5
<1>2. CASE IsRefused(done)
  BY <1>2, RefusedAsks, Zenon
<1>3. CASE r.call = "answer" /\ done = Http!Did("200", "answer", key, body)
  BY <1>3 DEF Http!Did, Asks
<1>4. CASE r.call = "delete" /\ done = Http!Did("200", "delete", key, << >>)
  BY <1>4 DEF Http!Did, Asks, Http!TakesBody
<1>5. CASE r.call = "offer" /\ \E s \in {"200", "500"} : done = Http!Did(s, r.call, key, << >>)
  BY <1>5 DEF Http!Did, Asks, Http!TakesBody
<1>6. CASE \E s \in {"200", "500"} : done = Http!Did(s, r.call, key, body)
  BY <1>6 DEF Http!Did, Asks
<1> QED
  BY <1>1, <1>2, <1>3, <1>4, <1>5, <1>6

LEMMA ProxyAsks ==
    ASSUME NEW r, NEW key, NEW body, NEW done \in Http!ProxyRoutes(r, key, body)
    PROVE  Asks(r, key, body, done)
<1>1. \/ IsRefused(done)
      \/ \E s \in {"502", "passed"} : done = Http!Did(s, r.call, key, body)
  <2>1. CASE r.call = "offer"
    BY <2>1 DEF Http!ProxyRoutes, IsRefused
  <2>2. CASE r.call # "offer"
    BY <2>2 DEF Http!ProxyRoutes, IsRefused
  <2> QED
    BY <2>1, <2>2
<1>2. CASE IsRefused(done)
  BY <1>2, RefusedAsks, Zenon
<1>3. CASE \E s \in {"502", "passed"} : done = Http!Did(s, r.call, key, body)
  BY <1>3 DEF Http!Did, Asks
<1> QED
  BY <1>1, <1>2, <1>3

LEMMA RoutesAsk ==
    ASSUME NEW r, NEW key, NEW body, NEW done \in Http!Routes(r, key, body)
    PROVE  Asks(r, key, body, done)
<1>1. CASE r.call \in {"offer", "whip", "whep"} \union Http!SessionCalls
  <2>1. done \in Http!ProxyRoutes(r, key, body) \/ done \in Http!NativeRoutes(r, key, body)
    BY <1>1, Zenon DEF Http!Routes
  <2> QED
    BY <2>1, ProxyAsks, NativeAsks, Zenon
<1>2. CASE r.call \notin {"offer", "whip", "whep"} \union Http!SessionCalls
  <2>1. done \in Http!RegistryRoutes(r, key, body)
    BY <1>2, Zenon DEF Http!Routes
  <2>2. r.call \notin {"whip", "whep", "answer"}
    BY <1>2 DEF Http!SessionCalls
  <2> QED
    BY <2>1, <2>2, RegistryAsks, Zenon
<1> QED
  BY <1>1, <1>2

\* The client closed in the middle of its request.
Cut(c) == hung[c] /\ sent[c] < Len(Http!Whole(asked[c]))

\* The handler has the request, of which nothing that follows is taken for the body.
HasAll(c) ==
    /\ sent[c] >= Len(Http!Whole(asked[c]))
    /\ \/ got[c] = Http!Whole(asked[c])
       \/ asked[c].chunked /\ got[c] = Http!Wire(asked[c])

\* What was done is what was asked.
DoneAsAsked(c) ==
    /\ outcome[c].call = asked[c].call
    /\ outcome[c].key \in {"", IF asked[c].names THEN "key" ELSE ""}
    /\ outcome[c].body = Http!BodyOf(asked[c]) \/ ~Http!TakesBody(asked[c])
    /\ sent[c] >= Len(Http!Whole(asked[c]))

\* While it reads, a handler has less than the request, of what was sent; when it goes on it
\* has the request or the client is gone.
Reads(c) ==
    /\ sent[c] <= Len(Http!Wire(asked[c]))
    /\ handlers[c] = "none" => got[c] = << >> /\ sent[c] = 0
    /\ handlers[c] = "reading" =>
          /\ Len(got[c]) \in Nat /\ Len(got[c]) <= sent[c]
          /\ Len(got[c]) < Len(Http!Whole(asked[c]))
    /\ handlers[c] = "ready" => Cut(c) \/ HasAll(c)
    /\ handlers[c] \in {"none", "reading", "ready"} => outcome[c].call = "none"
    /\ outcome[c].call # "none" => Cut(c) \/ DoneAsAsked(c)

ReadsInv ==
    /\ sent \in [Conn -> Nat] /\ hung \in [Conn -> BOOLEAN] /\ DOMAIN outcome = Conn
    /\ \A c \in Conn : Reads(c)

LEMMA RequestLengths ==
    ASSUME NEW r \in Http!Request
    PROVE  /\ Len(Http!Whole(r)) \in Nat /\ Len(Http!Wire(r)) \in Nat
           /\ 3 <= Len(Http!Whole(r)) /\ Len(Http!Whole(r)) <= Len(Http!Wire(r))
<1>1. PICK whole, wire1, k : whole = Http!Whole(r) /\ wire1 = Http!Wire(r) /\ k = r.size
  BY Zenon
<1>2. OnWire(r, k, whole, wire1)
  BY <1>1, RequestParts, Zenon
<1>3. /\ Len(whole) \in Nat /\ Len(wire1) \in Nat
      /\ 3 <= Len(whole) /\ Len(whole) <= Len(wire1)
  <2>1. /\ whole \in Seq(Text) /\ wire1 \in Seq(Text) /\ k \in Nat
        /\ Len(whole) = 3 + IF r.chunked THEN 2 * k + 1 ELSE k
        /\ Len(wire1) \in {Len(whole), Len(whole) + 1}
    BY <1>2, Zenon DEF OnWire
  <2>2. Len(whole) \in Nat /\ 3 <= Len(whole)
    BY <2>1
  <2> QED
    BY <2>1, <2>2
<1> QED
  BY <1>1, <1>3, Zenon

LEMMA ReadsInit ==
    ASSUME Http!Init
    PROVE  ReadsInv
<1>1. Http!NoRequest \in Http!Request
  BY HttpAssumption DEF Http!NoRequest, Http!Request, Http!HttpBounds, Http!OtherCalls
<1>2. /\ asked = [c \in Conn |-> Http!NoRequest] /\ sent = [c \in Conn |-> 0]
      /\ hung = [c \in Conn |-> FALSE] /\ handlers = [c \in Conn |-> "none"]
      /\ got = [c \in Conn |-> << >>] /\ outcome = [c \in Conn |-> Http!Nothing]
  BY Zenon DEF Http!Init
<1>3. Http!Nothing.call = "none"
  BY DEF Http!Nothing, Http!Refused, Http!Did
<1>4. ASSUME NEW c \in Conn PROVE Reads(c)
  <2>1. sent[c] <= Len(Http!Wire(asked[c]))
    BY <1>1, <1>2, RequestLengths
  <2> QED
    BY <1>2, <1>3, <2>1 DEF Reads
<1> QED
  BY <1>2, <1>4 DEF ReadsInv

\* A connection that a step does not touch.
LEMMA ReadsUntouched ==
    ASSUME NEW c \in Conn, Reads(c), asked'[c] = asked[c], sent'[c] = sent[c],
           hung'[c] = hung[c], handlers'[c] = handlers[c], got'[c] = got[c],
           outcome'[c] = outcome[c]
    PROVE  Reads(c)'
  BY Zenon DEF Reads, Cut, HasAll, DoneAsAsked

LEMMA ReadsByAccept ==
    ASSUME HttpInv, ReadsInv, NEW c \in Conn, NEW r \in AskedRequests, Http!Accept(c, r)
    PROVE  ReadsInv'
<1>1. /\ handlers[c] = "none" /\ asked' = [asked EXCEPT ![c] = r]
      /\ handlers' = [handlers EXCEPT ![c] = "reading"]
      /\ sent' = sent /\ hung' = hung /\ got' = got /\ outcome' = outcome
  BY DEF Http!Accept
<1>2. r \in Http!Request
  BY HttpAssumption DEF Http!HttpBounds
<1>3. Reads(c)'
  <2>1. asked'[c] = r /\ handlers'[c] = "reading"
    BY <1>1 DEF HttpInv
  <2>2. got'[c] = << >> /\ sent'[c] = 0 /\ outcome'[c].call = "none"
    BY <1>1, Zenon DEF ReadsInv, Reads
  <2>3. Len(got'[c]) = 0 /\ Len(Http!Whole(r)) \in Nat \ {0} /\ Len(Http!Wire(r)) \in Nat
    BY <1>2, <2>2, RequestLengths
  <2> QED
    BY <2>1, <2>2, <2>3 DEF Reads
<1>4. ASSUME NEW d \in Conn, d # c PROVE Reads(d)'
  <2>1. /\ asked'[d] = asked[d] /\ sent'[d] = sent[d] /\ hung'[d] = hung[d]
        /\ handlers'[d] = handlers[d] /\ got'[d] = got[d] /\ outcome'[d] = outcome[d]
    BY <1>1, <1>4 DEF HttpInv
  <2> QED
    BY <2>1, ReadsUntouched, Zenon DEF ReadsInv
<1> QED
  BY <1>1, <1>3, <1>4, Zenon DEF ReadsInv

LEMMA ReadsByClient ==
    ASSUME HttpInv, ReadsInv, NEW c \in Conn, Http!ClientSend(c) \/ Http!ClientGivesUp(c)
    PROVE  ReadsInv'
<1>1. /\ asked' = asked /\ handlers' = handlers /\ got' = got /\ outcome' = outcome
      /\ handlers[c] \in {"reading", "ready"} /\ ~hung[c]
      /\ \/ /\ hung' = hung /\ sent' = sent
         \/ /\ hung' = hung /\ sent' = [sent EXCEPT ![c] = @ + 1]
            /\ sent[c] < Len(Http!Wire(asked[c]))
         \/ /\ hung' = [hung EXCEPT ![c] = TRUE] /\ sent' = sent /\ handlers[c] = "reading"
  BY DEF Http!ClientSend, Http!ClientGivesUp, Http!handlerVars
<1>2. asked[c] \in Http!Request /\ sent[c] \in Nat /\ Reads(c)
  BY DEF HttpInv, ReadsInv
<1>3. Len(Http!Whole(asked[c])) \in Nat /\ Len(Http!Wire(asked[c])) \in Nat
  BY <1>2, RequestLengths
<1>4. Reads(c)'
  <2>1. \/ sent'[c] = sent[c] /\ (handlers[c] = "ready" => hung'[c] = hung[c])
        \/ sent'[c] = sent[c] + 1 /\ sent[c] < Len(Http!Wire(asked[c])) /\ hung'[c] = hung[c]
    BY <1>1, <1>2 DEF ReadsInv
  <2>2. sent'[c] \in Nat /\ sent'[c] >= sent[c] /\ sent'[c] <= Len(Http!Wire(asked[c]))
    BY <1>2, <1>3, <2>1 DEF Reads
  <2>3. handlers[c] = "reading" =>
           /\ Len(got[c]) \in Nat /\ Len(got[c]) <= sent'[c]
           /\ Len(got[c]) < Len(Http!Whole(asked[c]))
    BY <1>2, <2>2 DEF Reads
  <2>4. handlers[c] = "ready" => HasAll(c)'
    <3> HAVE handlers[c] = "ready"
    <3>1. HasAll(c)
      BY <1>1, <1>2 DEF Reads, Cut
    <3>2. sent'[c] >= Len(Http!Whole(asked[c]))
      BY <1>2, <1>3, <2>2, <3>1 DEF HasAll
    <3> QED
      BY <1>1, <3>1, <3>2, Zenon DEF HasAll
  <2>5. outcome[c].call = "none" /\ handlers[c] # "none"
    BY <1>1, <1>2 DEF Reads
  <2> QED
    BY <1>1, <2>2, <2>3, <2>4, <2>5, Zenon DEF Reads
<1>5. ASSUME NEW d \in Conn, d # c PROVE Reads(d)'
  <2>1. sent'[d] = sent[d] /\ hung'[d] = hung[d]
    BY <1>1, <1>5 DEF ReadsInv
  <2> QED
    BY <1>1, <2>1, ReadsUntouched, Zenon DEF ReadsInv
<1>6. sent' \in [Conn -> Nat] /\ hung' \in [Conn -> BOOLEAN] /\ DOMAIN outcome' = Conn
  <2>1. sent \in [Conn -> Nat] /\ hung \in [Conn -> BOOLEAN] /\ DOMAIN outcome = Conn
    BY Zenon DEF ReadsInv
  <2>2. sent' = sent \/ sent' = [sent EXCEPT ![c] = @ + 1]
    BY <1>1, Zenon
  <2>3. hung' = hung \/ hung' = [hung EXCEPT ![c] = TRUE]
    BY <1>1, Zenon
  <2>4. sent' \in [Conn -> Nat]
    BY <2>1, <2>2
  <2>5. hung' \in [Conn -> BOOLEAN]
    BY <2>1, <2>3
  <2> QED
    BY <1>1, <2>1, <2>4, <2>5, Zenon
<1> QED
  BY <1>4, <1>5, <1>6, Zenon DEF ReadsInv

LEMMA ReadsByReceive ==
    ASSUME HttpInv, ReadsInv, NEW c \in Conn, NEW n \in 1..Len(Http!Wire(asked[c])),
           Http!Receive(c, n)
    PROVE  ReadsInv'
<1>1. PICK r, k, text, whole :
         /\ r = asked[c] /\ k = Len(got[c]) + n
         /\ text = SubSeq(Http!Wire(r), 1, k) /\ whole = Http!Complete(r, text)
  BY Zenon
<1>2. /\ handlers[c] = "reading" /\ k <= sent[c]
      /\ asked' = asked /\ sent' = sent /\ hung' = hung /\ outcome' = outcome
      /\ got' = [got EXCEPT ![c] = IF whole THEN Http!Kept(r, text) ELSE text]
      /\ \/ handlers' = [handlers EXCEPT ![c] = IF whole THEN "ready" ELSE "reading"]
         \/ handlers' = [handlers EXCEPT ![c] = "closed"]
  BY <1>1, Zenon DEF Http!Receive, Http!clientVars
<1>3. r \in Http!Request /\ sent[c] \in Nat /\ Reads(c) /\ Len(Http!Wire(r)) \in Nat
      /\ Len(Http!Whole(r)) \in Nat
  BY <1>1, RequestLengths DEF HttpInv, ReadsInv
<1>4. k \in Nat /\ k \in 0..Len(Http!Wire(r))
  <2>1. Len(got[c]) \in Nat /\ n \in Nat /\ sent[c] <= Len(Http!Wire(r))
    BY <1>1, <1>2, <1>3 DEF Reads
  <2> QED
    BY <1>1, <1>2, <1>3, <2>1
<1>5. /\ whole <=> k >= Len(Http!Whole(r))
      /\ whole => \/ Http!Kept(r, text) = Http!Whole(r)
                  \/ r.chunked /\ Http!Kept(r, text) = Http!Wire(r)
  <2>1. Recognised(r, k, text)
    BY <1>1, <1>3, <1>4, CompleteWhen, Zenon
  <2> QED
    BY <1>1, <2>1, Zenon DEF Recognised
<1>6. Reads(c)'
  <2>1. /\ got'[c] = IF whole THEN Http!Kept(r, text) ELSE text
        /\ handlers'[c] \in {IF whole THEN "ready" ELSE "reading", "closed"}
    BY <1>2 DEF HttpInv
  <2>2. outcome'[c].call = "none"
    BY <1>2, <1>3 DEF Reads
  <2>3. ~whole => /\ Len(got'[c]) \in Nat /\ Len(got'[c]) <= sent[c]
                  /\ Len(got'[c]) < Len(Http!Whole(r))
    <3> HAVE ~whole
    <3>1. got'[c] = text /\ k < Len(Http!Whole(r))
      BY <1>3, <1>4, <1>5, <2>1
    <3>2. Len(text) = k
      <4>1. PICK wire1 : wire1 = Http!Wire(r)
        BY Zenon
      <4>2. wire1 \in Seq(Text)
        <5>1. OnWire(r, r.size, Http!Whole(r), wire1)
          BY <1>3, <4>1, RequestParts, Zenon
        <5> QED
          BY <5>1, Zenon DEF OnWire
      <4> QED
        BY <1>1, <1>4, <4>1, <4>2
    <3> QED
      BY <1>2, <1>4, <3>1, <3>2
  <2>4. whole => HasAll(c)'
    <3> HAVE whole
    <3>1. sent[c] >= Len(Http!Whole(r))
      BY <1>2, <1>3, <1>4, <1>5
    <3> QED
      BY <1>1, <1>2, <1>5, <2>1, <3>1, Zenon DEF HasAll
  <2>5. sent[c] <= Len(Http!Wire(r))
    BY <1>1, <1>3 DEF Reads
  <2>6. \/ handlers'[c] = "ready" /\ whole
        \/ handlers'[c] = "reading" /\ ~whole
        \/ handlers'[c] = "closed"
    BY <2>1
  <2> QED
    BY <1>1, <1>2, <2>2, <2>3, <2>4, <2>5, <2>6 DEF Reads
<1>7. ASSUME NEW d \in Conn, d # c PROVE Reads(d)'
  <2>1. handlers'[d] = handlers[d] /\ got'[d] = got[d]
    BY <1>2, <1>7 DEF HttpInv
  <2> QED
    BY <1>2, <2>1, ReadsUntouched, Zenon DEF ReadsInv
<1> QED
  BY <1>2, <1>6, <1>7, Zenon DEF ReadsInv

LEMMA ReadsByEnd ==
    ASSUME HttpInv, ReadsInv, NEW c \in Conn, Http!ReceiveEnd(c)
    PROVE  ReadsInv'
<1>1. /\ handlers[c] = "reading" /\ hung[c] /\ Len(got[c]) = sent[c]
      /\ asked' = asked /\ sent' = sent /\ hung' = hung /\ got' = got /\ outcome' = outcome
      /\ \E place \in {"closed", "ready"} : handlers' = [handlers EXCEPT ![c] = place]
  BY Zenon DEF Http!ReceiveEnd, Http!clientVars
<1>2. Reads(c) /\ Cut(c) /\ outcome[c].call = "none"
  BY <1>1 DEF ReadsInv, Reads, Cut
<1>3. Reads(c)'
  <2>1. Cut(c)' /\ handlers'[c] \in {"closed", "ready"}
    BY <1>1, <1>2 DEF Cut, HttpInv
  <2>2. (sent[c] <= Len(Http!Wire(asked[c])))'
    BY <1>1, <1>2 DEF Reads
  <2> QED
    BY <1>1, <1>2, <2>1, <2>2 DEF Reads
<1>4. ASSUME NEW d \in Conn, d # c PROVE Reads(d)'
  <2>1. handlers'[d] = handlers[d]
    BY <1>1, <1>4 DEF HttpInv
  <2> QED
    BY <1>1, <2>1, ReadsUntouched, Zenon DEF ReadsInv
<1> QED
  BY <1>1, <1>3, <1>4, Zenon DEF ReadsInv

\* What handle_request and handle_flv_request do.
Handled(r, key, body, done) ==
    \/ IsRefused(done)
    \/ r.call = "flv" /\ done = Http!Did("200", "flv", key, << >>)
    \/ done \in Http!Routes(r, key, body)

LEMMA ReadsByHandle ==
    ASSUME HttpInv, ReadsInv, NEW c \in Conn, Http!Handle(c)
    PROVE  ReadsInv'
<1>1. PICK r, key, body : /\ r = asked[c] /\ key = Http!KeyIn(r, got[c])
                          /\ body = Http!BodyIn(r, got[c])
  BY Zenon
<1>2. /\ handlers[c] = "ready"
      /\ asked' = asked /\ sent' = sent /\ hung' = hung /\ got' = got
  BY Zenon DEF Http!Handle, Http!clientVars
<1>3. /\ \E place \in {"closed", "playing"} : handlers' = [handlers EXCEPT ![c] = place]
      /\ \E done : outcome' = [outcome EXCEPT ![c] = done] /\ Handled(r, key, body, done)
  <2>1. CASE r.call = "flv" /\ Len(got[c]) >= 2
    <3>1. /\ handlers' = [handlers EXCEPT ![c] = IF key = "" THEN "closed" ELSE "playing"]
          /\ outcome' = [outcome EXCEPT ![c] = IF key = "" THEN Http!Refused("400")
                                               ELSE Http!Did("200", "flv", key, << >>)]
      BY <1>1, <2>1, Zenon DEF Http!Handle
    <3>2. Handled(r, key, body, IF key = "" THEN Http!Refused("400")
                                ELSE Http!Did("200", "flv", key, << >>))
      BY <2>1, Zenon DEF Handled, IsRefused
    <3> QED
      BY <3>1, <3>2, Zenon
  <2>2. CASE ~(r.call = "flv" /\ Len(got[c]) >= 2)
    <3>1. /\ handlers' = [handlers EXCEPT ![c] = "closed"]
          /\ \E done \in IF r.call = "flv" THEN {Http!Refused("404")}
                         ELSE Http!Routes(r, key, body) :
                outcome' = [outcome EXCEPT ![c] = done]
      BY <1>1, <2>2, Zenon DEF Http!Handle
    <3>2. \A done : done \in (IF r.call = "flv" THEN {Http!Refused("404")}
                              ELSE Http!Routes(r, key, body)) => Handled(r, key, body, done)
      BY Zenon DEF Handled, IsRefused
    <3> QED
      BY <3>1, <3>2, Zenon
  <2> QED
    BY <2>1, <2>2, Zenon
<1> PICK place \in {"closed", "playing"} : handlers' = [handlers EXCEPT ![c] = place]
  BY <1>3, Zenon
<1> PICK done : outcome' = [outcome EXCEPT ![c] = done] /\ Handled(r, key, body, done)
  BY <1>3, Zenon
<1>4. Asks(r, key, body, done)
  <2>1. CASE IsRefused(done)
    BY <2>1, RefusedAsks, Zenon
  <2>2. CASE r.call = "flv" /\ done = Http!Did("200", "flv", key, << >>)
    BY <2>2 DEF Http!Did, Asks, Http!TakesBody
  <2>3. CASE done \in Http!Routes(r, key, body)
    BY <2>3, RoutesAsk, Zenon
  <2> QED
    BY <2>1, <2>2, <2>3, Zenon DEF Handled
<1>5. r \in Http!Request /\ Reads(c) /\ sent[c] \in Nat
  BY <1>1 DEF HttpInv, ReadsInv
<1>6. outcome'[c] = done /\ handlers'[c] = place
  BY DEF HttpInv, ReadsInv
<1>7. sent'[c] <= Len(Http!Wire(asked'[c]))
  BY <1>2, <1>5, Zenon DEF Reads
<1>8. (Cut(c) \/ DoneAsAsked(c) \/ outcome[c].call = "none")'
  <2>1. CASE Cut(c)
    BY <1>2, <2>1, Zenon DEF Cut
  <2>2. CASE HasAll(c)
    <3>1. key = IF r.names THEN "key" ELSE ""
      <4>1. Len(got[c]) >= 3
        <5>1. got[c] \in {Http!Whole(r), Http!Wire(r)}
          BY <1>1, <2>2, Zenon DEF HasAll
        <5> QED
          BY <1>5, <5>1, RequestLengths
      <4>2. Len(got[c]) \in Nat
        <5>1. got[c] \in {Http!Whole(r), Http!Wire(r)}
          BY <1>1, <2>2, Zenon DEF HasAll
        <5> QED
          BY <1>5, <5>1, RequestLengths
      <4>3. Len(got[c]) >= 2
        BY <4>1, <4>2
      <4> QED
        BY <1>1, <4>3, Zenon DEF Http!KeyIn
    <3>2. body = Http!BodyOf(r)
      <4>1. got[c] = Http!Whole(r) \/ (r.chunked /\ got[c] = Http!Wire(r))
        BY <1>1, <2>2, Zenon DEF HasAll
      <4> QED
        BY <1>1, <1>5, <4>1, BodyAsSent, Zenon
    <3>3. sent[c] >= Len(Http!Whole(r))
      BY <1>1, <2>2, Zenon DEF HasAll
    <3>4. CASE done.call = "none"
      BY <1>6, <3>4, Zenon
    <3>5. CASE done.call # "none"
      <4>1. /\ done.call = r.call /\ done.key \in {"", key}
            /\ done.body = body \/ ~Http!TakesBody(r)
        BY <1>4, <3>5, Zenon DEF Asks
      <4>2. asked'[c] = r /\ sent'[c] = sent[c] /\ outcome'[c] = done
        BY <1>1, <1>2, <1>6, Zenon
      <4>3. /\ outcome'[c].call = asked'[c].call
            /\ outcome'[c].body = Http!BodyOf(asked'[c]) \/ ~Http!TakesBody(asked'[c])
            /\ sent'[c] >= Len(Http!Whole(asked'[c]))
        BY <3>2, <3>3, <4>1, <4>2, Zenon
      <4>4. outcome'[c].key \in {"", IF asked'[c].names THEN "key" ELSE ""}
        BY <3>1, <4>1, <4>2
      <4> QED
        BY <4>3, <4>4, Zenon DEF DoneAsAsked
    <3> QED
      BY <3>4, <3>5, Zenon
  <2> QED
    BY <1>2, <1>5, <2>1, <2>2, Zenon DEF Reads
<1>9. Reads(c)'
  <2>1. handlers'[c] \notin {"none", "reading", "ready"}
    BY <1>6
  <2> QED
    BY <1>7, <1>8, <2>1 DEF Reads
<1>10. ASSUME NEW d \in Conn, d # c PROVE Reads(d)'
  <2>1. handlers'[d] = handlers[d] /\ outcome'[d] = outcome[d]
    BY <1>10 DEF HttpInv, ReadsInv
  <2> QED
    BY <1>2, <2>1, ReadsUntouched, Zenon DEF ReadsInv
<1>11. DOMAIN outcome' = Conn
  BY DEF ReadsInv
<1> QED
  BY <1>2, <1>9, <1>10, <1>11, Zenon DEF ReadsInv

LEMMA ReadsKeeps ==
    ASSUME HttpInv, ReadsInv, Http!Next \/ UNCHANGED httpVs
    PROVE  ReadsInv'
<1>1. CASE Http!StartServer \/ Http!StopServer \/ UNCHANGED httpVs
  <2>1. UNCHANGED << asked, sent, hung, handlers, got, outcome >>
    BY <1>1 DEF Http!StartServer, Http!StopServer, Http!clientVars, Http!handlerVars, httpVs
  <2> QED
    BY <2>1, ReadsUntouched DEF ReadsInv
<1>2. ASSUME NEW c \in Conn, NEW r \in AskedRequests, Http!Accept(c, r) PROVE ReadsInv'
  BY <1>2, ReadsByAccept, Zenon
<1>3. ASSUME NEW c \in Conn, Http!ClientSend(c) \/ Http!ClientGivesUp(c) PROVE ReadsInv'
  BY <1>3, ReadsByClient, Zenon
<1>4. ASSUME NEW c \in Conn, NEW n \in 1..Len(Http!Wire(asked[c])), Http!Receive(c, n)
      PROVE  ReadsInv'
  BY <1>4, ReadsByReceive, Zenon
<1>5. ASSUME NEW c \in Conn, Http!ReceiveEnd(c) PROVE ReadsInv'
  BY <1>5, ReadsByEnd, Zenon
<1>6. ASSUME NEW c \in Conn, Http!Handle(c) PROVE ReadsInv'
  BY <1>6, ReadsByHandle, Zenon
<1> QED
  BY <1>1, <1>2, <1>3, <1>4, <1>5, <1>6, Zenon DEF Http!Next

\* What a handler does is what its client asked, with the whole body of the request and
\* nothing of what follows, unless the client closes in the middle of its request
\* (http_server.cpp, handle_client).
THEOREM DoesWhatIsAskedHolds ==
    Spec => []DoesWhatIsAsked
<1> DEFINE Inv == part = "http" => HttpInv /\ ReadsInv
<1>1. Init => Inv
  BY InitOfPart, HttpInit, ReadsInit
<1>2. Inv /\ [Next]_allVars => Inv'
  <2> SUFFICES ASSUME part = "http", HttpInv, ReadsInv, [Next]_allVars
               PROVE  HttpInv' /\ ReadsInv'
    BY StepOfPart
  <2>1. HttpInv'
    <3>1. CASE UNCHANGED httpVs
      BY <3>1 DEF httpVs, HttpInv
    <3> QED
      BY <3>1, HttpKeeps, StepOfPart
  <2>2. ReadsInv'
    BY ReadsKeeps, StepOfPart
  <2> QED
    BY <2>1, <2>2
<1>3. Inv => DoesWhatIsAsked
  BY Zenon DEF ReadsInv, Reads, Cut, DoneAsAsked, DoesWhatIsAsked, Http!DoesWhatIsAsked
<1> QED
  BY <1>1, <1>2, <1>3, PTL DEF Spec, allVars

-----------------------------------------------------------------------------
(* The RTMP chunk stream *)

StreamState == [ready : BOOLEAN, ts : 0..(Clock - 1), delta : 0..(Clock - 1),
                isDelta : BOOLEAN, ext : BOOLEAN, length : Nat,
                sets : {0} \cup Sizes, left : Nat]

\* The reader's state r of a stream is the writer's state w, but for a delta that no header
\* has said and, when the stream is behind, for the time.
Agree(w, r, late) ==
    /\ r.ready = w.ready /\ r.isDelta = w.isDelta /\ r.ext = w.ext
    /\ r.length = w.length /\ r.sets = w.sets /\ r.left = w.left
    /\ w.isDelta => r.delta = w.delta
    /\ late \/ r.ts = w.ts

AllAgree(read) == \A c \in Stream : Agree(writer[c], read[c], behind[c])

\* The message read is the one that was due.
Same(read, due, late) ==
    /\ read.stream = due.stream /\ read.length = due.length /\ read.sets = due.sets
    /\ late \/ read.ts = due.ts

\* What the reader will make of a chunk's stream.
HeaderRead(chunk) == Chunks!Header(states[chunk.stream], chunk)

PartRead(chunk) == Chunks!Least(HeaderRead(chunk).left, readSize)

StateRead(chunk) == [HeaderRead(chunk) EXCEPT !.left = HeaderRead(chunk).left - PartRead(chunk)]

MessageRead(chunk) == Chunks!MessageOf(chunk.stream, StateRead(chunk))

\* The chunk on its way is all that the writer is ahead of the reader.
OnItsWay(chunk) ==
    /\ chunk.stream \in Stream /\ StateRead(chunk) \in StreamState
    /\ AllAgree([states EXCEPT ![chunk.stream] = StateRead(chunk)])
    /\ HeaderRead(chunk).ext = (chunk.ext # << >>)
    /\ PartRead(chunk) = chunk.part
    /\ chunk.fmt = 3 => states[chunk.stream].ready
    /\ StateRead(chunk).left = 0 => Same(MessageRead(chunk), completed, behind[chunk.stream])
    /\ writeSize = IF StateRead(chunk).left = 0 /\ StateRead(chunk).sets # 0
                   THEN StateRead(chunk).sets ELSE readSize

ChunksInv ==
    /\ writer \in [Stream -> StreamState] /\ states \in [Stream -> StreamState]
    /\ behind \in [Stream -> BOOLEAN] /\ writeSize \in Sizes
    /\ \A c \in Stream : writer[c].left > 0 => writer[c].ready
    /\ ~garbled /\ Same(received[1], received[2], received[3])
    /\ chunks = << >> => AllAgree(states) /\ readSize = writeSize
    /\ chunks # << >> => \E chunk : chunks = << chunk >> /\ OnItsWay(chunk)

LEMMA DefaultSizeType ==
    Chunks!DefaultSize \in Sizes
<1>1. \E s \in Sizes : \A r \in Sizes : s <= r
  <2>1. Sizes \subseteq Nat /\ Sizes # {}
    BY ChunksAssumption DEF Chunks!ChunkBounds
  <2> QED
    BY <2>1, Least
<1> QED
  BY <1>1 DEF Chunks!DefaultSize

\* A time and the delta that leads from it to another, on the clock.
LEMMA DeltaLeadsBack ==
    ASSUME NEW m \in Nat \ {0}, NEW a \in 0..(m - 1), NEW b \in 0..(m - 1)
    PROVE  (b - a) % m \in 0..(m - 1) /\ (a + ((b - a) % m)) % m = b
<1>1. CASE a <= b
  <2>1. (b - a) % m = b - a
    BY <1>1
  <2>2. a + (b - a) = b /\ b % m = b
    OBVIOUS
  <2> QED
    BY <2>1, <2>2
<1>2. CASE b < a
  <2>1. (b - a) % m = b - a + m
    BY <1>2
  <2>2. (b + m) % m = b
    OBVIOUS
  <2>3. a + (b - a + m) = b + m /\ b - a + m \in 0..(m - 1)
    BY <1>2
  <2> QED
    BY <2>1, <2>2, <2>3
<1> QED
  BY <1>1, <1>2

LEMMA ClockBounds ==
    Clock \in Nat \ {0} /\ Escape \in Nat
  BY ChunksAssumption DEF Chunks!ChunkBounds

\* A stream's state by its fields.
FieldsOf(ready, ts, delta, isDelta, ext, length, sets, left) ==
    [ready |-> ready, ts |-> ts, delta |-> delta, isDelta |-> isDelta, ext |-> ext,
     length |-> length, sets |-> sets, left |-> left]

LEMMA FieldsOfState ==
    ASSUME NEW s \in StreamState, NEW extended
    PROVE  [s EXCEPT !.ext = extended]
             = FieldsOf(s.ready, s.ts, s.delta, s.isDelta, extended, s.length, s.sets, s.left)
  BY DEF StreamState, FieldsOf

LEMMA ReadyIsTrue ==
    ASSUME NEW s \in StreamState, s.ready
    PROVE  s.ready = TRUE
  BY DEF StreamState

\* What a header says, field by field: whether the field is extended, its value, whether the
\* time moves on, and the delta and the time that result.
IsExtended(s, chunk) == IF chunk.fmt = 3 THEN s.ext ELSE chunk.field = Escape
ValueOf(extended, chunk) ==
    IF extended /\ chunk.ext # << >> THEN chunk.ext[1] ELSE chunk.field
Moves(s, chunk) == IF chunk.fmt = 3 THEN s.left = 0 /\ s.isDelta ELSE chunk.fmt # 0
DeltaOf(s, chunk, extended) ==
    CASE chunk.fmt = 0 -> 0
      [] chunk.fmt \in {1, 2} -> ValueOf(extended, chunk)
      [] chunk.fmt = 3 -> IF Moves(s, chunk) /\ extended THEN ValueOf(extended, chunk)
                          ELSE s.delta
TimeOf(s, chunk, extended) ==
    IF chunk.fmt = 0 THEN ValueOf(extended, chunk)
    ELSE IF Moves(s, chunk) THEN (s.ts + DeltaOf(s, chunk, extended)) % Clock ELSE s.ts
IsDeltaOf(s, chunk) == IF chunk.fmt = 3 THEN s.isDelta ELSE chunk.fmt # 0
LengthOf(s, chunk) == IF chunk.fmt <= 1 THEN chunk.length ELSE s.length
SetsOf(s, chunk) == IF chunk.fmt <= 1 THEN chunk.sets ELSE s.sets
LeftOf(s, chunk) ==
    IF chunk.fmt # 3 \/ s.left = 0 THEN LengthOf(s, chunk) ELSE s.left

LEMMA HeaderFields ==
    ASSUME NEW s, NEW chunk, NEW extended, extended = IsExtended(s, chunk)
    PROVE  Chunks!Header(s, chunk)
             = FieldsOf(TRUE, TimeOf(s, chunk, extended), DeltaOf(s, chunk, extended),
                        IsDeltaOf(s, chunk), extended, LengthOf(s, chunk),
                        SetsOf(s, chunk), LeftOf(s, chunk))
<1>1. Chunks!Header(s, chunk)
        = FieldsOf(TRUE, TimeOf(s, chunk, IsExtended(s, chunk)),
                   DeltaOf(s, chunk, IsExtended(s, chunk)), IsDeltaOf(s, chunk),
                   IsExtended(s, chunk), LengthOf(s, chunk), SetsOf(s, chunk), LeftOf(s, chunk))
  BY Zenon DEF Chunks!Header, FieldsOf, TimeOf, DeltaOf, IsDeltaOf, LengthOf, SetsOf, LeftOf, Moves,
         ValueOf, IsExtended
<1> QED
  BY <1>1, Zenon

\* What a header of each format makes of a stream's state.
LEMMA HeaderSaysAll ==
    ASSUME NEW s, NEW chunk, NEW extended, extended = IsExtended(s, chunk), chunk.fmt = 0
    PROVE  Chunks!Header(s, chunk)
             = FieldsOf(TRUE, ValueOf(extended, chunk), 0, FALSE, extended,
                        chunk.length, chunk.sets, chunk.length)
<1>1. /\ TimeOf(s, chunk, extended) = ValueOf(extended, chunk)
      /\ DeltaOf(s, chunk, extended) = 0
      /\ LengthOf(s, chunk) = chunk.length /\ SetsOf(s, chunk) = chunk.sets
      /\ LeftOf(s, chunk) = chunk.length
  BY DEF TimeOf, DeltaOf, LengthOf, SetsOf, LeftOf
<1>2. IsDeltaOf(s, chunk) = FALSE
  <2>1. chunk.fmt # 3
    OBVIOUS
  <2>2. (chunk.fmt # 0) = FALSE
    BY Zenon
  <2> QED
    BY <2>1, <2>2, Zenon DEF IsDeltaOf
<1> QED
  BY <1>1, <1>2, HeaderFields, Zenon

LEMMA HeaderSaysDelta ==
    ASSUME NEW s, NEW chunk, NEW extended, extended = IsExtended(s, chunk), chunk.fmt \in {1, 2}
    PROVE  Chunks!Header(s, chunk)
             = FieldsOf(TRUE, (s.ts + ValueOf(extended, chunk)) % Clock,
                        ValueOf(extended, chunk), TRUE, extended,
                        LengthOf(s, chunk), SetsOf(s, chunk), LengthOf(s, chunk))
<1>1. chunk.fmt # 0 /\ chunk.fmt # 3
  OBVIOUS
<1>2. Moves(s, chunk) /\ IsDeltaOf(s, chunk) = TRUE /\ LeftOf(s, chunk) = LengthOf(s, chunk)
  BY <1>1, Zenon DEF Moves, IsDeltaOf, LeftOf
<1>3. DeltaOf(s, chunk, extended) = ValueOf(extended, chunk)
  BY <1>1 DEF DeltaOf
<1>4. TimeOf(s, chunk, extended) = (s.ts + ValueOf(extended, chunk)) % Clock
  BY <1>1, <1>2, <1>3, Zenon DEF TimeOf
<1> QED
  BY <1>2, <1>3, <1>4, HeaderFields, Zenon

LEMMA HeaderSaysNothing ==
    ASSUME NEW s, NEW chunk, NEW extended, extended = s.ext, chunk.fmt = 3
    PROVE  /\ s.left # 0
                => Chunks!Header(s, chunk) = FieldsOf(TRUE, s.ts, s.delta, s.isDelta, extended,
                       s.length, s.sets, s.left)
           /\ s.left = 0 /\ ~s.isDelta
                => Chunks!Header(s, chunk) = FieldsOf(TRUE, s.ts, s.delta, s.isDelta, extended,
                       s.length, s.sets, s.length)
           /\ s.left = 0 /\ s.isDelta /\ (extended => ValueOf(extended, chunk) = s.delta)
                => Chunks!Header(s, chunk) = FieldsOf(TRUE, (s.ts + s.delta) % Clock, s.delta,
                       s.isDelta, extended, s.length, s.sets, s.length)
<1>1. /\ LengthOf(s, chunk) = s.length /\ SetsOf(s, chunk) = s.sets
      /\ LeftOf(s, chunk) = IF s.left = 0 THEN s.length ELSE s.left
      /\ chunk.fmt # 0
  BY DEF LengthOf, SetsOf, LeftOf
<1>2. IsDeltaOf(s, chunk) = s.isDelta /\ extended = IsExtended(s, chunk)
  BY Zenon DEF IsDeltaOf, IsExtended
<1>3. Moves(s, chunk) <=> s.left = 0 /\ s.isDelta
  BY DEF Moves
<1>4. DeltaOf(s, chunk, extended)
        = IF Moves(s, chunk) /\ extended THEN ValueOf(extended, chunk) ELSE s.delta
  BY DEF DeltaOf
<1>5. TimeOf(s, chunk, extended)
        = IF Moves(s, chunk) THEN (s.ts + DeltaOf(s, chunk, extended)) % Clock ELSE s.ts
  BY <1>1, Zenon DEF TimeOf
<1>6. Chunks!Header(s, chunk)
        = FieldsOf(TRUE, TimeOf(s, chunk, extended), DeltaOf(s, chunk, extended), s.isDelta,
                   extended, s.length, s.sets, LeftOf(s, chunk))
  BY <1>1, <1>2, HeaderFields, Zenon
<1>7. ASSUME s.left # 0
      PROVE  Chunks!Header(s, chunk) = FieldsOf(TRUE, s.ts, s.delta, s.isDelta, extended,
                 s.length, s.sets, s.left)
  BY <1>1, <1>3, <1>4, <1>5, <1>6, <1>7, Zenon
<1>8. ASSUME s.left = 0, ~s.isDelta
      PROVE  Chunks!Header(s, chunk) = FieldsOf(TRUE, s.ts, s.delta, s.isDelta, extended,
                 s.length, s.sets, s.length)
  BY <1>1, <1>3, <1>4, <1>5, <1>6, <1>8, Zenon
<1>9. ASSUME s.left = 0, s.isDelta, extended => ValueOf(extended, chunk) = s.delta
      PROVE  Chunks!Header(s, chunk) = FieldsOf(TRUE, (s.ts + s.delta) % Clock, s.delta,
                 s.isDelta, extended, s.length, s.sets, s.length)
  <2>1. DeltaOf(s, chunk, extended) = s.delta
    BY <1>4, <1>9, Zenon
  <2> QED
    BY <1>1, <1>3, <1>5, <1>6, <1>9, <2>1, Zenon
<1> QED
  BY <1>7, <1>8, <1>9, Zenon

LEMMA OneElement ==
    ASSUME NEW x \in Nat, NEW e, e = << x >>
    PROVE  e # << >> /\ e[1] = x
  OBVIOUS

\* A time or delta that does not fit the field is read from the extended one.
LEMMA FieldIsRead ==
    ASSUME NEW x \in Nat, NEW chunk, NEW extended, extended = (x >= Escape),
           chunk.field = Chunks!Least(x, Escape),
           chunk.ext = IF extended THEN << x >> ELSE << >>
    PROVE  (chunk.field = Escape) = extended /\ ValueOf(extended, chunk) = x
<1>1. Escape \in Nat
  BY ClockBounds
<1>2. CASE x >= Escape
  <2>1. (x >= Escape) = TRUE /\ Chunks!Least(x, Escape) = Escape
    BY <1>1, <1>2 DEF Chunks!Least
  <2>2. extended = TRUE /\ chunk.field = Escape
    BY <2>1, Zenon
  <2>3. chunk.ext = << x >>
    BY <2>2
  <2>4. (chunk.field = Escape) = TRUE
    BY <2>2, Zenon
  <2>5. chunk.ext # << >> /\ chunk.ext[1] = x
    BY <2>3, OneElement, Zenon
  <2>6. ValueOf(extended, chunk) = x
    BY <2>2, <2>5, Zenon DEF ValueOf
  <2> QED
    BY <2>2, <2>4, <2>6, Zenon
<1>3. CASE x < Escape
  <2>1. (x >= Escape) = FALSE /\ Chunks!Least(x, Escape) = x /\ x # Escape
    BY <1>1, <1>3 DEF Chunks!Least
  <2>2. extended = FALSE /\ chunk.field = x /\ chunk.field # Escape
    BY <2>1, Zenon
  <2>3. (chunk.field = Escape) = FALSE
    BY <2>2, Zenon
  <2> QED
    BY <2>2, <2>3, Zenon DEF ValueOf
<1> QED
  BY <1>1, <1>2, <1>3

\* The time that the reader has from a delta.
LEMMA TimeFromDelta ==
    ASSUME NEW last \in StreamState, NEW ts \in 0..(Clock - 1)
    PROVE  (last.ts + ((ts - last.ts) % Clock)) % Clock = ts
<1>1. last.ts \in 0..(Clock - 1)
  BY DEF StreamState
<1> QED
  BY <1>1, ClockBounds, DeltaLeadsBack

\* The chunk that WriteChunk writes.
ChunkOf(c, fmt, s, extended) ==
    [stream |-> c, fmt |-> fmt, length |-> s.length, sets |-> s.sets,
     part |-> Chunks!Least(s.left, writeSize),
     field |-> Chunks!Least(s.delta, Escape),
     ext |-> IF extended THEN << s.delta >> ELSE << >>]

\* What the reader makes of a chunk agrees with the state that the writer wrote it with.
WithExt(s, extended) == [s EXCEPT !.ext = extended]
Minus(s, piece) == [s EXCEPT !.left = s.left - piece]

MakesIt(last, chunk, s, extended, late) ==
    /\ Chunks!Header(last, chunk) \in StreamState
    /\ Agree(WithExt(s, extended), Chunks!Header(last, chunk), late)

\* It still does when both have taken a piece of the message off.
LEMMA BothTake ==
    ASSUME NEW s \in StreamState, NEW r \in StreamState, NEW extended \in BOOLEAN, NEW late,
           Agree(WithExt(s, extended), r, late), NEW piece \in Nat, piece <= s.left,
           NEW w, w = WithExt(Minus(s, piece), extended), NEW t, t = Minus(r, piece)
    PROVE  /\ w \in StreamState /\ t \in StreamState /\ Agree(w, t, late)
           /\ w.left = s.left - piece /\ t.left = w.left
<1> PICK v : v = WithExt(s, extended)
  OBVIOUS
<1>1. s.left - piece \in Nat
  BY DEF StreamState
<1>2. /\ v.ready = s.ready /\ v.isDelta = s.isDelta /\ v.ext = extended /\ v.delta = s.delta
      /\ v.length = s.length /\ v.sets = s.sets /\ v.left = s.left /\ v.ts = s.ts
  BY DEF StreamState, WithExt
<1>3. /\ w.ready = s.ready /\ w.isDelta = s.isDelta /\ w.ext = extended /\ w.delta = s.delta
      /\ w.length = s.length /\ w.sets = s.sets /\ w.left = s.left - piece /\ w.ts = s.ts
      /\ w \in StreamState
  <2>1. PICK m : m = Minus(s, piece)
    OBVIOUS
  <2>2. /\ m.ready = s.ready /\ m.isDelta = s.isDelta /\ m.delta = s.delta /\ m.length = s.length
        /\ m.sets = s.sets /\ m.left = s.left - piece /\ m.ts = s.ts /\ m \in StreamState
    BY <1>1, <2>1, SMTT(60) DEF StreamState, Minus
  <2>3. w = WithExt(m, extended)
    BY <2>1
  <2>4. w \in StreamState
    BY <2>2, <2>3 DEF StreamState, WithExt
  <2>5. /\ w.ready = m.ready /\ w.isDelta = m.isDelta /\ w.ext = extended /\ w.delta = m.delta
        /\ w.length = m.length /\ w.sets = m.sets /\ w.left = m.left /\ w.ts = m.ts
    BY <2>2, <2>3 DEF StreamState, WithExt
  <2> QED
    BY <2>2, <2>4, <2>5, Zenon
<1>4. Agree(v, r, late)
  OBVIOUS
<1>5. r.left = s.left
  BY <1>2, <1>4, Zenon DEF Agree
<1>6. /\ t.ready = r.ready /\ t.isDelta = r.isDelta /\ t.ext = r.ext /\ t.delta = r.delta
      /\ t.length = r.length /\ t.sets = r.sets /\ t.left = r.left - piece /\ t.ts = r.ts
      /\ t \in StreamState
  <2>1. r.left - piece \in Nat
    BY <1>1, <1>5
  <2> QED
    BY <2>1, SMTT(60) DEF StreamState, Minus
<1>7. t.left = w.left
  BY <1>3, <1>5, <1>6, Zenon
<1>8. Agree(w, t, late)
  BY <1>2, <1>3, <1>4, <1>6, <1>7, Zenon DEF Agree
<1> QED
  BY <1>3, <1>6, <1>7, <1>8

\* A chunk whose header the reader understands is all that the writer gets ahead by.
LEMMA WrittenIsOnItsWay ==
    ASSUME ChunksInv, NEW c \in Stream, NEW fmt \in 0..3, NEW s \in StreamState,
           NEW extended \in BOOLEAN, NEW late \in BOOLEAN, s.ready,
           Chunks!WriteChunk(c, fmt, s, extended),
           behind' = [behind EXCEPT ![c] = late],
           fmt = 3 => states[c].ready,
           MakesIt(states[c], ChunkOf(c, fmt, s, extended), s, extended, late),
           UNCHANGED << states, readSize, received, garbled >>
    PROVE  ChunksInv'
<1>1. PICK chunk : chunk = ChunkOf(c, fmt, s, extended)
  OBVIOUS
<1>2. PICK piece : piece = Chunks!Least(s.left, writeSize)
  OBVIOUS
<1>3. PICK new : new = WithExt(Minus(s, piece), extended)
  OBVIOUS
<1>4. /\ chunks = << >> /\ chunks' = << chunk >>
      /\ writer' = [writer EXCEPT ![c] = new]
      /\ completed' = IF s.left = piece THEN Chunks!MessageOf(c, s) ELSE completed
      /\ writeSize' = IF s.left = piece /\ s.sets # 0 THEN s.sets ELSE writeSize
  BY <1>1, <1>2, <1>3 DEF Chunks!WriteChunk, ChunkOf, WithExt, Minus
<1>5. piece \in Nat /\ piece <= s.left
  <2>1. s.left \in Nat /\ writeSize \in Nat
    BY ChunksAssumption DEF ChunksInv, StreamState, Chunks!ChunkBounds
  <2> QED
    BY <1>2, <2>1 DEF Chunks!Least
<1>6. PICK header : header = Chunks!Header(states[c], chunk)
  OBVIOUS
<1>7. header \in StreamState /\ Agree(WithExt(s, extended), header, late)
  BY <1>1, <1>6, Zenon DEF MakesIt
<1>8. PICK read : read = Minus(header, piece)
  OBVIOUS
<1>9. /\ new \in StreamState /\ read \in StreamState /\ Agree(new, read, late)
      /\ new.left = s.left - piece /\ read.left = new.left
  BY <1>3, <1>5, <1>7, <1>8, BothTake
<1>10. new.ready /\ new.sets = s.sets /\ new.ts = s.ts /\ new.length = s.length
  BY <1>3 DEF StreamState, WithExt, Minus
<1>11. (new.left = 0) <=> (s.left = piece)
  BY <1>5, <1>9 DEF StreamState
<1>12. writer \in [Stream -> StreamState] /\ states \in [Stream -> StreamState]
       /\ behind \in [Stream -> BOOLEAN] /\ AllAgree(states) /\ readSize = writeSize
  BY <1>4, Zenon DEF ChunksInv
<1>13. writer' \in [Stream -> StreamState] /\ writeSize' \in Sizes
       /\ behind' \in [Stream -> BOOLEAN]
       /\ \A d \in Stream : writer[d]'.left > 0 => writer[d]'.ready
  <2>1. writeSize' \in Sizes
    BY <1>4 DEF ChunksInv, StreamState
  <2>2. \A d \in Stream : writer[d].left > 0 => writer[d].ready
    BY DEF ChunksInv
  <2> QED
    BY <1>4, <1>9, <1>10, <1>12, <2>1, <2>2
<1>14. chunk.stream = c /\ chunk.fmt = fmt /\ chunk.part = piece
       /\ (chunk.ext # << >>) = extended
  <2>1. chunk.stream = c /\ chunk.fmt = fmt /\ chunk.part = piece
        /\ chunk.ext = IF extended THEN << s.delta >> ELSE << >>
    BY <1>1, <1>2, Zenon DEF ChunkOf
  <2>2. << s.delta >> # << >>
    OBVIOUS
  <2> QED
    BY <2>1, <2>2, Zenon
<1>15. states' = states /\ readSize' = readSize
  OBVIOUS
<1>16. HeaderRead(chunk)' = header
  BY <1>6, <1>14, <1>15, Zenon DEF HeaderRead
<1>17. header.left = s.left /\ header.ext = extended
  <2>1. PICK v : v = WithExt(s, extended)
    OBVIOUS
  <2>2. v.left = s.left /\ v.ext = extended
    BY <2>1 DEF StreamState, WithExt
  <2> QED
    BY <1>7, <2>1, <2>2, Zenon DEF Agree
<1>18. PartRead(chunk)' = piece
  BY <1>2, <1>12, <1>15, <1>16, <1>17, Zenon DEF PartRead
<1>19. StateRead(chunk)' = read
  BY <1>8, <1>16, <1>18, Zenon DEF StateRead, Minus
<1>20. AllAgree([states EXCEPT ![chunk.stream] = StateRead(chunk)])'
  <2>1. PICK r : r = [states EXCEPT ![c] = read]
    OBVIOUS
  <2>2. \A d \in Stream : /\ r[d] = IF d = c THEN read ELSE states[d]
                          /\ writer[d]' = IF d = c THEN new ELSE writer[d]
                          /\ behind[d]' = IF d = c THEN late ELSE behind[d]
    BY <1>4, <1>12, <2>1
  <2>3. \A d \in Stream : Agree(writer[d]', r[d], behind[d]')
    BY <1>9, <1>12, <2>2, Zenon DEF AllAgree
  <2> QED
    BY <1>14, <1>15, <1>19, <2>1, <2>3, Zenon DEF AllAgree
<1>21. Chunks!MessageOf(c, s).stream = c /\ Chunks!MessageOf(c, s).length = new.length
       /\ Chunks!MessageOf(c, s).sets = new.sets /\ Chunks!MessageOf(c, s).ts = new.ts
  BY <1>10 DEF Chunks!MessageOf
<1>22. MessageRead(chunk)' = Chunks!MessageOf(c, read)
  BY <1>14, <1>19, Zenon DEF MessageRead
<1>23. Chunks!MessageOf(c, read).stream = c /\ Chunks!MessageOf(c, read).length = read.length
       /\ Chunks!MessageOf(c, read).sets = read.sets /\ Chunks!MessageOf(c, read).ts = read.ts
  BY DEF Chunks!MessageOf
<1>24. behind[c]' = late
  BY <1>12
<1>25. ASSUME read.left = 0 PROVE Same(MessageRead(chunk), completed, behind[chunk.stream])'
  <2>1. completed' = Chunks!MessageOf(c, s)
    BY <1>4, <1>9, <1>11, <1>25, Zenon
  <2>2. Same(Chunks!MessageOf(c, read), Chunks!MessageOf(c, s), late)
    BY <1>9, <1>21, <1>23, Zenon DEF Agree, Same
  <2> QED
    BY <1>14, <1>22, <1>24, <2>1, <2>2, Zenon DEF Same
<1>26. writeSize' = IF read.left = 0 /\ read.sets # 0 THEN read.sets ELSE readSize'
  <2>1. read.sets = s.sets
    BY <1>9, <1>10, Zenon DEF Agree
  <2> QED
    BY <1>4, <1>9, <1>11, <1>12, <1>15, <2>1, Zenon
<1>27. OnItsWay(chunk)'
  <2>1. HeaderRead(chunk)'.ext = (chunk.ext # << >>) /\ PartRead(chunk)' = chunk.part
    BY <1>14, <1>16, <1>17, <1>18, Zenon
  <2>2. chunk.fmt = 3 => states[chunk.stream]'.ready
    BY <1>14, <1>15, Zenon
  <2>3. chunk.stream \in Stream /\ StateRead(chunk)' \in StreamState
    BY <1>9, <1>14, <1>19, Zenon
  <2>4. writeSize' = IF StateRead(chunk)'.left = 0 /\ StateRead(chunk)'.sets # 0
                     THEN StateRead(chunk)'.sets ELSE readSize'
    BY <1>19, <1>26, Zenon
  <2>5. StateRead(chunk)'.left = 0 => Same(MessageRead(chunk), completed, behind[chunk.stream])'
    BY <1>19, <1>25, Zenon
  <2> HIDE DEF HeaderRead, PartRead, StateRead
  <2> QED
    BY <1>20, <2>1, <2>2, <2>3, <2>4, <2>5, Zenon DEF OnItsWay
<1>28. \E x : chunks' = << x >> /\ OnItsWay(x)'
  BY <1>4, <1>27, Zenon
<1>29. chunks' # << >>
  BY <1>4
<1>30. garbled' = garbled /\ received' = received
  OBVIOUS
<1>31. ~garbled' /\ Same(received[1], received[2], received[3])'
  <2>1. ~garbled /\ Same(received[1], received[2], received[3])
    BY DEF ChunksInv
  <2> QED
    BY <1>30, <2>1 DEF Same
<1>32. states' \in [Stream -> StreamState]
  BY <1>12, <1>15, Zenon
<1> QED
  BY <1>13, <1>28, <1>29, <1>31, <1>32, Zenon DEF ChunksInv

\* The type of a state by its fields.
LEMMA FieldsOfType ==
    ASSUME NEW ts \in 0..(Clock - 1), NEW delta \in 0..(Clock - 1), NEW isDelta \in BOOLEAN,
           NEW ext \in BOOLEAN, NEW length \in Nat, NEW sets \in {0} \cup Sizes, NEW left \in Nat
    PROVE  FieldsOf(TRUE, ts, delta, isDelta, ext, length, sets, left) \in StreamState
  BY DEF FieldsOf, StreamState

\* A chunk that continues a message changes nothing.
LEMMA ContinuingHeader ==
    ASSUME NEW c, NEW s \in StreamState, NEW last \in StreamState, NEW late,
           Agree(s, last, late), s.ready, s.left > 0
    PROVE  MakesIt(last, ChunkOf(c, 3, s, s.ext), s, s.ext, late)
<1>1. PICK chunk : chunk = ChunkOf(c, 3, s, s.ext)
  OBVIOUS
<1>2. chunk.fmt = 3
  BY <1>1 DEF ChunkOf
<1>3. last.left # 0 /\ last.ready = TRUE
  <2>1. s.left # 0
    BY DEF StreamState
  <2>2. s.ready = TRUE
    BY ReadyIsTrue
  <2> QED
    BY <2>1, <2>2, Zenon DEF Agree
<1>4. Chunks!Header(last, chunk)
        = FieldsOf(TRUE, last.ts, last.delta, last.isDelta, last.ext, last.length, last.sets,
                   last.left)
  BY <1>2, <1>3, HeaderSaysNothing, Zenon
<1>5. PICK same : same = [last EXCEPT !.ext = last.ext]
  OBVIOUS
<1>6. Chunks!Header(last, chunk) = same
  BY <1>3, <1>4, <1>5, FieldsOfState, Zenon
<1>7. same = last
  BY <1>5 DEF StreamState
<1>8. WithExt(s, s.ext) = s
  BY DEF StreamState, WithExt
<1>9. Chunks!Header(last, chunk) = last
  BY <1>6, <1>7, Zenon
<1> QED
  BY <1>1, <1>8, <1>9, Zenon DEF MakesIt

\* What the header with which a message begins makes of the reader's state.
ReadsAs(last, chunk, ts, delta, isDelta, extended, length, sets) ==
    Chunks!Header(last, chunk)
      = FieldsOf(TRUE, ts, delta, isDelta, extended, length, sets, length)

\* The field and the extended field of a chunk say x.
Says(chunk, x, extended) ==
    /\ x \in Nat /\ extended = (x >= Escape)
    /\ chunk.field = Chunks!Least(x, Escape)
    /\ chunk.ext = IF extended THEN << x >> ELSE << >>

LEMMA SaidIsRead ==
    ASSUME NEW x, NEW chunk, NEW extended, Says(chunk, x, extended)
    PROVE  (chunk.field = Escape) = extended /\ ValueOf(extended, chunk) = x
  BY FieldIsRead, Zenon DEF Says

\* A header of format 0 says everything.
LEMMA WholeHeader ==
    ASSUME NEW last, NEW chunk, NEW ts, NEW extended, Says(chunk, ts, extended), chunk.fmt = 0
    PROVE  ReadsAs(last, chunk, ts, 0, FALSE, extended, chunk.length, chunk.sets)
<1>1. (chunk.field = Escape) = extended /\ ValueOf(extended, chunk) = ts
  BY SaidIsRead, Zenon
<1>2. chunk.fmt # 3
  OBVIOUS
<1>3. extended = IsExtended(last, chunk)
  BY <1>1, <1>2, Zenon DEF IsExtended
<1>4. Chunks!Header(last, chunk)
        = FieldsOf(TRUE, ValueOf(extended, chunk), 0, FALSE, extended,
                   chunk.length, chunk.sets, chunk.length)
  BY <1>3, HeaderSaysAll, Zenon
<1> QED
  BY <1>1, <1>4, Zenon DEF ReadsAs

\* One of format 1 or 2 says the delta, which the reader adds.
LEMMA DeltaHeader ==
    ASSUME NEW last, NEW chunk, NEW delta, NEW extended, Says(chunk, delta, extended),
           chunk.fmt \in {1, 2}
    PROVE  ReadsAs(last, chunk, (last.ts + delta) % Clock, delta, TRUE, extended,
                   LengthOf(last, chunk), SetsOf(last, chunk))
<1>1. (chunk.field = Escape) = extended /\ ValueOf(extended, chunk) = delta
  BY SaidIsRead, Zenon
<1>2. chunk.fmt # 3
  OBVIOUS
<1>3. extended = IsExtended(last, chunk)
  BY <1>1, <1>2, Zenon DEF IsExtended
<1>4. Chunks!Header(last, chunk)
        = FieldsOf(TRUE, (last.ts + ValueOf(extended, chunk)) % Clock,
                   ValueOf(extended, chunk), TRUE, extended,
                   LengthOf(last, chunk), SetsOf(last, chunk), LengthOf(last, chunk))
  BY <1>3, HeaderSaysDelta, Zenon
<1> QED
  BY <1>1, <1>4, Zenon DEF ReadsAs

\* One of format 3 says nothing: the reader adds the last delta once more if a header has said
\* it, and otherwise nothing.
MovedOn(last) == IF last.isDelta THEN (last.ts + last.delta) % Clock ELSE last.ts

LEMMA EmptyHeader ==
    ASSUME NEW last, NEW chunk, last.left = 0, chunk.fmt = 3,
           last.isDelta /\ last.ext => chunk.ext = << last.delta >> /\ last.delta \in Nat
    PROVE  ReadsAs(last, chunk, MovedOn(last), last.delta, last.isDelta, last.ext,
                   last.length, last.sets)
<1>1. CASE last.isDelta
  <2>1. ASSUME last.ext PROVE ValueOf(last.ext, chunk) = last.delta
    <3>1. chunk.ext # << >> /\ chunk.ext[1] = last.delta
      BY <1>1, <2>1, OneElement, Zenon
    <3> QED
      BY <2>1, <3>1, Zenon DEF ValueOf
  <2>2. Chunks!Header(last, chunk)
          = FieldsOf(TRUE, (last.ts + last.delta) % Clock, last.delta, last.isDelta, last.ext,
                     last.length, last.sets, last.length)
    BY <1>1, <2>1, HeaderSaysNothing, ZenonT(30)
  <2> QED
    BY <1>1, <2>2, Zenon DEF MovedOn, ReadsAs
<1>2. CASE ~last.isDelta
  BY <1>2, HeaderSaysNothing, Zenon DEF MovedOn, ReadsAs
<1> QED
  BY <1>1, <1>2

\* A state that the writer begins a message with.
BegunWith(s, ts, delta, isDelta, ext, length, sets) ==
    s \in StreamState /\ s = FieldsOf(TRUE, ts, delta, isDelta, ext, length, sets, length)

\* The reader may have another delta than one that was not said, and another time when behind.
NearTo(ts, delta, isDelta, readTs, readDelta, late) ==
    /\ readTs \in 0..(Clock - 1) /\ readDelta \in 0..(Clock - 1)
    /\ isDelta => readDelta = delta
    /\ late \/ readTs = ts

LEMMA ReadsAsBegun ==
    ASSUME NEW ts, NEW delta, NEW isDelta \in BOOLEAN, NEW ext, NEW length \in Nat,
           NEW sets \in {0} \cup Sizes, NEW last, NEW chunk, NEW s, NEW extended \in BOOLEAN,
           NEW readTs, NEW readDelta, NEW late,
           BegunWith(s, ts, delta, isDelta, ext, length, sets),
           NearTo(ts, delta, isDelta, readTs, readDelta, late),
           ReadsAs(last, chunk, readTs, readDelta, isDelta, extended, length, sets)
    PROVE  MakesIt(last, chunk, s, extended, late)
<1>1. PICK r : r = FieldsOf(TRUE, readTs, readDelta, isDelta, extended, length, sets, length)
  OBVIOUS
<1>2. r \in StreamState
  BY <1>1, FieldsOfType, Zenon DEF NearTo
<1>3. PICK w : w = WithExt(s, extended)
  OBVIOUS
<1>4. w = FieldsOf(TRUE, ts, delta, isDelta, extended, length, sets, length)
  <2>1. /\ s.ready /\ s.ts = ts /\ s.delta = delta /\ s.isDelta = isDelta
        /\ s.length = length /\ s.sets = sets /\ s.left = length
    BY DEF BegunWith, FieldsOf
  <2>2. s.ready = TRUE
    BY <2>1, ReadyIsTrue DEF BegunWith
  <2>3. w = FieldsOf(s.ready, s.ts, s.delta, s.isDelta, extended, s.length, s.sets, s.left)
    BY <1>3, FieldsOfState, Zenon DEF BegunWith, WithExt
  <2> QED
    BY <2>1, <2>2, <2>3, Zenon
<1>5. /\ w.ready = TRUE /\ w.ts = ts /\ w.delta = delta /\ w.isDelta = isDelta
      /\ w.ext = extended /\ w.length = length /\ w.sets = sets /\ w.left = length
  BY <1>4, Zenon DEF FieldsOf
<1>6. /\ r.ready = TRUE /\ r.ts = readTs /\ r.delta = readDelta /\ r.isDelta = isDelta
      /\ r.ext = extended /\ r.length = length /\ r.sets = sets /\ r.left = length
  BY <1>1, Zenon DEF FieldsOf
<1>7. Agree(w, r, late)
  BY <1>5, <1>6, Zenon DEF Agree, NearTo
<1> QED
  BY <1>1, <1>2, <1>3, <1>7, Zenon DEF ReadsAs, MakesIt

LEMMA DeltaInRange ==
    ASSUME NEW last \in StreamState, NEW ts \in 0..(Clock - 1)
    PROVE  (ts - last.ts) % Clock \in 0..(Clock - 1)
<1>1. last.ts \in 0..(Clock - 1)
  BY DEF StreamState
<1> QED
  BY <1>1, ClockBounds, DeltaLeadsBack

\* The time that the reader has from a delta, and a delta of nothing.
OnClock(last, read, ts, delta) ==
    /\ (read.ts + delta) % Clock \in 0..(Clock - 1)
    /\ delta = (ts - last.ts) % Clock /\ read.ts = last.ts => (read.ts + delta) % Clock = ts
    /\ delta = (ts - last.ts) % Clock /\ delta = 0 => ts = last.ts

LEMMA DeltaOnClock ==
    ASSUME NEW last \in StreamState, NEW read \in StreamState, NEW ts \in 0..(Clock - 1),
           NEW delta \in 0..(Clock - 1)
    PROVE  OnClock(last, read, ts, delta)
<1>1. PICK a \in 0..(Clock - 1) : a = last.ts
  BY DEF StreamState
<1>2. PICK b \in 0..(Clock - 1) : b = read.ts
  BY DEF StreamState
<1>3. PICK m \in Nat \ {0} : m = Clock
  BY ClockBounds
<1>4. (b + delta) % m \in 0..(m - 1)
  BY <1>2, <1>3
<1>5. PICK d : d = (ts - a) % m
  OBVIOUS
<1>6. (a + d) % m = ts
  BY <1>1, <1>3, <1>5, DeltaLeadsBack
<1>7. ASSUME delta = d, b = a PROVE (b + delta) % m = ts
  BY <1>6, <1>7, Zenon
<1>8. ASSUME delta = d, delta = 0 PROVE ts = a
  <2>1. a + d = a
    BY <1>8
  <2>2. a % m = a
    BY <1>1, <1>3
  <2> QED
    BY <1>6, <2>1, <2>2, Zenon
<1> QED
  BY <1>1, <1>2, <1>3, <1>4, <1>5, <1>7, <1>8, Zenon DEF OnClock

\* How a format and the last header say the next message.
SaysNext(fmt, last, ts, delta, length, sets) ==
    /\ fmt \in 0..3 /\ (fmt = 3 => last.ready)
    /\ (fmt >= 2 => length = last.length /\ sets = last.sets)
    /\ delta = Chunks!Delta(fmt, last, ts)
    /\ (fmt = 3 => (ts - last.ts) % Clock = last.delta)

IsDeltaNext(fmt, last) == IF fmt = 3 THEN last.isDelta ELSE fmt # 0
ExtendedNext(fmt, last, delta) == IF fmt = 3 THEN last.ext ELSE delta >= Escape
LateNext(fmt, last, delta, late) ==
    fmt # 0 /\ (late \/ (fmt = 3 /\ ~last.isDelta /\ delta # 0))

LEMMA DeltaNext ==
    ASSUME NEW fmt, NEW last \in StreamState, NEW ts \in 0..(Clock - 1), NEW delta, NEW length,
           NEW sets, SaysNext(fmt, last, ts, delta, length, sets)
    PROVE  /\ delta \in 0..(Clock - 1) /\ delta \in Nat
           /\ fmt = 0 => delta = ts
           /\ fmt # 0 => delta = (ts - last.ts) % Clock
           /\ fmt = 3 => delta = last.delta
<1>1. last.delta \in 0..(Clock - 1)
  BY DEF StreamState
<1>2. (ts - last.ts) % Clock \in 0..(Clock - 1)
  BY DeltaInRange
<1>3. fmt = 0 \/ fmt \in {1, 2} \/ fmt = 3
  BY DEF SaysNext
<1>4. CASE fmt = 0
  <2>1. delta = ts
    BY <1>4 DEF SaysNext, Chunks!Delta
  <2> QED
    BY <1>4, <2>1, ClockBounds
<1>5. CASE fmt \in {1, 2}
  <2>1. fmt # 0 /\ fmt # 3
    BY <1>5
  <2>2. delta = (ts - last.ts) % Clock
    BY <1>5, <2>1 DEF SaysNext, Chunks!Delta
  <2>3. delta \in 0..(Clock - 1)
    BY <1>2, <2>2, Zenon
  <2> QED
    BY <2>1, <2>2, <2>3, ClockBounds
<1>6. CASE fmt = 3
  <2>1. delta = last.delta /\ fmt # 0
    BY <1>6 DEF SaysNext, Chunks!Delta
  <2>2. delta = (ts - last.ts) % Clock
    BY <1>6, <2>1, Zenon DEF SaysNext
  <2>3. delta \in 0..(Clock - 1)
    BY <1>1, <2>1, Zenon
  <2> QED
    BY <2>1, <2>2, <2>3, ClockBounds
<1> QED
  BY <1>3, <1>4, <1>5, <1>6

\* The chunk of a message that begins.
ChunkNext(chunk, fmt, length, sets, delta, extended) ==
    /\ chunk.fmt = fmt /\ chunk.length = length /\ chunk.sets = sets
    /\ chunk.field = Chunks!Least(delta, Escape)
    /\ chunk.ext = IF extended THEN << delta >> ELSE << >>

\* What the reader makes of it is near to what it says.
LEMMA NextIsRead ==
    ASSUME NEW fmt, NEW last \in StreamState, NEW read \in StreamState, NEW late,
           Agree(last, read, late), last.left = 0,
           NEW ts \in 0..(Clock - 1), NEW delta, NEW length, NEW sets, NEW chunk,
           NEW isDelta, NEW extended, NEW lateNext,
           SaysNext(fmt, last, ts, delta, length, sets),
           isDelta = IsDeltaNext(fmt, last), extended = ExtendedNext(fmt, last, delta),
           lateNext = LateNext(fmt, last, delta, late),
           ChunkNext(chunk, fmt, length, sets, delta, extended)
    PROVE  \E readTs, readDelta :
              /\ NearTo(ts, delta, isDelta, readTs, readDelta, lateNext)
              /\ ReadsAs(read, chunk, readTs, readDelta, isDelta, extended, length, sets)
<1>1. /\ delta \in 0..(Clock - 1) /\ delta \in Nat
      /\ fmt = 0 => delta = ts
      /\ fmt # 0 => delta = (ts - last.ts) % Clock
      /\ fmt = 3 => delta = last.delta
  BY DeltaNext
<1>2. fmt = 0 \/ fmt \in {1, 2} \/ fmt = 3
  BY DEF SaysNext
<1>3. ASSUME fmt # 3 PROVE Says(chunk, delta, extended)
  BY <1>1, <1>3, Zenon DEF Says, ChunkNext, ExtendedNext
<1>4. chunk.fmt = fmt /\ chunk.length = length /\ chunk.sets = sets
  BY Zenon DEF ChunkNext
<1>5. OnClock(last, read, ts, delta)
  BY <1>1, DeltaOnClock, Zenon
<1>6. CASE fmt = 0
  <2>1. fmt # 3 /\ chunk.fmt = 0 /\ 0 \in 0..(Clock - 1)
    BY <1>4, <1>6, ClockBounds
  <2>2. isDelta = FALSE
    <3>1. (fmt # 0) = FALSE
      BY <1>6, Zenon
    <3> QED
      BY <2>1, <3>1, Zenon DEF IsDeltaNext
  <2>3. ReadsAs(read, chunk, delta, 0, FALSE, extended, chunk.length, chunk.sets)
    BY <1>3, <2>1, WholeHeader, Zenon
  <2>4. NearTo(ts, delta, isDelta, delta, 0, lateNext)
    BY <1>1, <1>6, <2>1, <2>2, Zenon DEF NearTo
  <2>5. ReadsAs(read, chunk, delta, 0, isDelta, extended, length, sets)
    BY <1>4, <2>2, <2>3, Zenon
  <2> QED
    BY <2>4, <2>5, Zenon
<1>7. CASE fmt \in {1, 2}
  <2>1. fmt # 3 /\ fmt # 0 /\ chunk.fmt \in {1, 2}
    BY <1>4, <1>7
  <2>2. isDelta = TRUE
    BY <2>1, Zenon DEF IsDeltaNext
  <2>3. LengthOf(read, chunk) = length /\ SetsOf(read, chunk) = sets
    <3>1. fmt >= 2 => length = read.length /\ sets = read.sets
      BY DEF SaysNext, Agree
    <3> QED
      BY <1>4, <1>7, <3>1 DEF LengthOf, SetsOf
  <2>4. PICK time : time = (read.ts + delta) % Clock
    OBVIOUS
  <2>5. ReadsAs(read, chunk, time, delta, isDelta, extended, length, sets)
    BY <1>3, <2>1, <2>2, <2>3, <2>4, DeltaHeader, Zenon
  <2>6. late \/ read.ts = last.ts
    BY Zenon DEF Agree
  <2>7. time \in 0..(Clock - 1) /\ (late \/ time = ts)
    BY <1>1, <1>5, <2>1, <2>4, <2>6, Zenon DEF OnClock
  <2>8. late => lateNext
    BY <2>1, Zenon DEF LateNext
  <2>9. NearTo(ts, delta, isDelta, time, delta, lateNext)
    BY <1>1, <2>7, <2>8, Zenon DEF NearTo
  <2> QED
    BY <2>5, <2>9, Zenon
<1>8. CASE fmt = 3
  <2>1. fmt # 0 /\ fmt >= 2 /\ chunk.fmt = 3
    BY <1>4, <1>8
  <2>2. /\ isDelta = last.isDelta /\ extended = last.ext
        /\ length = last.length /\ sets = last.sets /\ delta = last.delta
    BY <1>1, <1>8, <2>1, Zenon DEF IsDeltaNext, ExtendedNext, SaysNext
  <2>3. /\ read.isDelta = isDelta /\ read.ext = extended /\ read.length = length
        /\ read.sets = sets /\ read.left = 0
        /\ isDelta => read.delta = delta
        /\ late \/ read.ts = last.ts
    BY <2>2, Zenon DEF Agree
  <2>4. read.isDelta /\ read.ext => chunk.ext = << read.delta >> /\ read.delta \in Nat
    BY <1>1, <2>3, Zenon DEF ChunkNext
  <2>5. PICK time : time = MovedOn(read)
    OBVIOUS
  <2>6. ReadsAs(read, chunk, time, read.delta, isDelta, extended, length, sets)
    BY <2>1, <2>3, <2>4, <2>5, EmptyHeader, Zenon
  <2>7. read.ts \in 0..(Clock - 1) /\ read.delta \in 0..(Clock - 1)
    BY DEF StreamState
  <2>8. late => lateNext
    BY <2>1, Zenon DEF LateNext
  <2>9. time \in 0..(Clock - 1) /\ (lateNext \/ time = ts)
    <3>1. CASE isDelta
      <4>1. time = (read.ts + delta) % Clock
        BY <2>3, <2>5, <3>1, Zenon DEF MovedOn
      <4>2. time \in 0..(Clock - 1) /\ (late \/ time = ts)
        BY <1>1, <1>5, <2>1, <2>3, <4>1, Zenon DEF OnClock
      <4> QED
        BY <2>8, <4>2, Zenon
    <3>2. CASE ~isDelta
      <4>1. time = read.ts
        BY <2>3, <2>5, <3>2, Zenon DEF MovedOn
      <4>2. delta # 0 => lateNext
        BY <1>8, <2>1, <2>2, <3>2, Zenon DEF LateNext
      <4>3. delta = 0 => ts = last.ts
        BY <1>1, <1>5, <2>1, Zenon DEF OnClock
      <4> QED
        BY <2>3, <2>7, <2>8, <4>1, <4>2, <4>3, Zenon
    <3> QED
      BY <3>1, <3>2
  <2>10. NearTo(ts, delta, isDelta, time, read.delta, lateNext)
    BY <2>3, <2>7, <2>9, Zenon DEF NearTo
  <2> QED
    BY <2>6, <2>10, Zenon
<1> QED
  BY <1>2, <1>6, <1>7, <1>8

\* Whichever format a message begins with, the reader's state agrees with the writer's.
LEMMA BeginKeepsChunks ==
    ASSUME ChunksInv, NEW c \in Stream, Chunks!Begin(c)
    PROVE  ChunksInv'
<1>1. PICK last \in StreamState : last = writer[c] /\ last.left = 0
  BY DEF ChunksInv, Chunks!Begin
<1>2. PICK ts \in Times, length \in Lengths, sets \in {0} \cup (Sizes \ {writeSize}) :
        LET new == [writer[c] EXCEPT !.ready = TRUE, !.ts = ts, !.length = length,
                                     !.sets = sets, !.left = length]
        IN  /\ sets # 0 => length > 0
            /\ \E fmt \in Chunks!Formats(writer[c], new) :
                LET delta == Chunks!Delta(fmt, writer[c], ts)
                    s == [new EXCEPT !.delta = delta,
                                     !.isDelta = IF fmt = 3 THEN writer[c].isDelta ELSE fmt # 0]
                IN  /\ Chunks!WriteChunk(c, fmt, s,
                           IF fmt = 3 THEN writer[c].ext ELSE delta >= Escape)
                    /\ behind' = [behind EXCEPT ![c] =
                           fmt # 0 /\ (@ \/ (fmt = 3 /\ ~writer[c].isDelta /\ delta # 0))]
  BY Zenon DEF Chunks!Begin
<1>3. PICK new : new = [last EXCEPT !.ready = TRUE, !.ts = ts, !.length = length,
                                    !.sets = sets, !.left = length]
  OBVIOUS
<1>4. PICK late \in BOOLEAN : late = behind[c]
  BY DEF ChunksInv
<1>5. PICK fmt \in Chunks!Formats(last, new) :
        LET delta == Chunks!Delta(fmt, last, ts)
            s == [new EXCEPT !.delta = delta,
                             !.isDelta = IF fmt = 3 THEN last.isDelta ELSE fmt # 0]
        IN  /\ Chunks!WriteChunk(c, fmt, s, IF fmt = 3 THEN last.ext ELSE delta >= Escape)
            /\ behind' = [behind EXCEPT ![c] =
                   fmt # 0 /\ (behind[c] \/ (fmt = 3 /\ ~last.isDelta /\ delta # 0))]
  BY <1>1, <1>2, <1>3
<1>6. PICK delta : delta = Chunks!Delta(fmt, last, ts)
  OBVIOUS
<1>7. PICK isDelta : isDelta = IsDeltaNext(fmt, last)
  OBVIOUS
<1>8. PICK extended : extended = ExtendedNext(fmt, last, delta)
  OBVIOUS
<1>9. PICK lateNext : lateNext = LateNext(fmt, last, delta, late)
  OBVIOUS
<1>10. PICK s : s = [new EXCEPT !.delta = delta, !.isDelta = isDelta]
  OBVIOUS
<1>11. Chunks!WriteChunk(c, fmt, s, extended) /\ behind' = [behind EXCEPT ![c] = lateNext]
  BY <1>4, <1>5, <1>6, <1>7, <1>8, <1>9, <1>10, Zenon DEF IsDeltaNext, ExtendedNext, LateNext
<1>12. /\ ts \in 0..(Clock - 1) /\ length \in Nat /\ sets \in {0} \cup Sizes
  BY ChunksAssumption DEF Chunks!ChunkBounds
<1>13. SaysNext(fmt, last, ts, delta, length, sets)
  <2>1. new.ts = ts /\ new.length = length /\ new.sets = sets
    BY <1>3 DEF StreamState
  <2>2. /\ fmt \in 0..3 /\ (fmt = 3 => last.ready)
        /\ (fmt >= 2 => length = last.length /\ sets = last.sets)
        /\ (fmt = 3 => (ts - last.ts) % Clock = last.delta)
    BY <2>1 DEF Chunks!Formats
  <2> QED
    BY <1>6, <2>2, Zenon DEF SaysNext
<1>14. delta \in 0..(Clock - 1) /\ delta \in Nat
  BY <1>12, <1>13, DeltaNext, Zenon
<1>15. isDelta \in BOOLEAN /\ extended \in BOOLEAN /\ last.ext \in BOOLEAN /\ lateNext \in BOOLEAN
  <2>1. last.isDelta \in BOOLEAN /\ last.ext \in BOOLEAN
    BY DEF StreamState
  <2>2. (fmt # 0) \in BOOLEAN
    BY Zenon
  <2>3. (delta >= Escape) \in BOOLEAN
    BY <1>14, ClockBounds, SMT
  <2>4. isDelta \in BOOLEAN
    BY <1>7, <2>1, <2>2, Zenon DEF IsDeltaNext
  <2>5. extended \in BOOLEAN
    BY <1>8, <2>1, <2>3, Zenon DEF ExtendedNext
  <2>6. lateNext \in BOOLEAN
    BY <1>9, Zenon DEF LateNext
  <2> QED
    BY <2>1, <2>4, <2>5, <2>6
<1>16. s = FieldsOf(TRUE, ts, delta, isDelta, last.ext, length, sets, length)
  BY <1>3, <1>10 DEF FieldsOf, StreamState
<1>17. BegunWith(s, ts, delta, isDelta, last.ext, length, sets) /\ s.ready
  <2>1. s \in StreamState
    BY <1>12, <1>14, <1>15, <1>16, FieldsOfType, Zenon
  <2>2. s.ready
    BY <1>16 DEF FieldsOf
  <2> QED
    BY <1>16, <2>1, <2>2, Zenon DEF BegunWith
<1>18. PICK chunk : chunk = ChunkOf(c, fmt, s, extended)
  OBVIOUS
<1>19. ChunkNext(chunk, fmt, length, sets, delta, extended)
  <2>1. /\ chunk.fmt = fmt /\ chunk.length = s.length /\ chunk.sets = s.sets
        /\ chunk.field = Chunks!Least(s.delta, Escape)
        /\ chunk.ext = IF extended THEN << s.delta >> ELSE << >>
    BY <1>18, Zenon DEF ChunkOf
  <2>2. s.delta = delta /\ s.length = length /\ s.sets = sets
    BY <1>16 DEF FieldsOf
  <2> QED
    BY <2>1, <2>2, Zenon DEF ChunkNext
<1>20. PICK read \in StreamState : read = states[c] /\ Agree(last, read, late)
  <2>1. chunks = << >>
    BY <1>11 DEF Chunks!WriteChunk
  <2>2. states[c] \in StreamState /\ Agree(writer[c], states[c], behind[c])
    BY <2>1 DEF ChunksInv, AllAgree
  <2> QED
    BY <1>1, <1>4, <2>2, Zenon
<1>21. PICK readTs, readDelta :
          /\ NearTo(ts, delta, isDelta, readTs, readDelta, lateNext)
          /\ ReadsAs(read, chunk, readTs, readDelta, isDelta, extended, length, sets)
  <2>1. Agree(last, read, late) /\ last.left = 0 /\ ts \in 0..(Clock - 1)
    BY <1>1, <1>12, <1>20, Zenon
  <2> QED
    BY <1>7, <1>8, <1>9, <1>13, <1>19, <2>1, NextIsRead
<1>22. MakesIt(read, chunk, s, extended, lateNext)
  BY <1>12, <1>15, <1>17, <1>21, ReadsAsBegun
<1>23. UNCHANGED << states, readSize, received, garbled >>
  BY DEF Chunks!Begin, Chunks!reading
<1>24. fmt = 3 => states[c].ready
  BY <1>13, <1>20, Zenon DEF SaysNext, Agree
<1>25. fmt \in 0..3 /\ s \in StreamState
  BY <1>13, <1>17, Zenon DEF SaysNext, BegunWith
<1>26. MakesIt(states[c], ChunkOf(c, fmt, s, extended), s, extended, lateNext)
  BY <1>18, <1>20, <1>22, Zenon
<1> QED
  BY <1>11, <1>15, <1>17, <1>23, <1>24, <1>25, <1>26, WrittenIsOnItsWay, Zenon

LEMMA ContinueKeepsChunks ==
    ASSUME ChunksInv, NEW c \in Stream, Chunks!Continue(c)
    PROVE  ChunksInv'
<1>1. PICK s \in StreamState : s = writer[c] /\ s.left > 0 /\ s.ready
  BY DEF ChunksInv, Chunks!Continue
<1>2. /\ Chunks!WriteChunk(c, 3, s, s.ext)
      /\ UNCHANGED << states, readSize, received, garbled >>
      /\ behind' = behind
  BY <1>1, Zenon DEF Chunks!Continue, Chunks!reading
<1>3. PICK late \in BOOLEAN : late = behind[c]
  BY DEF ChunksInv
<1>4. behind' = [behind EXCEPT ![c] = late]
  BY <1>2, <1>3 DEF ChunksInv
<1>5. chunks = << >>
  BY <1>2 DEF Chunks!WriteChunk
<1>6. PICK read \in StreamState : read = states[c] /\ Agree(s, read, late)
  <2>1. states[c] \in StreamState /\ Agree(writer[c], states[c], behind[c])
    BY <1>5 DEF ChunksInv, AllAgree
  <2> QED
    BY <1>1, <1>3, <2>1, Zenon
<1>7. MakesIt(states[c], ChunkOf(c, 3, s, s.ext), s, s.ext, late)
  BY <1>1, <1>6, ContinuingHeader, Zenon
<1>8. s.ext \in BOOLEAN /\ 3 \in 0..3
  BY DEF StreamState
<1>9. states[c].ready
  BY <1>1, <1>6, Zenon DEF Agree
<1> QED
  BY <1>1, <1>2, <1>4, <1>7, <1>8, <1>9, WrittenIsOnItsWay, ZenonT(30)

\* The reader catches up.
LEMMA ReadKeepsChunks ==
    ASSUME ChunksInv, Chunks!ReadChunk
    PROVE  ChunksInv'
<1>1. PICK chunk : chunks = << chunk >> /\ OnItsWay(chunk)
  BY DEF ChunksInv, Chunks!ReadChunk
<1>2. Head(chunks) = chunk /\ Tail(chunks) = << >>
  BY <1>1
<1>3. /\ chunks' = << >>
      /\ states' = [states EXCEPT ![chunk.stream] = StateRead(chunk)]
      /\ garbled' = (HeaderRead(chunk).ext # (chunk.ext # << >>) \/ PartRead(chunk) # chunk.part
                       \/ (chunk.fmt = 3 /\ ~states[chunk.stream].ready))
      /\ IF StateRead(chunk).left = 0
         THEN /\ received' = << MessageRead(chunk), completed, behind[chunk.stream] >>
              /\ readSize' = IF StateRead(chunk).sets # 0 THEN StateRead(chunk).sets
                             ELSE readSize
         ELSE UNCHANGED << received, readSize >>
      /\ UNCHANGED << writer, behind, writeSize >>
  BY <1>2, Zenon DEF Chunks!ReadChunk, Chunks!writing, StateRead, PartRead, HeaderRead, MessageRead
<1>4. ~garbled' /\ readSize' = writeSize'
  BY <1>1, <1>3, Zenon DEF OnItsWay
<1>5. AllAgree(states)'
  BY <1>1, <1>3, Zenon DEF OnItsWay, AllAgree
<1>6. Same(received[1], received[2], received[3])'
  <2>1. CASE StateRead(chunk).left = 0
    <3>1. PICK read, due, late :
             read = MessageRead(chunk) /\ due = completed /\ late = behind[chunk.stream]
      OBVIOUS
    <3>2. received' = << read, due, late >>
      BY <1>3, <2>1, <3>1, Zenon
    <3>3. received'[1] = read /\ received'[2] = due /\ received'[3] = late
      BY <3>2
    <3>4. Same(read, due, late)
      BY <1>1, <2>1, <3>1, Zenon DEF OnItsWay
    <3> QED
      BY <3>3, <3>4, Zenon DEF Same
  <2>2. CASE StateRead(chunk).left # 0
    <3>1. received' = received /\ Same(received[1], received[2], received[3])
      BY <1>3, <2>2, Zenon DEF ChunksInv
    <3> QED
      BY <3>1 DEF Same
  <2> QED
    BY <2>1, <2>2, Zenon
<1>7. states' \in [Stream -> StreamState]
  <2>1. states \in [Stream -> StreamState] /\ chunk.stream \in Stream
        /\ StateRead(chunk) \in StreamState
    BY <1>1, Zenon DEF ChunksInv, OnItsWay
  <2>2. PICK x, r : x = chunk.stream /\ r = StateRead(chunk)
    OBVIOUS
  <2>3. states' = [states EXCEPT ![x] = r] /\ x \in Stream /\ r \in StreamState
    BY <1>3, <2>1, <2>2, Zenon
  <2> QED
    BY <2>1, <2>3
<1>8. writer' \in [Stream -> StreamState] /\ writeSize' \in Sizes
      /\ behind' \in [Stream -> BOOLEAN]
      /\ \A c \in Stream : writer'[c].left > 0 => writer'[c].ready
  BY <1>3, Zenon DEF ChunksInv
<1> QED
  BY <1>3, <1>4, <1>5, <1>6, <1>7, <1>8, Zenon DEF ChunksInv

LEMMA ChunksInit ==
    ASSUME Chunks!Init
    PROVE  ChunksInv
<1>1. Chunks!NoHeader \in StreamState /\ Chunks!NoHeader.left = 0
  BY ClockBounds DEF Chunks!NoHeader, StreamState
<1>2. /\ writer = [c \in Stream |-> Chunks!NoHeader] /\ writeSize \in Sizes
      /\ behind = [c \in Stream |-> FALSE]
      /\ states = writer /\ readSize = writeSize /\ chunks = << >> /\ garbled = FALSE
      /\ received = << Chunks!None, Chunks!None, FALSE >>
  BY DefaultSizeType, Zenon DEF Chunks!Init
<1>3. AllAgree(states)
  BY <1>2, Zenon DEF AllAgree, Agree
<1>4. Same(received[1], received[2], received[3])
  BY <1>2 DEF Same
<1>5. /\ writer \in [Stream -> StreamState] /\ states \in [Stream -> StreamState]
      /\ behind \in [Stream -> BOOLEAN]
      /\ \A c \in Stream : writer[c].left > 0 => writer[c].ready
  BY <1>1, <1>2
<1> QED
  BY <1>2, <1>3, <1>4, <1>5, Zenon DEF ChunksInv

LEMMA ChunksKeep ==
    ASSUME part = "chunks" => ChunksInv, [Next]_allVars
    PROVE  (part = "chunks" => ChunksInv)'
<1> SUFFICES ASSUME part' = "chunks"
             PROVE  ChunksInv'
  OBVIOUS
<1>1. part = "chunks" /\ ChunksInv
  BY StepOfPart
<1>2. Chunks!Next \/ UNCHANGED chunksVs
  BY <1>1, StepOfPart
<1>3. CASE Chunks!Next
  <2>1. \/ \E c \in Stream : Chunks!Begin(c) \/ Chunks!Continue(c)
        \/ Chunks!ReadChunk
    BY <1>3, Zenon DEF Chunks!Next
  <2> QED
    BY <1>1, <2>1, BeginKeepsChunks, ContinueKeepsChunks, ReadKeepsChunks, Zenon
<1>4. CASE UNCHANGED chunksVs
  <2>1. UNCHANGED << writer, behind, writeSize, chunks, completed, states, readSize, received,
                     garbled >>
    BY <1>4, Zenon DEF chunksVs
  <2>2. ASSUME NEW chunk, OnItsWay(chunk) PROVE OnItsWay(chunk)'
    <3>1. HeaderRead(chunk)' = HeaderRead(chunk)
      BY <2>1, Zenon DEF HeaderRead
    <3>2. PartRead(chunk)' = PartRead(chunk)
      BY <2>1, <3>1, Zenon DEF PartRead
    <3>3. StateRead(chunk)' = StateRead(chunk)
      BY <3>1, <3>2, Zenon DEF StateRead
    <3>4. MessageRead(chunk)' = MessageRead(chunk)
      BY <3>3, Zenon DEF MessageRead
    <3> QED
      BY <2>1, <2>2, <3>1, <3>2, <3>3, <3>4, Zenon DEF OnItsWay, AllAgree
  <2> QED
    BY <1>1, <2>1, <2>2, Zenon DEF ChunksInv, AllAgree
<1> QED
  BY <1>2, <1>3, <1>4, Zenon

\* RtmpChunks: the reader returns the messages that were written, each with its timestamp and
\* length, in the order they were completed, whichever formats say them, however the chunks of
\* the streams alternate, when times do not fit their field or wrap and when the chunk size
\* changes between the chunks of a message - but for the timestamp after a message that begins
\* with no header where the last one said all, to which the reader adds nothing.
THEOREM ReadsWhatIsWrittenHolds ==
    Spec => []ReadsWhatIsWritten
<1>1. Init => (part = "chunks" => ChunksInv)
  BY InitOfPart, ChunksInit
<1>2. (part = "chunks" => ChunksInv) /\ [Next]_allVars => (part = "chunks" => ChunksInv)'
  BY ChunksKeep
<1>3. (part = "chunks" => ChunksInv) => ReadsWhatIsWritten
  BY Zenon DEF ChunksInv, Same, ReadsWhatIsWritten, Chunks!ReadsWhatIsWritten
<1> QED
  BY <1>1, <1>2, <1>3, PTL DEF Spec, allVars

-----------------------------------------------------------------------------
(* The HLS manager *)

HlsTypes ==
    /\ calls \in [Caller -> [at : {"none", "checking", "clearing", "making"}, key : HlsKey]]
    /\ processes \in [HlsKey -> {0} \cup Hls!Proc]
    /\ ffmpeg \in [Hls!Proc -> {"none", "live", "ending", "ended", "unborn"}]
    /\ ofKey \in [Hls!Proc -> HlsKey]
    /\ exited \in [Hls!Proc -> BOOLEAN]
    /\ backoff \in [HlsKey -> BOOLEAN]
    /\ dir \in [Hls!Dir -> {"none", "empty", "fresh", "old"}]
    /\ sweep \in [at : {"none", "looking", "removing"}, dirs : SUBSET Hls!Dir,
                  chosen : SUBSET Hls!Dir]
    /\ raced \in [HlsKey -> BOOLEAN]

\* The call is between its check and its spawn.
Begins(c, k) == Hls!At(c, "clearing", k) \/ Hls!At(c, "making", k)

\* A process has exited for the manager when it has; one that is not started yet is in no
\* entry.
ExitsNoted ==
    /\ \A p \in Hls!Proc : exited[p] <=> ffmpeg[p] = "ended"
    /\ \A k \in HlsKey : processes[k] # 0 => ffmpeg[processes[k]] # "none"

\* A stream that one call is starting does not run, no other call starts it, and the
\* clean-up does not remove its directory.
BeginsAlone ==
    \A c \in Caller, k \in HlsKey : Begins(c, k) =>
       \/ raced[k]
       \/ /\ ~Hls!Running(k) /\ Hls!StreamDir(k) \notin sweep.chosen
          /\ \A b \in Caller \ {c} : ~Begins(b, k)

\* Nothing is promised of the directory.
Excused(k) == raced[k] \/ Hls!Shared(k)

\* What is spawned finds no playlist: nobody else writes to its directory.
MakesAfresh ==
    \A c \in Caller, k \in HlsKey : Hls!At(c, "making", k) =>
       Excused(k) \/ dir[Hls!StreamDir(k)] \in {"none", "empty"}

\* A directory that the clean-up removes, or would find old, is of no stream that runs: no
\* playlist that was written since the clean-up began is old for it.
SweepsIdle ==
    /\ sweep.at = "none" => sweep.dirs = {} /\ sweep.chosen = {}
    /\ \A k \in HlsKey :
          \/ Hls!StreamDir(k) \in sweep.dirs /\ dir[Hls!StreamDir(k)] = "old"
          \/ Hls!StreamDir(k) \in sweep.chosen
          => Excused(k) \/ ~Hls!Running(k)

HlsInv == HlsTypes /\ ExitsNoted /\ BeginsAlone /\ MakesAfresh /\ SweepsIdle /\ Hls!OneFfmpeg

LEMMA NoProcZero ==
    0 \notin Hls!Proc
  BY HlsAssumption DEF Hls!HlsBounds, Hls!Proc

\* A stream has a directory, which is within itself; within another stream's it is shared.
LEMMA OwnDirectory ==
    ASSUME NEW k \in HlsKey
    PROVE  /\ Hls!StreamDir(k) \in Hls!Dir
           /\ Hls!Within(Hls!StreamDir(k), Hls!StreamDir(k))
           /\ \A j \in HlsKey \ {k} :
                 /\ Hls!Within(Hls!StreamDir(k), Hls!StreamDir(j)) => Hls!Shared(k)
                 /\ Hls!StreamDir(k) = Hls!StreamDir(j) => Hls!Shared(k)
<1>1. \A j \in HlsKey : Hls!StreamDir(j) \in Seq(STRING)
  BY HlsAssumption DEF Hls!HlsBounds, Hls!StreamDir
<1>2. \A d \in Seq(STRING) : Hls!Within(d, d)
  <2> SUFFICES ASSUME NEW d \in Seq(STRING) PROVE Hls!Within(d, d)
    OBVIOUS
  <2>1. Len(d) \in 0..Len(d) /\ d = SubSeq(d, 1, Len(d))
    OBVIOUS
  <2> QED
    BY <2>1 DEF Hls!Within
<1>3. \A j \in HlsKey : Hls!Within(Hls!StreamDir(j), Hls!StreamDir(j))
  BY <1>1, <1>2
<1>4. \A j \in HlsKey \ {k} :
         Hls!Within(Hls!StreamDir(k), Hls!StreamDir(j)) => Hls!Shared(k)
  BY Zenon DEF Hls!Shared
<1>5. \A j \in HlsKey \ {k} : Hls!StreamDir(k) = Hls!StreamDir(j) => Hls!Shared(k)
  <2> SUFFICES ASSUME NEW j \in HlsKey \ {k}, Hls!StreamDir(k) = Hls!StreamDir(j)
               PROVE  Hls!Shared(k)
    OBVIOUS
  <2>1. Hls!Within(Hls!StreamDir(k), Hls!StreamDir(j))
    BY <1>3, Zenon
  <2> QED
    BY <1>4, <2>1
<1>6. Hls!StreamDir(k) \in Hls!Dir
  BY DEF Hls!Dir
<1> QED
  BY <1>3, <1>4, <1>5, <1>6

LEMMA HlsInit ==
    ASSUME Hls!Init
    PROVE  HlsInv
<1>1. Hls!NoCall \in [at : {"none", "checking", "clearing", "making"}, key : HlsKey]
      /\ Hls!NoCall.at = "none"
  <2>1. (CHOOSE k \in HlsKey : TRUE) \in HlsKey
    BY HlsAssumption DEF Hls!HlsBounds
  <2> QED
    BY <2>1 DEF Hls!NoCall
<1>2. HlsTypes
  BY <1>1 DEF Hls!Init, HlsTypes, Hls!NoSweep, Hls!None
<1>3. ExitsNoted /\ SweepsIdle /\ Hls!OneFfmpeg
  BY DEF Hls!Init, ExitsNoted, SweepsIdle, Hls!OneFfmpeg, Hls!Alive, Hls!NoSweep, Hls!None
<1>4. BeginsAlone /\ MakesAfresh
  BY <1>1 DEF Hls!Init, BeginsAlone, MakesAfresh, Begins, Hls!At
<1> QED
  BY <1>2, <1>3, <1>4 DEF HlsInv

\* A call moves: what it begins is what its new place says.
LEMMA CallMoves ==
    ASSUME HlsTypes, NEW c \in Caller,
           NEW call \in [at : {"none", "checking", "clearing", "making"}, key : HlsKey],
           calls' = [calls EXCEPT ![c] = call]
    PROVE  /\ calls' \in [Caller -> [at : {"none", "checking", "clearing", "making"},
                                     key : HlsKey]]
           /\ \A b \in Caller \ {c}, k \in HlsKey :
                 /\ Begins(b, k)' <=> Begins(b, k)
                 /\ Hls!At(b, "making", k)' <=> Hls!At(b, "making", k)
           /\ \A k \in HlsKey :
                 /\ Begins(c, k)' <=> (call.at \in {"clearing", "making"} /\ call.key = k)
                 /\ Hls!At(c, "making", k)' <=> (call.at = "making" /\ call.key = k)
  BY DEF HlsTypes, Begins, Hls!At

\* What takes directories away takes none of a stream that runs and is not excused.
LEMMA TakenAway ==
    ASSUME HlsInv, NEW swept \in SUBSET Hls!Dir,
           dir' = [d \in Hls!Dir |-> IF d \in swept THEN "none" ELSE dir[d]],
           UNCHANGED << processes, ffmpeg, ofKey, exited, raced >>,
           \A k \in HlsKey : Hls!StreamDir(k) \in swept => Excused(k) \/ ~Hls!Running(k)
    PROVE  /\ dir' \in [Hls!Dir -> {"none", "empty", "fresh", "old"}]
           /\ \A d \in Hls!Dir : dir'[d] = dir[d] \/ dir'[d] = "none"
           /\ Hls!OneFfmpeg'
<1> USE DEF HlsInv
<1>1. /\ dir' \in [Hls!Dir -> {"none", "empty", "fresh", "old"}]
      /\ \A d \in Hls!Dir : dir'[d] = IF d \in swept THEN "none" ELSE dir[d]
  BY Zenon DEF HlsTypes
<1>2. ASSUME NEW p \in Hls!Proc, Hls!Alive(p)', NEW k, k = ofKey[p], ~raced[k], ~Hls!Shared(k)
      PROVE  processes[k] = p /\ dir'[Hls!StreamDir(k)] # "none"
  <2>1. Hls!Alive(p) /\ k \in HlsKey
    BY <1>2 DEF Hls!Alive, HlsTypes
  <2>2. processes[k] = p /\ dir[Hls!StreamDir(k)] # "none"
    BY <1>2, <2>1 DEF Hls!OneFfmpeg
  <2>3. Hls!Running(k)
    BY <2>1, <2>2, NoProcZero DEF Hls!Running, Hls!Alive, Hls!None, ExitsNoted
  <2>4. Hls!StreamDir(k) \notin swept /\ Hls!StreamDir(k) \in Hls!Dir
    BY <1>2, <2>1, <2>3, OwnDirectory DEF Excused
  <2> QED
    BY <1>1, <2>2, <2>4
<1>3. ASSUME NEW p \in Hls!Proc, Hls!Alive(p)', NEW k, k = ofKey[p], ~raced[k]
      PROVE  processes[k] = p
  BY <1>3 DEF Hls!OneFfmpeg, Hls!Alive
<1>4. Hls!OneFfmpeg'
  BY <1>2, <1>3, Zenon DEF Hls!OneFfmpeg
<1> QED
  BY <1>1, <1>4

\* Calls that begin nothing new, and a call that ends, disturb nothing.
LEMMA CallKeeps ==
    ASSUME HlsInv, NEW c \in Caller, NEW k \in HlsKey,
           \/ Hls!EnsureRunning(c, k) \/ Hls!Decline(c, k) \/ Hls!Check(c, k)
           \/ Hls!Cleared(c, k)
    PROVE  HlsInv'
<1> USE DEF HlsInv
<1>0. Hls!NoCall \in [at : {"none", "checking", "clearing", "making"}, key : HlsKey]
      /\ Hls!NoCall.at = "none"
  <2>1. (CHOOSE j \in HlsKey : TRUE) \in HlsKey
    OBVIOUS
  <2> QED
    BY <2>1 DEF Hls!NoCall
<1>1. PICK call \in [at : {"none", "checking", "clearing", "making"}, key : HlsKey] :
         /\ calls' = [calls EXCEPT ![c] = call]
         /\ call.at \in {"clearing", "making"} =>
               call.key = k /\ (Hls!Check(c, k) \/ Begins(c, k))
         /\ call.at = "making" => call.key = k /\ Hls!Cleared(c, k)
  BY <1>0 DEF Hls!EnsureRunning, Hls!Decline, Hls!Check, Hls!Cleared, Hls!Move, Begins
<1>2. /\ calls' \in [Caller -> [at : {"none", "checking", "clearing", "making"}, key : HlsKey]]
      /\ \A b \in Caller, j \in HlsKey :
            /\ Begins(b, j)' => Begins(b, j) \/ (b = c /\ j = k /\ Hls!Check(c, k))
            /\ Hls!At(b, "making", j)' =>
                  Hls!At(b, "making", j) \/ (b = c /\ j = k /\ Hls!Cleared(c, k))
  <2>1. /\ calls' \in [Caller -> [at : {"none", "checking", "clearing", "making"}, key : HlsKey]]
        /\ \A b \in Caller \ {c}, j \in HlsKey :
              /\ Begins(b, j)' <=> Begins(b, j)
              /\ Hls!At(b, "making", j)' <=> Hls!At(b, "making", j)
        /\ \A j \in HlsKey :
              /\ Begins(c, j)' <=> (call.at \in {"clearing", "making"} /\ call.key = j)
              /\ Hls!At(c, "making", j)' <=> (call.at = "making" /\ call.key = j)
    BY <1>1, CallMoves, Zenon
  <2> QED
    BY <1>1, <2>1
<1>3. /\ UNCHANGED << processes, ffmpeg, ofKey, exited, sweep >>
      /\ backoff' \in [HlsKey -> BOOLEAN] /\ raced' \in [HlsKey -> BOOLEAN]
      /\ \A j \in HlsKey : raced[j] => raced'[j]
  BY ZenonT(60) DEF HlsTypes, Hls!EnsureRunning, Hls!Decline, Hls!Check, Hls!Cleared
<1>4. \A j \in HlsKey : (Hls!Running(j)' <=> Hls!Running(j)) /\ (Excused(j) => Excused(j)')
  BY <1>3 DEF Hls!Running, Excused
<1>5. ExitsNoted'
  BY <1>3 DEF ExitsNoted
<1>6. BeginsAlone'
  <2>1. CASE Hls!Check(c, k)
    <3>1. raced'[k] \/ (~Hls!Running(k) /\ Hls!StreamDir(k) \notin sweep.chosen
                        /\ \A b \in Caller \ {c} : ~Begins(b, k))
      BY <2>1, Zenon DEF Hls!Check, Hls!Starting, Begins, HlsTypes
    <3> QED
      BY <1>2, <1>3, <1>4, <3>1 DEF BeginsAlone
  <2>2. CASE ~Hls!Check(c, k)
    BY <1>2, <1>3, <1>4, <2>2 DEF BeginsAlone
  <2> QED
    BY <2>1, <2>2
<1>7. CASE Hls!Cleared(c, k)
  <2>1. raced[k] \/ ~Hls!Running(k)
    BY <1>7 DEF Hls!Cleared, BeginsAlone, Begins
  <2>2. PICK swept \in SUBSET Hls!Dir :
           swept = {d \in Hls!Dir : Hls!Within(d, Hls!StreamDir(k))}
    OBVIOUS
  <2>3. dir' = [d \in Hls!Dir |-> IF d \in swept THEN "none" ELSE dir[d]] /\ UNCHANGED raced
    BY <1>7, <2>2 DEF Hls!Cleared
  <2>4. ASSUME NEW j \in HlsKey, Hls!StreamDir(j) \in swept
        PROVE  Excused(j) \/ ~Hls!Running(j)
    <3>1. j # k => Hls!Shared(j)
      BY <2>2, <2>4, OwnDirectory
    <3> QED
      BY <2>1, <3>1 DEF Excused
  <2>5. /\ dir' \in [Hls!Dir -> {"none", "empty", "fresh", "old"}]
        /\ \A d \in Hls!Dir : dir'[d] = dir[d] \/ dir'[d] = "none"
        /\ Hls!OneFfmpeg'
    BY <1>3, <2>3, <2>4, TakenAway, Zenon
  <2>6. dir'[Hls!StreamDir(k)] = "none"
    <3>1. Hls!StreamDir(k) \in swept /\ Hls!StreamDir(k) \in Hls!Dir
      BY <2>2, OwnDirectory
    <3> QED
      BY <2>3, <3>1
  <2>7. HlsTypes'
    BY <1>2, <1>3, <2>5 DEF HlsTypes
  <2>8. MakesAfresh'
    <3> SUFFICES ASSUME NEW b \in Caller, NEW j \in HlsKey, Hls!At(b, "making", j)', ~Excused(j)'
                 PROVE  dir'[Hls!StreamDir(j)] \in {"none", "empty"}
      BY DEF MakesAfresh
    <3>1. CASE Hls!At(b, "making", j)
      <4>1. dir[Hls!StreamDir(j)] \in {"none", "empty"} /\ Hls!StreamDir(j) \in Hls!Dir
        BY <1>4, <3>1, OwnDirectory DEF MakesAfresh
      <4> QED
        BY <2>5, <4>1
    <3>2. CASE j = k
      BY <2>6, <3>2
    <3> QED
      BY <1>2, <3>1, <3>2
  <2>9. SweepsIdle'
    <3>1. \A j \in HlsKey : dir'[Hls!StreamDir(j)] = "old" => dir[Hls!StreamDir(j)] = "old"
      BY <2>5, OwnDirectory
    <3> QED
      BY <1>3, <1>4, <3>1 DEF SweepsIdle
  <2> QED
    BY <1>5, <1>6, <2>5, <2>7, <2>8, <2>9
<1>8. CASE ~Hls!Cleared(c, k)
  <2>1. UNCHANGED dir
    BY <1>8 DEF Hls!EnsureRunning, Hls!Decline, Hls!Check
  <2>2. HlsTypes'
    BY <1>2, <1>3, <2>1 DEF HlsTypes
  <2>3. MakesAfresh'
    BY <1>2, <1>4, <1>8, <2>1 DEF MakesAfresh
  <2>4. SweepsIdle'
    BY <1>3, <1>4, <2>1 DEF SweepsIdle
  <2>5. Hls!OneFfmpeg'
    BY <1>3, <2>1 DEF Hls!OneFfmpeg, Hls!Alive, HlsTypes
  <2> QED
    BY <1>5, <1>6, <2>2, <2>3, <2>4, <2>5
<1> QED
  BY <1>7, <1>8

\* The call that spawns is alone with its stream, or the stream is raced: the process that
\* the entry had has exited.
LEMMA HlsSpawnKeeps ==
    ASSUME HlsInv, NEW c \in Caller, NEW k \in HlsKey, NEW p \in Hls!Proc, Hls!Spawn(c, k, p)
    PROVE  HlsInv'
<1> USE DEF HlsInv
<1>0. Hls!NoCall \in [at : {"none", "checking", "clearing", "making"}, key : HlsKey]
      /\ Hls!NoCall.at = "none"
  <2>1. (CHOOSE j \in HlsKey : TRUE) \in HlsKey
    OBVIOUS
  <2> QED
    BY <2>1 DEF Hls!NoCall
<1>1. /\ calls' \in [Caller -> [at : {"none", "checking", "clearing", "making"}, key : HlsKey]]
      /\ \A b \in Caller, j \in HlsKey :
            /\ Begins(b, j)' => b # c /\ Begins(b, j)
            /\ Hls!At(b, "making", j)' => Hls!At(b, "making", j)
  <2>1. calls' = [calls EXCEPT ![c] = Hls!NoCall]
    BY DEF Hls!Spawn
  <2>2. PICK call \in [at : {"none", "checking", "clearing", "making"}, key : HlsKey] :
           call = Hls!NoCall /\ call.at = "none" /\ calls' = [calls EXCEPT ![c] = call]
    BY <1>0, <2>1, Zenon
  <2> QED
    BY <2>2, CallMoves
<1>2. \A j \in HlsKey : processes[j] # p
  BY NoProcZero DEF Hls!Spawn, HlsTypes, ExitsNoted
<1>3. /\ dir' \in [Hls!Dir -> {"none", "empty", "fresh", "old"}]
      /\ \A d \in Hls!Dir : \/ dir'[d] = dir[d] /\ ~(dir[d] = "none" /\ d = Hls!StreamDir(k))
                            \/ dir[d] = "none" /\ dir'[d] = "empty"
  <2>1. dir' = [d \in Hls!Dir |-> IF dir[d] = "none" /\ Hls!Within(Hls!StreamDir(k), d)
                                  THEN "empty" ELSE dir[d]]
    BY Zenon DEF Hls!Spawn
  <2>2. \A d \in Hls!Dir : d = Hls!StreamDir(k) => Hls!Within(Hls!StreamDir(k), d)
    BY OwnDirectory
  <2>3. dir' \in [Hls!Dir -> {"none", "empty", "fresh", "old"}]
    BY <2>1, Zenon DEF HlsTypes
  <2> QED
    BY <2>1, <2>2, <2>3
<1>4. /\ ffmpeg' \in [Hls!Proc -> {"none", "live", "ending", "ended", "unborn"}]
      /\ ffmpeg'[p] \in {"live", "unborn"}
      /\ \A q \in Hls!Proc \ {p} : ffmpeg'[q] = ffmpeg[q] /\ ofKey'[q] = ofKey[q]
      /\ ofKey' \in [Hls!Proc -> HlsKey] /\ ofKey'[p] = k
      /\ processes' \in [HlsKey -> {0} \cup Hls!Proc] /\ processes'[k] = p
      /\ \A j \in HlsKey \ {k} : processes'[j] = processes[j]
      /\ UNCHANGED << exited, sweep, raced >> /\ ffmpeg[p] = "none"
      /\ backoff' \in [HlsKey -> BOOLEAN]
  BY DEF Hls!Spawn, HlsTypes
<1>5. HlsTypes'
  BY <1>1, <1>3, <1>4 DEF HlsTypes
<1>6. ExitsNoted'
  BY <1>2, <1>4 DEF ExitsNoted, HlsTypes
<1>7. /\ Begins(c, k) /\ Hls!At(c, "making", k)
      /\ \A j \in HlsKey \ {k} : Hls!Running(j)' <=> Hls!Running(j)
      /\ \A j \in HlsKey : Excused(j)' <=> Excused(j)
  BY <1>2, <1>4 DEF Hls!Spawn, Hls!Running, Begins, Excused
<1>8. BeginsAlone'
  <2>1. \A b \in Caller : Begins(b, k)' => raced[k]
    BY <1>1, <1>7 DEF BeginsAlone
  <2> QED
    BY <1>1, <1>4, <1>7, <2>1 DEF BeginsAlone
<1>9. MakesAfresh'
  <2> SUFFICES ASSUME NEW b \in Caller, NEW j \in HlsKey, Hls!At(b, "making", j)', ~Excused(j)'
               PROVE  dir'[Hls!StreamDir(j)] \in {"none", "empty"}
    BY DEF MakesAfresh
  <2>1. dir[Hls!StreamDir(j)] \in {"none", "empty"} /\ Hls!StreamDir(j) \in Hls!Dir
    BY <1>1, <1>7, OwnDirectory DEF MakesAfresh
  <2> QED
    BY <1>3, <2>1
<1>10. SweepsIdle'
  <2>1. Hls!StreamDir(k) \in sweep.chosen => raced[k]
    BY <1>7 DEF BeginsAlone
  <2>2. Excused(k) \/ dir'[Hls!StreamDir(k)] = "empty"
    <3>1. Excused(k) \/ dir[Hls!StreamDir(k)] \in {"none", "empty"}
      BY <1>7 DEF MakesAfresh
    <3> QED
      BY <1>3, <3>1, OwnDirectory
  <2>3. \A j \in HlsKey : dir'[Hls!StreamDir(j)] = "old" => dir[Hls!StreamDir(j)] = "old"
    BY <1>3, OwnDirectory
  <2>4. ASSUME NEW j \in HlsKey,
               \/ Hls!StreamDir(j) \in sweep.dirs /\ dir'[Hls!StreamDir(j)] = "old"
               \/ Hls!StreamDir(j) \in sweep.chosen
        PROVE  Excused(j) \/ ~Hls!Running(j)'
    <3>1. CASE j = k
      BY <2>1, <2>2, <2>4, <3>1 DEF Excused
    <3>2. CASE j # k
      BY <1>7, <2>3, <2>4, <3>2 DEF SweepsIdle
    <3> QED
      BY <3>1, <3>2
  <2> QED
    BY <1>4, <1>7, <2>4 DEF SweepsIdle
<1>11. Hls!OneFfmpeg'
  <2> SUFFICES ASSUME NEW q \in Hls!Proc, Hls!Alive(q)', NEW j, j = ofKey'[q], ~raced'[j]
               PROVE  processes'[j] = q /\ (Hls!Shared(j) \/ dir'[Hls!StreamDir(j)] # "none")
    BY Zenon DEF Hls!OneFfmpeg
  <2>1. CASE q = p
    <3>1. dir'[Hls!StreamDir(k)] # "none"
      BY <1>3, OwnDirectory
    <3> QED
      BY <1>4, <2>1, <3>1
  <2>2. CASE q # p
    <3>1. Hls!Alive(q) /\ ofKey[q] = j /\ j \in HlsKey /\ ~raced[j]
      BY <1>4, <2>2 DEF Hls!Alive
    <3>2. processes[j] = q /\ (Hls!Shared(j) \/ dir[Hls!StreamDir(j)] # "none")
      BY <3>1, Zenon DEF Hls!OneFfmpeg
    <3>3. j # k
      BY <1>7, <3>1, <3>2, NoProcZero
         DEF BeginsAlone, Hls!Running, Hls!Alive, Hls!None, ExitsNoted
    <3>4. dir[Hls!StreamDir(j)] # "none" => dir'[Hls!StreamDir(j)] # "none"
      BY <1>3, <3>1, OwnDirectory
    <3> QED
      BY <1>4, <3>1, <3>2, <3>3, <3>4
  <2> QED
    BY <2>1, <2>2
<1> QED
  BY <1>5, <1>6, <1>8, <1>9, <1>10, <1>11

\* A process writes, or ends; time goes by; a stream is stopped.
LEMMA FfmpegKeeps ==
    ASSUME HlsInv,
           \/ \E p \in Hls!Proc : Hls!Write(p) \/ Hls!Exit(p)
           \/ \E k \in HlsKey : Hls!Age(k) \/ Hls!Stop(k)
    PROVE  HlsInv'
<1> USE DEF HlsInv
<1>1. ASSUME NEW p \in Hls!Proc, Hls!Write(p) PROVE HlsInv'
  <2>1. PICK k \in HlsKey : k = ofKey[p]
    BY DEF HlsTypes
  <2>2. /\ dir' = [dir EXCEPT ![Hls!StreamDir(k)] = "fresh"]
        /\ UNCHANGED << calls, processes, ffmpeg, ofKey, exited, backoff, sweep, raced >>
        /\ Hls!Alive(p)
    BY <1>1, <2>1, Zenon DEF Hls!Write
  <2>3. /\ dir' \in [Hls!Dir -> {"none", "empty", "fresh", "old"}]
        /\ \A d \in Hls!Dir : dir'[d] = IF d = Hls!StreamDir(k) THEN "fresh" ELSE dir[d]
    BY <2>2, OwnDirectory DEF HlsTypes
  <2>4. HlsTypes' /\ ExitsNoted'
    BY <2>2, <2>3 DEF HlsTypes, ExitsNoted
  <2>5. BeginsAlone'
    BY <2>2 DEF BeginsAlone, Begins, Hls!At, Hls!Running
  <2>6. MakesAfresh'
    <3> SUFFICES ASSUME NEW c \in Caller, NEW j \in HlsKey, Hls!At(c, "making", j), ~Excused(j)
                 PROVE  dir'[Hls!StreamDir(j)] \in {"none", "empty"}
      BY <2>2 DEF MakesAfresh, Excused, Hls!At
    <3>1. dir[Hls!StreamDir(j)] \in {"none", "empty"} /\ Hls!StreamDir(j) \in Hls!Dir
      BY OwnDirectory DEF MakesAfresh
    <3>2. Hls!StreamDir(j) # Hls!StreamDir(k)
      <4>1. CASE j = k
        <5>1. processes[j] = p
          BY <2>1, <2>2, <4>1 DEF Hls!OneFfmpeg, Excused
        <5>2. Hls!Running(j)
          BY <2>2, <5>1, NoProcZero DEF Hls!Running, Hls!Alive, Hls!None, ExitsNoted
        <5> QED
          BY <5>2 DEF BeginsAlone, Begins, Excused
      <4>2. CASE j # k
        BY <4>2, OwnDirectory DEF Excused
      <4> QED
        BY <4>1, <4>2
    <3> QED
      BY <2>3, <3>1, <3>2
  <2>7. SweepsIdle'
    <3>1. \A j \in HlsKey : dir'[Hls!StreamDir(j)] = "old" => dir[Hls!StreamDir(j)] = "old"
      BY <2>3, OwnDirectory
    <3>2. \A j \in HlsKey : (Excused(j)' <=> Excused(j)) /\ (Hls!Running(j)' <=> Hls!Running(j))
      BY <2>2 DEF Excused, Hls!Running
    <3> QED
      BY <2>2, <3>1, <3>2 DEF SweepsIdle
  <2>8. Hls!OneFfmpeg'
    <3>1. \A j \in HlsKey : dir[Hls!StreamDir(j)] # "none" => dir'[Hls!StreamDir(j)] # "none"
      BY <2>3, OwnDirectory
    <3> QED
      BY <2>2, <3>1 DEF Hls!OneFfmpeg, Hls!Alive, HlsTypes
  <2> QED
    BY <2>4, <2>5, <2>6, <2>7, <2>8
<1>2. ASSUME NEW p \in Hls!Proc, Hls!Exit(p) PROVE HlsInv'
  <2>1. HlsTypes' /\ ExitsNoted'
    BY <1>2 DEF Hls!Exit, HlsTypes, ExitsNoted
  <2>2. /\ \A k \in HlsKey : Hls!Running(k)' => Hls!Running(k)
        /\ UNCHANGED << calls, dir, sweep, raced, processes, ofKey >>
    BY <1>2 DEF Hls!Exit, Hls!Running, HlsTypes
  <2>3. BeginsAlone' /\ MakesAfresh'
    BY <2>2 DEF BeginsAlone, MakesAfresh, Begins, Hls!At, Excused
  <2>4. SweepsIdle'
    BY <2>2 DEF SweepsIdle, Excused
  <2>5. Hls!OneFfmpeg'
    BY <1>2, <2>2 DEF Hls!Exit, Hls!OneFfmpeg, Hls!Alive, HlsTypes
  <2> QED
    BY <2>1, <2>3, <2>4, <2>5
<1>3. ASSUME NEW k \in HlsKey, Hls!Age(k) PROVE HlsInv'
  <2>1. /\ dir' \in [Hls!Dir -> {"none", "empty", "fresh", "old"}]
        /\ \A d \in Hls!Dir : dir'[d] = dir[d] \/ (dir[d] = "fresh" /\ dir'[d] = "old")
        /\ dir' = dir \/ sweep = Hls!NoSweep
    <3>1. CASE dir' = dir
      BY <3>1 DEF HlsTypes
    <3>2. CASE /\ dir[Hls!StreamDir(k)] = "fresh" /\ sweep = Hls!NoSweep
               /\ dir' = [dir EXCEPT ![Hls!StreamDir(k)] = "old"]
      BY <3>2, OwnDirectory DEF HlsTypes
    <3> QED
      BY <1>3, <3>1, <3>2 DEF Hls!Age
  <2>2. /\ UNCHANGED << calls, processes, ffmpeg, ofKey, exited, sweep, raced >>
        /\ backoff' \in [HlsKey -> BOOLEAN]
    BY <1>3, ZenonT(60) DEF Hls!Age, HlsTypes
  <2>3. HlsTypes' /\ ExitsNoted'
    BY <2>1, <2>2 DEF HlsTypes, ExitsNoted
  <2>4. BeginsAlone'
    BY <2>2 DEF BeginsAlone, Begins, Hls!At, Hls!Running
  <2>5. MakesAfresh'
    <3>1. \A j \in HlsKey : dir[Hls!StreamDir(j)] \in {"none", "empty"} =>
             dir'[Hls!StreamDir(j)] \in {"none", "empty"}
      BY <2>1, OwnDirectory
    <3> QED
      BY <2>2, <3>1 DEF MakesAfresh, Hls!At, Excused
  <2>6. SweepsIdle'
    BY <2>1, <2>2 DEF SweepsIdle, Hls!Running, Hls!NoSweep, Excused
  <2>7. Hls!OneFfmpeg'
    <3>1. \A j \in HlsKey : dir[Hls!StreamDir(j)] # "none" => dir'[Hls!StreamDir(j)] # "none"
      BY <2>1, OwnDirectory
    <3> QED
      BY <2>2, <3>1 DEF Hls!OneFfmpeg, Hls!Alive, HlsTypes
  <2> QED
    BY <2>3, <2>4, <2>5, <2>6, <2>7
<1>4. ASSUME NEW k \in HlsKey, Hls!Stop(k) PROVE HlsInv'
  <2>1. processes[k] \in Hls!Proc /\ ffmpeg[processes[k]] # "none"
    BY <1>4 DEF Hls!Stop, Hls!Running, Hls!None, HlsTypes, ExitsNoted
  <2>2. \E left \in {"live", "ending", "ended", "unborn"} :
           /\ ffmpeg' = [ffmpeg EXCEPT ![processes[k]] = left]
           /\ left = "ended" <=> ffmpeg[processes[k]] = "ended"
           /\ left \in {"live", "ending"} <=> Hls!Alive(processes[k])
    BY <1>4, <2>1, Zenon DEF Hls!Stop, Hls!Kill, Hls!Alive, HlsTypes
  <2>3. HlsTypes' /\ ExitsNoted'
    BY <1>4, <2>1, <2>2 DEF Hls!Stop, HlsTypes, ExitsNoted
  <2>4. BeginsAlone' /\ MakesAfresh'
    BY <1>4 DEF Hls!Stop, BeginsAlone, MakesAfresh, Begins, Hls!At, Hls!Running, Excused
  <2>5. SweepsIdle'
    BY <1>4 DEF Hls!Stop, SweepsIdle, Hls!Running, Excused
  <2>6. Hls!OneFfmpeg'
    BY <1>4, <2>1, <2>2 DEF Hls!Stop, Hls!OneFfmpeg, Hls!Alive, HlsTypes
  <2> QED
    BY <2>3, <2>4, <2>5, <2>6
<1> QED
  BY <1>1, <1>2, <1>3, <1>4

\* The clean-up takes away no directory of a stream that runs, unless it is another's.
LEMMA SweepKeeps ==
    ASSUME HlsInv,
           Hls!Sweep \/ Hls!Removed \/ Hls!SweepEnds \/ \E d \in Hls!Dir : Hls!Look(d)
    PROVE  HlsInv'
<1> USE DEF HlsInv
<1>1. CASE Hls!Sweep
  <2>1. HlsTypes' /\ ExitsNoted'
    BY <1>1 DEF Hls!Sweep, HlsTypes, ExitsNoted
  <2>2. BeginsAlone' /\ MakesAfresh'
    BY <1>1 DEF Hls!Sweep, Hls!NoSweep, BeginsAlone, MakesAfresh, Begins, Hls!At, Hls!Running,
                Excused
  <2>3. SweepsIdle'
    BY <1>1 DEF Hls!Sweep, Hls!ActiveDirs, SweepsIdle, Hls!Running
  <2>4. Hls!OneFfmpeg'
    BY <1>1 DEF Hls!Sweep, Hls!OneFfmpeg, Hls!Alive
  <2> QED
    BY <2>1, <2>2, <2>3, <2>4
<1>2. CASE Hls!Removed
  <2>1. PICK swept \in SUBSET Hls!Dir :
           swept = {d \in Hls!Dir : \E e \in sweep.chosen : Hls!Within(d, e)}
    OBVIOUS
  <2>2. /\ dir' = [d \in Hls!Dir |-> IF d \in swept THEN "none" ELSE dir[d]]
        /\ UNCHANGED << calls, processes, ffmpeg, ofKey, exited, backoff, raced >>
        /\ sweep' = [sweep EXCEPT !.at = "looking", !.chosen = {}]
    BY <1>2, <2>1 DEF Hls!Removed
  <2>3. ASSUME NEW k \in HlsKey, Hls!StreamDir(k) \in swept
        PROVE  Excused(k) \/ ~Hls!Running(k)
    <3>1. PICK e \in sweep.chosen : Hls!Within(Hls!StreamDir(k), e)
      BY <2>1, <2>3
    <3>2. PICK j \in HlsKey : e = Hls!StreamDir(j)
      BY <3>1 DEF HlsTypes, Hls!Dir
    <3>3. CASE j = k
      BY <3>1, <3>2, <3>3 DEF SweepsIdle
    <3>4. CASE j # k
      BY <3>1, <3>2, <3>4, OwnDirectory DEF Excused
    <3> QED
      BY <3>3, <3>4
  <2>4. /\ dir' \in [Hls!Dir -> {"none", "empty", "fresh", "old"}]
        /\ \A d \in Hls!Dir : dir'[d] = dir[d] \/ dir'[d] = "none"
        /\ Hls!OneFfmpeg'
    BY <2>2, <2>3, TakenAway, Zenon
  <2>5. /\ sweep' \in [at : {"none", "looking", "removing"}, dirs : SUBSET Hls!Dir,
                       chosen : SUBSET Hls!Dir]
        /\ sweep'.at = "looking" /\ sweep'.chosen = {} /\ sweep'.dirs = sweep.dirs
    BY <2>2 DEF HlsTypes
  <2>6. HlsTypes' /\ ExitsNoted'
    BY <2>2, <2>4, <2>5 DEF HlsTypes, ExitsNoted
  <2>7. /\ \A k \in HlsKey : /\ Excused(k)' <=> Excused(k)
                             /\ Hls!Running(k)' <=> Hls!Running(k)
                             /\ raced'[k] = raced[k]
        /\ \A c \in Caller, k \in HlsKey : /\ Begins(c, k)' <=> Begins(c, k)
                                           /\ Hls!At(c, "making", k)' <=> Hls!At(c, "making", k)
    BY <2>2 DEF Excused, Hls!Running, Begins, Hls!At
  <2>8. BeginsAlone'
    BY <2>5, <2>7 DEF BeginsAlone
  <2>9. MakesAfresh'
    <3>1. \A k \in HlsKey : dir[Hls!StreamDir(k)] \in {"none", "empty"} =>
             dir'[Hls!StreamDir(k)] \in {"none", "empty"}
      BY <2>4, OwnDirectory
    <3> QED
      BY <2>7, <3>1 DEF MakesAfresh
  <2>10. SweepsIdle'
    <3>1. \A k \in HlsKey : dir'[Hls!StreamDir(k)] = "old" => dir[Hls!StreamDir(k)] = "old"
      BY <2>4, OwnDirectory
    <3> QED
      BY <2>5, <2>7, <3>1 DEF SweepsIdle
  <2> QED
    BY <2>4, <2>6, <2>8, <2>9, <2>10
<1>3. CASE Hls!SweepEnds
  <2>1. HlsTypes' /\ ExitsNoted'
    BY <1>3 DEF Hls!SweepEnds, HlsTypes, ExitsNoted, Hls!NoSweep
  <2>2. BeginsAlone' /\ MakesAfresh'
    BY <1>3 DEF Hls!SweepEnds, Hls!NoSweep, BeginsAlone, MakesAfresh, Begins, Hls!At, Hls!Running,
                Excused
  <2>3. SweepsIdle' /\ Hls!OneFfmpeg'
    BY <1>3 DEF Hls!SweepEnds, Hls!NoSweep, SweepsIdle, Hls!OneFfmpeg, Hls!Alive, Hls!Running
  <2> QED
    BY <2>1, <2>2, <2>3
<1>4. ASSUME NEW d \in Hls!Dir, Hls!Look(d) PROVE HlsInv'
  <2>1. /\ \/ sweep' = Hls!NoSweep
           \/ /\ dir[d] = "old"
              /\ sweep' = [at |-> "removing", dirs |-> sweep.dirs \ {d}, chosen |-> {d}]
           \/ sweep' = [sweep EXCEPT !.dirs = @ \ {d}]
        /\ d \in sweep.dirs
    BY <1>4 DEF Hls!Look
  <2>2. /\ sweep' \in [at : {"none", "looking", "removing"}, dirs : SUBSET Hls!Dir,
                       chosen : SUBSET Hls!Dir]
        /\ (sweep'.at = "none" => sweep'.dirs = {} /\ sweep'.chosen = {})
        /\ sweep'.dirs \subseteq sweep.dirs
        /\ sweep'.chosen \subseteq sweep.chosen \/ (dir[d] = "old" /\ sweep'.chosen = {d})
    BY <2>1 DEF HlsTypes, SweepsIdle, Hls!NoSweep
  <2>3. /\ raced' \in [HlsKey -> BOOLEAN]
        /\ \A k \in HlsKey :
              /\ raced[k] => raced'[k]
              /\ Hls!StreamDir(k) = d /\ dir[d] = "old" =>
                    raced'[k] \/ \A c \in Caller : ~Begins(c, k)
    BY <1>4, Zenon DEF Hls!Look, HlsTypes, Begins
  <2>4. UNCHANGED << calls, processes, ffmpeg, ofKey, exited, backoff, dir >>
    BY <1>4 DEF Hls!Look
  <2>5. HlsTypes' /\ ExitsNoted'
    BY <2>2, <2>3, <2>4 DEF HlsTypes, ExitsNoted
  <2>6. \A k \in HlsKey : /\ Hls!Running(k)' <=> Hls!Running(k)
                          /\ Excused(k) => Excused(k)'
                          /\ \A c \in Caller : /\ Begins(c, k)' <=> Begins(c, k)
                                               /\ Hls!At(c, "making", k)' <=> Hls!At(c, "making", k)
    BY <2>3, <2>4 DEF Hls!Running, Begins, Hls!At, Excused
  <2>7. BeginsAlone'
    BY <2>2, <2>3, <2>6 DEF BeginsAlone
  <2>8. MakesAfresh'
    BY <2>4, <2>6 DEF MakesAfresh
  <2>9. SweepsIdle'
    <3>1. ASSUME NEW k \in HlsKey,
                 \/ Hls!StreamDir(k) \in sweep'.dirs /\ dir[Hls!StreamDir(k)] = "old"
                 \/ Hls!StreamDir(k) \in sweep'.chosen
          PROVE  Excused(k) \/ ~Hls!Running(k)
      BY <2>1, <2>2, <3>1 DEF SweepsIdle
    <3> QED
      BY <2>2, <2>4, <2>6, <3>1 DEF SweepsIdle
  <2>10. Hls!OneFfmpeg'
    BY <2>3, <2>4 DEF Hls!OneFfmpeg, Hls!Alive, HlsTypes
  <2> QED
    BY <2>5, <2>7, <2>8, <2>9, <2>10
<1> QED
  BY <1>1, <1>2, <1>3, <1>4

\* An ffmpeg that lives is the one that its stream's entry has, and - unless that is inside
\* another stream's - has its directory; except where two calls, or a call and the clean-up,
\* were in each other's way (hls_manager.js, ensureRunning and cleanupStaleOutputs).
THEOREM OneFfmpegHolds ==
    Spec => []OneFfmpeg
<1> DEFINE Inv == part = "hls" => HlsInv
<1>1. Init => Inv
  BY InitOfPart, HlsInit
<1>2. Inv /\ [Next]_allVars => Inv'
  <2> SUFFICES ASSUME part = "hls", HlsInv, [Next]_allVars PROVE HlsInv'
    BY StepOfPart
  <2>1. CASE Hls!Next
    BY <2>1, CallKeeps, HlsSpawnKeeps, FfmpegKeeps, SweepKeeps DEF Hls!Next
  <2>2. CASE UNCHANGED hlsVs
    BY <2>2 DEF hlsVs, HlsInv, HlsTypes, ExitsNoted, BeginsAlone, MakesAfresh, Excused, Begins,
                Hls!At, Hls!Running, SweepsIdle, Hls!OneFfmpeg, Hls!Alive
  <2> QED
    BY <2>1, <2>2, StepOfPart
<1>3. Inv => OneFfmpeg
  BY DEF HlsInv, OneFfmpeg
<1> QED
  BY <1>1, <1>2, <1>3, PTL DEF Spec, allVars

-----------------------------------------------------------------------------
(* The recordings of the console *)

RecordingTypes ==
    /\ starting \in [Starter -> SUBSET RecordingKey]
    /\ recordings \in [RecordingKey -> {0} \cup Recordings!Recorder]
    /\ recorder \in [Recordings!Recorder -> {"none", "live", "ending", "ended", "unborn"}]
    /\ ofStream \in [Recordings!Recorder -> RecordingKey]
    /\ crowded \in [RecordingKey -> BOOLEAN]

\* A stream that one call is starting has no recorder in the map that has not ended
\* and is started by no other call, unless it is crowded.
StartsAlone ==
    \A c \in Starter : \A k \in starting[c] :
       crowded[k] \/ (~Recordings!Recording(k) /\ \A d \in Starter \ {c} : k \notin starting[d])

\* A process that is not started yet is in no entry.
MapsStarted == \A k \in RecordingKey : recordings[k] # 0 => recorder[recordings[k]] # "none"

RecordingInv == RecordingTypes /\ StartsAlone /\ MapsStarted /\ Recordings!OneRecorder

LEMMA NoRecorderZero ==
    0 \notin Recordings!Recorder
  BY RecordingAssumption DEF Recordings!RecordingBounds, Recordings!Recorder

LEMMA RecordingInit ==
    ASSUME Recordings!Init
    PROVE  RecordingInv
<1>1. 0 \notin Recordings!Recorder
  BY NoRecorderZero
<1>2. (CHOOSE k \in RecordingKey : TRUE) \in RecordingKey
  BY RecordingAssumption DEF Recordings!RecordingBounds
<1> QED
  BY <1>1, <1>2 DEF Recordings!Init, RecordingInv, RecordingTypes, StartsAlone, MapsStarted,
              Recordings!OneRecorder, Recordings!Alive

\* A call that passes the check joins those that start the stream, which is crowded
\* from then on if there is one.
LEMMA RecorderStartKeeps ==
    ASSUME RecordingInv, NEW c \in Starter, NEW k \in RecordingKey, Recordings!Start(c, k)
    PROVE  RecordingInv'
<1> USE DEF RecordingInv
<1>1. RecordingTypes'
  BY DEF RecordingTypes, Recordings!Start
<1>2. \A j \in RecordingKey : crowded[j] => crowded'[j]
  BY DEF RecordingTypes, Recordings!Start
<1>3. \A j \in RecordingKey : Recordings!Recording(j)' = Recordings!Recording(j)
  BY DEF Recordings!Start, Recordings!Recording
<1>4. StartsAlone'
  <2> SUFFICES ASSUME NEW d \in Starter, NEW j \in starting'[d], ~crowded'[j]
               PROVE  ~Recordings!Recording(j)' /\ \A e \in Starter \ {d} : j \notin starting'[e]
    BY DEF StartsAlone
  <2>1. j \in RecordingKey
    BY <1>1 DEF RecordingTypes
  <2>2. ~crowded[j]
    BY <1>2, <2>1
  <2>3. CASE j = k
    <3>1. \A e \in Starter : k \notin starting[e]
      BY <2>3, Zenon DEF Recordings!Start, RecordingTypes
    <3>2. d = c
      BY <2>3, <3>1 DEF Recordings!Start, RecordingTypes
    <3> QED
      BY <1>3, <2>1, <2>3, <3>1, <3>2 DEF Recordings!Start, RecordingTypes
  <2>4. CASE j # k
    <3>1. \A e \in Starter : j \in starting'[e] => j \in starting[e]
      BY <2>4 DEF Recordings!Start, RecordingTypes
    <3> QED
      BY <1>3, <2>1, <2>2, <3>1 DEF StartsAlone
  <2> QED
    BY <2>3, <2>4
<1>5. MapsStarted'
  BY DEF MapsStarted, Recordings!Start
<1>6. Recordings!OneRecorder'
  BY <1>2 DEF Recordings!OneRecorder, Recordings!Alive, RecordingTypes, Recordings!Start
<1> QED
  BY <1>1, <1>4, <1>5, <1>6

\* The call that spawns is alone with its stream, or the stream is crowded: what the
\* entry held has ended, and no other call has the stream.
LEMMA RecorderSpawnKeeps ==
    ASSUME RecordingInv, NEW c \in Starter, NEW k \in RecordingKey, NEW p \in Recordings!Recorder,
           Recordings!Spawn(c, k, p)
    PROVE  RecordingInv'
<1> USE DEF RecordingInv
<1>0. 0 \notin Recordings!Recorder
  BY NoRecorderZero
<1>1. RecordingTypes'
  BY DEF RecordingTypes, Recordings!Spawn
<1>2. \A j \in RecordingKey : recordings[j] # p
  BY <1>0 DEF Recordings!Spawn, RecordingTypes, MapsStarted
<1>3. StartsAlone'
  <2> SUFFICES ASSUME NEW d \in Starter, NEW j \in starting'[d], ~crowded'[j]
               PROVE  ~Recordings!Recording(j)' /\ \A e \in Starter \ {d} : j \notin starting'[e]
    BY DEF StartsAlone
  <2>1. j \in RecordingKey /\ d # c /\ j \in starting[d] /\ ~crowded[j]
    BY <1>1 DEF RecordingTypes, Recordings!Spawn
  <2>2. j # k
    BY <2>1 DEF Recordings!Spawn, StartsAlone
  <2>3. ~Recordings!Recording(j)'
    BY <1>2, <2>1, <2>2 DEF StartsAlone, Recordings!Recording, Recordings!Spawn, RecordingTypes
  <2>4. \A e \in Starter : starting'[e] \subseteq starting[e]
    BY DEF Recordings!Spawn, RecordingTypes
  <2> QED
    BY <2>1, <2>3, <2>4 DEF StartsAlone
<1>4. MapsStarted'
  BY <1>2 DEF MapsStarted, Recordings!Spawn, RecordingTypes
<1>5. Recordings!OneRecorder'
  <2> SUFFICES ASSUME NEW q \in Recordings!Recorder, Recordings!Alive(q)', ~crowded'[ofStream'[q]]
               PROVE  recordings'[ofStream'[q]] = q
    BY DEF Recordings!OneRecorder
  <2>1. CASE q = p
    BY <2>1 DEF Recordings!Spawn, RecordingTypes
  <2>2. CASE q # p
    <3>1. Recordings!Alive(q) /\ ofStream'[q] = ofStream[q] /\ ofStream[q] \in RecordingKey
      BY <2>2 DEF Recordings!Alive, Recordings!Spawn, RecordingTypes
    <3>2. recordings[ofStream[q]] = q /\ ~crowded[ofStream[q]]
      BY <3>1 DEF Recordings!OneRecorder, Recordings!Spawn
    <3>3. ofStream[q] # k
      BY <1>0, <3>1, <3>2 DEF Recordings!Spawn, StartsAlone, Recordings!Recording, Recordings!Alive
    <3> QED
      BY <3>1, <3>2, <3>3 DEF Recordings!Spawn, RecordingTypes
  <2> QED
    BY <2>1, <2>2
<1> QED
  BY <1>1, <1>3, <1>4, <1>5

\* A call that gives up, a request to stop and an exit take no entry away and start
\* nothing.
LEMMA RecorderEndKeeps ==
    ASSUME RecordingInv,
           \/ \E c \in Starter : Recordings!Fail(c)
           \/ \E k \in RecordingKey : Recordings!Stop(k)
           \/ \E p \in Recordings!Recorder : Recordings!Exit(p)
           \/ UNCHANGED Recordings!recordingVars
    PROVE  RecordingInv'
<1> USE DEF RecordingInv
<1>1. ASSUME NEW c \in Starter, Recordings!Fail(c) PROVE RecordingInv'
  <2>1. RecordingTypes'
    BY <1>1 DEF Recordings!Fail, RecordingTypes
  <2>2. \A d \in Starter : starting'[d] \subseteq starting[d]
    BY <1>1 DEF Recordings!Fail, RecordingTypes
  <2>3. StartsAlone'
    BY <1>1, <2>2 DEF StartsAlone, Recordings!Recording, Recordings!Fail
  <2>4. MapsStarted' /\ Recordings!OneRecorder'
    BY <1>1 DEF MapsStarted, Recordings!OneRecorder, Recordings!Alive, Recordings!Fail
  <2> QED
    BY <2>1, <2>3, <2>4
<1>2. ASSUME NEW k \in RecordingKey, Recordings!Stop(k) PROVE RecordingInv'
  <2>1. recordings[k] \in Recordings!Recorder
    BY <1>2 DEF Recordings!Stop, Recordings!Recording, RecordingTypes
  <2>2. RecordingTypes'
    BY <1>2, <2>1 DEF Recordings!Stop, RecordingTypes
  <2>3. \A j \in RecordingKey : Recordings!Recording(j)' = Recordings!Recording(j)
    BY <1>2, <2>1 DEF Recordings!Stop, Recordings!Recording, RecordingTypes
  <2>4. StartsAlone'
    BY <1>2, <2>3 DEF StartsAlone, Recordings!Stop, RecordingTypes
  <2>5. MapsStarted'
    BY <1>2, <2>1 DEF MapsStarted, Recordings!Stop, RecordingTypes
  <2>6. Recordings!OneRecorder'
    BY <1>2, <2>1 DEF Recordings!OneRecorder, Recordings!Alive, Recordings!Stop, RecordingTypes
  <2> QED
    BY <2>2, <2>4, <2>5, <2>6
<1>3. ASSUME NEW p \in Recordings!Recorder, Recordings!Exit(p) PROVE RecordingInv'
  <2>1. RecordingTypes'
    BY <1>3 DEF Recordings!Exit, RecordingTypes
  <2>2. \A j \in RecordingKey : Recordings!Recording(j)' => Recordings!Recording(j)
    BY <1>3 DEF Recordings!Exit, Recordings!Recording, RecordingTypes
  <2>3. StartsAlone'
    BY <1>3, <2>2 DEF StartsAlone, Recordings!Exit, RecordingTypes
  <2>4. MapsStarted'
    BY <1>3 DEF MapsStarted, Recordings!Exit, RecordingTypes
  <2>5. Recordings!OneRecorder'
    BY <1>3 DEF Recordings!OneRecorder, Recordings!Alive, Recordings!Exit, RecordingTypes
  <2> QED
    BY <2>1, <2>3, <2>4, <2>5
<1>4. ASSUME UNCHANGED Recordings!recordingVars PROVE RecordingInv'
  BY <1>4 DEF Recordings!recordingVars, RecordingTypes, StartsAlone,
              Recordings!Recording, MapsStarted, Recordings!OneRecorder, Recordings!Alive
<1> QED
  BY <1>1, <1>2, <1>3, <1>4


\* A recorder that lives is the one the manager knows for its stream, unless two calls of
\* start were under way for the stream at once (recording_manager.js, start and spawn).
THEOREM OneRecorderHolds ==
    Spec => []OneRecorder
<1> DEFINE Inv == part = "recordings" => RecordingInv
<1>1. Init => Inv
  BY InitOfPart, RecordingInit
<1>2. Inv /\ [Next]_allVars => Inv'
  <2> SUFFICES ASSUME part = "recordings", RecordingInv, [Next]_allVars PROVE RecordingInv'
    BY StepOfPart
  <2>1. Recordings!Next \/ UNCHANGED Recordings!recordingVars
    BY StepOfPart DEF recordingsVs, Recordings!recordingVars
  <2> QED
    BY <2>1, RecorderStartKeeps, RecorderSpawnKeeps, RecorderEndKeeps DEF Recordings!Next
<1>3. Inv => OneRecorder
  BY DEF RecordingInv, OneRecorder
<1> QED
  BY <1>1, <1>2, <1>3, PTL DEF Spec, allVars

-----------------------------------------------------------------------------
(* The events of the console *)

Report == [at : {"none", "looping", "removing", "emitting"}, key : EventKey,
           found : SUBSET (Events!Fact \cup {"listed"}), due : SUBSET Events!Fact,
           live : SUBSET EventKey]

EventTypes ==
    /\ reports \in [Reporter -> Report]
    /\ eventState \in [EventKey -> SUBSET (Events!Fact \cup {"listed"})]
    /\ heard \in [EventKey -> SUBSET Events!Paired]
    /\ repeated \in [EventKey -> BOOLEAN]
    /\ overlapped \in [EventKey -> BOOLEAN]

\* What is due are the differences.
Differs(due, told, found) == \A f \in Events!Paired : f \in due <=> ((f \in told) # (f \in found))

\* What holds of a stream that is not overlapped.
Told(k) ==
    /\ ~repeated[k]
    /\ \A r, s \in Reporter : Events!Visiting(r, k) /\ Events!Visiting(s, k) => r = s
    /\ \A r \in Reporter : Events!Visiting(r, k) =>
          Differs(reports[r].due, heard[k], reports[r].found)
    /\ (\A r \in Reporter : ~Events!Visiting(r, k)) => heard[k] = eventState[k] \cap Events!Paired

EventInv == EventTypes /\ \A k \in EventKey : overlapped[k] \/ Told(k)

LEMMA EventInit ==
    ASSUME Events!Init
    PROVE  EventInv
<1>1. (CHOOSE k \in EventKey : TRUE) \in EventKey
  BY EventAssumption DEF Events!EventBounds
<1>2. Events!NoReport \in Report
  BY <1>1 DEF Events!NoReport, Report
<1>3. EventTypes
  BY <1>2 DEF Events!Init, EventTypes
<1>4. \A k \in EventKey : Told(k)
  BY DEF Events!Init, Told, Events!Visiting, Events!NoReport
<1> QED
  BY <1>3, <1>4 DEF EventInv

LEMMA EarliestDue ==
    ASSUME NEW due \in SUBSET Events!Fact, due # {}
    PROVE  Events!Earliest(due) \in due
<1>1. \E f \in due : \/ f = "publisher"
                     \/ f = "viewers" /\ "publisher" \notin due
                     \/ due = {"hls"}
  BY Zenon DEF Events!Fact
<1> QED
  BY <1>1 DEF Events!Earliest

\* A call that was not at another stream goes on at its own, where no other call is and
\* what is due are the differences: the next event is news, and the entry that is
\* written at the end says what the events have said.
LEMMA ProceedKeeps ==
    ASSUME EventInv, NEW r \in Reporter, NEW report \in Report, Events!Proceed(r, report),
           overlapped' \in [EventKey -> BOOLEAN],
           \A k \in EventKey : overlapped[k] => overlapped'[k],
           \A k \in EventKey \ {report.key} : ~Events!Visiting(r, k),
           ~overlapped'[report.key] =>
              /\ ~repeated[report.key]
              /\ \A s \in Reporter \ {r} : ~Events!Visiting(s, report.key)
              /\ Differs(report.due, heard[report.key], report.found)
    PROVE  EventInv'
<1> DEFINE k == report.key
<1> USE DEF EventInv
<1>1. k \in EventKey /\ report.due \in SUBSET Events!Fact
      /\ report.found \in SUBSET (Events!Fact \cup {"listed"}) /\ report.live \in SUBSET EventKey
  BY DEF Report
<1>2. CASE report.due = {}
  <2> DEFINE left == [Events!NoReport EXCEPT !.live = report.live,
                         !.at = IF report.found = {} THEN "removing" ELSE "looping"]
  <2>1. /\ eventState' = [eventState EXCEPT ![k] = report.found]
        /\ reports' = [reports EXCEPT ![r] = left]
        /\ UNCHANGED << heard, repeated >>
    BY <1>2 DEF Events!Proceed
  <2>2. left \in Report /\ left.at # "emitting"
    BY <1>1, Zenon DEF Events!NoReport, Report
  <2> HIDE DEF left
  <2>3. EventTypes'
    BY <1>1, <2>1, <2>2 DEF EventTypes
  <2>4. \A s \in Reporter, j \in EventKey :
           Events!Visiting(s, j)' <=> (s # r /\ Events!Visiting(s, j))
    BY <2>1, <2>2 DEF EventTypes, Events!Visiting
  <2>5. \A s \in Reporter \ {r} : reports'[s] = reports[s]
    BY <2>1 DEF EventTypes
  <2>6. ASSUME NEW j \in EventKey, ~overlapped'[j] PROVE Told(j)'
    <3>1. ~overlapped[j]
      BY <2>6
    <3>2. CASE j # k
      BY <2>1, <2>4, <2>5, <3>1, <3>2 DEF Told, EventTypes
    <3>3. CASE j = k
      <4>1. \A s \in Reporter : ~Events!Visiting(s, j)'
        BY <2>4, <2>6, <3>3
      <4>2. heard[k] \subseteq Events!Paired
          /\ \A f \in Events!Paired : (f \in heard[k]) = (f \in report.found)
        BY <1>1, <1>2, <2>6, <3>3 DEF Differs, EventTypes
      <4>3. heard[k] = report.found \cap Events!Paired
        BY <4>2
      <4>4. heard'[j] = eventState'[j] \cap Events!Paired /\ ~repeated'[j]
        BY <1>1, <2>1, <2>6, <3>3, <4>3 DEF EventTypes
      <4> QED
        BY <4>1, <4>4 DEF Told
    <3> QED
      BY <3>2, <3>3
  <2> QED
    BY <2>3, <2>6
<1>3. CASE report.due # {}
  <2> DEFINE f == Events!Earliest(report.due)
             next == [report EXCEPT !.due = @ \ {f}, !.at = "emitting"]
             said == IF f \notin Events!Paired THEN heard[k]
                     ELSE IF f \in report.found THEN heard[k] \cup {f} ELSE heard[k] \ {f}
             again == repeated[k] \/
                         (f \in Events!Paired /\ (f \in report.found) = (f \in heard[k]))
  <2>1. f \in report.due
    BY <1>1, <1>3, EarliestDue
  <2>2. /\ reports' = [reports EXCEPT ![r] = next]
        /\ repeated' = [repeated EXCEPT ![k] = again]
        /\ heard' = [heard EXCEPT ![k] = said]
        /\ UNCHANGED eventState
    BY <1>1, <1>3 DEF Events!Proceed, EventTypes
  <2>3. next \in Report /\ next.at = "emitting" /\ next.key = k
        /\ next.found = report.found /\ next.due = report.due \ {f}
    BY <1>1, Zenon DEF Report
  <2>4. said \in SUBSET Events!Paired /\ again \in BOOLEAN
    BY <1>1 DEF EventTypes
  <2>5. ~overlapped'[k] => ~again /\ Differs(next.due, said, next.found)
    BY <1>1, <2>1, <2>3 DEF Differs, EventTypes
  <2> HIDE DEF f, next, said, again
  <2>6. EventTypes'
    BY <1>1, <2>2, <2>3, <2>4 DEF EventTypes
  <2>7. \A s \in Reporter \ {r} : reports'[s] = reports[s] /\ \A j \in EventKey :
           Events!Visiting(s, j)' <=> Events!Visiting(s, j)
    BY <2>2 DEF EventTypes, Events!Visiting
  <2>8. reports'[r] = next /\ \A j \in EventKey : Events!Visiting(r, j)' <=> j = k
    BY <2>2, <2>3 DEF EventTypes, Events!Visiting
  <2>9. ASSUME NEW j \in EventKey, ~overlapped'[j] PROVE Told(j)'
    <3>1. ~overlapped[j]
      BY <2>9
    <3>2. CASE j # k
      <4>1. \A s \in Reporter : Events!Visiting(s, j)' <=> Events!Visiting(s, j)
        BY <2>7, <2>8, <3>2
      <4>2. heard'[j] = heard[j] /\ repeated'[j] = repeated[j] /\ eventState'[j] = eventState[j]
        BY <2>2, <3>2 DEF EventTypes
      <4>3. \A s \in Reporter : Events!Visiting(s, j)' => reports'[s] = reports[s]
        BY <2>7, <2>8, <3>2
      <4> QED
        BY <3>1, <4>1, <4>2, <4>3 DEF Told
    <3>3. CASE j = k
      <4>1. \A s \in Reporter : Events!Visiting(s, j)' <=> s = r
        BY <1>1, <2>7, <2>8, <2>9, <3>3
      <4>2. heard'[j] = said /\ repeated'[j] = again
        BY <1>1, <2>2, <3>3 DEF EventTypes
      <4>3. ~again /\ Differs(next.due, said, next.found)
        BY <2>5, <2>9, <3>3
      <4> QED
        BY <2>8, <4>1, <4>2, <4>3 DEF Told
    <3> QED
      BY <3>2, <3>3
  <2> QED
    BY <2>6, <2>9
<1> QED
  BY <1>2, <1>3

\* A call that was at no stream reads an entry and finds differences.
LEMMA ReadKeeps ==
    ASSUME EventInv, NEW r \in Reporter, NEW k \in EventKey, ~Events!Visiting(r, k),
           \A j \in EventKey : ~Events!Visiting(r, j),
           NEW found \in SUBSET (Events!Fact \cup {"listed"}), NEW due \in SUBSET Events!Fact,
           NEW live \in SUBSET EventKey, Differs(due, eventState[k], found),
           Events!Read(r, k, found, due, live)
    PROVE  EventInv'
<1> DEFINE report == [at |-> "looping", key |-> k, found |-> found, due |-> due, live |-> live]
<1>1. report \in Report /\ report.key = k /\ report.due = due /\ report.found = found
  BY DEF Report
<1>2. overlapped' = [overlapped EXCEPT ![k] = @ \/ \E s \in Reporter \ {r} : Events!Visiting(s, k)]
      /\ Events!Proceed(r, report)
  BY DEF Events!Read
<1> HIDE DEF report
<1>3. overlapped' \in [EventKey -> BOOLEAN] /\ \A j \in EventKey : overlapped[j] => overlapped'[j]
  BY <1>2 DEF EventInv, EventTypes
<1>4. ASSUME ~overlapped'[k]
      PROVE  /\ ~repeated[k] /\ \A s \in Reporter \ {r} : ~Events!Visiting(s, k)
             /\ Differs(due, heard[k], found)
  <2>1. ~overlapped[k] /\ \A s \in Reporter \ {r} : ~Events!Visiting(s, k)
    BY <1>2, <1>4, Zenon DEF EventInv, EventTypes
  <2>2. ~repeated[k] /\ heard[k] = eventState[k] \cap Events!Paired
    BY <2>1 DEF EventInv, Told
  <2> QED
    BY <2>1, <2>2 DEF Differs
<1> QED
  BY <1>1, <1>2, <1>3, <1>4, ProceedKeeps

\* Every step of a call.
LEMMA EventStepKeeps ==
    ASSUME EventInv, NEW r \in Reporter,
           \/ Events!Reconcile(r) \/ Events!Listed(r) \/ Events!Reconciled(r) \/ Events!Emitted(r)
           \/ \E k \in EventKey : Events!Visit(r, k) \/ Events!Remove(r, k)
    PROVE  EventInv'
<1>1. reports[r] \in Report
  BY DEF EventInv, EventTypes
<1>2. ASSUME NEW at \in {"looping", "removing"}, reports[r].at # "emitting",
             \/ reports' = [reports EXCEPT ![r].at = at]
             \/ reports' = [reports EXCEPT ![r] = Events!NoReport] /\ EventKey # {},
             UNCHANGED << eventState, heard, repeated, overlapped >>
      PROVE  EventInv'
  <2>1. EventKey # {} => Events!NoReport \in Report /\ Events!NoReport.at = "none"
    <3>1. EventKey # {} => (CHOOSE k \in EventKey : TRUE) \in EventKey
      OBVIOUS
    <3> QED
      BY <3>1 DEF Events!NoReport, Report
  <2>2. [reports[r] EXCEPT !.at = at] \in Report /\ [reports[r] EXCEPT !.at = at].at = at
    BY <1>1 DEF Report
  <2>3. \E new \in Report : reports' = [reports EXCEPT ![r] = new] /\ new.at # "emitting"
    BY <1>2, <2>1, <2>2, Zenon
  <2>4. PICK new \in Report : reports' = [reports EXCEPT ![r] = new] /\ new.at # "emitting"
    BY <2>3, Zenon
  <2>5. EventTypes'
    BY <1>2, <2>4 DEF EventInv, EventTypes
  <2>6. \A s \in Reporter : /\ s # r => reports'[s] = reports[s]
                            /\ \A k \in EventKey : Events!Visiting(s, k)' <=> Events!Visiting(s, k)
    BY <1>2, <2>4 DEF EventInv, EventTypes, Events!Visiting
  <2>7. \A k \in EventKey : ~Events!Visiting(r, k)
    BY <1>2 DEF Events!Visiting
  <2> QED
    BY <1>2, <2>5, <2>6, <2>7 DEF EventInv, Told
<1>3. CASE Events!Reconcile(r) \/ Events!Listed(r)
  BY <1>2, <1>3 DEF Events!Reconcile, Events!Listed
<1>4. CASE Events!Reconciled(r)
  <2>1. EventKey # {}
    BY <1>1 DEF Report
  <2> QED
    BY <1>2, <1>4, <2>1 DEF Events!Reconciled
<1>5. CASE Events!Emitted(r)
  <2>1. reports[r].at = "emitting" /\ Events!Proceed(r, reports[r]) /\ UNCHANGED overlapped
    BY <1>5 DEF Events!Emitted
  <2> DEFINE k == reports[r].key
  <2>2. k \in EventKey /\ Events!Visiting(r, k) /\ \A j \in EventKey \ {k} : ~Events!Visiting(r, j)
    BY <1>1, <2>1 DEF Report, Events!Visiting
  <2>3. ASSUME ~overlapped[k]
        PROVE  /\ ~repeated[k] /\ \A s \in Reporter \ {r} : ~Events!Visiting(s, k)
               /\ Differs(reports[r].due, heard[k], reports[r].found)
    BY <2>2, <2>3 DEF EventInv, Told
  <2>4. overlapped' \in [EventKey -> BOOLEAN]
    BY <2>1 DEF EventInv, EventTypes
  <2> QED
    BY <1>1, <2>1, <2>2, <2>3, <2>4, ProceedKeeps
<1>6. ASSUME NEW k \in EventKey, Events!Visit(r, k) PROVE EventInv'
  <2>1. PICK found \in {facts \cup {"listed"} : facts \in SUBSET Events!Fact} :
           Events!Read(r, k, found, {f \in Events!Fact : (f \in found) # (f \in eventState[k])},
                reports[r].live \cup {k})
    BY <1>6, Zenon DEF Events!Visit
  <2>2. \A j \in EventKey : ~Events!Visiting(r, j)
    BY <1>6 DEF Events!Visit, Events!Visiting
  <2>3. found \in SUBSET (Events!Fact \cup {"listed"})
        /\ reports[r].live \cup {k} \in SUBSET EventKey
    BY <1>1 DEF Report
  <2>4. Differs({f \in Events!Fact : (f \in found) # (f \in eventState[k])}, eventState[k], found)
    BY DEF Differs, Events!Paired, Events!Fact
  <2>5. {f \in Events!Fact : (f \in found) # (f \in eventState[k])} \in SUBSET Events!Fact
    OBVIOUS
  <2> QED
    BY <2>1, <2>2, <2>3, <2>4, <2>5, ReadKeeps
<1>7. ASSUME NEW k \in EventKey, Events!Remove(r, k) PROVE EventInv'
  <2>1. Events!Read(r, k, {}, eventState[k] \cap Events!Paired, reports[r].live)
    BY <1>7 DEF Events!Remove
  <2>2. \A j \in EventKey : ~Events!Visiting(r, j)
    BY <1>7 DEF Events!Remove, Events!Visiting
  <2>3. /\ {} \in SUBSET (Events!Fact \cup {"listed"}) /\ reports[r].live \in SUBSET EventKey
        /\ eventState[k] \cap Events!Paired \in SUBSET Events!Fact
    BY <1>1 DEF Report, Events!Paired, Events!Fact
  <2>4. Differs(eventState[k] \cap Events!Paired, eventState[k], {})
    BY DEF Differs
  <2> QED
    BY <2>1, <2>2, <2>3, <2>4, ReadKeeps
<1> QED
  BY <1>3, <1>4, <1>5, <1>6, <1>7


\* Unless two calls were at a stream at once, no event of it repeats the one before it,
\* and between the calls the events say of it what the console noted of it
\* (server.js, reconcileStreamEvents).
THEOREM ReportedOnceHolds ==
    Spec => []ReportedOnce
<1> DEFINE Inv == part = "events" => EventInv
<1>1. Init => Inv
  BY InitOfPart, EventInit
<1>2. Inv /\ [Next]_allVars => Inv'
  <2> SUFFICES ASSUME part = "events", EventInv, [Next]_allVars PROVE EventInv'
    BY StepOfPart
  <2>1. ASSUME Events!Next PROVE EventInv'
    BY <2>1, EventStepKeeps DEF Events!Next
  <2>2. ASSUME UNCHANGED eventsVs PROVE EventInv'
    BY <2>2 DEF eventsVs, EventInv, EventTypes, Told, Events!Visiting
  <2> QED
    BY <2>1, <2>2, StepOfPart
<1>3. Inv => ReportedOnce
  BY DEF EventInv, Told, Events!ReportedOnce, ReportedOnce
<1> QED
  BY <1>1, <1>2, <1>3, PTL DEF Spec, allVars

=============================================================================
