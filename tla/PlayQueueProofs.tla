-------------------------- MODULE PlayQueueProofs --------------------------
(***************************************************************************)
(* Proofs about PlayQueue, for any capacities of the queues and of the     *)
(* cache and any number of messages: an HTTP-FLV player is never skipped,  *)
(* a WHEP player gets no frame without its keyframe, and a late SRT caller *)
(* has the parameter sets.                                                 *)
(***************************************************************************)
EXTENDS PlayQueue, SequenceLemmas

-----------------------------------------------------------------------------
(* Types. *)

Flags == {open, slow, waiting, seen, config, seeded} \subseteq BOOLEAN

Bounded(q) == Len(q) <= (CASE proto = "flv" -> FlvMax
                           [] proto = "srt" -> SrtMax + 1
                           [] proto = "whep" -> WhepMax)

\* TypeOK without its sequences' domains.
LEMMA Typed ==
    ASSUME TypeOK
    PROVE  /\ published \in Nat /\ Len(heard) \in Nat
           /\ DOMAIN heard = 1 .. Len(heard)
           /\ queue \in Seq(1 .. Len(heard)) /\ wire \in Seq(1 .. Len(heard))
           /\ cuts \subseteq 1 .. Len(heard)
           /\ proto \in {"flv", "srt", "whep"}
           /\ {GopMax, FlvMax, SrtMax, WhepMax} \subseteq Nat \ {0}
<1>1. /\ published \in Nat /\ Len(heard) \in Nat
      /\ DOMAIN heard = 1 .. Len(heard)
    BY DEF TypeOK, published
<1> QED
    BY <1>1, QueueAssumption DEF TypeOK

\* The copy of the cache consists of messages of the stream.
LEMMA SnapshotType ==
    ASSUME TypeOK
    PROVE  Snapshot \in Seq(1 .. published)
<1> DEFINE S == 1 .. published
           headers == {n \in S : log[n] = "header"}
           m == published + 1 - first
           cached == [i \in 1 .. m |-> first + i - 1]
<1>1. published \in Nat /\ first \in 1 .. published + 1 /\ m \in Nat
    BY DEF TypeOK, published
<1>2. cached \in Seq(S)
    <2>1. cached \in [1 .. m -> S]
        BY <1>1
    <2> HIDE DEF m, S, cached
    <2> QED
        BY <1>1, <2>1, SeqDef
<1>3. CachedHeader \in Seq(S)
    <2>1. CASE headers = {}
        <3>1. CachedHeader = << >>
            BY <2>1 DEF CachedHeader
        <3> QED
            BY <3>1, EmptySeq
    <2>2. CASE headers # {}
        <3>1. headers \in SUBSET (0 .. published)
            BY <1>1
        <3>2. \E n \in headers : \A k \in headers : k <= n
            <4> HIDE DEF headers
            <4> QED
                BY <1>1, <2>2, <3>1, Greatest
        <3> DEFINE h == CHOOSE n \in headers : \A k \in headers : k <= n
        <3>3. h \in headers
            BY <3>2
        <3>4. CachedHeader = << h >>
            BY <2>2 DEF CachedHeader
        <3> HIDE DEF h
        <3> QED
            BY <3>3, <3>4
    <2> QED
        BY <2>1, <2>2
<1> HIDE DEF S, cached
<1>4. CachedHeader \o cached \in Seq(S)
    BY <1>2, <1>3, ConcatPlaces
<1>5. Snapshot = CachedHeader \o cached
    BY DEF Snapshot, cached, m
<1> QED
    BY <1>4, <1>5 DEF S

\* What a callback keeps of the queue.
Rests == IF queue = << >> THEN {queue} ELSE {queue, Tail(queue), << >>}

\* A call of the callback puts its number at the end of what is kept of the queue, or
\* leaves the queue as it is.
LEMMA HearEffect ==
    ASSUME TypeOK, NEW n \in 1 .. published, Hear(n)
    PROVE  /\ heard' \in Seq(1 .. published) /\ Len(heard') = Len(heard) + 1
           /\ \A i \in 1 .. Len(heard) : heard'[i] = heard[i]
           /\ heard'[Len(heard) + 1] = n
           /\ \/ queue' = queue
              \/ \E kept \in Rests : queue' \in {kept, Append(kept, Len(heard) + 1)}
           /\ cuts \subseteq cuts' /\ cuts' \subseteq cuts \cup {Len(heard) + 1}
           /\ {open', slow', waiting', seen'} \subseteq BOOLEAN
           /\ proto' = proto => Bounded(queue)'
<1> DEFINE S == 1 .. published
           i == Len(heard) + 1
<1>1. /\ heard \in Seq(S) /\ n \in S
      /\ heard' = Append(heard, n)
    BY DEF TypeOK, Hear
<1>2. heard' \in Seq(S) /\ Len(heard') = Len(heard) + 1
      /\ (\A j \in 1 .. Len(heard) : heard'[j] = heard[j])
      /\ heard'[Len(heard) + 1] = n
    <2> HIDE DEF S
    <2> QED
        BY <1>1
<1>3. {open, slow, waiting, seen} \subseteq BOOLEAN
    BY DEF TypeOK
<1>4. /\ FlvMax \in Nat \ {0} /\ SrtMax \in Nat \ {0} /\ WhepMax \in Nat \ {0}
      /\ Len(queue) \in Nat /\ Bounded(queue)
    <2>1. queue \in Seq(1 .. Len(heard)) /\ {FlvMax, SrtMax, WhepMax} \subseteq Nat \ {0}
        BY Typed
    <2>2. Bounded(queue)
        BY DEF TypeOK, Bounded
    <2> QED
        BY <2>1, <2>2
<1>5. /\ queue # << >> => Len(queue) # 0 /\ Len(Tail(queue)) = Len(queue) - 1
      /\ Len(Append(queue, i)) = Len(queue) + 1
      /\ queue # << >> => Len(Append(Tail(queue), i)) = Len(queue)
      /\ Append(<< >>, i) = << i >> /\ Len(<< i >>) = 1 /\ Len(<< >>) = 0
    <2> DEFINE D == 1 .. i
    <2>1. 1 .. Len(heard) \subseteq D /\ i \in D /\ queue \in Seq(1 .. Len(heard))
        BY Typed
    <2>2. queue \in Seq(D)
        BY <2>1, SeqMonotonic
    <2> HIDE DEF D, i
    <2>3. queue # << >> => Tail(queue) \in Seq(D) /\ Len(queue) # 0 /\ Len(Tail(queue)) = Len(queue) - 1
        BY <2>2, EmptySeq
    <2>4. queue # << >> => Len(Append(Tail(queue), i)) = Len(Tail(queue)) + 1
        BY <2>1, <2>3
    <2> QED
        BY <1>4, <2>1, <2>2, <2>3, <2>4
<1> HIDE DEF i
<1> DEFINE Moves == queue' = queue \/ \E kept \in Rests : queue' \in {kept, Append(kept, i)}
           Cuts == cuts \subseteq cuts' /\ cuts' \subseteq cuts \cup {i}
           Goal == Moves /\ Cuts /\ {open', slow', waiting', seen'} \subseteq BOOLEAN
                      /\ (proto' = proto => Bounded(queue)')
<1> HIDE DEF Moves, Cuts, Goal
<1>6. ASSUME proto = "flv", FlvPush(i), UNCHANGED << waiting, cuts, seen >> PROVE Goal
    <2>1. \/ queue' = queue
          \/ Len(queue) < FlvMax /\ queue' = Append(queue, i)
        <3>1. CASE Len(queue) >= FlvMax
            BY <1>6, <3>1 DEF FlvPush
        <3>2. CASE ~ (Len(queue) >= FlvMax)
            <4>1. queue' = Append(queue, i)
                BY <1>6, <3>2 DEF FlvPush
            <4>2. Len(queue) < FlvMax
                BY <1>4, <3>2
            <4> QED
                BY <4>1, <4>2
        <3> QED
            BY <3>1, <3>2
    <2>2. Moves
        BY <2>1 DEF Rests, Moves
    <2>3. Len(queue') <= FlvMax
        BY <1>4, <1>5, <1>6, <2>1 DEF Bounded
    <2>4. proto' = proto => Bounded(queue)'
        BY <1>6, <2>3 DEF Bounded
    <2> QED
        BY <1>3, <1>6, <2>2, <2>4 DEF FlvPush, Goal, Cuts
<1>7. ASSUME proto = "srt", SrtPush(i), UNCHANGED << open, slow, waiting, cuts, seen >>
      PROVE  Goal
    <2>1. \/ Len(queue) <= SrtMax /\ queue' = Append(queue, i)
          \/ Len(queue) > SrtMax /\ queue # << >> /\ queue' = Append(Tail(queue), i)
        BY <1>4, <1>5, <1>7 DEF SrtPush
    <2>2. Moves
        BY <2>1 DEF Rests, Moves
    <2>3. Len(queue') <= SrtMax + 1
        BY <1>4, <1>5, <1>7, <2>1 DEF Bounded
    <2>4. proto' = proto => Bounded(queue)'
        BY <1>7, <2>3 DEF Bounded
    <2> QED
        BY <1>3, <1>7, <2>2, <2>4 DEF Goal, Cuts
<1>8. ASSUME proto = "whep", WhepPush(i, log[n]), UNCHANGED << open, slow >> PROVE Goal
    <2>1. \/ Len(queue) < WhepMax /\ queue' \in {queue, Append(queue, i)}
          \/ Len(queue) >= WhepMax /\ queue # << >> /\ queue' \in {<< >>, Append(<< >>, i)}
        <3>1. CASE Len(queue) >= WhepMax
            <4>1. queue' \in {<< >>, Append(<< >>, i)}
                BY <1>8, <3>1 DEF WhepPush
            <4> QED
                BY <1>4, <1>5, <3>1, <4>1
        <3>2. CASE ~ (Len(queue) >= WhepMax)
            <4>1. queue' \in {queue, Append(queue, i)}
                BY <1>8, <3>2 DEF WhepPush
            <4>2. Len(queue) < WhepMax
                BY <1>4, <3>2
            <4> QED
                BY <4>1, <4>2
        <3> QED
            BY <3>1, <3>2
    <2>2. Moves
        BY <2>1 DEF Rests, Moves
    <2>3. Len(queue') <= WhepMax
        <3>1. CASE Len(queue) < WhepMax /\ queue' \in {queue, Append(queue, i)}
            BY <1>4, <1>5, <3>1
        <3>2. CASE queue' \in {<< >>, Append(<< >>, i)}
            BY <1>4, <1>5, <3>2
        <3> QED
            BY <2>1, <3>1, <3>2
    <2>4. proto' = proto => Bounded(queue)'
        BY <1>8, <2>3 DEF Bounded
    <2>5. Cuts /\ seen' \in BOOLEAN /\ waiting' \in BOOLEAN
        BY <1>3, <1>8 DEF WhepPush, Cuts
    <2> QED
        BY <1>3, <1>8, <2>2, <2>4, <2>5 DEF Goal, Cuts
<1>9. ASSUME UNCHANGED << queue, open, slow, waiting, cuts, seen >> PROVE Goal
    <2>1. proto' = proto => Bounded(queue)'
        BY <1>4, <1>9 DEF Bounded
    <2> QED
        BY <1>3, <1>9, <2>1 DEF Goal, Cuts, Moves
<1>10. Goal
    BY <1>6, <1>7, <1>8, <1>9 DEF Hear, i
<1> QED
    BY <1>2, <1>10 DEF i, Goal, Cuts, Moves

\* What a callback keeps of the queue, and the queue it leaves, hold calls.
LEMMA RestsType ==
    ASSUME TypeOK
    PROVE  /\ Rests \subseteq Seq(1 .. Len(heard))
           /\ \A kept \in Rests : Append(kept, Len(heard) + 1) \in Seq(1 .. Len(heard) + 1)
           /\ Seq(1 .. Len(heard)) \subseteq Seq(1 .. Len(heard) + 1)
<1> DEFINE D == 1 .. Len(heard)
           E == 1 .. Len(heard) + 1
<1>1. queue \in Seq(D) /\ D \subseteq E /\ Len(heard) + 1 \in E
    BY Typed
<1> HIDE DEF D, E
<1>2. Rests \subseteq Seq(D)
    <2>1. queue # << >> => Tail(queue) \in Seq(D)
        BY <1>1
    <2>2. << >> \in Seq(D)
        BY EmptySeq
    <2> QED
        BY <1>1, <2>1, <2>2 DEF Rests
<1>3. Seq(D) \subseteq Seq(E)
    BY <1>1, SeqMonotonic
<1>4. \A kept \in Rests : Append(kept, Len(heard) + 1) \in Seq(E)
    BY <1>1, <1>2, <1>3
<1> QED
    BY <1>2, <1>3, <1>4 DEF D, E

\* A step that calls the callback keeps the types, whatever else it does to the stream
\* and to the copy of the cache.
LEMMA HearType ==
    ASSUME TypeOK, NEW n \in 1 .. published, Hear(n),
           live' \in 0 .. published, handing' \in Seq(1 .. published),
           UNCHANGED << proto, log, first, phase, joined, taken, wire, config, seeded, track, peer >>
    PROVE  TypeOK'
<1>1. /\ heard' \in Seq(1 .. published) /\ Len(heard') = Len(heard) + 1
      /\ \/ queue' = queue
         \/ \E kept \in Rests : queue' \in {kept, Append(kept, Len(heard) + 1)}
      /\ cuts' \subseteq cuts \cup {Len(heard) + 1}
      /\ {open', slow', waiting', seen'} \subseteq BOOLEAN
      /\ Bounded(queue)'
    BY HearEffect
<1>2. published' = published
    BY DEF published
<1>3. DOMAIN heard' = 1 .. Len(heard) + 1
    BY <1>1
<1>4. queue' \in Seq(1 .. Len(heard) + 1) /\ wire' \in Seq(1 .. Len(heard) + 1)
    BY <1>1, RestsType, Typed
<1>5. taken' \in 0 .. Len(heard') /\ cuts' \subseteq DOMAIN heard'
    <2>1. Len(heard) \in Nat /\ cuts \subseteq 1 .. Len(heard) /\ taken \in 0 .. Len(heard)
        BY Typed DEF TypeOK
    <2>2. cuts' \subseteq 1 .. Len(heard) + 1
        BY <1>1, <2>1
    <2>3. taken' \in 0 .. Len(heard')
        BY <1>1, <2>1
    <2> QED
        BY <1>3, <2>2, <2>3
<1>6. {open, slow, waiting, seen, config, seeded}' \subseteq BOOLEAN
    BY <1>1 DEF TypeOK
<1> QED
    BY <1>1, <1>2, <1>3, <1>4, <1>5, <1>6 DEF TypeOK, Bounded

\* A step that neither publishes nor calls the callback keeps the types.
LEMMA WriterType ==
    ASSUME TypeOK, UNCHANGED << proto, log, first, live, heard >>,
           phase' \in {"out", "in", "leaving", "gone"},
           joined' \in 0 .. published, handing' \in Seq(1 .. published),
           queue' \in {queue, << >>} \/ (queue # << >> /\ queue' = Tail(queue)),
           taken' \in {taken, 0} \/ (queue # << >> /\ taken' = Head(queue)),
           wire' = wire \/ (taken # 0 /\ wire' = Append(wire, taken)),
           {open', slow', waiting', seen', config', seeded'} \subseteq BOOLEAN,
           cuts' = cuts, track' \in {"unopened", "open", "closed"},
           peer' \in {"reading", "stalled", "gone"}
    PROVE  TypeOK'
<1> DEFINE D == 1 .. Len(heard)
<1>1. /\ queue \in Seq(D) /\ wire \in Seq(D) /\ taken \in D \cup {0} /\ DOMAIN heard = D
      /\ Len(heard) \in Nat
    BY Typed DEF TypeOK
<1>2. published' = published
    BY DEF published
<1> HIDE DEF D
<1>3. queue' \in Seq(D) /\ Len(queue') <= Len(queue)
    <2>1. << >> \in Seq(D) /\ Len(<< >>) = 0 /\ Len(queue) \in Nat
        BY <1>1, EmptySeq
    <2>2. queue # << >> => Tail(queue) \in Seq(D) /\ Len(Tail(queue)) <= Len(queue)
        BY <1>1
    <2>3. CASE queue' = queue
        BY <1>1, <2>1, <2>3
    <2>4. CASE queue' = << >>
        BY <2>1, <2>4
    <2>5. CASE queue # << >> /\ queue' = Tail(queue)
        BY <2>2, <2>5
    <2> QED
        BY <2>3, <2>4, <2>5
<1>4. wire' \in Seq(D) /\ taken' \in D \cup {0}
    <2>1. queue # << >> => Head(queue) \in D
        BY <1>1
    <2>2. taken # 0 => Append(wire, taken) \in Seq(D)
        BY <1>1
    <2> QED
        BY <1>1, <2>1, <2>2
<1>5. Bounded(queue)'
    <2>1. Bounded(queue)
        BY DEF TypeOK, Bounded
    <2>2. Len(queue) \in Nat /\ Len(queue') \in Nat
        BY <1>1, <1>3
    <2> QED
        BY <1>3, <2>1, <2>2, Typed DEF Bounded
<1>6. taken' \in 0 .. Len(heard)
    BY <1>1, <1>4 DEF D
<1>7. {open, slow, waiting, seen, config, seeded}' \subseteq BOOLEAN
    OBVIOUS
<1> QED
    BY <1>1, <1>2, <1>3, <1>4, <1>5, <1>6, <1>7 DEF TypeOK, Bounded

\* publish_media appends a message and keeps the types.
LEMMA PublishType ==
    ASSUME TypeOK, NEW kind \in Kind, Publish(kind)
    PROVE  /\ TypeOK' /\ published' = published + 1
           /\ \A n \in 1 .. published : log'[n] = log[n]
           /\ UNCHANGED << heard, queue, taken, wire >>
<1>1. /\ log' \in Seq(Kind) /\ published' = published + 1 /\ published \in Nat
      /\ \A n \in 1 .. published : log'[n] = log[n]
    BY DEF TypeOK, Publish, published
<1>2. first' \in 1 .. published' + 1
    <2>1. first \in 1 .. published + 1
        BY DEF TypeOK
    <2>2. \/ first' \in {published + 1, first}
          \/ first' = first + 1 /\ published + 1 - first = GopMax
        BY <2>1 DEF Publish
    <2>3. GopMax \in Nat \ {0}
        BY Typed
    <2> QED
        BY <1>1, <2>1, <2>2, <2>3
<1>3. live' \in 0 .. published'
    BY <1>1 DEF Publish
<1>4. /\ UNCHANGED << proto, phase, joined, handing, heard, queue, open, slow, waiting, cuts,
                      taken, wire, seen, config, seeded, track, peer >>
    BY DEF Publish, viewer, queues, writer
<1>5. Seq(1 .. published) \subseteq Seq(1 .. published')
    BY <1>1, SeqMonotonic
<1>6. handing' \in Seq(1 .. published') /\ heard' \in Seq(1 .. published')
    BY <1>4, <1>5 DEF TypeOK
<1>7. joined' \in 0 .. published'
    BY <1>1, <1>4 DEF TypeOK
<1>8. Bounded(queue)'
    BY <1>4 DEF TypeOK, Bounded
<1> QED
    BY <1>1, <1>2, <1>3, <1>4, <1>6, <1>7, <1>8 DEF TypeOK, Bounded

\* Types.
LEMMA TypeStep == TypeOK /\ [Next]_vars => TypeOK'
<1> SUFFICES ASSUME TypeOK, [Next]_vars PROVE TypeOK'
    OBVIOUS
<1> USE DEF feed, viewer, queues, writer
<1>a. {open, slow, waiting, seen, config, seeded} \subseteq BOOLEAN /\ published \in Nat
    BY Typed DEF TypeOK
<1>b. /\ phase \in {"out", "in", "leaving", "gone"} /\ joined \in 0 .. published
      /\ handing \in Seq(1 .. published) /\ live \in 0 .. published
      /\ track \in {"unopened", "open", "closed"} /\ peer \in {"reading", "stalled", "gone"}
    BY DEF TypeOK
<1>1. ASSUME NEW kind \in Kind, Publish(kind) PROVE TypeOK'
    BY <1>1, PublishType
<1>2. CASE Deliver
    <2>1. live \in 1 .. published /\ live' \in 0 .. published
        BY <1>2, <1>a, <1>b DEF Deliver
    <2> QED
        BY <1>2, <1>b, <2>1, HearType DEF Deliver, Hear
<1>3. CASE Hand
    <2>1. Head(handing) \in 1 .. published /\ Tail(handing) \in Seq(1 .. published)
        <3> DEFINE S == 1 .. published
        <3>1. handing \in Seq(S) /\ handing # << >>
            BY <1>3, <1>b DEF Hand
        <3> HIDE DEF S
        <3>2. Head(handing) \in S /\ Tail(handing) \in Seq(S)
            BY <3>1
        <3> QED
            BY <3>2 DEF S
    <2> QED
        BY <1>3, <1>b, <2>1, HearType DEF Hand
<1>4. CASE Join
    BY <1>4, <1>a, <1>b, SnapshotType, WriterType DEF Join
<1>5. CASE Seed
    BY <1>5, <1>a, <1>b, WriterType DEF Seed
<1>6. CASE Take
    BY <1>6, <1>a, <1>b, WriterType DEF Take
<1>7. CASE Send
    BY <1>7, <1>a, <1>b, WriterType DEF Send, Sendable
<1>8. CASE SendFails
    BY <1>8, <1>a, <1>b, WriterType DEF SendFails
<1>9. CASE Absorb
    BY <1>9, <1>a, <1>b, WriterType DEF Absorb
<1>10. CASE FlvIdle
    BY <1>10, <1>a, <1>b, WriterType DEF FlvIdle
<1>11. CASE Leave
    BY <1>11, <1>a, <1>b, WriterType DEF Leave
<1>12. CASE TrackOpens \/ Detach
    BY <1>12, <1>a, <1>b, WriterType DEF TrackOpens, Detach
<1>13. CASE Close
    BY <1>13, <1>a, <1>b, WriterType DEF Close
<1>14. CASE Peer \/ UNCHANGED vars
    BY <1>14, <1>a, <1>b, WriterType DEF Peer, vars
<1> QED
    BY <1>1, <1>2, <1>3, <1>4, <1>5, <1>6, <1>7, <1>8, <1>9, <1>10, <1>11, <1>12, <1>13, <1>14
    DEF Next

\* The types of an unused queue.
LEMMA InitType == Init => TypeOK
<1> SUFFICES ASSUME Init PROVE TypeOK
    OBVIOUS
<1>1. published = 0 /\ Len(heard) = 0 /\ Len(queue) = 0 /\ DOMAIN heard = 1 .. 0
    BY EmptySeq DEF Init, published
<1>2. \A S : << >> \in Seq(S)
    BY EmptySeq
<1>3. Len(queue) <= (CASE proto = "flv" -> FlvMax
                       [] proto = "srt" -> SrtMax + 1
                       [] proto = "whep" -> WhepMax)
    BY <1>1, QueueAssumption DEF Init
<1> QED
    <2>1. /\ log \in Seq(Kind) /\ first \in 1 .. published + 1 /\ live \in 0 .. published
          /\ joined \in 0 .. published /\ taken \in 0 .. Len(heard)
        BY <1>1, <1>2 DEF Init
    <2>2. /\ handing \in Seq(1 .. published) /\ heard \in Seq(1 .. published)
          /\ queue \in Seq(DOMAIN heard) /\ wire \in Seq(DOMAIN heard)
          /\ cuts \subseteq DOMAIN heard
        BY <1>2 DEF Init
    <2>3. {open, slow, waiting, seen, config, seeded} \subseteq BOOLEAN
        BY DEF Init
    <2> QED
        BY <1>3, <2>1, <2>2, <2>3 DEF Init, TypeOK

\* The stream, the queue and the writer keep their types, and the queue its bound.
THEOREM QueueTypeCorrect == Spec => []TypeOK
<1>1. Init => TypeOK
    BY InitType
<1>2. TypeOK /\ [Next]_vars => TypeOK'
    BY TypeStep
<1> QED
    BY <1>1, <1>2, PTL DEF Spec

-----------------------------------------------------------------------------
(* The way of a message.  Calls go into the queue, the writer's hands and   *)
(* onto the wire in the order in which they are made; nothing has moved     *)
(* before the viewer has joined.                                            *)

Fresh ==
    phase = "out" =>
        /\ live = 0 /\ taken = 0 /\ open /\ ~seeded
        /\ handing = << >> /\ heard = << >> /\ queue = << >> /\ wire = << >>

Ordered == Increasing(queue) /\ (taken # 0 => \A x \in Range(queue) : taken < x)

PathInv == TypeOK /\ Fresh /\ Ordered

\* A writer in its loop has a viewer that has joined.
LEMMA WritingJoined == TypeOK /\ Writing => phase # "out"
BY Typed DEF Writing

\* The queue's calls are numbers; what a callback leaves of it is still increasing, and
\* its own call is later than any it finds.
LEMMA RestsOrdered ==
    ASSUME TypeOK, Increasing(queue)
    PROVE  \A kept \in Rests :
              /\ Range(kept) \subseteq Range(queue)
              /\ Increasing(kept)
              /\ Increasing(Append(kept, Len(heard) + 1))
              /\ Range(Append(kept, Len(heard) + 1)) = Range(kept) \cup {Len(heard) + 1}
<1> SUFFICES ASSUME NEW kept \in Rests
             PROVE  /\ Range(kept) \subseteq Range(queue)
                    /\ Increasing(kept)
                    /\ Increasing(Append(kept, Len(heard) + 1))
                    /\ Range(Append(kept, Len(heard) + 1)) = Range(kept) \cup {Len(heard) + 1}
    OBVIOUS
<1> DEFINE D == 1 .. Len(heard)
<1>1. /\ queue \in Seq(D) /\ D \subseteq Nat /\ Len(heard) + 1 \in Nat
      /\ \A x \in D : x < Len(heard) + 1
    BY Typed
<1> HIDE DEF D
<1>2. queue \in Seq(Nat) /\ Range(queue) \subseteq D
    BY <1>1, SeqMonotonic, RangeType
<1>3. << >> \in Seq(Nat) /\ Range(<< >>) = {} /\ Increasing(<< >>)
    BY EmptySeq, RangeEmpty DEF Increasing
<1>4. queue # << >> =>
         /\ Tail(queue) \in Seq(Nat) /\ Increasing(Tail(queue))
         /\ Range(Tail(queue)) \subseteq Range(queue)
    <2>1. queue # << >> => Tail(queue) \in Seq(Nat)
        BY <1>2
    <2> QED
        BY <1>2, <2>1, TailIncreasing
<1>5. kept \in Seq(Nat) /\ Increasing(kept) /\ Range(kept) \subseteq Range(queue)
    BY <1>2, <1>3, <1>4 DEF Rests
<1>6. \A x \in Range(kept) : x < Len(heard) + 1
    BY <1>1, <1>2, <1>5
<1>7. Increasing(Append(kept, Len(heard) + 1))
    BY <1>1, <1>5, <1>6, AppendIncreasing
<1>8. Range(Append(kept, Len(heard) + 1)) = Range(kept) \cup {Len(heard) + 1}
    BY <1>1, <1>5, RangeAppend
<1> QED
    BY <1>5, <1>7, <1>8

\* The head of the queue is its earliest call.
LEMMA TakeEffect ==
    ASSUME TypeOK, Ordered, Take
    PROVE  /\ taken' \in Range(queue) /\ Range(queue') = Range(queue) \ {taken'}
           /\ Increasing(queue') /\ \A x \in Range(queue') : taken' < x
<1> DEFINE D == 1 .. Len(heard)
<1>1. queue \in Seq(D) /\ D \subseteq Nat
    BY Typed
<1> HIDE DEF D
<1>2. queue \in Seq(Nat)
    BY <1>1, SeqMonotonic
<1> QED
    BY <1>2, TailIncreasing DEF Take, Ordered

\* The kinds of a step, by what it does to the path of a message.
LEMMA StepKinds ==
    ASSUME TypeOK, Fresh, [Next]_vars
    PROVE  \/ \E kind \in Kind : Publish(kind)
           \/ /\ phase # "out"
              /\ \E n \in 1 .. published : Hear(n)
              /\ live' \in {live, 0}
              /\ UNCHANGED << proto, log, phase, joined, taken, wire, config, seeded, track >>
           \/ Take
           \/ Send
           \/ /\ UNCHANGED << proto, log, live, heard, wire, seen, waiting, cuts >>
              /\ \/ UNCHANGED << queue, taken >> \/ (UNCHANGED queue /\ taken' = 0)
                 \/ (queue' = << >> /\ taken' = 0)
<1> USE DEF feed, viewer, queues, writer
<1>1. CASE Deliver
    <2>1. live \in 1 .. published
        BY <1>1, Typed DEF Deliver, TypeOK
    <2>2. phase # "out"
        BY <1>1 DEF Deliver, Fresh
    <2> QED
        BY <1>1, <2>1, <2>2 DEF Deliver
<1>2. CASE Hand
    <2>1. handing \in Seq(1 .. published) /\ handing # << >>
        BY <1>2 DEF Hand, TypeOK
    <2>2. Head(handing) \in 1 .. published
        BY <2>1, HeadInRange
    <2>3. phase # "out"
        BY <1>2 DEF Hand, Fresh
    <2> QED
        BY <1>2, <2>2, <2>3 DEF Hand
<1>3. CASE Join \/ Seed \/ SendFails \/ Absorb \/ FlvIdle \/ Leave \/ TrackOpens \/ Detach
             \/ Close \/ Peer \/ UNCHANGED vars
    BY <1>3 DEF Join, Seed, SendFails, Absorb, FlvIdle, Leave, TrackOpens, Detach, Close, Peer, vars
<1> QED
    BY <1>1, <1>2, <1>3 DEF Next

\* Before the viewer joins nothing has moved.
LEMMA FreshStep == TypeOK /\ Fresh /\ [Next]_vars => Fresh'
<1> SUFFICES ASSUME TypeOK, Fresh, [Next]_vars, phase' = "out"
             PROVE  Fresh'
    BY DEF Fresh
<1> USE DEF feed, viewer, queues, writer
<1>1. ASSUME NEW kind \in Kind, Publish(kind) PROVE Fresh'
    BY <1>1 DEF Publish, Fresh, Registered
<1>2. phase = "out" => ~Writing
    BY WritingJoined
<1>3. CASE Deliver \/ Hand \/ Join
    BY <1>3 DEF Deliver, Hand, Join, Fresh
<1>4. CASE Seed \/ Take \/ Send \/ SendFails \/ Absorb \/ FlvIdle \/ Leave
    BY <1>2, <1>4 DEF Seed, Take, Send, SendFails, Absorb, FlvIdle, Leave
<1>5. CASE TrackOpens \/ Detach \/ Close \/ Peer \/ UNCHANGED vars
    BY <1>5 DEF TrackOpens, Detach, Close, Peer, vars, Fresh
<1> QED
    BY <1>1, <1>3, <1>4, <1>5 DEF Next

\* The queue stays in the order of the calls, behind what the writer has in hand.
LEMMA OrderedStep == PathInv /\ [Next]_vars => Ordered'
<1> SUFFICES ASSUME PathInv, [Next]_vars PROVE Ordered'
    OBVIOUS
<1>a. TypeOK /\ Fresh /\ Ordered
    BY DEF PathInv
<1>1. ASSUME NEW kind \in Kind, Publish(kind) PROVE Ordered'
    BY <1>a, <1>1, PublishType DEF Ordered
<1>2. ASSUME NEW n \in 1 .. published, Hear(n), taken' = taken PROVE Ordered'
    <2>1. \/ queue' = queue
          \/ \E kept \in Rests : queue' \in {kept, Append(kept, Len(heard) + 1)}
        BY <1>a, <1>2, HearEffect
    <2>2. taken \in Nat /\ taken < Len(heard) + 1
        BY <1>a, Typed DEF TypeOK
    <2>3. Increasing(queue') /\ Range(queue') \subseteq Range(queue) \cup {Len(heard) + 1}
        BY <1>a, <2>1, RestsOrdered DEF Ordered
    <2> QED
        BY <1>a, <1>2, <2>2, <2>3 DEF Ordered
<1>3. CASE Take
    BY <1>a, <1>3, TakeEffect DEF Ordered
<1>4. CASE Send
    BY <1>a, <1>4 DEF Send, Ordered, queues
<1>5. CASE UNCHANGED << queue, taken >> \/ (UNCHANGED queue /\ taken' = 0)
             \/ (queue' = << >> /\ taken' = 0)
    BY <1>a, <1>5, RangeEmpty, EmptySeq DEF Ordered, Increasing
<1> QED
    BY <1>a, <1>1, <1>2, <1>3, <1>4, <1>5, StepKinds

LEMMA InitPath == Init => PathInv
<1> SUFFICES ASSUME Init PROVE PathInv
    OBVIOUS
<1>1. Fresh /\ Ordered
    BY RangeEmpty, EmptySeq DEF Init, Fresh, Ordered, Increasing
<1> QED
    BY <1>1, InitType DEF PathInv

LEMMA PathStep == PathInv /\ [Next]_vars => PathInv'
BY TypeStep, FreshStep, OrderedStep DEF PathInv

-----------------------------------------------------------------------------
(* HTTP-FLV: until the player is cut off, the n-th call is the n-th on the   *)
(* way, counted from the wire over the writer's hands to the queue.          *)

InHand == IF taken = 0 THEN 0 ELSE 1

Straight ==
    proto = "flv" /\ phase \in {"out", "in"} =>
        /\ \A i \in 1 .. Len(wire) : wire[i] = i
        /\ taken # 0 => taken = Len(wire) + 1
        /\ \A i \in 1 .. Len(queue) : queue[i] = Len(wire) + InHand + i
        /\ open => Len(wire) + InHand + Len(queue) = Len(heard)

\* An HTTP-FLV player takes a call as the next one, or none from then on.
LEMMA FlvHear ==
    ASSUME TypeOK, Straight, proto = "flv", phase \in {"out", "in"},
           NEW n \in 1 .. published, Hear(n),
           UNCHANGED << proto, phase, taken, wire >>
    PROVE  Straight'
<1>1. /\ Len(heard') = Len(heard) + 1 /\ Len(heard) \in Nat
      /\ Len(wire) \in Nat /\ InHand \in Nat /\ InHand' = InHand
    BY HearEffect, Typed DEF InHand
<1>2. /\ \A i \in 1 .. Len(wire) : wire[i] = i
      /\ taken # 0 => taken = Len(wire) + 1
      /\ \A i \in 1 .. Len(queue) : queue[i] = Len(wire) + InHand + i
      /\ open => Len(wire) + InHand + Len(queue) = Len(heard)
    BY DEF Straight
<1>3. \/ open' = FALSE /\ queue' = queue
      \/ open /\ queue' = Append(queue, Len(heard) + 1)
    <2>1. CASE FlvPush(Len(heard) + 1)
        <3>1. CASE Len(queue) >= FlvMax
            BY <2>1, <3>1 DEF FlvPush
        <3>2. CASE ~ (Len(queue) >= FlvMax)
            BY <2>1, <3>2 DEF FlvPush
        <3> QED
            BY <3>1, <3>2
    <2>2. CASE ~open /\ UNCHANGED << queue, open >>
        <3>1. open \in BOOLEAN
            BY DEF TypeOK
        <3> QED
            BY <2>2, <3>1
    <2> QED
        BY <2>1, <2>2 DEF Hear
<1>4. CASE open' = FALSE /\ queue' = queue
    BY <1>1, <1>2, <1>4 DEF Straight
<1>5. CASE open /\ queue' = Append(queue, Len(heard) + 1)
    <2> DEFINE k == Len(queue)
               c == Len(heard) + 1
    <2>1. /\ k \in Nat /\ Len(queue') = k + 1 /\ queue'[k + 1] = c
          /\ \A i \in 1 .. k : queue'[i] = queue[i]
        <3>1. queue \in Seq(1 .. Len(heard)) /\ 1 .. Len(heard) \subseteq Nat /\ c \in Nat
            BY <1>1, Typed
        <3>2. queue \in Seq(Nat)
            <4> DEFINE D == 1 .. Len(heard)
            <4>1. queue \in Seq(D) /\ D \subseteq Nat
                BY <3>1
            <4> HIDE DEF D
            <4> QED
                BY <4>1, SeqMonotonic
        <3> HIDE DEF c
        <3> QED
            BY <1>5, <3>1, <3>2 DEF c
    <2> HIDE DEF k
    <2>2. c = Len(wire) + InHand + (k + 1)
        BY <1>1, <1>2, <1>5, <2>1 DEF k
    <2>3. \A i \in 1 .. k + 1 : queue'[i] = Len(wire) + InHand + i
        BY <1>2, <2>1, <2>2 DEF k
    <2>4. Len(wire) + InHand + Len(queue') = Len(heard')
        BY <1>1, <2>1, <2>2
    <2> QED
        BY <1>1, <1>2, <2>1, <2>3, <2>4 DEF Straight
<1> QED
    BY <1>3, <1>4, <1>5

\* The writer takes the next call and sends it.
LEMMA StraightStep == PathInv /\ Straight /\ [Next]_vars => Straight'
<1> SUFFICES ASSUME PathInv, Straight, [Next]_vars, proto' = "flv", phase' \in {"out", "in"}
             PROVE  Straight'
    BY DEF Straight
<1>a. TypeOK /\ Fresh /\ Len(wire) \in Nat /\ Len(heard) \in Nat /\ Len(queue) \in Nat
    BY Typed DEF PathInv
<1>0. ASSUME UNCHANGED << proto, heard, queue, taken, wire, open >>, phase \in {"out", "in"}
      PROVE  Straight'
    BY <1>0 DEF Straight, InHand
<1>1. ASSUME NEW kind \in Kind, Publish(kind) PROVE Straight'
    BY <1>0, <1>1 DEF Publish, viewer, queues, writer
<1>2. CASE Deliver
    <2>1. live \in 1 .. published /\ Hear(live)
        BY <1>a, <1>2, Typed DEF Deliver, TypeOK
    <2> QED
        BY <1>a, <1>2, <2>1, FlvHear DEF Deliver, viewer
<1>3. CASE Hand
    <2>1. handing \in Seq(1 .. published) /\ handing # << >> /\ Hear(Head(handing))
        BY <1>a, <1>3 DEF Hand, TypeOK
    <2>2. Head(handing) \in 1 .. published
        BY <2>1, HeadInRange
    <2> QED
        BY <1>a, <1>3, <2>1, <2>2, FlvHear DEF Hand
<1>4. CASE Join \/ Seed
    BY <1>0, <1>4 DEF Join, Seed, feed, queues, writer, viewer
<1>5. CASE Take
    <2>1. /\ proto = "flv" /\ phase \in {"out", "in"} /\ taken = 0 /\ queue # << >>
          /\ taken' = Head(queue) /\ queue' = Tail(queue)
          /\ wire' = wire /\ heard' = heard /\ open' = open
        BY <1>5 DEF Take, viewer
    <2>2. /\ Len(queue') = Len(queue) - 1 /\ Len(queue) # 0 /\ taken' = queue[1]
          /\ \A i \in 1 .. Len(queue') : queue'[i] = queue[i + 1]
        <3> DEFINE D == 1 .. Len(heard)
        <3>1. queue \in Seq(D)
            BY <1>a, Typed
        <3> HIDE DEF D
        <3>2. Len(queue) # 0
            BY <2>1, <3>1, EmptySeq
        <3> QED
            BY <2>1, <3>1, <3>2
    <2>3. taken' = Len(wire) + 1
        BY <1>a, <2>1, <2>2 DEF Straight, InHand
    <2>4. InHand = 0 /\ InHand' = 1
        BY <1>a, <2>1, <2>3 DEF InHand
    <2>5. \A i \in 1 .. Len(queue') : queue'[i] = Len(wire) + 1 + i
        <3>1. \A i \in 1 .. Len(queue) : queue[i] = Len(wire) + 0 + i
            BY <2>1, <2>4 DEF Straight
        <3>2. \A i \in 1 .. Len(queue') : i \in Nat /\ i + 1 \in 1 .. Len(queue)
            BY <1>a, <2>2
        <3>3. \A i \in 1 .. Len(queue') : queue'[i] = Len(wire) + 0 + (i + 1)
            BY <2>2, <3>1, <3>2
        <3> QED
            BY <1>a, <3>2, <3>3
    <2>6. /\ \A i \in 1 .. Len(wire) : wire[i] = i
          /\ open => Len(wire) + 1 + Len(queue') = Len(heard)
        BY <1>a, <2>1, <2>2, <2>4 DEF Straight
    <2> QED
        BY <2>1, <2>3, <2>4, <2>5, <2>6 DEF Straight
<1>6. CASE Send
    <2>1. /\ proto = "flv" /\ phase \in {"out", "in"} /\ taken # 0 /\ taken' = 0
          /\ wire' = Append(wire, taken)
          /\ queue' = queue /\ heard' = heard /\ open' = open
        BY <1>6 DEF Send, Sendable, viewer, queues
    <2>2. /\ Len(wire') = Len(wire) + 1 /\ wire'[Len(wire) + 1] = taken
          /\ \A i \in 1 .. Len(wire) : wire'[i] = wire[i]
        <3> DEFINE D == 1 .. Len(heard)
        <3>1. wire \in Seq(D) /\ taken \in D
            BY <1>a, <2>1, Typed DEF TypeOK
        <3> HIDE DEF D
        <3> QED
            BY <2>1, <3>1
    <2>3. taken = Len(wire) + 1 /\ InHand = 1 /\ InHand' = 0
        BY <2>1 DEF Straight, InHand
    <2>4. \A i \in 1 .. Len(wire') : wire'[i] = i
        BY <1>a, <2>1, <2>2, <2>3 DEF Straight
    <2>5. /\ \A i \in 1 .. Len(queue') : queue'[i] = Len(wire') + 0 + i
          /\ open => Len(wire') + 0 + Len(queue') = Len(heard)
        BY <1>a, <2>1, <2>2, <2>3 DEF Straight
    <2> QED
        BY <2>1, <2>3, <2>4, <2>5 DEF Straight
<1>7. CASE SendFails \/ FlvIdle \/ Leave
    BY <1>7 DEF SendFails, FlvIdle, Leave
<1>8. CASE Absorb
    <2>1. proto = "flv"
        BY <1>8 DEF Absorb
    <2> QED
        BY <1>8, <2>1 DEF Absorb, Sendable
<1>9. CASE TrackOpens \/ Detach \/ Close
    BY <1>9 DEF TrackOpens, Detach, Close
<1>10. CASE Peer \/ UNCHANGED vars
    BY <1>0, <1>10 DEF Peer, vars, feed, viewer, queues, writer
<1> QED
    BY <1>1, <1>2, <1>3, <1>4, <1>5, <1>6, <1>7, <1>8, <1>9, <1>10 DEF Next

\* The counted positions are those of the concatenation.
LEMMA StraightNoSkip == TypeOK /\ Straight => FlvNoSkip
<1> SUFFICES ASSUME TypeOK, Straight, proto = "flv", phase = "in"
             PROVE  /\ \A i \in DOMAIN (wire \o Taken \o queue) : (wire \o Taken \o queue)[i] = i
                    /\ open => Len(wire \o Taken \o queue) = Len(heard)
    BY DEF FlvNoSkip
<1> DEFINE D == 1 .. Len(heard)
           sent == wire \o Taken
           kept == sent \o queue
<1>1. wire \in Seq(D) /\ queue \in Seq(D) /\ taken \in D \cup {0} /\ Len(heard) \in Nat
    BY Typed DEF TypeOK
<1> HIDE DEF D
<1>2. Taken \in Seq(D) /\ Len(Taken) = InHand /\ (taken # 0 => Taken[1] = taken)
    <2>1. CASE taken = 0
        BY <2>1, EmptySeq DEF Taken, InHand
    <2>2. CASE taken # 0
        BY <1>1, <2>2 DEF Taken, InHand
    <2> QED
        BY <2>1, <2>2
<1>3. /\ sent \in Seq(D) /\ Len(sent) = Len(wire) + InHand
      /\ \A i \in 1 .. Len(wire) + InHand : sent[i] = IF i <= Len(wire) THEN wire[i] ELSE Taken[i - Len(wire)]
    BY <1>1, <1>2, ConcatPlaces
<1> HIDE DEF sent
<1>4. /\ kept \in Seq(D) /\ Len(kept) = Len(sent) + Len(queue)
      /\ \A i \in 1 .. Len(sent) + Len(queue) : kept[i] = IF i <= Len(sent) THEN sent[i] ELSE queue[i - Len(sent)]
    BY <1>1, <1>3, ConcatPlaces
<1> HIDE DEF kept
<1>5. Len(wire) \in Nat /\ Len(queue) \in Nat /\ InHand \in {0, 1} /\ (InHand = 1 <=> taken # 0)
    BY <1>1 DEF InHand
<1>6. \A i \in 1 .. Len(sent) : sent[i] = i
    <2> SUFFICES ASSUME NEW i \in 1 .. Len(sent) PROVE sent[i] = i
        OBVIOUS
    <2>1. CASE i <= Len(wire)
        BY <1>3, <1>5, <2>1 DEF Straight
    <2>2. CASE ~ (i <= Len(wire))
        <3>1. i = Len(wire) + 1 /\ taken # 0
            BY <1>3, <1>5, <2>2
        <3>2. sent[i] = Taken[1] /\ taken = i
            BY <1>3, <1>5, <2>2, <3>1 DEF Straight
        <3> QED
            BY <1>2, <3>1, <3>2
    <2> QED
        BY <2>1, <2>2
<1>7. \A i \in 1 .. Len(kept) : kept[i] = i
    <2> SUFFICES ASSUME NEW i \in 1 .. Len(kept) PROVE kept[i] = i
        OBVIOUS
    <2>1. CASE i <= Len(sent)
        BY <1>3, <1>4, <1>5, <1>6, <2>1
    <2>2. CASE ~ (i <= Len(sent))
        <3>1. i - Len(sent) \in 1 .. Len(queue) /\ kept[i] = queue[i - Len(sent)]
            BY <1>3, <1>4, <1>5, <2>2
        <3>2. queue[i - Len(sent)] = Len(wire) + InHand + (i - Len(sent))
            BY <3>1 DEF Straight
        <3> QED
            BY <1>3, <1>5, <3>1, <3>2
    <2> QED
        BY <2>1, <2>2
<1>8. open => Len(kept) = Len(heard)
    BY <1>3, <1>4, <1>5 DEF Straight
<1>9. DOMAIN kept = 1 .. Len(kept)
    BY <1>4
<1> QED
    BY <1>7, <1>8, <1>9 DEF kept, sent

\* An HTTP-FLV player is cut off, never skipped.
THEOREM FlvNoSkipHolds == Spec => []FlvNoSkip
<1>1. Init => PathInv /\ Straight
    <2> SUFFICES ASSUME Init PROVE Straight
        BY InitPath
    <2> QED
        BY EmptySeq DEF Init, Straight, InHand
<1>2. PathInv /\ Straight /\ [Next]_vars => PathInv' /\ Straight'
    BY PathStep, StraightStep
<1>3. PathInv /\ Straight => FlvNoSkip
    BY StraightNoSkip DEF PathInv
<1> QED
    BY <1>1, <1>2, <1>3, PTL DEF Spec

-----------------------------------------------------------------------------
(* SRT: what was published before the caller joined is in the cache when its *)
(* writer looks for parameter sets, which is before it takes anything.       *)

HeaderBefore == \E n \in 1 .. joined : log[n] = "header"

Configured ==
    proto = "srt" =>
        /\ taken # 0 => seeded
        /\ seeded /\ HeaderBefore => config

LEMMA ConfiguredStep == PathInv /\ Configured /\ [Next]_vars => Configured'
<1> SUFFICES ASSUME PathInv, Configured, [Next]_vars, proto' = "srt" PROVE Configured'
    BY DEF Configured
<1> USE DEF feed, viewer, queues, writer
<1>a. TypeOK /\ Fresh /\ joined \in 0 .. published /\ published \in Nat
    BY Typed DEF PathInv, TypeOK
<1>0. ASSUME UNCHANGED << proto, log, joined, seeded, config >>, taken' \in {taken, 0}
      PROVE  Configured'
    BY <1>0 DEF Configured, HeaderBefore
<1>1. ASSUME NEW kind \in Kind, Publish(kind) PROVE Configured'
    <2>1. UNCHANGED << proto, joined, seeded, config, taken >>
        BY <1>1 DEF Publish
    <2>2. \A n \in 1 .. published : log'[n] = log[n]
        BY <1>a, <1>1, PublishType
    <2>3. \A n \in 1 .. joined : log'[n] = log[n]
        BY <1>a, <2>2
    <2> QED
        BY <2>1, <2>3 DEF Configured, HeaderBefore
<1>2. CASE Join
    BY <1>a, <1>2 DEF Join, Fresh, Configured
<1>3. CASE Seed
    <2>1. /\ UNCHANGED << proto, log, joined, taken >>
          /\ seeded' = TRUE /\ config' = (CachedHeader # << >>)
        BY <1>3 DEF Seed
    <2>2. HeaderBefore => CachedHeader # << >>
        <3> SUFFICES ASSUME NEW n \in 1 .. joined, log[n] = "header" PROVE CachedHeader # << >>
            BY DEF HeaderBefore
        <3>1. n \in {m \in 1 .. published : log[m] = "header"}
            BY <1>a
        <3> QED
            BY <3>1 DEF CachedHeader
    <2> QED
        BY <2>1, <2>2 DEF Configured, HeaderBefore
<1>4. CASE Take
    <2>1. UNCHANGED << proto, log, joined, seeded, config >> /\ Writing
        BY <1>4 DEF Take
    <2>2. seeded
        BY <2>1 DEF Writing
    <2> QED
        BY <2>1, <2>2 DEF Configured, HeaderBefore
<1>5. CASE Absorb
    <2>1. /\ UNCHANGED << proto, log, joined, seeded >> /\ taken' = 0
          /\ config => config'
        BY <1>5, <1>a DEF Absorb, TypeOK
    <2> QED
        BY <2>1 DEF Configured, HeaderBefore
<1>6. CASE Deliver \/ Hand
    BY <1>0, <1>6 DEF Deliver, Hand
<1>7. CASE Send \/ SendFails \/ FlvIdle \/ Leave
    BY <1>0, <1>7 DEF Send, SendFails, FlvIdle, Leave
<1>8. CASE TrackOpens \/ Detach \/ Close \/ Peer \/ UNCHANGED vars
    BY <1>0, <1>8 DEF TrackOpens, Detach, Close, Peer, vars
<1> QED
    BY <1>1, <1>2, <1>3, <1>4, <1>5, <1>6, <1>7, <1>8 DEF Next

\* A late SRT caller has the parameter sets when it takes its first frame, even if the
\* header was dropped from its full queue.
THEOREM LateCallerConfiguredHolds == Spec => []LateCallerConfigured
<1>1. Init => PathInv /\ Configured
    BY InitPath DEF Init, Configured
<1>2. PathInv /\ Configured /\ [Next]_vars => PathInv' /\ Configured'
    BY PathStep, ConfiguredStep
<1>3. Configured => LateCallerConfigured
    BY DEF Configured, LateCallerConfigured, HeaderBefore
<1> QED
    BY <1>1, <1>2, <1>3, PTL DEF Spec

-----------------------------------------------------------------------------
(* WHEP: what is still to be sent has a keyframe before it that no overflow  *)
(* has cut off from it, on the wire or among what is still to be sent; or it *)
(* will be thrown away, as no keyframe has been seen and none comes before.  *)

Pending == (Range(queue) \cup {taken}) \ {0}

Sent == Range(wire)

Keyframe(x) == KindAt(x) = "key"

Clean(x, d) == Keyframe(x) /\ \A c \in cuts : ~ (x < c /\ c <= d)

PendingKeyed ==
    \A d \in Pending : KindAt(d) = "delta" =>
        \/ \E x \in Pending \cup Sent : x < d /\ Clean(x, d)
        \/ ~seen /\ \A x \in Pending : x < d => ~Keyframe(x)

NextKeyed ==
    ~waiting =>
        \/ \E x \in Pending \cup Sent : Keyframe(x) /\ \A c \in cuts : c <= x
        \/ ~seen /\ \A x \in Pending : ~Keyframe(x)

Keyed ==
    proto = "whep" /\ track # "closed" =>
        (track = "unopened" => ~seen) /\ PendingKeyed /\ NextKeyed

KeyInv == PathInv /\ Keyed /\ KeyBeforeDelta

\* What is pending or sent is a call, and so is a cut.
LEMMA CallNumbers ==
    ASSUME TypeOK
    PROVE  /\ Len(heard) \in Nat
           /\ Pending \subseteq 1 .. Len(heard) /\ Sent \subseteq 1 .. Len(heard)
           /\ cuts \subseteq 1 .. Len(heard)
           /\ \A i \in DOMAIN wire : wire[i] \in 1 .. Len(heard) /\ wire[i] \in Sent
           /\ DOMAIN wire = 1 .. Len(wire) /\ Len(wire) \in Nat
           /\ seen \in BOOLEAN /\ waiting \in BOOLEAN
<1> DEFINE D == 1 .. Len(heard)
<1>1. /\ queue \in Seq(D) /\ wire \in Seq(D) /\ taken \in D \cup {0} /\ cuts \subseteq D
      /\ Len(heard) \in Nat /\ seen \in BOOLEAN /\ waiting \in BOOLEAN
    BY Typed DEF TypeOK
<1>2. 0 \notin D
    OBVIOUS
<1> HIDE DEF D
<1>3. Range(queue) \subseteq D /\ Range(wire) \subseteq D
    BY <1>1, RangeType
<1>4. Pending \subseteq D
    BY <1>1, <1>3 DEF Pending
<1> QED
    BY <1>1, <1>3, <1>4 DEF Sent, D, Range

\* A call keeps its kind.
LEMMA KindKept ==
    ASSUME TypeOK, Fresh, [Next]_vars
    PROVE  \A x \in 1 .. Len(heard) : KindAt(x)' = KindAt(x)
<1> SUFFICES ASSUME NEW x \in 1 .. Len(heard) PROVE log'[heard'[x]] = log[heard[x]]
    BY DEF KindAt
<1>1. heard[x] \in 1 .. published
    <2> DEFINE S == 1 .. published
    <2>1. heard \in Seq(S)
        BY DEF TypeOK
    <2> HIDE DEF S
    <2>2. heard[x] \in S
        BY <2>1, ElementOfSeq
    <2> QED
        BY <2>2 DEF S
<1>2. ASSUME NEW kind \in Kind, Publish(kind) PROVE log'[heard'[x]] = log[heard[x]]
    BY <1>1, <1>2, PublishType
<1>3. ASSUME NEW n \in 1 .. published, Hear(n), log' = log PROVE log'[heard'[x]] = log[heard[x]]
    BY <1>3, HearEffect
<1>4. CASE UNCHANGED << log, heard >>
    BY <1>4
<1> QED
    BY <1>2, <1>3, <1>4, StepKinds DEF Take, Send, feed, queues

\* A step that moves nothing out of what is pending or sent.
LEMMA KeyedSame ==
    ASSUME KeyInv, [Next]_vars, Pending' = Pending, Sent' = Sent, wire' = wire,
           UNCHANGED << proto, seen, waiting, cuts >>,
           track' = track \/ (track = "unopened" /\ track' = "open")
    PROVE  Keyed' /\ KeyBeforeDelta'
<1>1. TypeOK /\ Fresh /\ Keyed /\ KeyBeforeDelta
    BY DEF KeyInv, PathInv
<1>2. \A x \in Pending \cup Sent : KindAt(x)' = KindAt(x)
    BY <1>1, KindKept, CallNumbers
<1>3. \A i \in DOMAIN wire : KindAt(wire[i])' = KindAt(wire[i])
    BY <1>1, KindKept, CallNumbers
<1>4. proto = "whep" /\ track # "closed" => PendingKeyed' /\ NextKeyed'
    <2>1. \A x \in Pending \cup Sent : Keyframe(x)' = Keyframe(x)
        BY <1>2 DEF Keyframe
    <2>2. \A x \in Pending \cup Sent : \A d : Clean(x, d)' = Clean(x, d)
        BY <2>1 DEF Clean
    <2>3. proto = "whep" /\ track # "closed" => PendingKeyed /\ NextKeyed
        BY <1>1 DEF Keyed
    <2> HIDE DEF KeyInv
    <2>4. PendingKeyed => PendingKeyed'
        BY <1>2, <2>1, <2>2 DEF PendingKeyed
    <2>5. NextKeyed => NextKeyed'
        BY <2>1 DEF NextKeyed
    <2> QED
        BY <2>3, <2>4, <2>5
<1>5. Keyed'
    BY <1>1, <1>4 DEF Keyed
<1>6. KeyBeforeDelta'
    <2>1. \A i \in DOMAIN wire : \A j \in 1 .. i - 1 : j \in DOMAIN wire
        BY <1>1, CallNumbers
    <2> QED
        BY <1>1, <1>3, <2>1 DEF KeyBeforeDelta
<1> QED
    BY <1>5, <1>6

\* A call of the callback.  An overflow leaves nothing pending that needs a keyframe, but
\* for what the writer has in hand and will throw away; otherwise what is queued needs
\* no more than what is pending or sent.
LEMMA KeyedHear ==
    ASSUME KeyInv, [Next]_vars, NEW n \in 1 .. published, Hear(n),
           UNCHANGED << proto, log, taken, wire, track >>
    PROVE  Keyed' /\ KeyBeforeDelta'
<1>0. PICK i : i = Len(heard) + 1
    OBVIOUS
<1>1. TypeOK /\ Fresh /\ Ordered /\ Keyed /\ KeyBeforeDelta
    BY DEF KeyInv, PathInv
<1>2. /\ Pending \subseteq 1 .. Len(heard) /\ Sent \subseteq 1 .. Len(heard)
      /\ cuts \subseteq 1 .. Len(heard) /\ Len(heard) \in Nat
      /\ seen \in BOOLEAN /\ waiting \in BOOLEAN
      /\ taken \in Nat /\ Sent' = Sent
    <2>1. taken \in 0 .. Len(heard) /\ Len(heard) \in Nat
        BY <1>1, Typed DEF TypeOK
    <2>2. Sent' = Sent
        BY DEF Sent
    <2> QED
        BY <1>1, <2>1, <2>2, CallNumbers
<1>3. \A x \in 1 .. Len(heard) : KindAt(x)' = KindAt(x)
    BY <1>1, KindKept
<1>4. KindAt(i)' = log[n] /\ i \in Nat /\ i \notin 1 .. Len(heard)
    BY <1>0, <1>1, <1>2, HearEffect DEF KindAt
<1>5. KeyBeforeDelta'
    <2>1. cuts' \subseteq cuts \cup {i}
        BY <1>0, <1>1, HearEffect
    <2> SUFFICES ASSUME proto = "whep", NEW k \in DOMAIN wire, KindAt(wire[k])' = "delta"
                 PROVE  \E j \in 1 .. k - 1 :
                           /\ KindAt(wire[j])' = "key"
                           /\ \A c \in cuts' : ~ (wire[j] < c /\ c <= wire[k])
        BY DEF KeyBeforeDelta
    <2>2. wire[k] \in 1 .. Len(heard) /\ KindAt(wire[k]) = "delta"
        BY <1>1, <1>3, CallNumbers
    <2>3. PICK j \in 1 .. k - 1 : KindAt(wire[j]) = "key" /\ \A c \in cuts : ~ (wire[j] < c /\ c <= wire[k])
        BY <1>1, <2>2 DEF KeyBeforeDelta
    <2>4. j \in DOMAIN wire
        BY <1>1, CallNumbers
    <2>5. wire[j] \in 1 .. Len(heard) /\ KindAt(wire[j])' = "key"
        BY <1>1, <1>3, <2>3, <2>4, CallNumbers
    <2>6. \A c \in cuts' : ~ (wire[j] < c /\ c <= wire[k])
        BY <1>0, <1>2, <2>1, <2>2, <2>3
    <2> QED
        BY <2>5, <2>6
<1>6. ASSUME UNCHANGED << queue, seen, waiting, cuts >> PROVE Keyed'
    <2>1. Pending' = Pending
        BY <1>6 DEF Pending
    <2> QED
        BY <1>2, <1>6, <2>1, KeyedSame
<1>7. ASSUME proto = "whep", track # "closed", WhepPush(i, log[n])
      PROVE  PendingKeyed' /\ NextKeyed' /\ (track = "unopened" => ~seen')
    <2>0. PendingKeyed /\ NextKeyed /\ (track = "unopened" => ~seen)
        BY <1>1, <1>7 DEF Keyed
    <2>a. (seen' => seen) /\ seen' \in BOOLEAN /\ waiting' \in BOOLEAN
        BY <1>1, <1>2, <1>7, HearEffect DEF WhepPush
    <2>b. \A x \in Pending \cup Sent : /\ x \in 1 .. Len(heard) /\ x < i
                                       /\ KindAt(x)' = KindAt(x) /\ Keyframe(x)' = Keyframe(x)
        BY <1>0, <1>2, <1>3 DEF Keyframe
    <2>c. Keyframe(i)' <=> log[n] = "key"
        BY <1>4 DEF Keyframe
    <2>1. CASE Len(queue) >= WhepMax
        <3>1. /\ cuts' = cuts \cup {i} /\ ~seen'
              /\ waiting' = (log[n] # "key")
            BY <1>2, <1>7, <2>1 DEF WhepPush
        <3>2. queue' = IF log[n] = "delta" THEN << >> ELSE Append(<< >>, i)
            BY <1>2, <1>7, <2>1 DEF WhepPush
        <3>3. Range(queue') = IF log[n] = "delta" THEN {} ELSE {i}
            <4>1. CASE log[n] = "delta"
                BY <3>2, <4>1, RangeEmpty
            <4>2. CASE log[n] # "delta"
                <5>1. queue' = << i >>
                    BY <3>2, <4>2
                <5>2. Range(<< i >>) = {i}
                    BY DEF Range
                <5> QED
                    BY <4>2, <5>1, <5>2
            <4> QED
                BY <4>1, <4>2
        <3>4. /\ Pending' \subseteq {taken, i}
              /\ log[n] # "delta" => i \in Pending'
              /\ log[n] = "delta" => i \notin Pending' \/ i = taken
              /\ taken # i
            <4>1. taken \in 0 .. Len(heard) /\ taken' = taken /\ 0 \notin 1 .. Len(heard)
                BY <1>1, Typed DEF TypeOK
            <4>2. i # 0 /\ taken # i
                BY <1>0, <1>2, <4>1
            <4>3. Pending' = (IF log[n] = "delta" THEN {taken} ELSE {i, taken}) \ {0}
                BY <3>3, <4>1 DEF Pending
            <4> QED
                BY <4>2, <4>3
        <3>5. PendingKeyed'
            <4> SUFFICES ASSUME NEW d \in Pending', KindAt(d)' = "delta"
                         PROVE  \A x \in Pending' : ~ (x < d)
                BY <3>1 DEF PendingKeyed
            <4>1. d = taken
                BY <1>4, <3>4
            <4>2. taken \in Nat /\ taken < i /\ i \in Nat
                BY <1>0, <1>1, <1>2, Typed DEF TypeOK
            <4> QED
                BY <3>4, <4>1, <4>2
        <3>6. NextKeyed'
            <4> SUFFICES ASSUME log[n] = "key"
                         PROVE  \E x \in Pending' : Keyframe(x)' /\ \A c \in cuts' : c <= x
                BY <3>1 DEF NextKeyed
            <4>1. i \in Pending' /\ Keyframe(i)' /\ \A c \in cuts' : c <= i
                BY <1>0, <1>2, <2>c, <3>1, <3>4
            <4> QED
                BY <4>1
        <3> QED
            BY <3>1, <3>5, <3>6
    <2>2. CASE ~ (Len(queue) >= WhepMax)
        <3>1. /\ cuts' = cuts /\ (seen' <=> seen)
              /\ waiting' = (waiting /\ log[n] # "key")
              /\ queue' = IF waiting /\ log[n] = "delta" THEN queue ELSE Append(queue, i)
            BY <1>2, <1>7, <2>2, <2>a DEF WhepPush
        <3>2. \A x \in Pending \cup Sent : \A d : Clean(x, d)' <=> Clean(x, d)
            BY <2>b, <3>1 DEF Clean
        <3>3. Range(Append(queue, i)) = Range(queue) \cup {i}
            <4>1. queue \in Rests
                BY DEF Rests
            <4> QED
                BY <1>0, <1>1, <4>1, RestsOrdered DEF Ordered
        <3>4. Pending' = IF waiting /\ log[n] = "delta" THEN Pending ELSE Pending \cup {i}
            <4>1. i # 0 /\ taken' = taken
                BY <1>0, <1>2
            <4>2. CASE waiting /\ log[n] = "delta"
                <5>1. queue' = queue
                    BY <3>1, <4>2
                <5> QED
                    BY <4>1, <4>2, <5>1 DEF Pending
            <4>3. CASE ~ (waiting /\ log[n] = "delta")
                <5>1. Range(queue') = Range(queue) \cup {i}
                    BY <3>1, <3>3, <4>3
                <5> QED
                    BY <4>1, <4>3, <5>1 DEF Pending
            <4> QED
                BY <4>2, <4>3
        <3>5. PendingKeyed'
            <4> SUFFICES ASSUME NEW d \in Pending', KindAt(d)' = "delta"
                         PROVE  \/ \E x \in Pending' \cup Sent' : x < d /\ Clean(x, d)'
                                \/ ~seen' /\ \A x \in Pending' : x < d => ~Keyframe(x)'
                BY DEF PendingKeyed
            <4>1. CASE d \in Pending
                <5>1. KindAt(d) = "delta" /\ ~ (i < d) /\ i # d
                    BY <1>0, <1>2, <2>b, <4>1
                <5>2. CASE \E x \in Pending \cup Sent : x < d /\ Clean(x, d)
                    BY <1>2, <3>2, <3>4, <5>2
                <5>3. CASE ~seen /\ \A x \in Pending : x < d => ~Keyframe(x)
                    BY <2>b, <3>1, <3>4, <5>1, <5>3
                <5> QED
                    BY <2>0, <4>1, <5>1, <5>2, <5>3 DEF PendingKeyed
            <4>2. CASE d \notin Pending
                <5>1. d = i /\ ~waiting
                    BY <1>2, <1>4, <3>4, <4>2, Zenon
                <5>2. CASE \E x \in Pending \cup Sent : Keyframe(x) /\ \A c \in cuts : c <= x
                    <6>1. PICK x \in Pending \cup Sent : Keyframe(x) /\ \A c \in cuts : c <= x
                        BY <5>2
                    <6>2. x \in Nat /\ x < i /\ \A c \in cuts : c \in Nat /\ ~ (x < c)
                        BY <1>2, <2>b, <6>1
                    <6>3. Clean(x, i)
                        BY <6>1, <6>2 DEF Clean
                    <6> QED
                        BY <1>2, <3>2, <3>4, <5>1, <6>2, <6>3
                <5>3. CASE ~seen /\ \A x \in Pending : ~Keyframe(x)
                    <6>1. ~ (i < i)
                        BY <1>4
                    <6> QED
                        BY <2>b, <3>1, <3>4, <5>1, <5>3, <6>1
                <5> QED
                    BY <2>0, <5>1, <5>2, <5>3 DEF NextKeyed
            <4> QED
                BY <4>1, <4>2
        <3>6. NextKeyed'
            <4> SUFFICES ASSUME ~waiting'
                         PROVE  \/ \E x \in Pending' \cup Sent' :
                                      Keyframe(x)' /\ \A c \in cuts' : c <= x
                                \/ ~seen' /\ \A x \in Pending' : ~Keyframe(x)'
                BY DEF NextKeyed
            <4>1. CASE log[n] = "key"
                <5>1. i \in Pending' /\ Keyframe(i)' /\ \A c \in cuts' : c <= i
                    BY <1>0, <1>2, <2>c, <3>1, <3>4, <4>1
                <5> QED
                    BY <5>1
            <4>2. CASE log[n] # "key"
                <5>1. ~waiting /\ ~Keyframe(i)'
                    BY <1>2, <2>c, <3>1, <4>2
                <5>2. CASE \E x \in Pending \cup Sent : Keyframe(x) /\ \A c \in cuts : c <= x
                    BY <1>2, <2>b, <3>1, <3>4, <5>2
                <5>3. CASE ~seen /\ \A x \in Pending : ~Keyframe(x)
                    BY <2>b, <3>1, <3>4, <5>1, <5>3
                <5> QED
                    BY <2>0, <5>1, <5>2, <5>3 DEF NextKeyed
            <4> QED
                BY <4>1, <4>2
        <3> QED
            BY <2>0, <3>1, <3>5, <3>6
    <2> QED
        BY <2>1, <2>2
<1>8. Keyed'
    <2>1. CASE proto = "whep" /\ WhepPush(i, log[n])
        BY <1>7, <2>1 DEF Keyed
    <2>2. CASE proto # "whep"
        BY <2>2 DEF Keyed
    <2> QED
        BY <1>0, <1>6, <2>1, <2>2 DEF Hear
<1> QED
    BY <1>5, <1>8

\* The least of what is pending is what the writer has in hand.
LEMMA InHandFirst ==
    ASSUME TypeOK, Ordered, taken # 0
    PROVE  /\ taken \in Pending /\ taken \in 1 .. Len(heard)
           /\ \A x \in Pending : x # taken => taken < x
           /\ taken \notin Range(queue)
<1>1. taken \in 1 .. Len(heard) /\ taken \in Nat
    BY Typed DEF TypeOK
<1>2. \A x \in Range(queue) : taken < x
    BY DEF Ordered
<1>3. taken \notin Range(queue)
    BY <1>1, <1>2
<1> QED
    BY <1>1, <1>2, <1>3 DEF Pending

\* What is sent needs a keyframe that is pending or sent, and as the first of what is
\* pending one that is sent; a keyframe that is sent serves those that wait.
LEMMA KeyedSend ==
    ASSUME KeyInv, [Next]_vars, Send
    PROVE  Keyed' /\ KeyBeforeDelta'
<1> SUFFICES ASSUME proto' = "whep" PROVE Keyed' /\ KeyBeforeDelta'
    BY DEF Keyed, KeyBeforeDelta
<1>1. TypeOK /\ Fresh /\ Ordered /\ Keyed /\ KeyBeforeDelta
    BY DEF KeyInv, PathInv
<1>2. /\ proto = "whep" /\ taken # 0 /\ taken' = 0 /\ track = "open" /\ track' = "open"
      /\ wire' = Append(wire, taken)
      /\ UNCHANGED << queue, cuts, waiting, heard >>
      /\ Keyframe(taken) \/ seen
      /\ seen' = (seen \/ (proto = "whep" /\ KindAt(taken) = "key"))
    BY DEF Send, Sendable, queues, Keyframe
<1>3. /\ Pending \subseteq 1 .. Len(heard) /\ Sent \subseteq 1 .. Len(heard)
      /\ Len(heard) \in Nat /\ seen \in BOOLEAN
      /\ DOMAIN wire = 1 .. Len(wire) /\ Len(wire) \in Nat
      /\ \A k \in DOMAIN wire : wire[k] \in 1 .. Len(heard)
    BY <1>1, CallNumbers
<1>4. /\ taken \in Pending /\ taken \in 1 .. Len(heard)
      /\ \A x \in Pending : x # taken => taken < x
      /\ taken \notin Range(queue)
    BY <1>1, <1>2, InHandFirst
<1>5. /\ Len(wire') = Len(wire) + 1 /\ wire'[Len(wire) + 1] = taken
      /\ \A k \in 1 .. Len(wire) : wire'[k] = wire[k]
      /\ DOMAIN wire' = 1 .. Len(wire) + 1
      /\ Sent' = Sent \cup {taken}
    <2> DEFINE D == 1 .. Len(heard)
    <2>1. wire \in Seq(D) /\ taken \in D
        BY <1>1, <1>4, Typed
    <2> HIDE DEF D
    <2>2. Range(Append(wire, taken)) = Range(wire) \cup {taken}
        BY <2>1, RangeAppend
    <2> QED
        BY <1>2, <2>1, <2>2 DEF Sent
<1>6. Pending' = Pending \ {taken} /\ Pending' \cup Sent' = Pending \cup Sent
    BY <1>2, <1>4, <1>5 DEF Pending
<1>7. /\ \A x \in 1 .. Len(heard) : KindAt(x)' = KindAt(x) /\ Keyframe(x)' = Keyframe(x)
      /\ \A x \in 1 .. Len(heard) : \A d : Clean(x, d)' <=> Clean(x, d)
    <2>1. \A x \in 1 .. Len(heard) : KindAt(x)' = KindAt(x)
        BY <1>1, KindKept
    <2>2. \A x \in 1 .. Len(heard) : Keyframe(x)' = Keyframe(x)
        BY <2>1 DEF Keyframe
    <2> QED
        BY <1>2, <2>1, <2>2 DEF Clean
<1>8. PendingKeyed /\ NextKeyed
    BY <1>1, <1>2 DEF Keyed
<1>9. ~ (~seen /\ ~Keyframe(taken))
    BY <1>2
<1>10. PendingKeyed'
    <2> SUFFICES ASSUME NEW d \in Pending', KindAt(d)' = "delta"
                 PROVE  \E x \in Pending' \cup Sent' : x < d /\ Clean(x, d)'
        BY DEF PendingKeyed
    <2>1. d \in Pending /\ KindAt(d) = "delta" /\ taken < d
        BY <1>3, <1>4, <1>6, <1>7
    <2>2. \E x \in Pending \cup Sent : x < d /\ Clean(x, d)
        BY <1>4, <1>8, <1>9, <2>1 DEF PendingKeyed
    <2> QED
        BY <1>3, <1>6, <1>7, <2>2
<1>11. NextKeyed'
    <2> SUFFICES ASSUME ~waiting
                 PROVE  \E x \in Pending' \cup Sent' : Keyframe(x)' /\ \A c \in cuts : c <= x
        BY <1>2 DEF NextKeyed
    <2>1. \E x \in Pending \cup Sent : Keyframe(x) /\ \A c \in cuts : c <= x
        BY <1>4, <1>8, <1>9 DEF NextKeyed
    <2> QED
        BY <1>3, <1>6, <1>7, <2>1
<1>12. Keyed'
    BY <1>2, <1>10, <1>11 DEF Keyed
<1>13. KeyBeforeDelta'
    <2> SUFFICES ASSUME NEW k \in 1 .. Len(wire) + 1, KindAt(wire[k])' = "delta"
                 PROVE  \E j \in 1 .. k - 1 :
                           /\ KindAt(wire[j])' = "key"
                           /\ \A c \in cuts : ~ (wire'[j] < c /\ c <= wire'[k])
        BY <1>2, <1>5 DEF KeyBeforeDelta
    <2>1. CASE k \in 1 .. Len(wire)
        <3>1. k \in DOMAIN wire /\ wire'[k] = wire[k] /\ KindAt(wire[k]) = "delta"
            BY <1>3, <1>5, <1>7, <2>1
        <3>2. PICK j \in 1 .. k - 1 : KindAt(wire[j]) = "key" /\ \A c \in cuts : ~ (wire[j] < c /\ c <= wire[k])
            BY <1>1, <1>2, <3>1 DEF KeyBeforeDelta
        <3>3. j \in 1 .. Len(wire)
            BY <1>3, <2>1
        <3>4. wire'[j] = wire[j] /\ KindAt(wire[j])' = "key"
            BY <1>3, <1>5, <1>7, <3>2, <3>3
        <3> QED
            BY <3>1, <3>2, <3>4
    <2>2. CASE k = Len(wire) + 1
        <3>1. wire'[k] = taken /\ KindAt(taken) = "delta"
            BY <1>4, <1>5, <1>7, <2>2
        <3>2. seen
            BY <1>2, <3>1 DEF Keyframe
        <3>3. PICK x \in Pending \cup Sent : x < taken /\ Clean(x, taken)
            BY <1>4, <1>8, <3>1, <3>2 DEF PendingKeyed
        <3>4. x \in Sent
            BY <1>3, <1>4, <3>3
        <3>5. PICK j \in 1 .. Len(wire) : x = wire[j]
            BY <1>3, <3>4 DEF Sent, Range
        <3>6. wire'[j] = x /\ KindAt(x)' = "key" /\ \A c \in cuts : ~ (x < c /\ c <= taken)
            BY <1>3, <1>5, <1>7, <3>3, <3>4, <3>5 DEF Clean, Keyframe
        <3>7. j \in 1 .. k - 1
            BY <1>3, <2>2
        <3> QED
            BY <3>1, <3>6, <3>7
    <2> QED
        BY <1>3, <2>1, <2>2
<1> QED
    BY <1>12, <1>13

\* What is thrown away served nobody: it is no keyframe, or no track has opened, and then
\* nothing will be sent until a later keyframe.
LEMMA KeyedAbsorb ==
    ASSUME KeyInv, [Next]_vars, Absorb
    PROVE  Keyed' /\ KeyBeforeDelta'
<1>1. TypeOK /\ Fresh /\ Ordered /\ Keyed /\ KeyBeforeDelta
    BY DEF KeyInv, PathInv
<1>2. /\ taken # 0 /\ taken' = 0 /\ ~Sendable
      /\ UNCHANGED << proto, queue, cuts, waiting, heard, log, wire, seen, track >>
    BY DEF Absorb, queues, feed
<1>3. /\ Pending \subseteq 1 .. Len(heard) /\ Sent \subseteq 1 .. Len(heard)
      /\ cuts \subseteq 1 .. Len(heard)
      /\ Len(heard) \in Nat /\ seen \in BOOLEAN
    BY <1>1, CallNumbers
<1>4. /\ taken \in Pending /\ taken \in 1 .. Len(heard)
      /\ \A x \in Pending : x # taken => taken < x
      /\ taken \notin Range(queue)
    BY <1>1, <1>2, InHandFirst
<1>5. Pending' = Pending \ {taken} /\ Sent' = Sent
    BY <1>2, <1>4 DEF Pending, Sent
<1>6. /\ \A x : KindAt(x)' = KindAt(x) /\ Keyframe(x)' = Keyframe(x)
      /\ \A x, d : Clean(x, d)' <=> Clean(x, d)
    BY <1>2 DEF KindAt, Keyframe, Clean
<1>7. KeyBeforeDelta'
    BY <1>1, <1>2 DEF KeyBeforeDelta, KindAt
<1>8. ASSUME proto = "whep", track # "closed" PROVE PendingKeyed' /\ NextKeyed'
    <2>1. PendingKeyed /\ NextKeyed /\ (track = "unopened" => ~seen)
        BY <1>1, <1>8 DEF Keyed
    <2>2. Keyframe(taken) => ~seen
        <3>1. track \in {"unopened", "open"}
            BY <1>1, <1>8 DEF TypeOK
        <3> QED
            BY <1>2, <1>8, <2>1, <3>1 DEF Sendable, Keyframe
    <2>3. PendingKeyed'
        <3> SUFFICES ASSUME NEW d \in Pending \ {taken}, KindAt(d) = "delta",
                            ~ \E x \in (Pending \ {taken}) \cup Sent : x < d /\ Clean(x, d)
                     PROVE  ~seen /\ \A x \in Pending \ {taken} : x < d => ~Keyframe(x)
            BY <1>2, <1>5, <1>6 DEF PendingKeyed
        <3>1. CASE ~seen /\ \A x \in Pending : x < d => ~Keyframe(x)
            BY <3>1
        <3>2. CASE \E x \in Pending \cup Sent : x < d /\ Clean(x, d)
            <4>1. taken < d /\ Clean(taken, d)
                BY <3>2
            <4>2. ASSUME NEW y \in Pending \ {taken}, y < d, Keyframe(y) PROVE FALSE
                <5>1. taken < y /\ y \in Nat /\ taken \in Nat /\ cuts \subseteq Nat
                    BY <1>3, <1>4
                <5>2. Clean(y, d)
                    BY <4>1, <4>2, <5>1 DEF Clean
                <5> QED
                    BY <4>2, <5>2
            <4> QED
                BY <2>2, <4>1, <4>2 DEF Clean
        <3> QED
            BY <2>1, <3>1, <3>2 DEF PendingKeyed
    <2>4. NextKeyed'
        <3> SUFFICES ASSUME ~waiting,
                            ~ \E x \in (Pending \ {taken}) \cup Sent :
                                  Keyframe(x) /\ \A c \in cuts : c <= x
                     PROVE  ~seen /\ \A x \in Pending \ {taken} : ~Keyframe(x)
            BY <1>2, <1>5, <1>6 DEF NextKeyed
        <3>1. CASE ~seen /\ \A x \in Pending : ~Keyframe(x)
            BY <3>1
        <3>2. CASE \E x \in Pending \cup Sent : Keyframe(x) /\ \A c \in cuts : c <= x
            <4>1. Keyframe(taken) /\ \A c \in cuts : c <= taken
                BY <3>2
            <4>2. ASSUME NEW y \in Pending \ {taken}, Keyframe(y) PROVE FALSE
                <5>1. taken < y /\ y \in Nat /\ taken \in Nat /\ cuts \subseteq Nat
                    BY <1>3, <1>4
                <5>2. \A c \in cuts : c <= y
                    BY <4>1, <5>1
                <5> QED
                    BY <4>2, <5>2
            <4> QED
                BY <2>2, <4>1, <4>2
        <3> QED
            BY <2>1, <3>1, <3>2 DEF NextKeyed
    <2> QED
        BY <2>3, <2>4
<1>9. Keyed'
    BY <1>1, <1>2, <1>8 DEF Keyed
<1> QED
    BY <1>7, <1>9

LEMMA KeyStep == KeyInv /\ [Next]_vars => KeyInv'
<1> SUFFICES ASSUME KeyInv, [Next]_vars PROVE Keyed' /\ KeyBeforeDelta'
    BY PathStep DEF KeyInv
<1> USE DEF feed, viewer, queues, writer
<1>1. TypeOK /\ Fresh /\ Ordered /\ KeyBeforeDelta
    BY DEF KeyInv, PathInv
<1>2. ASSUME UNCHANGED << proto, queue, taken, wire, seen, waiting, cuts >>,
             track' = track \/ (track = "unopened" /\ track' = "open")
      PROVE  Keyed' /\ KeyBeforeDelta'
    BY <1>2, KeyedSame DEF Pending, Sent
<1>3. ASSUME UNCHANGED << proto, log, heard, wire, cuts >>, proto = "whep" => track' = "closed"
      PROVE  Keyed' /\ KeyBeforeDelta'
    BY <1>1, <1>3 DEF Keyed, KeyBeforeDelta, KindAt
<1>4. ASSUME NEW kind \in Kind, Publish(kind) PROVE Keyed' /\ KeyBeforeDelta'
    BY <1>2, <1>4 DEF Publish
<1>5. CASE Deliver
    <2>1. live \in 1 .. published /\ Hear(live)
        BY <1>1, <1>5, Typed DEF Deliver, TypeOK
    <2> QED
        BY <1>5, <2>1, KeyedHear DEF Deliver
<1>6. CASE Hand
    <2>1. handing \in Seq(1 .. published) /\ handing # << >> /\ Hear(Head(handing))
        BY <1>1, <1>6 DEF Hand, TypeOK
    <2>2. Head(handing) \in 1 .. published
        BY <2>1, HeadInRange
    <2> QED
        BY <1>6, <2>1, <2>2, KeyedHear DEF Hand
<1>7. CASE Take
    <2>1. taken = 0 /\ UNCHANGED << proto, wire, seen, waiting, cuts, track >>
        BY <1>7 DEF Take
    <2>2. taken' \in Range(queue) /\ Range(queue') = Range(queue) \ {taken'}
        BY <1>1, <1>7, TakeEffect
    <2>3. Pending' = Pending
        BY <2>1, <2>2 DEF Pending
    <2> QED
        BY <2>1, <2>3, KeyedSame DEF Sent
<1>8. CASE Join \/ Seed \/ TrackOpens \/ Peer \/ UNCHANGED vars
    BY <1>2, <1>8 DEF Join, Seed, TrackOpens, Peer, vars
<1>9. CASE SendFails \/ FlvIdle \/ Leave
    BY <1>3, <1>9 DEF SendFails, FlvIdle, Leave
<1>10. CASE Detach \/ Close
    BY <1>3, <1>10 DEF Detach, Close
<1> QED
    BY <1>4, <1>5, <1>6, <1>7, <1>8, <1>9, <1>10, KeyedSend, KeyedAbsorb DEF Next

\* No WHEP player is sent a frame without the keyframe it needs, whatever overflowed in
\* between and whatever the writer had in hand.
THEOREM KeyBeforeDeltaHolds == Spec => []KeyBeforeDelta
<1>1. Init => KeyInv
    <2> SUFFICES ASSUME Init PROVE Keyed /\ KeyBeforeDelta
        BY InitPath DEF KeyInv
    <2>1. Pending = {} /\ wire = << >> /\ ~seen
        BY RangeEmpty DEF Init, Pending
    <2> QED
        BY <2>1 DEF Keyed, PendingKeyed, NextKeyed, KeyBeforeDelta
<1>2. KeyInv /\ [Next]_vars => KeyInv'
    BY KeyStep
<1>3. KeyInv => KeyBeforeDelta
    BY DEF KeyInv
<1> QED
    BY <1>1, <1>2, <1>3, PTL DEF Spec

=============================================================================
