------------------------------ MODULE PlayQueue ------------------------------
(***************************************************************************)
(* The queue between the registry's callback and the thread that writes to *)
(* one viewer, which plays over HTTP-FLV, SRT or WHEP.  Each protocol has  *)
(* another answer to a full queue: HTTP-FLV cuts the viewer off, SRT drops *)
(* the oldest message, WHEP empties the queue and waits for a keyframe.    *)
(*                                                                         *)
(* One feeder publishes video: parameter sets ("header"), keyframes and    *)
(* frames that need them ("delta").  The queue, the message in the         *)
(* writer's hands and what went out name a message by its place in heard,  *)
(* the calls of the callback.  Viewers share nothing but the stream.       *)
(***************************************************************************)
EXTENDS Naturals, Sequences, Functions

CONSTANTS
    Protocol,    \* of "flv", "srt" and "whep"
    GopMax,      \* GopCache::max_packets_
    FlvMax,      \* kMaxQueuedTags
    SrtMax,      \* 256 in handle_play_client: the queue holds one more
    WhepMax,     \* 1024 in enqueue_play_media
    MaxMessages  \* bound of the model

ASSUME QueueAssumption ==
    /\ Protocol \subseteq {"flv", "srt", "whep"}
    /\ {GopMax, FlvMax, SrtMax, WhepMax} \subseteq Nat \ {0}
    /\ MaxMessages \in Nat

VARIABLES
    proto,     \* the viewer's protocol
    log,       \* the kinds of the messages published
    first,     \* the GOP cache holds the messages first .. Len(log)
    live,      \* the message the feeder has copied for the viewer, 0 if none
    phase,     \* out, in, leaving, gone
    joined,    \* Len(log) when the viewer registered
    handing,   \* what is left of its copy of the cache
    heard,     \* the messages its callback was invoked with
    queue,
    taken,     \* what the writer took from the queue and has not dealt with, 0 if none
    wire,      \* the frames it sent
    open,      \* HTTP-FLV: active; WHEP: not outbound_stop
    slow,      \* HTTP-FLV: slow_disconnect
    waiting,   \* WHEP: outbound_waiting_for_keyframe
    seen,      \* WHEP: video_keyframe_seen
    cuts,      \* WHEP: the calls that found the queue full
    config,    \* SRT: video_parameter_sets is not empty
    seeded,    \* SRT: its writer is past the look at the cache
    track,     \* WHEP: unopened, open, closed
    peer       \* reading, stalled, gone

feed   == << log, first, live >>
viewer == << phase, joined, handing >>
queues == << heard, queue, open, slow, waiting, cuts >>
writer == << taken, wire, seen, config, seeded, track >>
vars   == << proto, feed, viewer, queues, writer, peer >>

Kind == {"header", "key", "delta"}

Init ==
    /\ proto \in Protocol
    /\ log = << >> /\ first = 1 /\ live = 0
    /\ phase = "out" /\ joined = 0 /\ handing = << >>
    /\ heard = << >> /\ queue = << >> /\ open = TRUE /\ slow = FALSE
    /\ waiting = FALSE /\ cuts = {}
    /\ taken = 0 /\ wire = << >> /\ seen = FALSE /\ config = FALSE /\ seeded = FALSE
    /\ track = "unopened"
    /\ peer = "reading"

\* The kind of the message the callback was invoked with in its call i.
KindAt(i) == log[heard[i]]

published == Len(log)

\* A callback that is removed stays among the copies of a fan-out under way.
Registered == phase = "in" \/ (phase = "leaving" /\ proto # "whep")

-----------------------------------------------------------------------------
(* The stream. *)

\* publish_media: the header is kept apart and also enters the cache, which a
\* keyframe clears and which drops its oldest packet when it is full.
Publish(kind) ==
    /\ published < MaxMessages
    /\ live = 0
    /\ log' = Append(log, kind)
    /\ first' = IF kind = "key" THEN published + 1
                ELSE IF published + 1 - first = GopMax THEN first + 1 ELSE first
    /\ live' = IF Registered THEN published + 1 ELSE 0
    /\ UNCHANGED << proto, viewer, queues, writer, peer >>

\* video_sequence_header, as a sequence of at most one message.
CachedHeader ==
    LET headers == {n \in 1 .. published : log[n] = "header"}
    IN  IF headers = {} THEN << >>
        ELSE << CHOOSE n \in headers : \A m \in headers : m <= n >>

\* snapshot_cached_messages_locked
Snapshot == CachedHeader \o [i \in 1 .. published + 1 - first |-> first + i - 1]

-----------------------------------------------------------------------------
(* The callbacks. *)

\* Mutant: a full HTTP-FLV queue loses the tag and the player plays on.
FlvSkip(i) ==
    /\ open
    /\ queue' = IF Len(queue) >= FlvMax THEN queue ELSE Append(queue, i)
    /\ UNCHANGED << open, slow >>

FlvPush(i) ==
    /\ open
    /\ IF Len(queue) >= FlvMax
       THEN open' = FALSE /\ slow' = TRUE /\ UNCHANGED queue
       ELSE queue' = Append(queue, i) /\ UNCHANGED << open, slow >>

\* Mutant: the queue is unbounded.
SrtPushAll(i) == queue' = Append(queue, i)

SrtPush(i) ==
    queue' = Append(IF Len(queue) > SrtMax THEN Tail(queue) ELSE queue, i)

\* Mutant: an overflow empties the queue and does not wait for a keyframe.
WhepPushOn(i, kind) ==
    /\ open
    /\ queue' = IF Len(queue) >= WhepMax THEN << i >> ELSE Append(queue, i)
    /\ cuts' = IF Len(queue) >= WhepMax THEN cuts \cup {i} ELSE cuts
    /\ seen' = (seen /\ Len(queue) < WhepMax)
    /\ UNCHANGED waiting

\* enqueue_play_media
WhepPush(i, kind) ==
    LET full   == Len(queue) >= WhepMax
        kept   == IF full THEN << >> ELSE queue
        awaits == waiting \/ full
    IN  /\ open
        /\ cuts' = IF full THEN cuts \cup {i} ELSE cuts
        /\ seen' = (seen /\ ~full)
        /\ waiting' = (awaits /\ kind # "key")
        /\ queue' = IF awaits /\ kind = "delta" THEN kept ELSE Append(kept, i)

\* The callback is invoked with message n.  What it does to a viewer that is closed,
\* and to the stack an SRT thread has left, is nothing.
Hear(n) ==
    LET i == Len(heard) + 1
    IN  /\ heard' = Append(heard, n)
        /\ \/ /\ proto = "flv" /\ FlvPush(i)
              /\ UNCHANGED << waiting, cuts, seen >>
           \/ /\ proto = "srt" /\ phase # "gone" /\ SrtPush(i)
              /\ UNCHANGED << open, slow, waiting, cuts, seen >>
           \/ /\ proto = "whep" /\ WhepPush(i, log[n])
              /\ UNCHANGED << open, slow >>
           \/ /\ IF proto = "srt" THEN phase = "gone" ELSE ~open
              /\ UNCHANGED << queue, open, slow, waiting, cuts, seen >>

\* The feeder delivers what it copied.
Deliver ==
    /\ live # 0
    /\ live' = 0
    /\ Hear(live)
    /\ UNCHANGED << proto, log, first, viewer, taken, wire, config, seeded, track, peer >>

\* add_callback_subscriber: the locked block ...
Join ==
    /\ phase = "out"
    /\ phase' = "in"
    /\ joined' = published
    /\ handing' = Snapshot
    /\ UNCHANGED << proto, feed, queues, writer, peer >>

\* ... and the snapshot, delivered by the thread that joins.
Hand ==
    /\ handing # << >>
    /\ handing' = Tail(handing)
    /\ Hear(Head(handing))
    /\ UNCHANGED << proto, feed, phase, joined, taken, wire, config, seeded, track, peer >>

-----------------------------------------------------------------------------
(* The writers.  Those of HTTP-FLV and SRT are the threads that joined. *)

\* Mutant: the SRT writer relies on the header that is in its queue.
SeedNothing ==
    /\ proto = "srt" /\ phase = "in" /\ handing = << >> /\ ~seeded
    /\ seeded' = TRUE
    /\ UNCHANGED << proto, feed, viewer, queues, taken, wire, seen, config, track, peer >>

\* The SRT writer looks for parameter sets in the cache before its loop.
Seed ==
    /\ proto = "srt" /\ phase = "in" /\ handing = << >> /\ ~seeded
    /\ seeded' = TRUE
    /\ config' = (CachedHeader # << >>)
    /\ UNCHANGED << proto, feed, viewer, queues, taken, wire, seen, track, peer >>

\* A viewer's writer is in its loop.
Writing ==
    CASE proto = "flv"  -> phase = "in" /\ handing = << >>
      [] proto = "srt"  -> phase = "in" /\ seeded
      [] proto = "whep" -> phase \in {"in", "leaving"} /\ open

Take ==
    /\ Writing
    /\ taken = 0
    /\ queue # << >>
    /\ taken' = Head(queue)
    /\ queue' = Tail(queue)
    /\ UNCHANGED << proto, feed, viewer, heard, open, slow, waiting, cuts,
                    wire, seen, config, seeded, track, peer >>

\* The message in hand is a frame that goes to the socket.
Sendable ==
    /\ taken # 0
    /\ CASE proto = "flv"  -> TRUE
         [] proto = "srt"  -> KindAt(taken) # "header" /\ config
         [] proto = "whep" -> /\ KindAt(taken) # "header"
                              /\ track = "open"
                              /\ KindAt(taken) = "key" \/ seen

\* It goes out.  A blocking HTTP-FLV send waits for a peer that has stopped reading;
\* the sockets of WHEP do not.
Send ==
    /\ Writing /\ Sendable
    /\ peer = "reading" \/ proto = "whep"
    /\ wire' = Append(wire, taken)
    /\ taken' = 0
    /\ seen' = (seen \/ (proto = "whep" /\ KindAt(taken) = "key"))
    /\ UNCHANGED << proto, feed, viewer, queues, config, seeded, track, peer >>

\* It does not: send reports an error, for SRT also after 5 s (SRTO_SNDTIMEO).
SendFails ==
    /\ Writing /\ Sendable
    /\ \/ proto = "flv" /\ peer = "gone"
       \/ proto = "srt" /\ peer # "reading"
    /\ taken' = 0
    /\ phase' = "leaving"
    /\ open' = (open /\ proto # "flv")
    /\ UNCHANGED << proto, feed, joined, handing, heard, queue, slow, waiting, cuts,
                    wire, seen, config, seeded, track, peer >>

\* What is not a frame to send is dealt with: a header is kept for the frames to
\* come, a frame without what it needs is thrown away.
Absorb ==
    /\ Writing
    /\ taken # 0 /\ ~Sendable
    /\ taken' = 0
    /\ config' = (config \/ (proto = "srt" /\ KindAt(taken) = "header"))
    /\ UNCHANGED << proto, feed, viewer, queues, wire, seen, seeded, track, peer >>

\* Mutant: no look at the socket while there is nothing to send.
FlvEnds ==
    /\ proto = "flv" /\ Writing
    /\ taken = 0 /\ queue = << >>
    /\ ~open
    /\ open' = FALSE
    /\ phase' = "leaving"
    /\ UNCHANGED << proto, feed, joined, handing, heard, queue, slow, waiting, cuts,
                    writer, peer >>

\* HTTP-FLV with nothing to send: cut off, or the probe finds the connection closed.
FlvIdle ==
    /\ proto = "flv" /\ Writing
    /\ taken = 0 /\ queue = << >>
    /\ ~open \/ peer = "gone"
    /\ open' = FALSE
    /\ phase' = "leaving"
    /\ UNCHANGED << proto, feed, joined, handing, heard, queue, slow, waiting, cuts,
                    writer, peer >>

\* remove_callback_subscriber, at the end of the thread.
Leave ==
    /\ proto # "whep"
    /\ phase = "leaving"
    /\ phase' = "gone"
    /\ open' = (open /\ proto # "flv")
    /\ UNCHANGED << proto, feed, joined, handing, heard, queue, slow, waiting, cuts,
                    writer, peer >>

WriterStep ==
    Seed \/ Take \/ Send \/ SendFails \/ Absorb \/ FlvIdle \/ Leave

-----------------------------------------------------------------------------
(* The peer connection of WHEP, and the peers. *)

\* onOpen of the video track, which may come after the viewer joined.
TrackOpens ==
    /\ proto = "whep" /\ track = "unopened" /\ phase \in {"out", "in"}
    /\ track' = "open"
    /\ UNCHANGED << proto, feed, viewer, queues, taken, wire, seen, config, seeded, peer >>

\* detach_play_subscription: the peer connection failed or was closed.
Detach ==
    /\ proto = "whep" /\ phase = "in" /\ peer = "gone"
    /\ phase' = "leaving"
    /\ track' = "closed"
    /\ UNCHANGED << proto, feed, joined, handing, queues, taken, wire, seen, config,
                    seeded, peer >>

\* close_now, by the cleanup of closed sessions or by a DELETE: detach and
\* stop_play_sender.
Close ==
    /\ proto = "whep" /\ phase \in {"in", "leaving"}
    /\ phase' = "gone"
    /\ track' = "closed"
    /\ open' = FALSE
    /\ queue' = << >>
    /\ taken' = 0
    /\ UNCHANGED << proto, feed, joined, handing, heard, slow, waiting, cuts, wire, seen,
                    config, seeded, peer >>

\* Peers stop reading, read on and go as they please; a peer that is gone stays so.
Peer ==
    /\ phase # "out"
    /\ peer # "gone"
    /\ peer' \in {"reading", "stalled", "gone"} \ {peer}
    /\ UNCHANGED << proto, feed, viewer, queues, writer >>

Next ==
    \/ \E kind \in Kind : Publish(kind)
    \/ Deliver \/ Join \/ Hand
    \/ Seed \/ Take \/ Send \/ SendFails \/ Absorb \/ FlvIdle \/ Leave
    \/ TrackOpens \/ Detach \/ Close
    \/ Peer

Spec == Init /\ [][Next]_vars

\* Threads run: the feeder, the joining thread, the writer, the notification of a closed
\* peer connection, and the cleanup of the session.  A send that waits for its peer goes
\* on when the peer reads again and again.
Fairness ==
    /\ WF_vars(Deliver)
    /\ WF_vars(Hand)
    /\ WF_vars(WriterStep)
    /\ SF_vars(Send)
    /\ WF_vars(Detach)
    /\ WF_vars(Close /\ phase = "leaving")

FairSpec == Spec /\ Fairness

-----------------------------------------------------------------------------

\* Type correctness, and the bounds of the queues.
TypeOK ==
    /\ proto \in Protocol
    /\ log \in Seq(Kind)
    /\ first \in 1 .. published + 1
    /\ live \in 0 .. published
    /\ phase \in {"out", "in", "leaving", "gone"}
    /\ joined \in 0 .. published
    /\ handing \in Seq(1 .. published)
    /\ heard \in Seq(1 .. published)
    /\ queue \in Seq(DOMAIN heard)
    /\ taken \in 0 .. Len(heard)
    /\ wire \in Seq(DOMAIN heard)
    /\ {open, slow, waiting, seen, config, seeded} \subseteq BOOLEAN
    /\ cuts \subseteq DOMAIN heard
    /\ track \in {"unopened", "open", "closed"}
    /\ peer \in {"reading", "stalled", "gone"}
    /\ Len(queue) <= (CASE proto = "flv" -> FlvMax
                        [] proto = "srt" -> SrtMax + 1
                        [] proto = "whep" -> WhepMax)

Taken == IF taken = 0 THEN << >> ELSE << taken >>

\* An HTTP-FLV player is cut off, never skipped: what went out, is in the writer's
\* hands and waits in the queue are the first calls of its callback, each once and in
\* their order, and all of them as long as it is not cut off.
FlvNoSkip ==
    proto = "flv" /\ phase = "in" =>
        LET kept == wire \o Taken \o queue
        IN  /\ \A i \in DOMAIN kept : kept[i] = i
            /\ open => Len(kept) = Len(heard)

\* Each frame a WHEP player is sent that needs a keyframe comes after one that was
\* taken in since the last overflow before it, whatever the writer had in hand when
\* the queue overflowed.
KeyBeforeDelta ==
    proto = "whep" =>
        \A i \in DOMAIN wire : KindAt(wire[i]) = "delta" =>
            \E j \in 1 .. i - 1 :
                /\ KindAt(wire[j]) = "key"
                /\ \A c \in cuts : ~(wire[j] < c /\ c <= wire[i])

\* A late SRT caller has the parameter sets of the stream it joined when it takes its
\* first frame, even if the header was dropped from its full queue.
LateCallerConfigured ==
    proto = "srt" /\ taken # 0 /\ (\E n \in 1 .. joined : log[n] = "header") =>
        config \/ KindAt(taken) = "header"

\* What makes the server notice that the peer is gone: an SRT writer only looks at its
\* socket when it sends.
Noticeable ==
    /\ phase \in {"in", "leaving"} /\ peer = "gone"
    /\ proto = "srt" => Sendable

\* A viewer whose peer is gone, and an HTTP-FLV player that was cut off, is removed
\* from the registry, unless its peer for ever neither reads nor closes.
LetGo ==
    \/ <>[](peer = "stalled")
    \/ Noticeable \/ slow ~> phase = "gone"

\* A slow HTTP-FLV client is disconnected.
SlowIsDisconnected == slow ~> phase = "gone"

=============================================================================
