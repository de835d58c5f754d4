---------------------------- MODULE MediaDelivery ----------------------------
(***************************************************************************)
(* How the media of one stream gets to its viewers.  The registry takes a  *)
(* message under its mutex (GOP cache, copies of the subscriber and        *)
(* callback lists) and delivers it to the copies after it released the     *)
(* mutex; a viewer joins in the same way, with a copy of the cache.  So    *)
(* deliveries of several feeders, the start-up of a viewer and its leaving *)
(* interleave.                                                             *)
(*                                                                         *)
(* Feeders are the threads that publish: the rx thread of an RTMP session, *)
(* the audio and the video receiver of an RTSP ingest, the tracks of WHIP. *)
(* An audio or video message is its number; data messages (type 18) and    *)
(* the decoder headers sent ahead of the cached packets are left out.      *)
(***************************************************************************)
EXTENDS Naturals, Sequences, Functions

CONSTANTS
    Feeder,
    Viewer,
    TwoStep,      \* viewers that copy the cache and register in two calls (RTSP)
    Detachable,   \* viewers that another thread may remove while they join (RTMP, WHEP)
    GopMax,       \* GopCache::max_packets_
    MaxMessages   \* bound of the model

ASSUME DeliveryAssumption ==
    /\ TwoStep \subseteq Viewer
    /\ Detachable \subseteq Viewer \ TwoStep
    /\ GopMax \in Nat \ {0}
    /\ MaxMessages \in Nat

VARIABLES
    by,        \* by[n] is the feeder of message n
    first,     \* the GOP cache holds the messages first .. Len(by)
    feed,      \* the message each feeder is delivering, and to whom it still must
    phase,     \* where each viewer is; it is registered while "in"
    handing,   \* what is left of the copy of the cache its joining thread delivers
    inbox,     \* the messages its callback was invoked with
    base       \* the last message before its registration

vars == << by, first, feed, phase, handing, inbox, base >>

published == Len(by)

Init ==
    /\ by = << >>
    /\ first = 1
    /\ feed = [f \in Feeder |-> [msg |-> 0, left |-> {}]]
    /\ phase = [v \in Viewer |-> "out"]
    /\ handing = [v \in Viewer |-> << >>]
    /\ inbox = [v \in Viewer |-> << >>]
    /\ base = [v \in Viewer |-> 0]

\* Mutant: a copy of the cache that goes one past its end.
CachedPastEnd == [i \in 1 .. published + 2 - first |-> first + i - 1]

\* snapshot_cached_messages_locked
Cached == [i \in 1 .. published + 1 - first |-> first + i - 1]

\* Mutant: no live message for a viewer that still gets its cached ones.
RegisteredAndServed == {v \in Viewer : phase[v] = "in" /\ handing[v] = << >>}

\* The subscribers and callbacks of the entry.
Registered == {v \in Viewer : phase[v] = "in"}

\* publish_media and publish_external_media up to the end of the locked block.
\* A keyframe clears the GOP cache, a full cache drops its oldest packet.
Publish(f, keyframe) ==
    /\ published < MaxMessages
    /\ feed[f].left = {}
    /\ by' = Append(by, f)
    /\ first' = IF keyframe THEN published + 1
                ELSE IF published + 1 - first = GopMax THEN first + 1 ELSE first
    /\ feed' = [feed EXCEPT ![f] = [msg |-> published + 1, left |-> Registered]]
    /\ UNCHANGED << phase, handing, inbox, base >>

\* A new publisher clears the cache.
Republish ==
    /\ first' = published + 1
    /\ UNCHANGED << by, feed, phase, handing, inbox, base >>

\* Mutant: the queue of a viewer is filled at its front.
HearFirst(v, n) ==
    \/ inbox' = [inbox EXCEPT ![v] = << n >> \o @]
    \/ phase[v] = "gone" /\ UNCHANGED inbox

\* A callback or send_media.  A viewer that has left may or may not hear what was on
\* its way: an RTMP session that still runs does, a closed HTTP-FLV queue does not.
Hear(v, n) ==
    \/ inbox' = [inbox EXCEPT ![v] = Append(@, n)]
    \/ phase[v] = "gone" /\ UNCHANGED inbox

\* Mutant: a callback stays among those still to be invoked.
DeliverAgain(f, v) ==
    /\ v \in feed[f].left
    /\ Hear(v, feed[f].msg)
    /\ UNCHANGED << by, first, feed, phase, handing, base >>

\* Mutant: the fan-out ends with the first callback, as when that throws.
DeliverToFirst(f, v) ==
    /\ v \in feed[f].left
    /\ feed' = [feed EXCEPT ![f].left = {}]
    /\ Hear(v, feed[f].msg)
    /\ UNCHANGED << by, first, phase, handing, base >>

\* One copied callback of the fan-out, in any order of the copies.
Deliver(f, v) ==
    /\ v \in feed[f].left
    /\ feed' = [feed EXCEPT ![f].left = @ \ {v}]
    /\ Hear(v, feed[f].msg)
    /\ UNCHANGED << by, first, phase, handing, base >>

\* add_subscriber and add_callback_subscriber: registered, and a copy of the cache
\* taken, in one locked block ...
Join(v) ==
    /\ v \notin TwoStep
    /\ phase[v] = "out"
    /\ phase' = [phase EXCEPT ![v] = "in"]
    /\ handing' = [handing EXCEPT ![v] = Cached]
    /\ base' = [base EXCEPT ![v] = published]
    /\ UNCHANGED << by, first, feed, inbox >>

\* ... and the copy delivered after it, message by message.
Hand(v) ==
    /\ v \notin TwoStep
    /\ handing[v] # << >>
    /\ handing' = [handing EXCEPT ![v] = Tail(@)]
    /\ Hear(v, Head(handing[v]))
    /\ UNCHANGED << by, first, feed, phase, base >>

\* RTSP PLAY: cached_messages, ...
Copy(v) ==
    /\ v \in TwoStep
    /\ phase[v] = "out"
    /\ phase' = [phase EXCEPT ![v] = "copied"]
    /\ handing' = [handing EXCEPT ![v] = Cached]
    /\ UNCHANGED << by, first, feed, inbox, base >>

\* ... the copy queued under queue_mutex, ...
Enqueue(v) ==
    /\ phase[v] = "copied"
    /\ phase' = [phase EXCEPT ![v] = "queued"]
    /\ inbox' = [inbox EXCEPT ![v] = handing[v]]
    /\ handing' = [handing EXCEPT ![v] = << >>]
    /\ UNCHANGED << by, first, feed, base >>

\* ... and add_live_callback_subscriber.
JoinLive(v) ==
    /\ phase[v] = "queued"
    /\ phase' = [phase EXCEPT ![v] = "in"]
    /\ base' = [base EXCEPT ![v] = published]
    /\ UNCHANGED << by, first, feed, handing, inbox >>

\* remove_subscriber or remove_callback_subscriber
Leave(v) ==
    /\ phase[v] = "in"
    /\ handing[v] = << >> \/ v \in Detachable
    /\ phase' = [phase EXCEPT ![v] = "gone"]
    /\ UNCHANGED << by, first, feed, handing, inbox, base >>

FeederStep(f) == \E v \in Viewer : Deliver(f, v)

JoinStep(v) == Hand(v) \/ Enqueue(v) \/ JoinLive(v)

Next ==
    \/ \E f \in Feeder :
          \/ \E keyframe \in BOOLEAN : Publish(f, keyframe)
          \/ FeederStep(f)
    \/ Republish
    \/ \E v \in Viewer : Join(v) \/ Copy(v) \/ JoinStep(v) \/ Leave(v)

Spec == Init /\ [][Next]_vars

\* A thread that started a delivery goes on with it: no callback blocks.
Fairness ==
    /\ \A f \in Feeder : WF_vars(FeederStep(f))
    /\ \A v \in Viewer : WF_vars(JoinStep(v))

FairSpec == Spec /\ Fairness

-----------------------------------------------------------------------------

Phase == {"out", "copied", "queued", "in", "gone"}

\* Type correctness of the stream, its feeders and its viewers.
TypeOK ==
    /\ by \in Seq(Feeder)
    /\ first \in 1 .. published + 1
    /\ feed \in [Feeder -> [msg : 0 .. published, left : SUBSET Viewer]]
    /\ phase \in [Viewer -> Phase]
    /\ handing \in [Viewer -> Seq(1 .. published)]
    /\ inbox \in [Viewer -> Seq(1 .. published)]
    /\ base \in [Viewer -> 0 .. published]

\* What some thread still has to deliver to a viewer.
Owed(v) == Range(handing[v]) \cup {feed[f].msg : f \in {g \in Feeder : v \in feed[g].left}}

Got(v) == Range(inbox[v])

\* A viewer that registered with its copy of the cache misses nothing: what it got
\* and what is on its way is all that was published since some cached message.
\* (RTSP play gives no such guarantee: what is published between its two calls is
\* neither in the copy nor delivered.)
NoGap ==
    \A v \in Registered \ TwoStep :
        \E n \in 1 .. published + 1 : Owed(v) \cup Got(v) = n .. published

\* Two live messages of one feeder never overtake each other on the way to a viewer,
\* and the cached messages of RTSP play are queued ahead of any live one; elsewhere
\* a live message may overtake cached ones.
LiveInOrder ==
    \A v \in Viewer : \A j \in 1 .. Len(inbox[v]) : \A i \in 1 .. j - 1 :
        LET early == inbox[v][i]
            late  == inbox[v][j]
        IN  by[early] = by[late] /\ early >= late => v \notin TwoStep /\ late <= base[v]

\* The stage of each viewer in Fanout.
Stage(p) == CASE p \in {"copied", "queued"} -> "offered" [] OTHER -> p

Abstract == INSTANCE Fanout
    WITH stage <- [v \in Viewer |-> Stage(phase[v])],
         owed <- [v \in Viewer |-> Owed(v)],
         got <- [v \in Viewer |-> Got(v)]

\* Each message owed to a viewer is delivered exactly once.
ImplementsFanout == Abstract!Spec

\* Every message on its way to a viewer arrives, or the viewer leaves.
Delivered ==
    \A v \in Viewer : \A n \in 1 .. MaxMessages :
        n \in Owed(v) ~> n \in Got(v) \/ phase[v] = "gone"

=============================================================================
