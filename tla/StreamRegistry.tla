--------------------------- MODULE StreamRegistry ---------------------------
(***************************************************************************)
(* The registry of live streams (cpp/src/rtmp/stream_registry.cpp): the    *)
(* map streams_ from a stream key to its publisher, its subscribers and    *)
(* its late-join caches, and every operation that changes it.              *)
(*                                                                         *)
(* Each operation of the class holds mutex_ from its first read to its     *)
(* last write, so each is one action here.  What an operation does after   *)
(* it released the mutex (stopping a replaced publisher, delivering a      *)
(* snapshot or a fan-out) belongs to its caller: see RegistryClients and   *)
(* MediaDelivery.  This module has no Next of its own; the modules that    *)
(* EXTEND it supply the clients.                                           *)
(***************************************************************************)
EXTENDS Naturals, Sequences, FiniteSets

CONSTANTS
    Key,          \* stream keys, "app/stream"
    Session,      \* identities of RtmpSession objects
    NoSession,    \* an empty weak_ptr<RtmpSession>
    Callback,     \* registered callbacks (the std::function values)
    CallbackId,   \* the ids they are registered under
    GopMax        \* GopCache::max_packets_, 512 in the code

ASSUME NoSessionAssumption == NoSession \notin Session
ASSUME GopMaxAssumption == GopMax \in Nat \ {0}

VARIABLES
    streams,      \* streams_: an entry for every key, Vacant where the map has none
    objects       \* the RtmpSession objects in memory; a weak_ptr to any other is expired

-----------------------------------------------------------------------------

External == {"rtsp", "srt", "whip"}
Source == External \cup {"unknown", "rtmp"}

(***************************************************************************)
(* What the registry tells apart in a media message: "header" is a video   *)
(* sequence header, "key" a coded keyframe, "delta" any other audio or     *)
(* video packet, "data" an AMF0 data message (type 18), kept out of the    *)
(* GOP cache.                                                              *)
(***************************************************************************)
Kind == {"header", "key", "delta", "data"}

\* StreamState.  fed abstracts last_media_at_epoch_ms: 0, younger than the
\* idle limit of the cleanup, or older.
Entry == [present     : BOOLEAN,
          publisher   : Session \cup {NoSession},
          source      : Source,
          active      : BOOLEAN,                 \* external_publisher_active
          subscribers : SUBSET Session,
          callbacks   : SUBSET (CallbackId \X Callback),
          viewers     : Nat,                     \* external_viewer_count
          header      : BOOLEAN,                 \* video_sequence_header
          keyframe    : BOOLEAN,                 \* last_keyframe_at_epoch_ms > 0
          gop         : Seq(Kind),
          fed         : {"never", "recent", "idle"}]

Fresh == [present     |-> TRUE,
          publisher   |-> NoSession,
          source      |-> "unknown",
          active      |-> FALSE,
          subscribers |-> {},
          callbacks   |-> {},
          viewers     |-> 0,
          header      |-> FALSE,
          keyframe    |-> FALSE,
          gop         |-> << >>,
          fed         |-> "never"]

Vacant == [Fresh EXCEPT !.present = FALSE]

\* streams_[key]: a key that is absent gets a default-constructed entry.
At(k) == IF streams[k].present THEN streams[k] ELSE Fresh

Expired(s) == s \notin objects

HasPublisher(e) == ~Expired(e.publisher) \/ e.active

Prune(e) == [e EXCEPT !.subscribers = @ \cap objects]

\* Mutant: an erase rule that forgets the callback viewers.
ReferencedBySessions(e) ==
    HasPublisher(e) \/ e.subscribers # {} \/ e.viewers > 0

Referenced(e) ==
    HasPublisher(e) \/ e.subscribers # {} \/ e.callbacks # {} \/ e.viewers > 0

\* The erase rule five of the operations end with.
Collect(e) == IF e.present /\ Referenced(e) THEN e ELSE Vacant

\* Mutant: a keyframe that does not clear the cache.
GopAddKeeping(gop, m) ==
    LET grown == Append(gop, m)
    IN  IF Len(grown) > GopMax THEN Tail(grown) ELSE grown

\* GopCache::add
GopAdd(gop, m) ==
    LET grown == IF m = "key" THEN << m >> ELSE Append(gop, m)
    IN  IF Len(grown) > GopMax THEN Tail(grown) ELSE grown

\* publish_media_locked
Ingest(e, m) ==
    [Prune(e) EXCEPT !.fed      = "recent",
                     !.header   = @ \/ m = "header",
                     !.keyframe = @ \/ m = "key",
                     !.gop      = IF m = "data" THEN @ ELSE GopAdd(@, m)]

ResetCaches(e) ==
    [e EXCEPT !.header = FALSE, !.keyframe = FALSE, !.gop = << >>, !.fed = "never"]

ClaimSource(e, src) == IF Expired(e.publisher) THEN [e EXCEPT !.source = src] ELSE e

Store(k, e) == streams' = [streams EXCEPT ![k] = e]

\* Operations that walk the whole map.
StoreAll(Change(_)) ==
    streams' = [k \in Key |-> IF streams[k].present THEN Change(streams[k]) ELSE Vacant]

-----------------------------------------------------------------------------

RegistryInit ==
    /\ streams = [k \in Key |-> Vacant]
    /\ objects = {}

\* Mutant: the replaced publisher is not returned to the caller.
DisplacedSilently(k, s) == {}

\* The live publisher register_publisher replaces: it is stopped afterwards.
Displaced(k, s) == ({streams[k].publisher} \cap objects) \ {s}

RegisterPublisher(k, s) ==
    Store(k, ResetCaches([At(k) EXCEPT !.publisher = s, !.source = "rtmp", !.active = FALSE]))

BeginExternalPublish(k, src) ==
    Store(k, ResetCaches([At(k) EXCEPT !.source = src, !.active = TRUE]))

UnregisterPublisher(s) ==
    LET Release(e) ==
          Collect(Prune([e EXCEPT !.publisher = IF @ = s THEN NoSession ELSE @]))
    IN  StoreAll(Release)

AddSubscriber(k, s) ==
    Store(k, [At(k) EXCEPT !.subscribers = @ \cup {s}])

RemoveSubscriber(s) ==
    LET Drop(e) == Collect([Prune(e) EXCEPT !.subscribers = @ \ {s}])
    IN  StoreAll(Drop)

\* add_callback_subscriber and add_live_callback_subscriber
AddCallback(k, id, c) ==
    Store(k, [At(k) EXCEPT !.callbacks = @ \cup {<< id, c >>}])

RemoveCallback(k, id) ==
    Store(k, Collect([streams[k] EXCEPT !.callbacks = {r \in @ : r[1] # id}]))

PublishMedia(k, m) ==
    Store(k, IF streams[k].present THEN Ingest(streams[k], m) ELSE Vacant)

PublishExternalMedia(k, src, m) ==
    Store(k, Ingest([ClaimSource(At(k), src) EXCEPT !.active = TRUE], m))

UpsertExternalStream(k, src, has) ==
    Store(k, [ClaimSource(At(k), src) EXCEPT !.active = has])

UpdateExternalViewers(k, src, n) ==
    Store(k, [At(k) EXCEPT !.viewers = n,
                           !.source = IF streams[k].present THEN @ ELSE src])

\* Mutant: the end of an ingest erases the entry under its viewers.
RemoveExternalStreamAndViewers(k, src) ==
    LET e == [streams[k] EXCEPT !.active = @ /\ streams[k].source # src]
    IN  Store(k, IF HasPublisher(e) THEN e ELSE Vacant)

\* Unlike Collect, the erase rule of remove_external_stream ignores viewers.
RemoveExternalStream(k, src) ==
    LET e == [streams[k] EXCEPT !.active = @ /\ streams[k].source # src]
    IN  Store(k, IF Referenced([e EXCEPT !.viewers = 0]) THEN e ELSE Vacant)

\* Mutant: a cleanup that leaves idle external publishers active.
CleanupStaleKeepingIdle ==
    LET Sweep(e) == Collect(Prune(e))
    IN  StoreAll(Sweep)

\* cleanup_stale, its idle limit configured above zero.
CleanupStale ==
    LET Sweep(e) == Collect([Prune(e) EXCEPT !.active = @ /\ e.fed # "idle"])
    IN  StoreAll(Sweep)

\* The sessions disconnect_stream stops after it released the mutex.
Disconnected(k) ==
    ({streams[k].publisher} \cup streams[k].subscribers) \cap objects

\* A key that gets no media for longer than the idle limit.
Elapse(k) ==
    /\ streams[k].fed = "recent"
    /\ Store(k, [streams[k] EXCEPT !.fed = "idle"])

-----------------------------------------------------------------------------

\* Type correctness of the map.
RegistryTypeOK ==
    /\ streams \in [Key -> Entry]
    /\ objects \subseteq Session

=============================================================================
