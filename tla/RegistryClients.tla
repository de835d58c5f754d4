--------------------------- MODULE RegistryClients ---------------------------
(***************************************************************************)
(* The stream registry together with everything that calls it: RTMP        *)
(* sessions, the native RTSP, SRT and WHIP ingests, callback viewers       *)
(* (HTTP-FLV, RTSP play, SRT play, WHEP) and the cleanup of the main loop. *)
(*                                                                         *)
(* Every client runs on threads of its own and holds no lock between two   *)
(* calls of the registry, so a client is a state machine whose steps are   *)
(* the registry operations it makes, in the order its code makes them.     *)
(***************************************************************************)
EXTENDS StreamRegistry

CONSTANTS
    NoKey,          \* the empty stream_key_
    Ingests,        \* native ingest connections
    IngestSource,   \* the protocol of each
    IdOf,           \* the callback id each callback is registered under
    Counted,        \* callbacks whose viewer reports itself (SRT play, WHEP)
    MediaKinds      \* the kinds of media messages publishers send

ASSUME ClientsAssumption ==
    /\ NoKey \notin Key
    /\ IngestSource \in [Ingests -> External]
    /\ IdOf \in [Callback -> CallbackId]
    /\ Counted \subseteq Callback
    /\ MediaKinds \subseteq Kind

VARIABLES
    life,        \* how far each RtmpSession is on its way from start() to its end
    key,         \* stream_key_
    publishing,  \* the sessions with is_publisher_ set
    playing,     \* the sessions with is_player_ set
    late,        \* stopped by another thread while their rx thread handles a message
    condemned,   \* held by a thread that is about to call stop() on them
    ingest,      \* where each native ingest connection is, and its stream
    viewer       \* where each callback viewer is, and its stream

sessionVars == << life, key, publishing, playing, late >>
vars == << streams, objects, sessionVars, condemned, ingest, viewer >>

Life == {"none", "running", "stopping", "unregistered", "closed"}
IngestPhase == {"off", "begun", "open", "configured", "closing"}
ViewerPhase == {"off", "counted", "joined", "left"}

Init ==
    /\ RegistryInit
    /\ life = [s \in Session |-> "none"]
    /\ key = [s \in Session |-> NoKey]
    /\ publishing = {}
    /\ playing = {}
    /\ late = {}
    /\ condemned = {}
    /\ ingest = [i \in Ingests |-> [phase |-> "off", key |-> NoKey]]
    /\ viewer = [c \in Callback |-> [phase |-> "off", key |-> NoKey]]

-----------------------------------------------------------------------------
(* RTMP sessions.  The rx thread handles one message at a time; while it   *)
(* does, another thread may stop the session: a publisher that takes the   *)
(* key over, a fan-out that finds its queue full, an operator.             *)

\* A session is accepted.  Only an identity no weak_ptr remembers is new.
Connect(s) ==
    /\ life[s] = "none"
    /\ \A k \in Key : s # streams[k].publisher /\ s \notin streams[k].subscribers
    /\ life' = [life EXCEPT ![s] = "running"]
    /\ objects' = objects \cup {s}
    /\ UNCHANGED << streams, key, publishing, playing, late, condemned, ingest, viewer >>

\* The rx thread is inside handle_message: the last one when stop() was called.
Handles(s) ==
    /\ life[s] = "running" \/ s \in late
    /\ late' = late \ {s}
    /\ UNCHANGED << objects, life, ingest, viewer >>

\* on_publish; the session it displaces is stopped by this thread later on.
OnPublish(s, k) ==
    /\ Handles(s)
    /\ RegisterPublisher(k, s)
    /\ key' = [key EXCEPT ![s] = k]
    /\ publishing' = publishing \cup {s}
    /\ condemned' = condemned \cup Displaced(k, s)
    /\ UNCHANGED playing

OnPlay(s, k) ==
    /\ Handles(s)
    /\ AddSubscriber(k, s)
    /\ key' = [key EXCEPT ![s] = k]
    /\ playing' = playing \cup {s}
    /\ UNCHANGED << publishing, condemned >>

\* on_fc_unpublish, and the first half of on_delete_stream, which goes on to
\* StopPlaying in the same handler.
Unpublish(s) ==
    /\ s \in publishing
    /\ life[s] = "running" \/ s \in late
    /\ UnregisterPublisher(s)
    /\ publishing' = publishing \ {s}
    /\ late' \in {late \ {s}} \cup (IF s \in playing THEN {late} ELSE {})
    /\ UNCHANGED << objects, life, key, playing, condemned, ingest, viewer >>

\* The second half of on_delete_stream, reached when the first has run.
StopPlaying(s) ==
    /\ s \in playing \ publishing
    /\ Handles(s)
    /\ RemoveSubscriber(s)
    /\ playing' = playing \ {s}
    /\ UNCHANGED << key, publishing, condemned >>

OnMedia(s, m) ==
    /\ s \in publishing
    /\ Handles(s)
    /\ PublishMedia(key[s], m)
    /\ UNCHANGED << key, publishing, playing, condemned >>

\* The last message was none of the above.
OtherMessage(s) ==
    /\ s \in late
    /\ Handles(s)
    /\ UNCHANGED << streams, key, publishing, playing, condemned >>

\* stop() sets running_ to false before anything else.  The rx thread may be
\* inside a handler then, unless it is the rx thread itself that stops.
StopExchange(s) ==
    /\ life[s] = "running"
    /\ life' = [life EXCEPT ![s] = "stopping"]
    /\ late' \in {late, late \cup {s}}
    /\ UNCHANGED << streams, objects, key, publishing, playing, ingest, viewer >>

\* By a thread of the session itself ...
StopSelf(s) == StopExchange(s) /\ UNCHANGED condemned

\* ... or by one that condemned it, alone or with others that still will.
StopOther(s) ==
    /\ s \in condemned
    /\ condemned' \in {condemned, condemned \ {s}}
    /\ \/ StopExchange(s)
       \/ /\ life[s] # "running"
          /\ UNCHANGED << streams, objects, sessionVars, ingest, viewer >>

StopUnregister(s) ==
    /\ life[s] = "stopping"
    /\ UnregisterPublisher(s)
    /\ life' = [life EXCEPT ![s] = "unregistered"]
    /\ UNCHANGED << objects, key, publishing, playing, late, condemned, ingest, viewer >>

StopUnsubscribe(s) ==
    /\ life[s] = "unregistered"
    /\ RemoveSubscriber(s)
    /\ life' = [life EXCEPT ![s] = "closed"]
    /\ UNCHANGED << objects, key, publishing, playing, late, condemned, ingest, viewer >>

\* Mutant: destroyed under a thread that is about to call stop() on it.
DestroyHeld(s) ==
    /\ life[s] = "closed"
    /\ life' = [life EXCEPT ![s] = "none"]
    /\ objects' = objects \ {s}
    /\ key' = [key EXCEPT ![s] = NoKey]
    /\ publishing' = publishing \ {s}
    /\ playing' = playing \ {s}
    /\ UNCHANGED << streams, late, condemned, ingest, viewer >>

\* The last shared_ptr goes: both threads have ended and nobody holds a copy.
Destroy(s) ==
    /\ life[s] = "closed"
    /\ s \notin late \cup condemned
    /\ life' = [life EXCEPT ![s] = "none"]
    /\ objects' = objects \ {s}
    /\ key' = [key EXCEPT ![s] = NoKey]
    /\ publishing' = publishing \ {s}
    /\ playing' = playing \ {s}
    /\ UNCHANGED << streams, late, condemned, ingest, viewer >>

\* disconnect_stream of the operator: copies the sessions, stops them afterwards.
Disconnect(k) ==
    /\ condemned' = condemned \cup Disconnected(k)
    /\ UNCHANGED << streams, objects, sessionVars, ingest, viewer >>

\* send_media finds the queue of a player full.  The fan-out works on a copy of the
\* subscribers, so the player may have left the stream by now.
SlowPlayer(s) ==
    /\ s \in objects
    /\ condemned' = condemned \cup {s}
    /\ UNCHANGED << streams, objects, sessionVars, ingest, viewer >>

-----------------------------------------------------------------------------
(* Native ingests.  RTSP (ANNOUNCE) and WHIP call begin_external_publish   *)
(* and then upsert_external_stream; SRT only the latter.                   *)

IngestTo(i, phase, k) == ingest' = [ingest EXCEPT ![i] = [phase |-> phase, key |-> k]]

IngestBegin(i, k) ==
    /\ ingest[i].phase = "off"
    /\ IngestSource[i] # "srt"
    /\ BeginExternalPublish(k, IngestSource[i])
    /\ IngestTo(i, "begun", k)
    /\ UNCHANGED << objects, sessionVars, condemned, viewer >>

IngestUpsert(i, k) ==
    /\ \/ ingest[i] = [phase |-> "begun", key |-> k]
       \/ ingest[i].phase = "off" /\ IngestSource[i] = "srt"
    /\ UpsertExternalStream(k, IngestSource[i], TRUE)
    /\ IngestTo(i, "open", k)
    /\ UNCHANGED << objects, sessionVars, condemned, viewer >>

\* RTSP and SRT send the sequence header once (sent_sequence), as soon as they
\* know the parameter sets; WHIP sends it before every frame.
IngestMedia(i, m) ==
    /\ ingest[i].phase \in {"open", "configured", "closing"}
    /\ m = "header" => ingest[i].phase = "open" \/ IngestSource[i] = "whip"
    /\ PublishExternalMedia(ingest[i].key, IngestSource[i], m)
    /\ ingest' = IF m = "header" /\ ingest[i].phase = "open"
                  THEN [ingest EXCEPT ![i].phase = "configured"] ELSE ingest
    /\ UNCHANGED << objects, sessionVars, condemned, viewer >>

\* RTSP joins its receivers before it removes the stream and SRT has one thread;
\* WHIP removes it first, and its tracks deliver until the peer connection goes.
IngestEnd(i) ==
    /\ ingest[i].phase \in {"open", "configured"}
    /\ RemoveExternalStream(ingest[i].key, IngestSource[i])
    /\ IF IngestSource[i] = "whip"
       THEN IngestTo(i, "closing", ingest[i].key) ELSE IngestTo(i, "off", NoKey)
    /\ UNCHANGED << objects, sessionVars, condemned, viewer >>

IngestClosed(i) ==
    /\ ingest[i].phase = "closing"
    /\ IngestTo(i, "off", NoKey)
    /\ UNCHANGED << streams, objects, sessionVars, condemned, viewer >>

\* An RTSP connection that named a stream but never announced it cleans up as
\* well, and so does a WHIP session whose offer failed.
IngestAbort(i, k) ==
    /\ ingest[i].phase = "off"
    /\ IngestSource[i] # "srt"
    /\ RemoveExternalStream(k, IngestSource[i])
    /\ UNCHANGED << objects, sessionVars, condemned, ingest, viewer >>

-----------------------------------------------------------------------------
(* Callback viewers.  Those in Counted report one viewer before they join  *)
(* and none after they left.                                               *)

ViewerTo(c, phase, k) == viewer' = [viewer EXCEPT ![c] = [phase |-> phase, key |-> k]]

ViewerCount(c, k) ==
    /\ c \in Counted
    /\ viewer[c].phase = "off"
    /\ \E src \in {"srt", "whip"} : UpdateExternalViewers(k, src, 1)
    /\ ViewerTo(c, "counted", k)
    /\ UNCHANGED << objects, sessionVars, condemned, ingest >>

ViewerJoin(c, k) ==
    /\ \/ viewer[c].phase = "counted" /\ k = viewer[c].key
       \/ viewer[c].phase = "off" /\ c \notin Counted
    /\ AddCallback(k, IdOf[c], c)
    /\ ViewerTo(c, "joined", k)
    /\ UNCHANGED << objects, sessionVars, condemned, ingest >>

ViewerLeave(c) ==
    /\ viewer[c].phase = "joined"
    /\ RemoveCallback(viewer[c].key, IdOf[c])
    /\ IF c \in Counted THEN ViewerTo(c, "left", viewer[c].key) ELSE ViewerTo(c, "off", NoKey)
    /\ UNCHANGED << objects, sessionVars, condemned, ingest >>

ViewerUncount(c) ==
    /\ viewer[c].phase = "left"
    /\ \E src \in {"srt", "whip"} : UpdateExternalViewers(viewer[c].key, src, 0)
    /\ ViewerTo(c, "off", NoKey)
    /\ UNCHANGED << objects, sessionVars, condemned, ingest >>

-----------------------------------------------------------------------------

Cleanup ==
    /\ CleanupStale
    /\ UNCHANGED << objects, sessionVars, condemned, ingest, viewer >>

TimePasses(k) ==
    /\ Elapse(k)
    /\ UNCHANGED << objects, sessionVars, condemned, ingest, viewer >>

Next ==
    \/ \E s \in Session :
          \/ Connect(s)
          \/ \E k \in Key : OnPublish(s, k)
          \/ \E k \in Key : OnPlay(s, k)
          \/ Unpublish(s)
          \/ StopPlaying(s)
          \/ \E m \in MediaKinds : OnMedia(s, m)
          \/ OtherMessage(s)
          \/ StopSelf(s)
          \/ StopOther(s)
          \/ StopUnregister(s)
          \/ StopUnsubscribe(s)
          \/ Destroy(s)
          \/ SlowPlayer(s)
    \/ \E i \in Ingests :
          \/ \E k \in Key : IngestBegin(i, k)
          \/ \E k \in Key : IngestUpsert(i, k)
          \/ \E m \in MediaKinds : IngestMedia(i, m)
          \/ IngestEnd(i)
          \/ IngestClosed(i)
          \/ \E k \in Key : IngestAbort(i, k)
    \/ \E c \in Callback :
          \/ \E k \in Key : ViewerCount(c, k)
          \/ \E k \in Key : ViewerJoin(c, k)
          \/ ViewerLeave(c)
          \/ ViewerUncount(c)
    \/ \E k \in Key : Disconnect(k) \/ TimePasses(k)
    \/ Cleanup

Spec == Init /\ [][Next]_vars

\* Time passes, and the main loop calls the cleanup every
\* OTTS_CLEANUP_INTERVAL_MS whatever the clients do.
Fairness ==
    /\ WF_vars(Cleanup)
    /\ \A k \in Key : WF_vars(TimePasses(k))

FairSpec == Spec /\ Fairness

-----------------------------------------------------------------------------

\* A session object exists from start() until its last shared_ptr is gone, which
\* the threads that run it or are about to stop it hold.
LifeOK ==
    /\ objects = {s \in Session : life[s] # "none"}
    /\ condemned \cup publishing \cup playing \subseteq objects
    /\ late \subseteq {s \in objects : life[s] # "running"}

\* Type correctness of the registry and its clients.
TypeOK ==
    /\ RegistryTypeOK
    /\ life \in [Session -> Life]
    /\ key \in [Session -> Key \cup {NoKey}]
    /\ publishing \subseteq Session
    /\ playing \subseteq Session
    /\ late \subseteq Session
    /\ condemned \subseteq Session
    /\ ingest \in [Ingests -> [phase : IngestPhase, key : Key \cup {NoKey}]]
    /\ viewer \in [Callback -> [phase : ViewerPhase, key : Key \cup {NoKey}]]
    /\ LifeOK

\* A joined viewer has its registration.
Registered(c) ==
    viewer[c].phase = "joined" => << IdOf[c], c >> \in streams[viewer[c].key].callbacks

\* The registry cannot tell the viewer from another one.
SharesId(c) == \E d \in Callback \ {c} : IdOf[d] = IdOf[c]

\* No operation erases the entry of an attached viewer or drops its registration:
\* six operations repeat the erase rule, and each walks entries of other clients.
\* Excepted is a viewer with the callback id of another one, which takes the
\* registration along when it leaves (EveryViewerRegistered).
AttachedStaysRegistered ==
    /\ \A c \in Callback : Registered(c) \/ SharesId(c)
    /\ \A s \in playing :
          life[s] = "running" => \E k \in Key : s \in streams[k].subscribers

\* README.md:242 says that a stream "can then be played concurrently": a viewer
\* that has joined stays registered whoever else joins and leaves, whatever the
\* ids.  (It does not hold; see the findings.)
EveryViewerRegistered == \A c \in Callback : Registered(c)

\* A running session that believes it publishes (is_publisher_) holds a slot of
\* the registry, unless the thread that took the slot is about to stop it:
\* nobody is displaced silently.
PublisherKeepsSlot ==
    \A s \in publishing \ condemned :
        life[s] = "running" => \E k \in Key : streams[k].publisher = s

\* The GOP cache holds at most one keyframe, as its first packet, and has lost
\* it only if it is full.
GopStartsAtKeyframe ==
    \A k \in Key :
        LET e == streams[k] IN
        /\ Len(e.gop) <= GopMax
        /\ \A n \in 2 .. Len(e.gop) : e.gop[n] # "key"
        /\ e.keyframe /\ Len(e.gop) < GopMax => e.gop # << >> /\ e.gop[1] = "key"

\* No client uses the stream: no session in memory, no ingest and no viewer.
Unused(k) ==
    /\ \A s \in objects : s # streams[k].publisher /\ s \notin streams[k].subscribers
    /\ \A i \in Ingests : ingest[i].key # k
    /\ \A c \in Callback : viewer[c].key # k

\* An entry nobody uses goes, or comes into use again.  Excepted is an entry left
\* active that never had media, which the cleanup's idle rule never reaches.
UnusedIsReclaimed ==
    \A k \in Key :
        Unused(k) /\ ~(streams[k].active /\ streams[k].fed = "never")
            ~> ~streams[k].present \/ ~Unused(k)

\* README.md:29 lists the caching of the parameter sets: a live ingest that has sent
\* its sequence header can rely on the registry to keep it for the viewers to come.
\* (It does not hold; see the findings.)
HeaderKept ==
    \A i \in Ingests :
        ingest[i].phase = "configured" => streams[ingest[i].key].header

=============================================================================
