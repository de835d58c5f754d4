---------------------------- MODULE WebRtcSessions ----------------------------
(***************************************************************************)
(* One session of the WebRTC service: the HTTP thread that negotiates it,  *)
(* the two library threads that report its peer connection and its tracks, *)
(* the thread that closes it and its sender.  They share the tables of the *)
(* service (under mutex_), the NativeSession (hardly under anything), and  *)
(* what the session entered in the stream registry.                        *)
(*                                                                         *)
(* Sessions share no state but these maps, so one session is enough.  The  *)
(* peer connection is a library: its states, its tracks and the end of its *)
(* candidate gathering come as events in the order the library allows.     *)
(***************************************************************************)
EXTENDS Naturals

CONSTANTS
    Kind,      \* of "offer" (the server offers to play), "whep", "whip"
    Transcoded, \* those whose video is transcoded: uses_shared_video_transcode()
    MaxOpens   \* bound of the model: how often the connection comes up

ASSUME SessionAssumption ==
    /\ Kind \subseteq {"offer", "whep", "whip"}
    /\ Transcoded \subseteq Kind \ {"whip"}
    /\ MaxOpens \in Nat

VARIABLES
    kind,      \* the request that made the session
    handler,   \* the thread of that request
    answer,    \* the thread of POST /session/<id>/answer
    gathering, \* the library's candidate gathering: no, running, done
    remote,    \* the remote description is set
    pc,        \* the peer connection's state, as last reported
    opens,
    track,     \* unopened, open, closed
    at,        \* where each thread of the session is
    lapped,    \* a detach ran while the thread was attaching
    mine,      \* the callback id each attaching thread holds
    table,     \* the session's state in sessions_, "none" without an entry
    native,    \* it is in native_sessions_
    open, registered, callbackId, registry, sender, pipeline, \* NativeSession
    alive,     \* it is in memory
    byCleanup, \* the closing thread is the main loop
    issued,    \* callback ids given
    callbacks, \* registry: the session's ids in callback_subscribers
    strays,    \* those of an attach that a detach overlapped
    viewers,   \* registry: external_viewer_count
    protocol,  \* registry: external_sessions_[cpp-webrtc:<id>]
    ingest,    \* registry: external_publisher_active, with or without media
    crash      \* none, or the thread that followed a dead reference

request == << kind, handler, answer, gathering, remote >>
library == << pc, opens, track >>
attach  == << lapped, mine, issued, strays >>
tables  == << table, native >>
object  == << open, registered, callbackId, registry, sender, pipeline, alive >>
entered == << callbacks, viewers, protocol, ingest >>
vars    == << request, library, at, attach, tables, object, byCleanup, entered, crash >>

Thread == {"state", "track", "closer", "sender"}
Attaching == {"number", "pipeline", "join"}
Detaching == {"unsub", "clear"}
Terminal == {"closed", "failed"}
Removing(u) == at[u] \in Detaching \/ (u = "closer" /\ at[u] # "idle")
HandlerEnded == handler \in {"done", "late", "refused"}
Plays == kind # "whip"

Init ==
    /\ kind \in Kind
    /\ handler = "new" /\ answer = "none" /\ gathering = "no" /\ remote = FALSE
    /\ pc = "none" /\ opens = 0 /\ track = "unopened"
    /\ at = [t \in Thread |-> "idle"]
    /\ lapped = [t \in Thread |-> FALSE] /\ mine = [t \in Thread |-> 0]
    /\ issued = 0 /\ strays = {}
    /\ table = "none" /\ native = FALSE
    /\ open = FALSE /\ registered = FALSE /\ callbackId = 0 /\ registry = TRUE
    /\ sender = FALSE /\ pipeline = FALSE /\ alive = FALSE
    /\ byCleanup = FALSE
    /\ callbacks = {} /\ viewers = 0 /\ protocol = "none" /\ ingest = "off"
    /\ crash = "none"

Up == crash = "none"

At(t, s) == Up /\ at[t] = s

Go(t, s) == at' = [at EXCEPT ![t] = s]

-----------------------------------------------------------------------------
(* The session's entry in the registry.                                    *)

\* close_now is past the removal of the entry.
Unlisted == at["closer"] \in {"drop", "again"} \/ ~registry

\* upsert_external_session.  An entry in a state the registry keeps for ever and made
\* after close_now removed it is told apart as "late".
Upserted(state) == CASE state \in Terminal -> "terminal"
                     [] state \notin Terminal /\ Unlisted -> "late"
                     [] OTHER -> "live"

\* upsert_native_protocol_session
UpsertProtocol(state) == protocol' = Upserted(state)

RemoveProtocol == protocol' = "none"

\* The second loop of StreamRegistry::cleanup_stale.
CleanupProtocol ==
    /\ Up /\ protocol = "terminal"
    /\ protocol' = "none"
    /\ UNCHANGED << callbacks, viewers, ingest >>
    /\ UNCHANGED << request, library, at, attach, tables, object, byCleanup, crash >>

\* Its first loop, for an ingest without media.
CleanupIngest ==
    /\ Up /\ ingest = "fed" /\ (pc # "connected" \/ ~alive)
    /\ ingest' = "off"
    /\ UNCHANGED << callbacks, viewers, protocol >>
    /\ UNCHANGED << request, library, at, attach, tables, object, byCleanup, crash >>

-----------------------------------------------------------------------------
(* The request that makes the session.                                     *)

HandlerStep(from, to) == Up /\ handler = from /\ handler' = to

\* The session with its peer connection, tracks and callbacks, not yet known to anybody.
Built ==
    /\ HandlerStep("new", "built")
    /\ alive' = TRUE /\ pc' = "new"
    /\ UNCHANGED << open, registered, callbackId, registry, sender, pipeline >>
    /\ UNCHANGED << opens, track, callbacks, viewers, protocol >>
    /\ UNCHANGED << kind, answer, gathering, remote >>
    /\ UNCHANGED << at, attach, tables, byCleanup, crash >>

\* GET /webrtc/offer, POST to a WHEP and to a WHIP address.
BuildOffer == kind = "offer" /\ Built /\ UNCHANGED ingest
BuildWhep == kind = "whep" /\ Built /\ UNCHANGED ingest

\* begin_external_publish and upsert_external_stream.
BuildWhip == kind = "whip" /\ Built /\ ingest' = "unfed"

Build == BuildOffer \/ BuildWhep \/ BuildWhip

\* The entry "offering" or "answering", and later "running".
List ==
    /\ \/ HandlerStep("built", "listed")
       \/ HandlerStep("gathered", "stored") /\ kind # "offer"
    /\ UpsertProtocol("running")
    /\ UNCHANGED << callbacks, viewers, ingest, kind, answer, gathering, remote >>
    /\ UNCHANGED << library, at, attach, tables, object, byCleanup, crash >>

Enter ==
    /\ HandlerStep("listed", "entered")
    /\ table' = "awaiting" /\ native' = TRUE
    /\ UNCHANGED << kind, answer, gathering, remote >>
    /\ UNCHANGED << library, at, attach, object, byCleanup, entered, crash >>

\* The descriptions are set, which throws for one that does not fit.
Describe ==
    /\ \/ /\ HandlerStep("entered", "waiting")
          /\ remote' = (remote \/ kind # "offer") /\ gathering' = "running"
       \/ /\ HandlerStep("entered", "refused") /\ UNCHANGED << remote, gathering >>
    /\ UNCHANGED << kind, answer >>
    /\ UNCHANGED << library, at, attach, tables, object, byCleanup, entered, crash >>

\* onGatheringStateChange: it captured wait_mutex, gathered and local_sdp of the handler.
Gathered ==
    /\ Up /\ gathering = "running" /\ gathering' = "done"
    /\ IF handler = "waiting"
       THEN handler' = "gathered" /\ UNCHANGED crash
       ELSE UNCHANGED handler /\ crash' = IF HandlerEnded THEN "frame" ELSE crash
    /\ UNCHANGED << kind, answer, remote >>
    /\ UNCHANGED << library, at, attach, tables, object, byCleanup, entered >>

\* Five seconds are over: what candidates there are make the description, if any.
GatherTimeout ==
    /\ gathering = "running"
    /\ HandlerStep("waiting", "gathered") \/ HandlerStep("waiting", "refused")
    /\ UNCHANGED << kind, answer, gathering, remote >>
    /\ UNCHANGED << library, at, attach, tables, object, byCleanup, entered, crash >>

\* sessions_[id] makes an entry again if the session was closed meanwhile ("late").
Store ==
    /\ Up /\ handler = IF kind = "offer" THEN "gathered" ELSE "stored"
    /\ handler' = IF table = "none" THEN "late" ELSE "done"
    /\ table' = IF table = "none" THEN "pending" ELSE table
    /\ UNCHANGED << kind, answer, gathering, remote, native >>
    /\ UNCHANGED << library, at, attach, object, byCleanup, entered, crash >>

Handle == Build \/ List \/ Enter \/ Describe \/ GatherTimeout \/ Store

-----------------------------------------------------------------------------
(* set_native_answer: the lookup, then the use without the lock.  Its      *)
(* client has the session's id from the reply to the offer.                *)

FindForAnswer ==
    /\ Up /\ kind = "offer" /\ answer = "none" /\ native /\ HandlerEnded
    /\ answer' = "found"
    /\ UNCHANGED << kind, handler, gathering, remote >>
    /\ UNCHANGED << library, at, attach, tables, object, byCleanup, entered, crash >>

SetAnswer ==
    /\ Up /\ answer = "found" /\ answer' = "done"
    /\ \/ /\ registry
          /\ remote' = TRUE /\ UNCHANGED << table, crash >>
       \/ /\ registry /\ UNCHANGED << remote, crash >>
          /\ table' = IF table = "none" THEN table ELSE "failed"
       \/ /\ ~registry /\ crash' = "answer" /\ UNCHANGED << remote, table >>
    /\ UNCHANGED << kind, handler, gathering, native >>
    /\ UNCHANGED << library, at, attach, object, byCleanup, entered >>

-----------------------------------------------------------------------------
(* detach_play_subscription, by any thread.                                *)

After(t) == CASE t = "state"  -> "announce"
              [] t = "closer" -> "stop"
              [] OTHER        -> "idle"

Overlap(t) == lapped' = [u \in Thread |-> lapped[u] \/ (u # t /\ at[u] \in Attaching)]

\* The registry calls it makes, which RegistryClients has one by one.
Unsubscribe(t) ==
    /\ At(t, "unsub") /\ Go(t, "clear")
    /\ pipeline' = FALSE
    /\ IF registry /\ callbackId # 0 /\ Plays
       THEN callbacks' = callbacks \ {callbackId} /\ viewers' = 0 /\ callbackId' = 0
       ELSE UNCHANGED << callbacks, viewers, callbackId >>
    /\ Overlap(t)
    /\ UNCHANGED << open, registered, registry, sender, alive >>
    /\ UNCHANGED << protocol, ingest, mine, issued, strays >>
    /\ UNCHANGED << request, library, tables, byCleanup, crash >>

ClearFlags(t) ==
    /\ At(t, "clear") /\ Go(t, After(t))
    /\ open' = FALSE /\ registered' = FALSE
    /\ Overlap(t)
    /\ UNCHANGED << callbackId, registry, sender, pipeline, alive >>
    /\ UNCHANGED << mine, issued, strays >>
    /\ UNCHANGED << request, library, tables, byCleanup, entered, crash >>

Detach(t) == Unsubscribe(t) \/ ClearFlags(t)

-----------------------------------------------------------------------------
(* The attach_play_callback of both kinds of play session.                 *)

\* Mutant: no compare_exchange_strong, the second track to open attaches again.
ClaimAgain(t) ==
    /\ At(t, "claim")
    /\ IF open /\ registry
       THEN registered' = TRUE /\ Go(t, "number")
       ELSE UNCHANGED registered /\ Go(t, "idle")
    /\ UNCHANGED << open, callbackId, registry, sender, pipeline, alive, attach >>
    /\ UNCHANGED << request, library, tables, byCleanup, entered, crash >>

Claim(t) ==
    /\ At(t, "claim")
    /\ IF open /\ registry /\ ~registered
       THEN registered' = TRUE /\ Go(t, "number")
       ELSE UNCHANGED registered /\ Go(t, "idle")
    /\ lapped' = [lapped EXCEPT ![t] = 
                     at'[t] = "number" /\ \E u \in Thread : Removing(u)]
    /\ UNCHANGED << open, callbackId, registry, sender, pipeline, alive >>
    /\ UNCHANGED << mine, issued, strays >>
    /\ UNCHANGED << request, library, tables, byCleanup, entered, crash >>

\* The id is the time, and start_play_sender does nothing when the sender has started.
Number(t) ==
    /\ At(t, "number")
    /\ issued' = issued + 1
    /\ mine' = [mine EXCEPT ![t] = issued + 1] /\ callbackId' = issued + 1
    /\ sender' = TRUE
    /\ Go(t, IF kind \in Transcoded THEN "pipeline" ELSE "join")
    /\ UNCHANGED << open, registered, registry, pipeline, alive, lapped, strays >>
    /\ UNCHANGED << request, library, tables, byCleanup, entered, crash >>

\* attach_shared_video_transcode, 100 ms later; it may get no pipeline.  The service
\* has a registry: main attaches it before anything can reach the service.
TakePipeline(t) ==
    /\ At(t, "pipeline")
    /\ \/ /\ open /\ pipeline' = TRUE /\ Go(t, "join")
       \/ /\ UNCHANGED pipeline /\ Go(t, "undo")
    /\ UNCHANGED << open, registered, callbackId, registry, sender, alive >>
    /\ UNCHANGED << request, library, attach, tables, byCleanup, entered, crash >>

UndoAttach(t) ==
    /\ At(t, "undo") /\ At("sender", "idle") /\ Go(t, "idle")
    /\ sender' = FALSE /\ callbackId' = 0 /\ registered' = FALSE
    /\ mine' = [mine EXCEPT ![t] = 0] /\ lapped' = [lapped EXCEPT ![t] = FALSE]
    /\ UNCHANGED << open, registry, pipeline, alive, issued, strays >>
    /\ UNCHANGED << request, library, tables, byCleanup, entered, crash >>

Join(t) ==
    /\ At(t, "join") /\ Go(t, "idle")
    /\ viewers' = 1 /\ callbacks' = callbacks \union {mine[t]}
    /\ strays' = IF lapped[t] THEN strays \union {mine[t]} ELSE strays
    /\ mine' = [mine EXCEPT ![t] = 0] /\ lapped' = [lapped EXCEPT ![t] = FALSE]
    /\ UNCHANGED << protocol, ingest, issued >>
    /\ UNCHANGED << request, library, tables, object, byCleanup, crash >>

Attach(t) == Claim(t) \/ Number(t) \/ TakePipeline(t) \/ UndoAttach(t) \/ Join(t)

-----------------------------------------------------------------------------
(* The library reports the peer connection and its tracks.                 *)

Moves(s) ==
    \/ pc = "new" /\ remote /\ s = "connecting"
    \/ pc \in {"connecting", "disconnected"} /\ registry /\ s = "connected"
    \/ pc = "connected" /\ s = "disconnected"
    \/ pc \in {"connecting", "connected", "disconnected"} /\ s = "failed"
    \/ pc \in {"connected", "disconnected", "failed"} /\ s = "closed"
    \/ pc \notin {"none", "closed"} /\ ~registry /\ s = "closed"

\* onStateChange, up to update_session_state.
Report(s) ==
    /\ At("state", "idle") /\ alive /\ Moves(s)
    /\ pc' = s
    /\ opens' = IF s = "connected" THEN opens + 1 ELSE opens
    /\ opens' <= MaxOpens
    /\ open' = (s = "connected")
    /\ Go("state", "record")
    /\ UNCHANGED << registered, callbackId, registry, sender, pipeline, alive >>
    /\ UNCHANGED track
    /\ UNCHANGED << request, attach, tables, byCleanup, entered, crash >>

\* A WHEP session attaches when it is connected, after update_session_state.
AfterReport == IF kind = "whep" /\ pc = "connected" THEN "claim" ELSE "idle"

\* Mutant: a connection that fails is taken for one that is being set up.
SessionStateWaits(s) == IF s \in {"connected", "closed"} THEN s ELSE "awaiting"

\* rtc_state_to_session_state
SessionState(s) == IF s \in {"connected"} \union Terminal THEN s ELSE "awaiting"

\* update_session_state with mutex_; the session it found is used after it.
Record ==
    /\ At("state", "record")
    /\ table' = IF table = "none" THEN table ELSE SessionState(pc)
    /\ Go("state", CASE table = "none" \/ ~native -> AfterReport
                     [] table # "none" /\ native /\ pc \in Terminal -> "unsub"
                     [] OTHER -> "announce")
    /\ UNCHANGED native
    /\ UNCHANGED << request, library, attach, object, byCleanup, entered, crash >>

Announce ==
    /\ At("state", "announce") /\ Go("state", AfterReport)
    /\ IF registry THEN UpsertProtocol(SessionState(pc)) ELSE UNCHANGED protocol
    /\ UNCHANGED << callbacks, viewers, ingest >>
    /\ UNCHANGED << request, library, attach, tables, object, byCleanup, crash >>

TrackOpens ==
    /\ Plays /\ At("track", "idle") /\ alive
    /\ pc = "connected" /\ track = "unopened" /\ track' = "open"
    /\ Go("track", "claim")
    /\ UNCHANGED << pc, opens >>
    /\ UNCHANGED << request, attach, tables, object, byCleanup, entered, crash >>

\* onClosed detaches in a session the server offered; in a WHEP one it clears a flag.
TrackCloses ==
    /\ At("track", "idle") /\ alive
    /\ pc \in Terminal \union {"disconnected"} /\ track = "open" /\ track' = "closed"
    /\ Go("track", IF kind = "offer" THEN "unsub" ELSE "idle")
    /\ UNCHANGED << pc, opens >>
    /\ UNCHANGED << request, attach, tables, object, byCleanup, entered, crash >>

\* onFrame of a WHIP track: publish_external_media through the captured registry.
Frame ==
    /\ ~Plays /\ alive /\ pc = "connected" /\ At("state", "idle")
    /\ ingest' = "fed"
    /\ UNCHANGED << callbacks, viewers, protocol >>
    /\ UNCHANGED << request, library, at, attach, tables, object, byCleanup, crash >>

\* A sendFrame that throws "closed" makes the sender detach its own session.
SendThrows ==
    /\ sender /\ At("sender", "idle") /\ track = "closed" /\ callbacks # {}
    /\ registry /\ at["closer"] # "stop" /\ \A t \in Thread : at[t] # "undo"
    /\ Go("sender", "unsub")
    /\ UNCHANGED << request, library, attach, tables, object, byCleanup, entered, crash >>

-----------------------------------------------------------------------------
(* Closing a session.                                                      *)

\* Mutant: a close skips detach_play_subscription.
WithdrawOnly(cleanup) ==
    /\ table' = "none" /\ native' = FALSE
    /\ IF native THEN Go("closer", "stop") /\ byCleanup' = cleanup
                 ELSE UNCHANGED << at, byCleanup >>
    /\ UNCHANGED << request, library, attach, object, entered, crash >>

Withdraw(cleanup) ==
    /\ table' = "none" /\ native' = FALSE
    /\ IF native THEN Go("closer", "unsub") /\ byCleanup' = cleanup
                 ELSE UNCHANGED << at, byCleanup >>
    /\ UNCHANGED << request, library, attach, object, entered, crash >>

\* DELETE /session/<id>
CloseSession == Up /\ table # "none" /\ Withdraw(FALSE)

\* The retention, a minute, is longer than a request lasts.
CleanupStaleSessions == Up /\ table \in Terminal /\ HandlerEnded /\ Withdraw(TRUE)

\* The rest of close_now: stop_play_sender joins the sender.
StopSender ==
    /\ At("closer", "stop") /\ At("sender", "idle") /\ Go("closer", "unlist")
    /\ sender' = FALSE
    /\ UNCHANGED << open, registered, callbackId, registry, pipeline, alive >>
    /\ UNCHANGED << request, library, attach, tables, byCleanup, entered, crash >>

Unlist ==
    /\ At("closer", "unlist") /\ Go("closer", "drop")
    /\ RemoveProtocol
    /\ ingest' = IF Plays THEN ingest ELSE "off"
    /\ UNCHANGED << callbacks, viewers >>
    /\ UNCHANGED << request, library, attach, tables, object, byCleanup, crash >>

\* registry, the tracks and the peer connection are reset.
Drop ==
    /\ At("closer", "drop")
    /\ Go("closer", IF byCleanup THEN "again" ELSE "idle")
    /\ registry' = FALSE
    /\ UNCHANGED << open, registered, callbackId, sender, pipeline, alive >>
    /\ UNCHANGED << request, library, attach, tables, byCleanup, entered, crash >>

\* cleanup_stale_sessions removes the protocol session once more.
Again ==
    /\ At("closer", "again") /\ Go("closer", "idle")
    /\ RemoveProtocol
    /\ UNCHANGED << callbacks, viewers, ingest >>
    /\ UNCHANGED << request, library, attach, tables, object, byCleanup, crash >>

Close == StopSender \/ Unlist \/ Drop \/ Again

\* ~NativeSession calls close_now again, with a null registry.
Destroy ==
    /\ Up /\ alive /\ ~native /\ ~registry /\ HandlerEnded /\ answer # "found"
    /\ \A t \in Thread : at[t] = "idle"
    /\ alive' = FALSE
    /\ open' = FALSE /\ registered' = FALSE /\ sender' = FALSE /\ pipeline' = FALSE
    /\ UNCHANGED << callbackId, registry >>
    /\ UNCHANGED << request, library, at, attach, tables, byCleanup, entered, crash >>

-----------------------------------------------------------------------------

Reports == \E s \in {"connecting", "connected", "disconnected", "failed", "closed"} : Report(s)
StateThread == Record \/ Announce \/ Attach("state") \/ Detach("state")
TrackThread == Attach("track") \/ Detach("track")
CloserThread == Detach("closer") \/ Close
Cleanups == CleanupProtocol \/ CleanupIngest \/ CleanupStaleSessions

Next ==
    \/ Handle \/ Gathered \/ FindForAnswer \/ SetAnswer
    \/ Reports \/ TrackOpens \/ TrackCloses \/ Frame \/ SendThrows
    \/ StateThread \/ TrackThread \/ CloserThread \/ Detach("sender")
    \/ CloseSession \/ Cleanups \/ Destroy

Spec == Init /\ [][Next]_vars

\* Threads run and the main loop cleans up.  No client or peer is fair.
Fairness ==
    /\ WF_vars(Handle) /\ WF_vars(SetAnswer)
    /\ WF_vars(StateThread) /\ WF_vars(TrackThread)
    /\ WF_vars(CloserThread) /\ WF_vars(Detach("sender"))
    /\ WF_vars(Cleanups) /\ WF_vars(Destroy)

FairSpec == Spec /\ Fairness

-----------------------------------------------------------------------------

\* Type correctness of the session, of its threads and of what the registry has of it.
TypeOK ==
    /\ kind \in Kind /\ remote \in BOOLEAN
    /\ handler \in {"new", "built", "listed", "entered", "waiting", "gathered",
                    "stored", "done", "late", "refused"}
    /\ answer \in {"none", "found", "done"} /\ gathering \in {"no", "running", "done"}
    /\ pc \in {"none", "new", "connecting", "connected", "disconnected"} \union Terminal
    /\ opens \in 0 .. MaxOpens
    /\ track \in {"unopened", "open", "closed"}
    /\ at \in [Thread -> {"idle", "record", "announce", "claim", "undo", "stop", "unlist",
                          "drop", "again"} \union Attaching \union Detaching]
    /\ lapped \in [Thread -> BOOLEAN] /\ mine \in [Thread -> 0 .. issued]
    /\ issued \in Nat
    /\ table \in {"none", "pending", "awaiting", "connected"} \union Terminal
    /\ {native, open, registered, registry, sender, pipeline, alive, byCleanup} \subseteq BOOLEAN
    /\ callbackId \in 0 .. issued
    /\ callbacks \subseteq 1 .. issued /\ strays \subseteq 1 .. issued
    /\ viewers \in {0, 1} /\ protocol \in {"none", "live", "late", "terminal"}
    /\ ingest \in {"off", "unfed", "fed"}
    /\ crash \in {"none", "frame", "answer"}

\* A callback of the session that is registered is the one its callback_id names, so that
\* a detach can find it, unless a detach ran while the attach that made it was under way.
CallbackOwned == callbacks \ strays \subseteq {callbackId}

\* A session that was closed is quiet: it has no callback and no live entry in the
\* registry and neither a sender nor a transcoder, except for what an attach did that the
\* close overlapped and that is known as a stray.
ClosedIsQuiet ==
    ~registry /\ (\A t \in Thread : at[t] \notin Attaching \union {"undo"}) =>
        /\ callbacks \subseteq strays /\ protocol # "live"
        /\ sender \/ pipeline => strays # {}

\* A session whose connection failed or was closed leaves nothing behind: it goes from both tables, its
\* protocol session from the registry, its callback, its sender, its share of a
\* transcoder and its ingest.  Excepted are the callback of an overlapped attach and an
\* entry that the request or a report made again after the close.
LostIsReclaimed ==
    pc \in Terminal ~>
        \/ crash # "none"
        \/ /\ ~native /\ (table = "none" \/ handler = "late") /\ protocol \in {"none", "late"}
           /\ callbacks \subseteq strays /\ (viewers = 0 \/ strays # {})
           /\ ~alive /\ ~sender /\ ~pipeline /\ ingest = "off"
=============================================================================
