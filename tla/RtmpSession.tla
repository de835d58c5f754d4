----------------------------- MODULE RtmpSession -----------------------------
(***************************************************************************)
(* RTMP sessions at the grain of their threads (cpp/src/rtmp/              *)
(* rtmp_session.cpp).  A session has an rx thread (session_loop, the       *)
(* handlers) and a tx thread (outbound_loop).  stop() may be called by     *)
(* either, by the rx thread of another session (which takes the key over,  *)
(* or finds the outbound queue full during a fan-out), or by the thread of *)
(* an operator's disconnect request; it runs concurrently with all of      *)
(* them, and only the atomic exchange of running_ orders two calls.        *)
(*                                                                         *)
(* The registry is that of StreamRegistry; RegistryClients is the abstract *)
(* view of a session that this module implements (see Clients below).      *)
(***************************************************************************)
EXTENDS StreamRegistry

CONSTANTS
    NoKey,        \* the empty stream_key_
    MediaKinds,   \* kinds of the media messages peers send
    Publishers,   \* the sessions whose peers publish ...
    Players,      \* ... and those whose peers play
    Operators,    \* HTTP threads that execute a disconnect request
    BadChunkSize  \* whether a peer may send an invalid Set Chunk Size

ASSUME SessionAssumption ==
    /\ NoKey \notin Key
    /\ MediaKinds \subseteq Kind
    /\ Publishers \cup Players \subseteq Session
    /\ Operators \cap (Session \X {"rx", "tx"}) = {}
    /\ BadChunkSize \in BOOLEAN

VARIABLES
    rx, tx,       \* where the threads of each session are
    call,         \* the stop() each thread is executing, and on which session
    todo,         \* sessions a thread copied under the lock and still has to visit
    running,      \* running_
    linked,       \* the sessions whose socket is open and whose peer is there
    key, publishing, playing    \* stream_key_, is_publisher_, is_player_

threadVars == << rx, tx, call, todo >>
flags == << key, publishing, playing >>
vars == << streams, objects, threadVars, running, linked, flags >>

Rx(s) == << s, "rx" >>
Tx(s) == << s, "tx" >>
Thread == (Session \X {"rx", "tx"}) \cup Operators

Stopping(s) == [of |-> s, at |-> "exchange"]
NoCall == [of |-> NoSession, at |-> "idle"]
Free(t) == call[t] = NoCall

Init ==
    /\ RegistryInit
    /\ rx = [s \in Session |-> "none"]
    /\ tx = [s \in Session |-> "none"]
    /\ call = [t \in Thread |-> NoCall]
    /\ todo = [t \in Thread |-> {}]
    /\ running = {} /\ linked = {}
    /\ key = [s \in Session |-> NoKey]
    /\ publishing = {} /\ playing = {}

-----------------------------------------------------------------------------
(* stop(), executed by thread t *)

\* Mutant: a stop() that does not look whether another one ran before.
StopExchangeAlways(t) ==
    LET s == call[t].of IN
    /\ call[t].at = "exchange"
    /\ running' = running \ {s}
    /\ call' = [call EXCEPT ![t].at = "unregister"]
    /\ UNCHANGED << streams, objects, rx, tx, todo, linked, flags >>

\* if (!running_.exchange(false)) return;
StopExchange(t) ==
    LET s == call[t].of IN
    /\ call[t].at = "exchange"
    /\ running' = running \ {s}
    /\ call' = [call EXCEPT ![t] = IF s \in running THEN [@ EXCEPT !.at = "unregister"] ELSE NoCall]
    /\ UNCHANGED << streams, objects, rx, tx, todo, linked, flags >>

StopUnregister(t) ==
    /\ call[t].at = "unregister"
    /\ UnregisterPublisher(call[t].of)
    /\ call' = [call EXCEPT ![t].at = "unsubscribe"]
    /\ UNCHANGED << objects, rx, tx, todo, running, linked, flags >>

StopUnsubscribe(t) ==
    /\ call[t].at = "unsubscribe"
    /\ RemoveSubscriber(call[t].of)
    /\ call' = [call EXCEPT ![t].at = "close"]
    /\ UNCHANGED << objects, rx, tx, todo, running, linked, flags >>

\* A notification wakes a tx thread that waits.  A thread that has evaluated the
\* predicate of the wait and not blocked yet misses it.
Notified(s) ==
    [tx EXCEPT ![s] = CASE @ \in {"wait", "stranded"} -> "busy"
                        [] @ = "eval" -> "missed"
                        [] OTHER -> @]

\* send_media pushes with outbound_mutex_ held, so never between evaluation and
\* wait: a message finds the tx thread before the one or after the other.
Queued(s) ==
    [tx EXCEPT ![s] = IF @ \in {"busy", "eval", "missed", "wait", "stranded"} THEN "send" ELSE @]

\* Mutant: a stop() that notifies nobody.
StopCloseSilently(t) ==
    LET s == call[t].of IN
    /\ call[t].at = "close"
    /\ linked' = linked \ {s}
    /\ call' = [call EXCEPT ![t] = NoCall]
    /\ UNCHANGED << streams, objects, rx, tx, todo, running, flags >>

\* shutdown, close, and notify_all without outbound_mutex_
StopClose(t) ==
    LET s == call[t].of IN
    /\ call[t].at = "close"
    /\ linked' = linked \ {s}
    /\ tx' = Notified(s)
    /\ call' = [call EXCEPT ![t] = NoCall]
    /\ UNCHANGED << streams, objects, rx, todo, running, flags >>

-----------------------------------------------------------------------------
(* The rx thread *)

Accept(s) ==
    /\ s \notin objects
    /\ \A k \in Key : s # streams[k].publisher /\ s \notin streams[k].subscribers
    /\ objects' = objects \cup {s}
    /\ running' = running \cup {s}
    /\ linked' = linked \cup {s}
    /\ rx' = [rx EXCEPT ![s] = "recv"]
    /\ tx' = [tx EXCEPT ![s] = "busy"]
    /\ UNCHANGED << streams, call, todo, flags >>

RxTo(s, at) == rx' = [rx EXCEPT ![s] = at]
RxAt(s, at) == rx[s] = at /\ Free(Rx(s))

\* The loop ends: session_loop calls stop() itself.
RxLeave(s) ==
    /\ RxTo(s, "exit")
    /\ call' = [call EXCEPT ![Rx(s)] = Stopping(s)]

RxCheck(s) ==
    /\ RxAt(s, "check")
    /\ IF s \in running THEN RxTo(s, "recv") /\ UNCHANGED call ELSE RxLeave(s)
    /\ UNCHANGED << streams, objects, tx, todo, running, linked, flags >>

RxFail(s) ==
    /\ RxAt(s, "recv")
    /\ s \notin linked
    /\ RxLeave(s)
    /\ UNCHANGED << streams, objects, tx, todo, running, linked, flags >>

\* The rx thread has a message to handle; it may have read it before the stop().
RxHandles(s) == RxAt(s, "recv") /\ (s \in linked \/ s \notin running)

HandlePublish(s, k) ==
    /\ s \in Publishers
    /\ RxHandles(s)
    /\ RegisterPublisher(k, s)
    /\ key' = [key EXCEPT ![s] = k]
    /\ publishing' = publishing \cup {s}
    /\ RxTo(s, "check")
    /\ \/ /\ Displaced(k, s) = {}
          /\ UNCHANGED call
       \/ \E p \in Displaced(k, s) : call' = [call EXCEPT ![Rx(s)] = Stopping(p)]
    /\ UNCHANGED << objects, tx, todo, running, linked, playing >>

\* A snapshot with anything in it goes to the queue of the player itself.
HandlePlay(s, k) ==
    /\ s \in Players
    /\ RxHandles(s)
    /\ AddSubscriber(k, s)
    /\ key' = [key EXCEPT ![s] = k]
    /\ playing' = playing \cup {s}
    /\ RxTo(s, "fanout")
    /\ todo' = [todo EXCEPT ![Rx(s)] = IF At(k).gop = << >> THEN {} ELSE {s}]
    /\ UNCHANGED << objects, tx, call, running, linked, publishing >>

HandleFcUnpublish(s) ==
    /\ RxHandles(s) /\ s \in publishing
    /\ UnregisterPublisher(s)
    /\ publishing' = publishing \ {s}
    /\ RxTo(s, "check")
    /\ UNCHANGED << objects, tx, call, todo, running, linked, key, playing >>

\* deleteStream of a publisher; a session that also plays goes on.
HandleDeletePublisher(s) ==
    /\ RxHandles(s) /\ s \in publishing
    /\ UnregisterPublisher(s)
    /\ publishing' = publishing \ {s}
    /\ RxTo(s, IF s \in playing THEN "delete" ELSE "check")
    /\ UNCHANGED << objects, tx, call, todo, running, linked, key, playing >>

HandleDeletePlayer(s) ==
    /\ s \in playing
    /\ RxAt(s, "delete") \/ (RxHandles(s) /\ s \notin publishing)
    /\ RemoveSubscriber(s)
    /\ playing' = playing \ {s}
    /\ RxTo(s, "check")
    /\ UNCHANGED << objects, tx, call, todo, running, linked, key, publishing >>

HandleMedia(s, m) ==
    /\ RxHandles(s) /\ s \in publishing
    /\ PublishMedia(key[s], m)
    /\ todo' = [todo EXCEPT ![Rx(s)] = streams[key[s]].subscribers \cap objects]
    /\ RxTo(s, "fanout")
    /\ UNCHANGED << objects, tx, call, running, linked, flags >>

\* An invalid chunk size clears running_ and leaves the rest to stop().
HandleBadChunkSize(s) ==
    /\ BadChunkSize
    /\ RxHandles(s)
    /\ running' = running \ {s}
    /\ RxTo(s, "check")
    /\ UNCHANGED << streams, objects, tx, call, todo, linked, flags >>

HandleOther(s) ==
    /\ RxHandles(s)
    /\ RxTo(s, "check")
    /\ UNCHANGED << streams, objects, tx, call, todo, running, linked, flags >>

\* send_media of one copied subscriber: queued and notified, or found too slow.
FanOut(s) ==
    /\ RxAt(s, "fanout")
    /\ \E v \in todo[Rx(s)] :
          /\ todo' = [todo EXCEPT ![Rx(s)] = @ \ {v}]
          /\ \/ /\ v \notin running
                /\ UNCHANGED << tx, call >>
             \/ /\ v \in running
                /\ tx' = Queued(v)
                /\ UNCHANGED call
             \/ /\ v \in running
                /\ call' = [call EXCEPT ![Rx(s)] = Stopping(v)]
                /\ UNCHANGED tx
    /\ UNCHANGED << streams, objects, rx, running, linked, flags >>

FanOutEnd(s) ==
    /\ RxAt(s, "fanout")
    /\ todo[Rx(s)] = {}
    /\ RxTo(s, "check")
    /\ UNCHANGED << streams, objects, tx, call, todo, running, linked, flags >>

RxDone(s) ==
    /\ RxAt(s, "exit")
    /\ RxTo(s, "done")
    /\ UNCHANGED << streams, objects, tx, call, todo, running, linked, flags >>

-----------------------------------------------------------------------------
(* The tx thread *)

TxTo(s, at) == tx' = [tx EXCEPT ![s] = at]
TxAt(s, at) == tx[s] = at /\ Free(Tx(s))

\* The loop condition and the predicate of the wait, outbound_mutex_ held: the queue
\* of a player may hold more ...
TxLook(s) ==
    /\ TxAt(s, "busy")
    /\ \/ s \in running /\ TxTo(s, "eval")
       \/ s \in running \cap playing /\ TxTo(s, "send")
       \/ s \notin running /\ TxTo(s, "done")
    /\ UNCHANGED << streams, objects, rx, call, todo, running, linked, flags >>

\* ... until the thread blocks.
TxBlock(s) ==
    /\ \/ TxAt(s, "eval") /\ TxTo(s, "wait")
       \/ TxAt(s, "missed") /\ TxTo(s, "stranded")
    /\ UNCHANGED << streams, objects, rx, call, todo, running, linked, flags >>

SpuriousWakeup(s) ==
    /\ TxAt(s, "wait") \/ TxAt(s, "stranded")
    /\ TxTo(s, "busy")
    /\ UNCHANGED << streams, objects, rx, call, todo, running, linked, flags >>

\* The peer takes what is queued, or the send fails: the peer is gone, the socket
\* closed, or SO_SNDTIMEO has passed.
TxSend(s) ==
    /\ TxAt(s, "send")
    /\ \/ /\ s \in linked
          /\ TxTo(s, "busy")
          /\ UNCHANGED call
       \/ /\ TxTo(s, "exit")
          /\ call' = [call EXCEPT ![Tx(s)] = Stopping(s)]
    /\ UNCHANGED << streams, objects, rx, todo, running, linked, flags >>

TxEnd(s) ==
    /\ TxAt(s, "exit")
    /\ TxTo(s, "done")
    /\ UNCHANGED << streams, objects, rx, call, todo, running, linked, flags >>

-----------------------------------------------------------------------------
(* The rest of the process *)

PeerGone(s) ==
    /\ s \in linked
    /\ linked' = linked \ {s}
    /\ UNCHANGED << streams, objects, threadVars, running, flags >>

\* disconnect_stream: copy the sessions under the lock, then stop each.
DisconnectCopy(o, k) ==
    /\ Free(o) /\ todo[o] = {}
    /\ todo' = [todo EXCEPT ![o] = Disconnected(k)]
    /\ UNCHANGED << streams, objects, rx, tx, call, running, linked, flags >>

DisconnectNext(o) ==
    /\ Free(o)
    /\ \E s \in todo[o] :
          /\ todo' = [todo EXCEPT ![o] = @ \ {s}]
          /\ call' = [call EXCEPT ![o] = Stopping(s)]
    /\ UNCHANGED << streams, objects, rx, tx, running, linked, flags >>

\* Both threads hold a shared_ptr until they end, and so does whoever stops or
\* still has to visit the session.
Destroy(s) ==
    /\ s \in objects
    /\ rx[s] = "done" /\ tx[s] = "done"
    /\ \A t \in Thread : call[t].of # s /\ s \notin todo[t]
    /\ objects' = objects \ {s}
    /\ rx' = [rx EXCEPT ![s] = "none"]
    /\ tx' = [tx EXCEPT ![s] = "none"]
    /\ running' = running \ {s}
    /\ linked' = linked \ {s}
    /\ key' = [key EXCEPT ![s] = NoKey]
    /\ publishing' = publishing \ {s}
    /\ playing' = playing \ {s}
    /\ UNCHANGED << streams, call, todo >>

StopStep(t) ==
    StopExchange(t) \/ StopUnregister(t) \/ StopUnsubscribe(t) \/ StopClose(t)

Handle(s) ==
    \/ \E k \in Key : HandlePublish(s, k) \/ HandlePlay(s, k)
    \/ HandleFcUnpublish(s)
    \/ HandleDeletePublisher(s)
    \/ HandleDeletePlayer(s)
    \/ \E m \in MediaKinds : HandleMedia(s, m)
    \/ HandleBadChunkSize(s)
    \/ HandleOther(s)

RxStep(s) ==
    RxCheck(s) \/ FanOut(s) \/ FanOutEnd(s) \/ RxDone(s)

TxStep(s) == TxLook(s) \/ TxBlock(s) \/ TxSend(s) \/ TxEnd(s)

Next ==
    \/ \E t \in Thread : StopStep(t)
    \/ \E s \in Session :
          \/ Accept(s)
          \/ Handle(s)
          \/ RxFail(s)
          \/ RxStep(s)
          \/ TxStep(s)
          \/ SpuriousWakeup(s)
          \/ PeerGone(s)
          \/ Destroy(s)
    \/ \E o \in Operators :
          \/ \E k \in Key : DisconnectCopy(o, k)
          \/ DisconnectNext(o)

Spec == Init /\ [][Next]_vars

\* Threads run.  What a peer sends, a spurious wakeup and a disconnect are the
\* environment's: nothing makes them happen.  The last shared_ptr destroys its
\* session at once, so disconnects that come for ever do not keep it: SF.
Fairness ==
    /\ \A t \in Thread : WF_vars(StopStep(t))
    /\ \A s \in Session :
          /\ WF_vars(RxFail(s))
          /\ WF_vars(RxStep(s))
          /\ WF_vars(rx[s] = "delete" /\ HandleDeletePlayer(s))
          /\ WF_vars(TxStep(s))
          /\ SF_vars(Destroy(s))
    /\ \A o \in Operators : WF_vars(DisconnectNext(o))

FairSpec == Spec /\ Fairness

-----------------------------------------------------------------------------

RxPlace == {"none", "check", "recv", "delete", "fanout", "exit", "done"}
TxPlace == {"none", "busy", "eval", "missed", "wait", "stranded", "send", "exit", "done"}
CallPlace == {"idle", "exchange", "unregister", "unsubscribe", "close"}

\* Type correctness of the registry and of the sessions with their threads.
TypeOK ==
    /\ RegistryTypeOK
    /\ rx \in [Session -> RxPlace]
    /\ tx \in [Session -> TxPlace]
    /\ call \in [Thread -> [of : Session \cup {NoSession}, at : CallPlace]]
    /\ todo \in [Thread -> SUBSET Session]
    /\ running \subseteq objects /\ linked \subseteq objects
    /\ key \in [Session -> Key \cup {NoKey}]
    /\ publishing \subseteq objects /\ playing \subseteq objects

-----------------------------------------------------------------------------
(* The abstract sessions of RegistryClients *)

At1(s, places) == \E t \in Thread : call[t].of = s /\ call[t].at \in places

life ==
    [s \in Session |->
        CASE s \notin objects           -> "none"
          [] s \in running              -> "running"
          [] At1(s, {"unregister"})     -> "stopping"
          [] At1(s, {"unsubscribe"})    -> "unregistered"
          [] OTHER                      -> "closed"]

late == {s \in objects \ running : rx[s] \in {"recv", "delete"}}

condemned ==
    (UNION {todo[o] : o \in Operators}) \cup
    {s \in Session : \E t \in Thread \ {Rx(s), Tx(s)} : call[t] = Stopping(s)}

\* Sessions are all the clients there are: no ingest, and no viewer that joins.
AnyId == CHOOSE id \in CallbackId : TRUE
Off == [phase |-> "off", key |-> NoKey]

Clients == INSTANCE RegistryClients
    WITH Ingests <- {}, IngestSource <- << >>, Counted <- {},
         IdOf <- [c \in Callback |-> AnyId],
         ingest <- [i \in {} |-> Off], viewer <- [c \in Callback |-> Off]

\* The sessions with their threads implement the sessions RegistryClients knows.
ImplementsClients == Clients!Spec

\* Whoever stops a session, and whatever its threads do meanwhile, both of its
\* threads end and its memory goes.  Only one thing can prevent it: the tx thread
\* missed its only notification, because stop() notifies without outbound_mutex_.
StoppedSessionEnds ==
    \A s \in Session :
        At1(s, {"unregister"}) ~> s \notin objects \/ tx[s] = "stranded"

\* scripts/smoke_stability.sh:44 waits for a stream to go once its publisher is
\* gone: a live session whose connection is down gives up its slot.
\* (It does not hold with BadChunkSize; see the findings.)
SlotReleased ==
    \A s \in Session : \A k \in Key :
        LET Holds == s \in objects /\ streams[k].publisher = s
        IN  Holds /\ s \notin linked ~> ~Holds

=============================================================================
