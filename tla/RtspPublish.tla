----------------------------- MODULE RtspPublish -----------------------------
(***************************************************************************)
(* One connection of the RTSP publish server: the thread that answers its  *)
(* requests, the UDP sockets of its two tracks, the two receiver threads,  *)
(* and what the connection has entered in the stream registry.  RtpIngest  *)
(* is about what the receivers make of the packets.                        *)
(*                                                                         *)
(* The kernel, as the code meets it: shutdown wakes a thread that waits in *)
(* recv, close alone does not; the number of a closed socket goes to the   *)
(* next one that is opened.                                                *)
(***************************************************************************)
EXTENDS Naturals

CONSTANT MaxSockets \* bound of the model: RTP sockets ever opened

PublishBounds == MaxSockets \in Nat

VARIABLES
    serving,  \* the server: off, on, stopped
    conn,     \* unaccepted, open, joining a track, unregister, ended, terminated
    named,    \* stream_key is not empty
    announced, \* aac_config.present of the last ANNOUNCE, "no" before it
    rtpFd,    \* of each track, the socket of its RTP port, 0 none
    sockets,  \* of each socket: unopened, open, replaced, closed, shut
    receiver, \* of each track: none, testing receiving, entering recv, waiting in it,
              \* astray (waiting on a socket of somebody else), handling, done
    rxFd,     \* the socket whose number each receiver reads from
    rxKey,    \* the key each receiver has copied, "none" before it has
    receiving,
    session,  \* registry: state in external_sessions_, "none" without an entry
    active    \* registry: the keys whose entry has this connection as its ingest

sharedRx == << sockets, receiver, rxFd, rxKey, receiving >>
registered == << session, active >>
publishVars == << serving, conn, named, announced, rtpFd, sharedRx, registered >>

Track == {"video", "audio"}
Socket == 1..MaxSockets
JoinOf == [video |-> "join video", audio |-> "join audio"]

Init ==
    /\ serving = "off" /\ conn = "unaccepted" /\ named = FALSE /\ announced = "no"
    /\ rtpFd = [t \in Track |-> 0]
    /\ sockets = [s \in Socket |-> "unopened"]
    /\ receiver = [t \in Track |-> "none"] /\ rxFd = [t \in Track |-> 0]
    /\ rxKey = [t \in Track |-> "none"]
    /\ receiving = FALSE
    /\ session = "none" /\ active = {}

-----------------------------------------------------------------------------
(* The server *)

\* start: a port in use, or an error, leaves it off.
StartServer ==
    /\ serving = "off"
    /\ serving' \in {"off", "on"}
    /\ UNCHANGED << conn, named, announced, rtpFd, sharedRx, registered >>

\* stop: connections that are open go on in their detached threads.
StopServer ==
    /\ serving = "on"
    /\ serving' = "stopped"
    /\ UNCHANGED << conn, named, announced, rtpFd, sharedRx, registered >>

\* accept_loop: an accept that began before stop() may still succeed.
Accept ==
    /\ conn = "unaccepted" /\ serving # "off"
    /\ conn' = "open"
    /\ UNCHANGED << serving, named, announced, rtpFd, sharedRx, registered >>

-----------------------------------------------------------------------------
(* Requests *)

\* stream_key_from_uri: a URI without a path names the empty key, and the next
\* request tries again.
KeyFrom(path) == named' = (named \/ path)

\* The key the request's handler works on.
Key == IF named' THEN "key" ELSE "empty"

\* Mutant: cleanup closes the sockets without shutting them down.
CloseSocketsOnly ==
    /\ receiving' = FALSE
    /\ sockets' = [s \in Socket |->
          IF \E t \in Track : rtpFd[t] = s THEN "closed" ELSE sockets[s]]
    /\ rtpFd' = [t \in Track |-> 0]
    /\ conn' = "join video"

\* cleanup, up to the first join.
CloseSockets ==
    /\ receiving' = FALSE
    /\ sockets' = [s \in Socket |->
          IF \E t \in Track : rtpFd[t] = s THEN "shut" ELSE sockets[s]]
    /\ rtpFd' = [t \in Track |-> 0]
    /\ conn' = "join video"

\* The peer closes, or sends no request line.
Hangup ==
    /\ conn = "open"
    /\ CloseSockets
    /\ UNCHANGED << serving, named, announced, receiver, rxFd, rxKey, registered >>

\* TEARDOWN, or a request that is not authorized: the key is named by then.
Teardown(path) ==
    /\ conn = "open"
    /\ KeyFrom(path)
    /\ CloseSockets
    /\ UNCHANGED << serving, announced, receiver, rxFd, rxKey, registered >>

\* ANNOUNCE: begin_external_publish, upsert_external_stream and _session.
Announce(path, audio) ==
    /\ conn = "open"
    /\ KeyFrom(path)
    /\ announced' = IF audio THEN "with audio" ELSE "video"
    /\ active' = active \cup {Key}
    /\ session' = "announced"
    /\ UNCHANGED << serving, conn, rtpFd, sharedRx >>

\* SETUP of a track: the sockets of an earlier one are closed, new ones bound;
\* no pair of ports in 32 attempts is a 500 that leaves the track without.
Setup(path, t) ==
    /\ conn = "open"
    /\ KeyFrom(path)
    /\ LET old == [s \in Socket |-> IF s = rtpFd[t] THEN "replaced" ELSE sockets[s]] IN
       \/ /\ rtpFd' = [rtpFd EXCEPT ![t] = 0] /\ sockets' = old
          /\ UNCHANGED session
       \/ \E s \in Socket :
             /\ sockets[s] = "unopened" /\ \A r \in 1..(s - 1) : sockets[r] # "unopened"
             /\ rtpFd' = [rtpFd EXCEPT ![t] = s]
             /\ sockets' = [old EXCEPT ![s] = "open"]
             /\ session' = "setup"
    /\ UNCHANGED << serving, conn, announced, receiver, rxFd, rxKey, receiving, active >>

\* RECORD starts the receivers; a thread object that still has its thread ends
\* the program when it is assigned.
Record(path) ==
    /\ conn = "open"
    /\ KeyFrom(path)
    /\ rtpFd["video"] # 0
    /\ LET started == {"video"} \cup
             (IF rtpFd["audio"] # 0 /\ announced = "with audio" THEN {"audio"} ELSE {})
       IN IF \E t \in started : receiver[t] # "none"
          THEN conn' = "terminated" /\ UNCHANGED << sharedRx, session >>
          ELSE /\ receiving' = TRUE
               /\ receiver' = [t \in Track |-> IF t \in started THEN "testing" ELSE receiver[t]]
               /\ rxFd' = [t \in Track |-> IF t \in started THEN rtpFd[t] ELSE rxFd[t]]
               /\ rxKey' = [t \in Track |-> IF t \in started /\ named' THEN "key" ELSE rxKey[t]]
               /\ session' = "recording"
               /\ UNCHANGED << conn, sockets >>
    /\ UNCHANGED << serving, announced, rtpFd, active >>

\* GET_PARAMETER, an unknown method, SETUP without ports, RECORD without video:
\* an answer, and the key may be named by it.
AnswerOnly(path) ==
    /\ conn = "open"
    /\ KeyFrom(path) /\ named' # named
    /\ UNCHANGED << serving, conn, announced, rtpFd, sharedRx, registered >>

-----------------------------------------------------------------------------
(* Receivers *)

\* The head of the loop.
Test(t) ==
    /\ receiver[t] = "testing" /\ conn # "terminated"
    /\ receiver' = [receiver EXCEPT ![t] = IF receiving THEN "entering" ELSE "done"]
    /\ UNCHANGED << serving, conn, named, announced, rtpFd, sockets, rxFd, rxKey,
                    receiving, registered >>

\* recv takes the number it has.  If that has been closed since, recv fails, or
\* the number is that of a later socket of this connection or of somebody else's.
Enter(t) ==
    /\ receiver[t] = "entering" /\ conn # "terminated"
    /\ LET enters(place, s) ==
              /\ receiver' = [receiver EXCEPT ![t] = place]
              /\ rxFd' = [rxFd EXCEPT ![t] = s]
       IN IF sockets[rxFd[t]] = "open"
          THEN enters("waiting", rxFd[t])
          ELSE \/ \E place \in {"done", "astray"} : enters(place, rxFd[t])
               \/ \E u \in Track : rtpFd[u] > rxFd[t] /\ enters("waiting", rtpFd[u])
    /\ UNCHANGED << serving, conn, named, announced, rtpFd, sockets, rxKey,
                    receiving, registered >>

\* A packet arrives at the socket that the receiver waits on, be its number
\* closed by now.  A receiver that RECORD started under the empty key has copied
\* that one when it began, or the one that a later request named.
Receive(t) ==
    /\ conn # "terminated"
    /\ \/ receiver[t] = "waiting" /\ sockets[rxFd[t]] \in {"open", "replaced", "closed"}
       \/ receiver[t] = "astray"
    /\ receiver' = [receiver EXCEPT ![t] = "handling"]
    /\ \E k \in IF rxKey[t] # "none" THEN {rxKey[t]}
              ELSE {"empty"} \cup (IF named THEN {"key"} ELSE {}) :
          rxKey' = [rxKey EXCEPT ![t] = k]
    /\ UNCHANGED << serving, conn, named, announced, rtpFd, sockets, rxFd,
                    receiving, registered >>

\* The packet completes a unit, which publish_external_media enters, or not.
Handle(t) ==
    /\ receiver[t] = "handling" /\ conn # "terminated"
    /\ active' \in {active, active \cup {rxKey[t]}}
    /\ receiver' = [receiver EXCEPT ![t] = "testing"]
    /\ UNCHANGED << serving, conn, named, announced, rtpFd, sockets, rxFd, rxKey,
                    receiving, session >>

\* recv returns 0 on a socket that was shut down.
Woken(t) ==
    /\ conn # "terminated"
    /\ \/ receiver[t] = "waiting" /\ sockets[rxFd[t]] = "shut"
       \/ receiver[t] = "astray"
    /\ receiver' = [receiver EXCEPT ![t] = "done"]
    /\ UNCHANGED << serving, conn, named, announced, rtpFd, sockets, rxFd,
                    rxKey, receiving, registered >>

\* cleanup joins the receivers.
JoinReceiver(t) ==
    /\ conn = JoinOf[t]
    /\ receiver[t] \in {"none", "done"}
    /\ conn' = IF t = "video" THEN "join audio" ELSE "unregister"
    /\ UNCHANGED << serving, named, announced, rtpFd, sharedRx, registered >>

\* Mutant: the key of a session that has not been announced is left alone.
UnregisterAnnounced ==
    /\ conn = "unregister"
    /\ conn' = "ended"
    /\ session' = IF named /\ announced # "no" THEN "none" ELSE session
    /\ active' = IF named /\ announced # "no" THEN active \ {"key"} ELSE active
    /\ UNCHANGED << serving, named, announced, rtpFd, sharedRx >>

\* remove_external_session and remove_external_stream, if there is a key.
Unregister ==
    /\ conn = "unregister"
    /\ conn' = "ended"
    /\ session' = IF named THEN "none" ELSE session
    /\ active' = IF named THEN active \ {"key"} ELSE active
    /\ UNCHANGED << serving, named, announced, rtpFd, sharedRx >>

Next ==
    \/ StartServer \/ StopServer \/ Accept \/ Hangup \/ Unregister
    \/ \E path \in BOOLEAN :
          \/ Teardown(path) \/ Record(path) \/ AnswerOnly(path)
          \/ \E audio \in BOOLEAN : Announce(path, audio)
          \/ \E t \in Track : Setup(path, t)
    \/ \E t \in Track :
          Test(t) \/ Enter(t) \/ Receive(t) \/ Handle(t) \/ Woken(t) \/ JoinReceiver(t)

Spec == Init /\ [][Next]_publishVars

-----------------------------------------------------------------------------
(* Properties *)

\* A receiver that cleanup waits for will end: it finds receiving cleared, its
\* socket closed before recv, or its socket shut down in recv.  Except a socket that
\* a later SETUP of the track closed under the receiver: cleanup then waits for a
\* packet to that port.  And except a receiver astray, whose number was closed
\* between its test of receiving and its recv and taken by somebody else
\* (rtsp_publish_server.cpp:1035): cleanup then waits for a packet to that one.
JoinEnds ==
    \A t \in Track :
        conn = JoinOf[t] =>
            /\ ~receiving
            /\ receiver[t] = "entering" => sockets[rxFd[t]] # "open"
            /\ receiver[t] = "waiting" => sockets[rxFd[t]] \in {"shut", "replaced"}

\* A connection that has ended leaves nothing: no receiver that would enter the
\* stream again, no ingest, no session.  Except what it did under the empty key,
\* which cleanup takes for not having had any.
EndedIsQuiet ==
    conn = "ended" =>
        /\ \A t \in Track : receiver[t] \in {"none", "done"} /\ rtpFd[t] = 0
        /\ active \subseteq {"empty"}
        /\ named => session = "none"

=============================================================================
