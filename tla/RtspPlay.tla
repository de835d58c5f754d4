------------------------------- MODULE RtspPlay -------------------------------
(***************************************************************************)
(* One connection of the RTSP play server: the thread that answers its     *)
(* requests, the worker that plays the queue, oldest timestamp first, and  *)
(* the feeder that calls back into the queue.  The worker's frames become  *)
(* RTP packets, over UDP or within the control connection.                 *)
(*                                                                         *)
(* Pacing is left out: the worker takes a message at any time, as it may   *)
(* after 180 ms whatever is queued.  Lengths are in units that make        *)
(* MaxPayload small.                                                       *)
(***************************************************************************)
EXTENDS Integers, Sequences, FiniteSetsExt

CONSTANTS
    MaxPayload, \* 1200
    Lengths,    \* of the NAL units of the stream
    CacheLen,   \* messages of a stream the registry has cached
    MaxMessages \* bound of the model

PlayBounds ==
    /\ {CacheLen, MaxMessages} \subseteq Nat
    /\ MaxPayload \in Nat /\ MaxPayload > 3
    /\ Lengths \subseteq Nat \ 0..2

VARIABLES
    published,  \* the stream: messages with their kind and timestamp
    restart,    \* the message at which its timestamps began again, 0 none
    handler,    \* open, cached, join, close, returned
    cached,     \* what PLAY copied
    transport,  \* of the video sender: none, udp, tcp
    listed,     \* the callback is in the registry
    inFlight,   \* messages whose callback the feeder has copied
    pending,    \* pending_messages
    running,    \* playback_running
    playing,    \* the frame the worker is sending: its NAL unit's length and codec
    packets,    \* those still to send
    written,    \* those written for this frame, in full or torn
    missed,     \* a packet of it was dropped
    connected,  \* the control connection
    played,     \* messages taken, in order
    lost        \* the callback used the frame of a handler that had returned

stream   == << published, restart >>
requests == << handler, cached, transport >>
feeding  == << listed, inFlight, lost >>
workers  == << playing, packets, written, missed, played >>
playVars == << stream, requests, feeding, pending, running, workers, connected >>

NoFrame == [length |-> 0, codec |-> "avc"]

Init ==
    /\ published = << >> /\ restart = 0
    /\ handler = "open" /\ cached = << >>
    /\ transport = "none"
    /\ listed = FALSE /\ inFlight = << >> /\ lost = FALSE
    /\ pending = << >> /\ running = TRUE
    /\ playing = NoFrame /\ packets = << >> /\ written = << >> /\ missed = FALSE
    /\ played = << >>
    /\ connected = TRUE

Up == ~lost

-----------------------------------------------------------------------------
(* The stream and its feeder *)

LastTs(kind) ==
    LET same == {i \in DOMAIN published : i >= restart /\ published[i].kind = kind}
    IN  IF same = {} THEN 0 ELSE published[Max(same)].ts

\* A publisher's timestamps do not go back, but a new publisher begins again.
\* What is published after handle_client has returned is nothing to it.
Publish(kind, step, again) ==
    /\ Up /\ Len(published) < MaxMessages /\ handler # "returned"
    /\ again => restart = 0 /\ published # << >>
    /\ LET n == Len(published) + 1
           m == [n |-> n, kind |-> kind,
                 ts |-> IF again THEN 0 ELSE LastTs(kind) + step]
       IN /\ published' = Append(published, m)
          /\ restart' = IF again THEN n ELSE restart
          /\ inFlight' = IF listed THEN Append(inFlight, m) ELSE inFlight
    /\ UNCHANGED << requests, listed, lost, pending, running, workers, connected >>

\* The callback of add_live_callback_subscriber; it refers to handle_client's
\* locals.
CallBack ==
    /\ Up /\ inFlight # << >>
    /\ inFlight' = Tail(inFlight)
    /\ IF handler = "returned"
       THEN lost' = TRUE /\ UNCHANGED pending
       ELSE pending' = Append(pending, Head(inFlight)) /\ UNCHANGED lost
    /\ UNCHANGED << stream, requests, listed, running, workers, connected >>

-----------------------------------------------------------------------------
(* Requests *)

Answering == Up /\ handler = "open" /\ connected

\* SETUP over UDP.  Once more, it forgets the socket of the first time without
\* closing it; and a sender that was set up for TCP stays with TCP.
SetupUdp ==
    /\ Answering /\ transport = "none"
    /\ transport' = "udp"
    /\ UNCHANGED << stream, handler, cached, feeding, pending, running, workers, connected >>

\* SETUP with RTP/AVP/TCP.
SetupTcp ==
    /\ Answering /\ transport # "tcp"
    /\ transport' = "tcp"
    /\ UNCHANGED << stream, handler, cached, feeding, pending,
                    running, workers, connected >>

\* PLAY, the first time: the cache is copied, it replaces what is queued, and
\* the callback is added, in separate steps.
PlayCopy ==
    /\ Answering /\ ~listed
    /\ cached' = SubSeq(published, Max({1, Len(published) - CacheLen + 1}), Len(published))
    /\ handler' = "cached"
    /\ UNCHANGED << stream, transport, feeding, pending, running,
                    workers, connected >>

PlayJoin ==
    /\ Up /\ handler = "cached"
    /\ pending' = cached
    /\ listed' = TRUE /\ handler' = "open"
    /\ cached' = << >>
    /\ UNCHANGED << stream, transport, inFlight, lost, running, workers, connected >>

\* cleanup, after TEARDOWN, a refused request or the end of the connection: the
\* callback goes first, then the worker is told to finish the queue.
Cleanup ==
    /\ Up /\ handler = "open"
    /\ listed' = FALSE /\ running' = FALSE
    /\ handler' = "join"
    /\ UNCHANGED << stream, cached, transport, inFlight, lost, pending,
                    workers, connected >>

\* The senders close and handle_client returns.
Return ==
    /\ Up /\ handler = "close"
    /\ handler' = "returned" /\ connected' = FALSE
    /\ UNCHANGED << stream, cached, transport, feeding, pending,
                    running, workers >>

-----------------------------------------------------------------------------
(* The worker *)

\* Mutant: of messages with the same timestamp, the last one.
EarliestLast(queue) ==
    CHOOSE i \in DOMAIN queue : \A j \in DOMAIN queue :
        queue[i].ts < queue[j].ts \/ (queue[i].ts = queue[j].ts /\ i >= j)

\* min_element: of messages with the same timestamp, the first one.
Earliest(queue) ==
    CHOOSE i \in DOMAIN queue : \A j \in DOMAIN queue :
        queue[i].ts < queue[j].ts \/ (queue[i].ts = queue[j].ts /\ i <= j)

\* Mutant: the second header byte of an HEVC fragment is forgotten in its size.
FragmentsTooLong(length, codec) ==
    LET header == IF codec = "hevc" THEN 2 ELSE 1
        room   == MaxPayload - 2
        count  == (length - header + room - 1) \div room
    IN  IF length <= MaxPayload
        THEN << [from |-> 1, to |-> length, size |-> length, flags |-> {"whole"}] >>
        ELSE [k \in 1..count |->
                LET from == header + (k - 1) * room + 1
                    to   == Min({length, from + room - 1})
                IN  [from |-> from, to |-> to, size |-> header + 1 + to - from + 1,
                     flags |-> (IF k = 1 THEN {"start"} ELSE {}) \cup
                               (IF k = count THEN {"end"} ELSE {})]]

\* send_nal: a NAL unit that does not fit is cut; each fragment has the unit's
\* header, packed with a byte of its own, in front.
Fragments(length, codec) ==
    LET header == IF codec = "hevc" THEN 2 ELSE 1
        room   == MaxPayload - header - 1
        count  == (length - header + room - 1) \div room
    IN  IF length <= MaxPayload
        THEN << [from |-> 1, to |-> length, size |-> length, flags |-> {"whole"}] >>
        ELSE [k \in 1..count |->
                LET from == header + (k - 1) * room + 1
                    to   == Min({length, from + room - 1})
                IN  [from |-> from, to |-> to, size |-> header + 1 + to - from + 1,
                     flags |-> (IF k = 1 THEN {"start"} ELSE {}) \cup
                               (IF k = count THEN {"end"} ELSE {})]]

\* erase of the queue's i-th message.
Without(queue, i) == SubSeq(queue, 1, i - 1) \o SubSeq(queue, i + 1, Len(queue))

\* The worker takes a message, and sends it if it is a frame of a track that is
\* set up.
Take ==
    /\ Up /\ playing = NoFrame /\ pending # << >> /\ handler \notin {"close", "returned"}
    /\ LET i == Earliest(pending) IN
       /\ played' = Append(played, pending[i])
       /\ pending' = Without(pending, i)
       /\ IF transport = "none" \/ pending[i].kind # "video"
          THEN UNCHANGED << playing, packets >>
          ELSE \E length \in Lengths, codec \in {"avc", "hevc"} :
                  /\ playing' = [length |-> length, codec |-> codec]
                  /\ packets' = Fragments(length, codec)
    /\ UNCHANGED << stream, requests, feeding, running, written, missed, connected >>

\* send_packet: a datagram, or a frame on a control connection that takes it.
SendPacket ==
    /\ Up /\ packets # << >>
    /\ transport = "udp" \/ connected
    /\ written' = Append(written, Head(packets)) /\ packets' = Tail(packets)
    /\ UNCHANGED << stream, requests, feeding, pending, running, playing, missed,
                    connected, played >>

\* The connection's buffer is full, or the connection is gone.
DropPacket ==
    /\ Up /\ packets # << >> /\ transport = "tcp"
    /\ packets' = Tail(packets) /\ missed' = TRUE
    /\ UNCHANGED << stream, requests, feeding, pending, running, playing, written,
                    connected, played >>

\* It takes a part: the reader could no longer find the next frame.
TearPacket ==
    /\ Up /\ packets # << >> /\ transport = "tcp" /\ connected
    /\ written' = Append(written, [Head(packets) EXCEPT !.flags = {"torn"}])
    /\ packets' = Tail(packets) /\ missed' = TRUE
    /\ connected' = FALSE
    /\ UNCHANGED << stream, requests, feeding, pending, running, playing, played >>

\* The loop ends when the queue is empty, which cleanup waits for.
WorkerEnds ==
    /\ Up /\ ~running /\ pending = << >> /\ playing = NoFrame /\ handler = "join"
    /\ handler' = "close"
    /\ UNCHANGED << stream, cached, transport, feeding, pending,
                    running, workers, connected >>

FrameDone ==
    /\ Up /\ playing # NoFrame /\ packets = << >>
    /\ playing' = NoFrame /\ written' = << >> /\ missed' = FALSE
    /\ UNCHANGED << stream, requests, feeding, pending, running, packets, connected,
                    played >>

Next ==
    \/ \E kind \in {"video", "audio"}, step \in 0..1, again \in BOOLEAN :
          Publish(kind, step, again)
    \/ CallBack
    \/ SetupUdp \/ SetupTcp \/ PlayCopy \/ PlayJoin \/ Cleanup \/ Return
    \/ Take \/ SendPacket \/ DropPacket \/ TearPacket \/ FrameDone \/ WorkerEnds

Spec == Init /\ [][Next]_playVars

-----------------------------------------------------------------------------
(* Properties *)

\* Messages of one kind are played in the order they were published, although
\* the worker sorts by timestamp what it has - except when timestamps begin
\* again: what is queued from before is then played after what is new.
PlayedInOrder ==
    \A i, j \in DOMAIN played :
        /\ i < j /\ played[i].kind = played[j].kind
        /\ restart \notin (played[j].n + 1)..played[i].n
        => played[i].n < played[j].n

\* A frame on the wire is the frame: no packet is longer than MaxPayload, and
\* unless one was dropped their pieces join to the NAL unit, the first and the
\* last of them marked.  After a packet that was torn no other is written.
FrameOnWire ==
    /\ \A i \in DOMAIN written :
          /\ written[i].size <= MaxPayload
          /\ "torn" \in written[i].flags => i = Len(written)
    /\ playing # NoFrame /\ packets = << >> /\ ~missed =>
          /\ IF Len(written) = 1
             THEN written[1].flags = {"whole"} /\ written[1].from = 1
             ELSE /\ written[1].from = IF playing.codec = "hevc" THEN 3 ELSE 2
                  /\ \A i \in DOMAIN written :
                        /\ "start" \in written[i].flags <=> i = 1
                        /\ "end" \in written[i].flags <=> i = Len(written)
          /\ \A i \in 1..(Len(written) - 1) : written[i].to + 1 = written[i + 1].from
          /\ written[Len(written)].to = playing.length

=============================================================================
