----------------------------- MODULE RtmpChunks -----------------------------
(***************************************************************************)
(* The RTMP chunk stream: messages are cut into chunks of at most the      *)
(* chunk size, the chunks of several chunk streams alternate, a header     *)
(* says only what is new, and a timestamp or delta that does not fit 24    *)
(* bits goes to an extended field that has no length of its own: a reader  *)
(* that expects it where it is not, or the reverse, is lost.               *)
(*                                                                         *)
(* The reader is receive_message.  The writer is send_chunked_message when *)
(* server is TRUE, and any client that follows the protocol otherwise.     *)
(***************************************************************************)
EXTENDS Integers, Sequences

CONSTANTS
    Stream,   \* chunk streams
    Escape,   \* 0xFFFFFF, the largest value of the field
    Clock,    \* 2^32, where timestamps wrap
    Sizes,    \* chunk sizes; the first one is the default
    Times, Lengths, \* timestamps and lengths of the messages
    MaxSent   \* bound of the model: messages

ChunkBounds ==
    /\ {Escape, Clock, MaxSent} \subseteq Nat /\ Escape < Clock
    /\ Times \subseteq 0..(Clock - 1) /\ Lengths \subseteq Nat
    \* handle_control_message ends the session on a size of 0 or above 16 MiB
    /\ Sizes \subseteq Nat \ {0} /\ Sizes # {}

VARIABLES
    server,     \* who writes
    writer,     \* per stream: what its last header said, what is left to write
    behind,     \* streams whose time the reader has not moved on with the writer's
    writeSize,  \* the writer's chunk size
    chunks,     \* written and not read yet
    begun, completed, \* messages begun; the last one written to the end
    states,     \* chunk_states_
    readSize,   \* inbound_chunk_size_
    received,   \* what receive_message returned last, what was due then, and
                \* whether its stream was behind
    garbled     \* the reader took an extended field for payload or the reverse

writing == << server, writer, behind, writeSize, begun, completed >>
reading == << states, readSize, received, garbled >>
chunkVars == << writing, chunks, reading >>

DefaultSize == CHOOSE s \in Sizes : \A r \in Sizes : s <= r

\* Both sides' state of a chunk stream.
NoHeader == [ready |-> FALSE, ts |-> 0, delta |-> 0, isDelta |-> FALSE,
             ext |-> FALSE, length |-> 0, sets |-> 0, left |-> 0]

\* The message that a stream state describes; sets is the chunk size that a Set
\* Chunk Size message asks for, 0 for any other message.
MessageOf(c, s) == [stream |-> c, ts |-> s.ts, length |-> s.length, sets |-> s.sets]

\* Nothing written or read yet.
None == MessageOf(CHOOSE c \in Stream : TRUE, NoHeader)

Init ==
    /\ server \in BOOLEAN
    /\ writer = [c \in Stream |-> NoHeader] /\ writeSize = DefaultSize
    /\ behind = [c \in Stream |-> FALSE]
    /\ chunks = << >> /\ begun = 0 /\ completed = None
    /\ states = [c \in Stream |-> NoHeader] /\ readSize = DefaultSize
    /\ received = << None, None, FALSE >> /\ garbled = FALSE

-----------------------------------------------------------------------------
(* Writing *)

Least(a, b) == IF a < b THEN a ELSE b

\* One chunk of s's message, begun with a header of format fmt.  The connection
\* keeps the order, so it is enough that the reader follows at once.
WriteChunk(c, fmt, s, extended) ==
    LET part == Least(s.left, writeSize)
        done == s.left = part
    IN  /\ chunks = << >>
        /\ chunks' = << [
              stream |-> c, fmt |-> fmt, length |-> s.length, sets |-> s.sets, part |-> part,
              field |-> Least(s.delta, Escape),
              ext |-> IF extended THEN << s.delta >> ELSE << >>] >>
        /\ writer' = [writer EXCEPT ![c] = [s EXCEPT !.left = s.left - part, !.ext = extended]]
        /\ completed' = IF done THEN MessageOf(c, s) ELSE completed
        /\ writeSize' = IF done /\ s.sets # 0 THEN s.sets ELSE writeSize

\* How far a header of format fmt moves the time of its stream on from the header
\* last.  0 says the time itself, which is also the delta of a header without one
\* that follows it (RTMP 5.3.1.2.4); 3 repeats the last delta.
Delta(fmt, last, ts) ==
    CASE fmt = 0 -> ts
      [] fmt \in {1, 2} -> (ts - last.ts) % Clock
      [] fmt = 3 -> last.delta

\* The formats in which a message may begin after the header last: 0 says all, 1
\* not the message stream, 2 only the delta, 3 nothing.  The server uses 0.
Formats(last, s) ==
    {fmt \in IF server \/ ~last.ready THEN {0} ELSE 0..3 :
        /\ fmt >= 2 => s.length = last.length /\ s.sets = last.sets
        /\ fmt = 3 => (s.ts - last.ts) % Clock = last.delta}

Begin(c) ==
    /\ begun < MaxSent /\ writer[c].left = 0
    /\ server => \A d \in Stream : writer[d].left = 0
    /\ \E ts \in Times, length \in Lengths, sets \in {0} \cup (Sizes \ {writeSize}) :
          LET last == writer[c]
              new  == [last EXCEPT !.ready = TRUE, !.ts = ts, !.length = length,
                                   !.sets = sets, !.left = length]
          IN /\ sets # 0 => length > 0
             /\ \E fmt \in Formats(last, new) :
                LET delta == Delta(fmt, last, ts)
                    s == [new EXCEPT !.delta = delta,
                                     !.isDelta = IF fmt = 3 THEN last.isDelta ELSE fmt # 0]
                IN /\ WriteChunk(c, fmt, s, IF fmt = 3 THEN last.ext ELSE delta >= Escape)
                   /\ behind' = [behind EXCEPT ![c] =
                         fmt # 0 /\ (@ \/ (fmt = 3 /\ ~last.isDelta /\ delta # 0))]
    /\ begun' = begun + 1
    /\ UNCHANGED << server, reading >>

\* Mutant: the chunks that continue a message have no extended field.
ContinueShort(c) ==
    /\ writer[c].left > 0
    /\ WriteChunk(c, 3, writer[c], FALSE)
    /\ UNCHANGED << server, behind, begun, reading >>

\* The chunks that continue a message repeat the extended field.
Continue(c) ==
    /\ writer[c].left > 0
    /\ WriteChunk(c, 3, writer[c], writer[c].ext)
    /\ UNCHANGED << server, behind, begun, reading >>

-----------------------------------------------------------------------------
(* Reading: receive_message, a chunk at a time *)

\* What the header of a chunk and its extended field make of a stream's state.
Header(s, chunk) ==
    LET extended == IF chunk.fmt = 3 THEN s.ext ELSE chunk.field = Escape
        value    == IF extended /\ chunk.ext # << >> THEN chunk.ext[1] ELSE chunk.field
        restarts == chunk.fmt # 3 \/ s.left = 0
        moves    == IF chunk.fmt = 3 THEN s.left = 0 /\ s.isDelta ELSE chunk.fmt # 0
        delta    == CASE chunk.fmt = 0 -> 0
                      [] chunk.fmt \in {1, 2} -> value
                      [] chunk.fmt = 3 -> IF moves /\ extended THEN value ELSE s.delta
        length   == IF chunk.fmt <= 1 THEN chunk.length ELSE s.length
    IN  [ready   |-> TRUE,
         ts      |-> IF chunk.fmt = 0 THEN value
                     ELSE IF moves THEN (s.ts + delta) % Clock ELSE s.ts,
         delta   |-> delta,
         isDelta |-> IF chunk.fmt = 3 THEN s.isDelta ELSE chunk.fmt # 0,
         ext     |-> extended,
         length  |-> length,
         sets    |-> IF chunk.fmt <= 1 THEN chunk.sets ELSE s.sets,
         left    |-> IF restarts THEN length ELSE s.left]

\* The reader takes as many bytes as it thinks the chunk has.
ReadChunk ==
    /\ chunks # << >> /\ ~garbled
    /\ LET chunk == Head(chunks)
           c == chunk.stream
           s == Header(states[c], chunk)
           part == Least(s.left, readSize)
           read == [s EXCEPT !.left = s.left - part]
       IN /\ chunks' = Tail(chunks)
          /\ states' = [states EXCEPT ![c] = read]
          /\ garbled' = (s.ext # (chunk.ext # << >>) \/ part # chunk.part
                           \/ (chunk.fmt = 3 /\ ~states[c].ready))
          /\ IF read.left = 0
             THEN /\ received' = << MessageOf(c, read), completed, behind[c] >>
                  /\ readSize' = IF read.sets # 0 THEN read.sets ELSE readSize
             ELSE UNCHANGED << received, readSize >>
    /\ UNCHANGED writing

Next ==
    \/ \E c \in Stream : Begin(c) \/ Continue(c)
    \/ ReadChunk

Spec == Init /\ [][Next]_chunkVars

-----------------------------------------------------------------------------
(* Properties *)

\* The reader returns the messages that were written, each with its timestamp
\* and length, in the order they were completed: however their chunks alternate,
\* whichever formats say them, when times do not fit the field or wrap, and when
\* the chunk size changes between the chunks of a message.  One timestamp is
\* wrong, and those told from it by deltas: that of a message which begins with no
\* header after one that says all and whose time is not 0, because the reader then
\* adds nothing (rtmp_session.cpp:347, 367).
ReadsWhatIsWritten ==
    /\ ~garbled
    /\ LET read == received[1]
           due  == received[2]
       IN  /\ read.stream = due.stream /\ read.length = due.length /\ read.sets = due.sets
           /\ received[3] \/ read.ts = due.ts

=============================================================================
