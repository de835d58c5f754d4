------------------------ MODULE WebRtcSessionsProofs ------------------------
(***************************************************************************)
(* Proofs about WebRtcSessions, for a session of any kind whose connection *)
(* comes up any number of times: a callback in the registry is the one its *)
(* session knows, and a session that was closed is quiet.                  *)
(***************************************************************************)
EXTENDS WebRtcSessions, TLAPS

-----------------------------------------------------------------------------
(* The inductive invariant.  Two threads attach, the one that reports the    *)
(* connection and the one that reports the tracks; they, the sender and the  *)
(* closing thread detach.                                                    *)

\* From its claim to its end an attach is busy.
Busy(t) == at[t] \in Attaching \/ at[t] = "undo"

\* The callbacks that are no strays.
Known == callbacks \ strays

\* What each thread does.
Places ==
    /\ at["sender"] \in {"idle"} \cup Detaching
    /\ at["closer"] \in {"idle", "stop", "unlist", "drop", "again"} \cup Detaching
    /\ at["track"] \in {"idle", "claim", "undo"} \cup Attaching \cup Detaching
    /\ at["state"] \in {"idle", "record", "announce", "claim", "undo"} \cup Attaching \cup Detaching
    /\ at["closer"] = "again" => ~registry
    /\ handler = "new" => pc = "none"

\* What has happened when it does.
Occasions ==
    /\ Busy("state") \/ at["state"] = "claim" => kind = "whep"
    /\ Busy("track") \/ at["track"] = "claim" => Plays /\ track = "open"
    /\ at["track"] \in Detaching => track = "closed"
    /\ at["sender"] \in Detaching => track = "closed"
    /\ at["state"] \in Detaching => pc \in Terminal
    /\ open => pc = "connected"
    /\ ~Plays => callbacks = {}

\* A busy thread holds registered, unless a detach has taken it: then that was the
\* closing thread, or the other one will not attach any more.
Held ==
    /\ \A t \in Thread : at[t] \in Attaching /\ ~lapped[t] => registered
    /\ Busy("track") /\ registry /\ pc \notin Terminal => registered \/ at["closer"] # "idle"
    /\ Busy("state") /\ registry /\ track # "closed" => registered \/ at["closer"] # "idle"

\* So there are two at once only while the session is closed, and a detach has run while
\* they were attaching.
Alone ==
    /\ Busy("state") /\ Busy("track") => at["closer"] # "idle" \/ ~registry
    /\ \A t, u \in Thread : t # u /\ Busy(t) /\ at[u] \in Attaching => lapped[u]

\* Only strays are registered where no attach has claimed, while one is under way and in
\* the midst of a detach.
Counted ==
    /\ \A t \in Thread : Busy(t) => Known = {}
    /\ registry /\ ~registered => Known = {}
    /\ \A t \in Thread : at[t] \in {"pipeline", "join"} =>
           mine[t] # 0 /\ (lapped[t] \/ mine[t] = callbackId)
    /\ \A t \in Thread : at[t] = "clear" =>
           /\ \A u \in Thread : at[u] \in Attaching => lapped[u]
           /\ registry => Known = {}

\* The closing thread is past its removal of the callback, or past its join of the sender.
Withdrawn == at["closer"] \in {"clear", "stop", "unlist", "drop", "again"} \/ ~registry
Stopped == at["closer"] \in {"unlist", "drop", "again"} \/ ~registry

\* From there on whoever attaches leaves a stray.
Silenced ==
    /\ Withdrawn => Known = {} /\ \A u \in Thread : at[u] \in Attaching => lapped[u]
    /\ Withdrawn /\ pipeline => strays # {} \/ \E t \in Thread : at[t] = "join"
    /\ Stopped /\ sender =>
           strays # {} \/ \E t \in Thread : at[t] \in {"pipeline", "join", "undo"}
    /\ Unlisted => protocol # "live"

\* All of it but the types.
Rules ==
    Places /\ Occasions /\ Held /\ Alone /\ Counted /\ Silenced /\ CallbackOwned

SessionInv == TypeOK /\ Rules

-----------------------------------------------------------------------------
(* Types, in four parts. *)

Place == {"idle", "record", "announce", "claim", "undo", "stop", "unlist", "drop", "again"}
             \cup Attaching \cup Detaching

ThreadTypes == at \in [Thread -> Place] /\ lapped \in [Thread -> BOOLEAN]

IdTypes ==
    /\ issued \in Nat /\ callbackId \in 0 .. issued
    /\ mine \in [Thread -> 0 .. issued]
    /\ callbacks \subseteq 1 .. issued /\ strays \subseteq 1 .. issued

FlagTypes ==
    {native, open, registered, registry, sender, pipeline, alive, byCleanup} \subseteq BOOLEAN

StateTypes ==
    /\ kind \in Kind /\ remote \in BOOLEAN
    /\ handler \in {"new", "built", "listed", "entered", "waiting", "gathered",
                    "stored", "done", "late", "refused"}
    /\ answer \in {"none", "found", "done"} /\ gathering \in {"no", "running", "done"}
    /\ pc \in {"none", "new", "connecting", "connected", "disconnected"} \cup Terminal
    /\ opens \in 0 .. MaxOpens
    /\ track \in {"unopened", "open", "closed"}
    /\ table \in {"none", "pending", "awaiting", "connected"} \cup Terminal
    /\ viewers \in {0, 1} /\ protocol \in {"none", "live", "late", "terminal"}
    /\ ingest \in {"off", "unfed", "fed"}
    /\ crash \in {"none", "frame", "answer"}

\* The four parts are the whole.
LEMMA TypeParts == TypeOK <=> ThreadTypes /\ IdTypes /\ FlagTypes /\ StateTypes
BY DEF TypeOK, ThreadTypes, Place, IdTypes, FlagTypes, StateTypes

\* The steps, and which thread takes them.
LEMMA Steps ==
    ASSUME [Next]_vars
    PROVE  \/ Build \/ List \/ Enter \/ Describe \/ GatherTimeout \/ Store
           \/ Gathered \/ FindForAnswer \/ SetAnswer
           \/ \E s \in {"connecting", "connected", "disconnected", "failed", "closed"} : Report(s)
           \/ Record \/ Announce \/ TrackOpens \/ TrackCloses \/ Frame \/ SendThrows
           \/ \E t \in {"state", "track"} :
                  Claim(t) \/ Number(t) \/ TakePipeline(t) \/ UndoAttach(t) \/ Join(t)
           \/ \E t \in Thread : Unsubscribe(t) \/ ClearFlags(t)
           \/ \E c \in BOOLEAN : Withdraw(c) /\ Up
           \/ StopSender \/ Unlist \/ Drop \/ Again
           \/ CleanupProtocol \/ CleanupIngest \/ Destroy \/ UNCHANGED vars
<1>1. CASE \E t \in {"state", "track"} : Attach(t)
    BY <1>1 DEF Attach
<1>2. CASE \E t \in Thread : Detach(t)
    BY <1>2 DEF Detach
<1>3. CASE CloseSession \/ CleanupStaleSessions
    BY <1>3 DEF CloseSession, CleanupStaleSessions
<1>4. CASE Handle \/ Gathered \/ FindForAnswer \/ SetAnswer \/ UNCHANGED vars
    BY <1>4 DEF Handle
<1>5. CASE Reports \/ Record \/ Announce \/ TrackOpens \/ TrackCloses \/ Frame \/ SendThrows
    BY <1>5 DEF Reports
<1>6. CASE Close \/ CleanupProtocol \/ CleanupIngest \/ Destroy
    BY <1>6 DEF Close
<1>7. {"state", "track", "closer", "sender"} = Thread
    BY DEF Thread
<1> QED
    BY <1>1, <1>2, <1>3, <1>4, <1>5, <1>6, <1>7
    DEF Next, StateThread, TrackThread, CloserThread, Cleanups

\* What the threads do and whether a detach overlapped it.
LEMMA ThreadStep ==
    ASSUME TypeOK, [Next]_vars
    PROVE  ThreadTypes'
<1>0. ThreadTypes
    BY TypeParts
<1> USE DEF ThreadTypes, Place, Thread, attach, Go, Attaching, Detaching
<1>1. CASE UNCHANGED << at, lapped >>
    BY <1>0, <1>1
<1>2. ASSUME NEW t \in Thread, NEW s \in Place, Go(t, s), UNCHANGED attach PROVE ThreadTypes'
    BY <1>0, <1>2
<1>3. CASE Build \/ List \/ Enter \/ Describe \/ GatherTimeout \/ Store
    BY <1>1, <1>3 DEF Build, BuildOffer, BuildWhep, BuildWhip, Built, List, Enter, Describe,
                      GatherTimeout, Store
<1>4. CASE Gathered \/ FindForAnswer \/ SetAnswer
    BY <1>1, <1>4 DEF Gathered, FindForAnswer, SetAnswer
<1>5. ASSUME NEW s \in {"connecting", "connected", "disconnected", "failed", "closed"}, Report(s)
      PROVE  ThreadTypes'
    BY <1>2, <1>5 DEF Report
<1>6. CASE Record \/ Announce \/ TrackOpens \/ TrackCloses \/ Frame \/ SendThrows
    BY <1>1, <1>2, <1>6 DEF Record, Announce, AfterReport, TrackOpens, TrackCloses, Frame, SendThrows
<1>7. ASSUME NEW t \in {"state", "track"},
             Claim(t) \/ Number(t) \/ TakePipeline(t) \/ UndoAttach(t) \/ Join(t)
      PROVE  ThreadTypes'
    <2>1. PICK s \in Place : Go(t, s)
        BY <1>7 DEF Claim, Number, TakePipeline, UndoAttach, Join
    <2>2. PICK b \in BOOLEAN : lapped' = lapped \/ lapped' = [lapped EXCEPT ![t] = b]
        BY <1>7 DEF Claim, Number, TakePipeline, UndoAttach, Join
    <2> QED
        BY <1>0, <2>1, <2>2
<1>8. ASSUME NEW t \in Thread, Unsubscribe(t) \/ ClearFlags(t)
      PROVE  ThreadTypes'
    <2>1. PICK s \in Place : Go(t, s)
        BY <1>8 DEF Unsubscribe, ClearFlags, After
    <2>2. lapped' \in [Thread -> BOOLEAN]
        BY <1>8 DEF Unsubscribe, ClearFlags, Overlap
    <2> QED
        BY <1>0, <2>1, <2>2
<1>9. ASSUME NEW c \in BOOLEAN, Withdraw(c) PROVE ThreadTypes'
    BY <1>1, <1>2, <1>9 DEF Withdraw
<1>10. CASE StopSender \/ Unlist \/ Drop \/ Again
    BY <1>2, <1>10 DEF StopSender, Unlist, Drop, Again
<1>11. CASE CleanupProtocol \/ CleanupIngest \/ Destroy \/ UNCHANGED vars
    BY <1>1, <1>11 DEF CleanupProtocol, CleanupIngest, Destroy, vars
<1> QED
    BY <1>3, <1>4, <1>5, <1>6, <1>7, <1>8, <1>9, <1>10, <1>11, Steps

\* Ids: those that were issued, one of which each attaching thread holds.
LEMMA IdStep ==
    ASSUME TypeOK, \A t \in Thread : at[t] = "join" => mine[t] # 0, [Next]_vars
    PROVE  IdTypes'
<1>0. IdTypes
    BY TypeParts
<1> USE DEF IdTypes, attach, object, entered
<1>1. CASE UNCHANGED << issued, callbackId, mine, callbacks, strays >>
    BY <1>0, <1>1
<1>2. CASE UNCHANGED << attach, callbackId, callbacks >>
    BY <1>1, <1>2
<1>3. CASE Build \/ List \/ Enter \/ Describe \/ GatherTimeout \/ Store
    BY <1>1, <1>3 DEF Build, BuildOffer, BuildWhep, BuildWhip, Built, List, Enter, Describe,
                      GatherTimeout, Store
<1>4. CASE Gathered \/ FindForAnswer \/ SetAnswer
    BY <1>1, <1>4 DEF Gathered, FindForAnswer, SetAnswer
<1>5. ASSUME NEW s \in {"connecting", "connected", "disconnected", "failed", "closed"}, Report(s)
      PROVE  IdTypes'
    BY <1>1, <1>5 DEF Report
<1>6. CASE Record \/ Announce \/ TrackOpens \/ TrackCloses \/ Frame \/ SendThrows
    BY <1>1, <1>6 DEF Record, Announce, TrackOpens, TrackCloses, Frame, SendThrows
<1>7. ASSUME NEW t \in {"state", "track"},
             Claim(t) \/ Number(t) \/ TakePipeline(t) \/ UndoAttach(t) \/ Join(t)
      PROVE  IdTypes'
    <2>1. CASE Claim(t) \/ TakePipeline(t)
        BY <1>1, <2>1 DEF Claim, TakePipeline
    <2>2. CASE Number(t)
        <3>1. /\ issued' = issued + 1 /\ callbackId' = issued + 1
              /\ mine' = [mine EXCEPT ![t] = issued + 1]
              /\ UNCHANGED << callbacks, strays >>
            BY <2>2 DEF Number
        <3>2. 0 .. issued \subseteq 0 .. issued + 1 /\ issued + 1 \in 0 .. issued + 1
              /\ 1 .. issued \subseteq 1 .. issued + 1 /\ issued + 1 \in Nat
            BY <1>0
        <3>3. mine' \in [Thread -> 0 .. issued + 1]
            <4> DEFINE A == 0 .. issued
                       B == 0 .. issued + 1
            <4>1. mine \in [Thread -> A] /\ A \subseteq B /\ issued + 1 \in B
                BY <1>0, <3>2
            <4> HIDE DEF A, B
            <4>2. mine' \in [Thread -> B]
                BY <3>1, <4>1
            <4> QED
                BY <4>2 DEF B
        <3> QED
            BY <1>0, <3>1, <3>2, <3>3
    <2>3. CASE UndoAttach(t)
        <3>1. /\ callbackId' = 0 /\ mine' = [mine EXCEPT ![t] = 0]
              /\ UNCHANGED << issued, callbacks, strays >>
            BY <2>3 DEF UndoAttach
        <3>2. 0 \in 0 .. issued
            BY <1>0
        <3> QED
            BY <1>0, <3>1, <3>2
    <2>4. CASE Join(t)
        <3>1. mine[t] \in 1 .. issued
            BY <1>0, <2>4 DEF Join, At, Thread
        <3>2. /\ mine' = [mine EXCEPT ![t] = 0] /\ callbacks' = callbacks \cup {mine[t]}
              /\ strays' \in {strays, strays \cup {mine[t]}}
              /\ UNCHANGED << issued, callbackId >>
            BY <2>4 DEF Join
        <3>3. 0 \in 0 .. issued
            BY <1>0
        <3> QED
            BY <1>0, <3>1, <3>2, <3>3
    <2> QED
        BY <1>7, <2>1, <2>2, <2>3, <2>4
<1>8. ASSUME NEW t \in Thread, Unsubscribe(t) \/ ClearFlags(t)
      PROVE  IdTypes'
    <2>1. /\ callbackId' \in {callbackId, 0} /\ callbacks' \subseteq callbacks
          /\ UNCHANGED << issued, mine, strays >>
        BY <1>8 DEF Unsubscribe, ClearFlags
    <2>2. 0 \in 0 .. issued
        BY <1>0
    <2> QED
        BY <1>0, <2>1, <2>2
<1>9. ASSUME NEW c \in BOOLEAN, Withdraw(c) PROVE IdTypes'
    BY <1>1, <1>9 DEF Withdraw
<1>10. CASE StopSender \/ Unlist \/ Drop \/ Again
    BY <1>1, <1>10 DEF StopSender, Unlist, Drop, Again
<1>11. CASE CleanupProtocol \/ CleanupIngest \/ Destroy \/ UNCHANGED vars
    BY <1>1, <1>11 DEF CleanupProtocol, CleanupIngest, Destroy, vars
<1> QED
    BY <1>3, <1>4, <1>5, <1>6, <1>7, <1>8, <1>9, <1>10, <1>11, Steps

\* The flags of the session.
LEMMA FlagStep ==
    ASSUME TypeOK, [Next]_vars
    PROVE  FlagTypes'
<1>0. FlagTypes
    BY TypeParts
<1> USE DEF FlagTypes, object, tables
<1>1. CASE UNCHANGED << object, native, byCleanup >>
    BY <1>0, <1>1
<1>3. CASE Build
    BY <1>0, <1>3 DEF Build, BuildOffer, BuildWhep, BuildWhip, Built
<1>4. CASE Enter
    BY <1>0, <1>4 DEF Enter
<1>5. CASE List \/ Describe \/ GatherTimeout \/ Store \/ Gathered \/ FindForAnswer \/ SetAnswer
    BY <1>1, <1>5 DEF List, Describe, GatherTimeout, Store, Gathered, FindForAnswer, SetAnswer
<1>6. ASSUME NEW s \in {"connecting", "connected", "disconnected", "failed", "closed"}, Report(s)
      PROVE  FlagTypes'
    <2>1. open' \in BOOLEAN
        BY <1>6 DEF Report
    <2> QED
        BY <1>0, <1>6, <2>1 DEF Report
<1>7. CASE Record \/ Announce \/ TrackOpens \/ TrackCloses \/ Frame \/ SendThrows
    BY <1>1, <1>7 DEF Record, Announce, TrackOpens, TrackCloses, Frame, SendThrows
<1>8. ASSUME NEW t \in {"state", "track"},
             Claim(t) \/ Number(t) \/ TakePipeline(t) \/ UndoAttach(t) \/ Join(t)
      PROVE  FlagTypes'
    <2>1. CASE Claim(t)
        BY <1>0, <2>1 DEF Claim
    <2>2. CASE Number(t)
        BY <1>0, <2>2 DEF Number
    <2>3. CASE TakePipeline(t)
        BY <1>0, <2>3 DEF TakePipeline
    <2>4. CASE UndoAttach(t)
        BY <1>0, <2>4 DEF UndoAttach
    <2>5. CASE Join(t)
        BY <1>1, <2>5 DEF Join
    <2> QED
        BY <1>8, <2>1, <2>2, <2>3, <2>4, <2>5
<1>9. ASSUME NEW t \in Thread, Unsubscribe(t) \/ ClearFlags(t)
      PROVE  FlagTypes'
    <2>1. CASE Unsubscribe(t)
        BY <1>0, <2>1 DEF Unsubscribe
    <2>2. CASE ClearFlags(t)
        BY <1>0, <2>2 DEF ClearFlags
    <2> QED
        BY <1>9, <2>1, <2>2
<1>10. ASSUME NEW c \in BOOLEAN, Withdraw(c) PROVE FlagTypes'
    BY <1>0, <1>10 DEF Withdraw
<1>11. CASE StopSender
    BY <1>0, <1>11 DEF StopSender
<1>12. CASE Drop
    BY <1>0, <1>12 DEF Drop
<1>13. CASE Destroy
    BY <1>0, <1>13 DEF Destroy
<1>14. CASE Unlist \/ Again \/ CleanupProtocol \/ CleanupIngest \/ UNCHANGED vars
    BY <1>1, <1>14 DEF Unlist, Again, CleanupProtocol, CleanupIngest, vars
<1> QED
    BY <1>3, <1>4, <1>5, <1>6, <1>7, <1>8, <1>9, <1>10, <1>11, <1>12, <1>13, <1>14, Steps

\* The states of the requests, the library and the registry.
LEMMA StateStep ==
    ASSUME TypeOK, [Next]_vars
    PROVE  StateTypes'
<1>0. StateTypes
    BY TypeParts
<1> USE DEF StateTypes, request, library, tables, entered, HandlerStep, Terminal
<1>1. CASE UNCHANGED << request, library, table, viewers, protocol, ingest, crash >>
    BY <1>0, <1>1
<1>2. CASE Build
    BY <1>0, <1>2 DEF Build, BuildOffer, BuildWhep, BuildWhip, Built
<1>3. CASE List \/ Announce
    BY <1>0, <1>3 DEF List, Announce, UpsertProtocol, Upserted
<1>4. CASE Enter \/ GatherTimeout
    BY <1>0, <1>4 DEF Enter, GatherTimeout
<1>5. CASE Describe
    <2>1. remote' \in BOOLEAN /\ gathering' \in {"running", gathering}
        BY <1>0, <1>5 DEF Describe
    <2> QED
        BY <1>0, <1>5, <2>1 DEF Describe
<1>6. CASE Store
    BY <1>0, <1>6 DEF Store
<1>7. CASE Gathered \/ FindForAnswer
    BY <1>0, <1>7 DEF Gathered, FindForAnswer
<1>8. CASE SetAnswer
    <2>1. remote' \in BOOLEAN /\ table' \in {table, "failed"} /\ crash' \in {crash, "answer"}
        BY <1>0, <1>8 DEF SetAnswer
    <2> QED
        BY <1>0, <1>8, <2>1 DEF SetAnswer
<1>9. ASSUME NEW s \in {"connecting", "connected", "disconnected", "failed", "closed"}, Report(s)
      PROVE  StateTypes'
    BY <1>0, <1>9 DEF Report
<1>10. CASE Record
    BY <1>0, <1>10 DEF Record, SessionState
<1>11. CASE TrackOpens \/ TrackCloses \/ Frame
    BY <1>0, <1>11 DEF TrackOpens, TrackCloses, Frame
<1>12. ASSUME NEW t \in {"state", "track"},
              Claim(t) \/ Number(t) \/ TakePipeline(t) \/ UndoAttach(t) \/ Join(t)
       PROVE  StateTypes'
    <2>1. CASE Join(t)
        BY <1>0, <2>1 DEF Join
    <2> QED
        BY <1>1, <1>12, <2>1 DEF Claim, Number, TakePipeline, UndoAttach
<1>13. ASSUME NEW t \in Thread, Unsubscribe(t) \/ ClearFlags(t)
       PROVE  StateTypes'
    BY <1>0, <1>13 DEF Unsubscribe, ClearFlags
<1>14. ASSUME NEW c \in BOOLEAN, Withdraw(c) PROVE StateTypes'
    BY <1>0, <1>14 DEF Withdraw
<1>15. CASE Unlist \/ Again \/ CleanupProtocol \/ CleanupIngest
    BY <1>0, <1>15 DEF Unlist, Again, RemoveProtocol, CleanupProtocol, CleanupIngest
<1>16. CASE SendThrows \/ StopSender \/ Drop \/ Destroy \/ UNCHANGED vars
    BY <1>1, <1>16 DEF SendThrows, StopSender, Drop, Destroy, vars
<1> QED
    BY <1>2, <1>3, <1>4, <1>5, <1>6, <1>7, <1>8, <1>9, <1>10, <1>11, <1>12, <1>13, <1>14,
       <1>15, <1>16, Steps

\* An attach that joins has its id, or the registry would get the id 0.
LEMMA TypeStep ==
    ASSUME TypeOK, \A t \in Thread : at[t] = "join" => mine[t] # 0, [Next]_vars
    PROVE  TypeOK'
BY ThreadStep, IdStep, FlagStep, StateStep
DEF TypeOK, ThreadTypes, Place, IdTypes, FlagTypes, StateTypes

-----------------------------------------------------------------------------
(* The steps.  The work is in the claim, which finds the other thread        *)
(* overlapped or gone, and in the two halves of a detach.                    *)

\* Every step keeps the rules.
LEMMA RulesStep ==
    ASSUME SessionInv, [Next]_vars
    PROVE  Rules'
<1>0. Rules /\ at \in [Thread -> Place]
    BY TypeParts DEF SessionInv, ThreadTypes
<1>ids. /\ lapped \in [Thread -> BOOLEAN] /\ mine \in [Thread -> Nat]
      /\ issued \in Nat /\ 0 \notin callbacks
    <2>1. ThreadTypes /\ IdTypes
        BY TypeParts DEF SessionInv
    <2>2. 0 .. issued \subseteq Nat /\ 0 \notin 1 .. issued
        BY <2>1 DEF IdTypes
    <2> QED
        BY <2>1, <2>2 DEF ThreadTypes, IdTypes
<1> USE DEF Go, At, Up, HandlerStep, attach, request, library, object, tables, entered,
            Thread, Attaching, Detaching, Terminal, Busy, Place, Plays,
            Places, Occasions, Held, Alone, Counted, Known, Silenced, Withdrawn, Stopped,
            Unlisted, CallbackOwned, Rules
<1>1. CASE Enter \/ Describe \/ GatherTimeout \/ Store \/ Gathered \/ FindForAnswer \/ SetAnswer
    BY <1>0, <1>1 DEF Enter, Describe, GatherTimeout, Store, Gathered, FindForAnswer, SetAnswer
<1>2. CASE List \/ CleanupProtocol
    BY <1>0, <1>2 DEF List, CleanupProtocol, UpsertProtocol, Upserted
<1>3. CASE Frame \/ CleanupIngest \/ UNCHANGED vars
    BY <1>0, <1>3 DEF Frame, CleanupIngest, vars
<1>4. CASE Build
    BY <1>0, <1>4 DEF Build, BuildOffer, BuildWhep, BuildWhip, Built
<1>5. ASSUME NEW s \in {"connecting", "connected", "disconnected", "failed", "closed"}, Report(s)
      PROVE  Rules'
    <2>1. Places' /\ Occasions'
        BY <1>0, <1>5 DEF Report, Moves
    <2>2. Held'
        BY <1>0, <1>5 DEF Report, Moves
    <2>3. Alone'
        BY <1>0, <1>5 DEF Report
    <2>4. Counted' /\ Silenced' /\ CallbackOwned'
        BY <1>0, <1>5 DEF Report
    <2> QED
        BY <2>1, <2>2, <2>3, <2>4
<1>6. CASE Record
    BY <1>0, <1>6 DEF Record, AfterReport
<1>7. CASE Announce
    BY <1>0, <1>7 DEF Announce, AfterReport, UpsertProtocol, Upserted, SessionState
<1>8. CASE TrackOpens
    BY <1>0, <1>8 DEF TrackOpens
<1>9. CASE TrackCloses \/ SendThrows
    BY <1>0, <1>9 DEF TrackCloses, SendThrows
<1>10. ASSUME NEW t \in {"state", "track"}, Claim(t) PROVE Rules'
    <2>1. CASE ~ (open /\ registry /\ ~registered)
        <3>1. /\ at' = [at EXCEPT ![t] = "idle"] /\ lapped' = [lapped EXCEPT ![t] = FALSE]
              /\ UNCHANGED << object, library, request, mine, strays, callbacks, protocol >>
            BY <1>0, <1>10, <2>1 DEF Claim
        <3>2. Places' /\ Occasions' /\ Held' /\ Alone'
            BY <1>0, <1>10, <3>1 DEF Claim
        <3>3. Counted' /\ CallbackOwned'
            BY <1>0, <1>10, <3>1 DEF Claim
        <3>4. Silenced'
            BY <1>0, <1>10, <3>1 DEF Claim
        <3> QED
            BY <3>2, <3>3, <3>4
    <2>2. CASE open /\ registry /\ ~registered
        <3>1. PICK b \in BOOLEAN : /\ b <=> \E u \in Thread : Removing(u)
                                   /\ lapped' = [lapped EXCEPT ![t] = b]
            BY <1>0, <1>10, <2>2 DEF Claim
        <3>2. /\ at[t] = "claim" /\ at' = [at EXCEPT ![t] = "number"] /\ registered'
              /\ UNCHANGED << open, callbackId, registry, sender, pipeline, mine, strays,
                              library, request, callbacks, protocol >>
            BY <1>0, <1>10, <2>2 DEF Claim
        <3>3. \A u \in Thread : Removing(u) => lapped'[t]
            BY <1>ids, <3>1
        <3>4. \A u \in Thread \ {t} : at'[u] = at[u] /\ lapped'[u] = lapped[u]
            BY <1>0, <3>1, <3>2
        <3>5. \A u \in Thread \ {t} : Busy(u) => lapped'[t]
            BY <1>0, <2>2, <3>2, <3>3 DEF Removing
        <3>6. \A u \in Thread \ {t} : at[u] \in Attaching => lapped[u]
            BY <1>0, <2>2
        <3>7. Places' /\ Occasions' /\ Held'
            BY <1>0, <3>2, <3>4
        <3>8. Alone'
            BY <1>0, <2>2, <3>2, <3>3, <3>4, <3>5, <3>6 DEF Removing
        <3>9. Counted' /\ CallbackOwned'
            BY <1>0, <2>2, <3>2, <3>3, <3>4, <3>6 DEF Removing
        <3>10. Silenced'
            BY <1>0, <2>2, <3>2, <3>3, <3>4, <3>6 DEF Removing
        <3> QED
            BY <3>7, <3>8, <3>9, <3>10
    <2> QED
        BY <2>1, <2>2
<1>11. ASSUME NEW t \in {"state", "track"}, Number(t) PROVE Rules'
    <2>1. Places' /\ Occasions' /\ Held' /\ Alone'
        BY <1>0, <1>11 DEF Number
    <2>2. Known = {} /\ callbackId' # 0 /\ mine' = [mine EXCEPT ![t] = callbackId']
        BY <1>0, <1>11, <1>ids DEF Number
    <2>3. Counted'
        BY <1>0, <1>11, <1>ids, <2>1, <2>2 DEF Number
    <2>4. CallbackOwned'
        BY <1>0, <1>11, <2>2 DEF Number
    <2>5. Silenced'
        BY <1>0, <1>11 DEF Number
    <2> QED
        BY <2>1, <2>3, <2>4, <2>5
<1>12. ASSUME NEW t \in {"state", "track"}, TakePipeline(t) PROVE Rules'
    BY <1>0, <1>12 DEF TakePipeline
<1>13. ASSUME NEW t \in {"state", "track"}, UndoAttach(t) PROVE Rules'
    BY <1>0, <1>13 DEF UndoAttach
<1>14. ASSUME NEW t \in {"state", "track"}, Join(t) PROVE Rules'
    BY <1>0, <1>14 DEF Join
<1>15. ASSUME NEW t \in Thread, Unsubscribe(t) PROVE Rules'
    <2>1. /\ at[t] = "unsub" /\ at' = [at EXCEPT ![t] = "clear"]
          /\ \A u \in Thread : u # t => at'[u] = at[u]
          /\ \A u \in Thread : at'[u] \in Attaching => lapped'[u]
          /\ \A u \in Thread : lapped[u] => lapped'[u]
          /\ ~pipeline'
          /\ UNCHANGED << open, registered, registry, sender, protocol, mine, strays,
                          library, request >>
        BY <1>0, <1>15 DEF Unsubscribe, Overlap
    <2>2. /\ callbacks' \subseteq callbacks
          /\ registry => Known' = {}
          /\ callbackId' = callbackId \/ Known' = {}
        <3>1. CASE registry /\ callbackId # 0 /\ Plays
            BY <1>0, <1>15, <3>1 DEF Unsubscribe
        <3>2. CASE ~ (registry /\ callbackId # 0 /\ Plays)
            <4>1. UNCHANGED << callbacks, callbackId, strays >>
                BY <1>15, <3>2 DEF Unsubscribe
            <4>2. registry => Known = {}
                BY <1>0, <1>ids, <3>2
            <4> QED
                BY <4>1, <4>2
        <3> QED
            BY <3>1, <3>2
    <2>3. Places'
        BY <1>0, <2>1
    <2>4. Occasions'
        BY <1>0, <2>1, <2>2
    <2>5. Held' /\ Alone'
        BY <1>0, <2>1
    <2>6. CallbackOwned'
        BY <1>0, <2>1, <2>2
    <2>7. Counted'
        BY <1>0, <2>1, <2>2
    <2>8. Silenced'
        BY <1>0, <2>1, <2>2
    <2> QED
        BY <2>3, <2>4, <2>5, <2>6, <2>7, <2>8
<1>16. ASSUME NEW t \in Thread, ClearFlags(t) PROVE Rules'
    <2>1. /\ at[t] = "clear" /\ at' = [at EXCEPT ![t] = After(t)]
          /\ \A u \in Thread : u # t => at'[u] = at[u]
          /\ lapped' = [u \in Thread |-> lapped[u] \/ (u # t /\ at[u] \in Attaching)]
          /\ ~open' /\ ~registered'
          /\ UNCHANGED << callbackId, registry, sender, pipeline, protocol, callbacks, mine,
                          strays, library, request >>
        BY <1>0, <1>16 DEF ClearFlags, Overlap
    <2>2. /\ \A u \in Thread : at'[u] \in Attaching => lapped'[u]
          /\ \A u \in Thread : lapped[u] => lapped'[u]
        BY <1>0, <2>1 DEF After
    <2>3. Places' /\ Occasions' /\ Held' /\ Alone'
        BY <1>0, <2>1, <2>2 DEF After
    <2>4. Counted' /\ CallbackOwned'
        BY <1>0, <2>1, <2>2 DEF After
    <2>5. Silenced'
        BY <1>0, <2>1, <2>2 DEF After
    <2> QED
        BY <2>3, <2>4, <2>5
<1>17. ASSUME NEW c \in BOOLEAN, Withdraw(c) PROVE Rules'
    BY <1>0, <1>17 DEF Withdraw
<1>18. CASE StopSender
    BY <1>0, <1>18 DEF StopSender
<1>19. CASE Unlist \/ Again
    BY <1>0, <1>19 DEF Unlist, Again, RemoveProtocol
<1>20. CASE Drop
    BY <1>0, <1>20 DEF Drop
<1>21. CASE Destroy
    BY <1>0, <1>21 DEF Destroy
<1> QED
    BY <1>1, <1>2, <1>3, <1>4, <1>5, <1>6, <1>7, <1>8, <1>9, <1>10, <1>11, <1>12, <1>13, <1>14,
       <1>15, <1>16, <1>17, <1>18, <1>19, <1>20, <1>21, Steps

\* Every step keeps the invariant ...
LEMMA SessionStep == SessionInv /\ [Next]_vars => SessionInv'
<1> SUFFICES ASSUME SessionInv, [Next]_vars PROVE SessionInv'
    OBVIOUS
<1>1. TypeOK'
    BY TypeStep DEF SessionInv, Rules, Counted
<1> QED
    BY <1>1, RulesStep DEF SessionInv

\* ... which holds at first ...
LEMMA SessionInit == Init => SessionInv
<1> SUFFICES ASSUME Init PROVE SessionInv
    OBVIOUS
<1>1. at = [t \in Thread |-> "idle"] /\ "idle" \in Place
    BY DEF Init, Place
<1>2. ThreadTypes /\ IdTypes
    BY <1>1 DEF Init, ThreadTypes, IdTypes
<1>3. FlagTypes
    BY DEF Init, FlagTypes
<1>4. StateTypes
    <2>1. opens \in 0 .. MaxOpens
        BY SessionAssumption DEF Init
    <2>2. remote \in BOOLEAN /\ kind \in Kind
        BY DEF Init
    <2> QED
        BY <2>1, <2>2 DEF Init, StateTypes
<1>5. Rules
    BY <1>1 DEF Init, Rules, Places, Occasions, Held, Alone, Counted, Silenced, CallbackOwned,
                Known, Busy, Thread, Attaching, Detaching, Withdrawn, Stopped, Unlisted
<1> QED
    BY <1>2, <1>3, <1>4, <1>5, TypeParts DEF SessionInv

\* ... and so always.
LEMMA SessionInvariant == Spec => []SessionInv
<1> QED
    BY SessionInit, SessionStep, PTL DEF Spec

-----------------------------------------------------------------------------

\* A callback of the session in the registry is the one a detach will remove, whichever of
\* its threads attach and detach at the same time.
THEOREM CallbackOwnedHolds == Spec => []CallbackOwned
<1>1. SessionInv => CallbackOwned
    BY DEF SessionInv, Rules
<1> QED
    BY <1>1, SessionInvariant, PTL

\* A session that was closed is quiet, except for what an attach did that the close
\* overlapped.
THEOREM ClosedIsQuietHolds == Spec => []ClosedIsQuiet
<1>1. SessionInv => ClosedIsQuiet
    <2> SUFFICES ASSUME SessionInv, ~registry,
                        \A t \in Thread : at[t] \notin Attaching \cup {"undo"}
                 PROVE  callbacks \subseteq strays /\ protocol # "live" /\ (sender \/ pipeline => strays # {})
        BY DEF ClosedIsQuiet
    <2>1. Silenced
        BY DEF SessionInv, Rules
    <2>2. \A t \in Thread : at[t] \notin {"pipeline", "join", "undo"}
        BY DEF Attaching
    <2> QED
        BY <2>1, <2>2 DEF Silenced, Withdrawn, Stopped, Unlisted, Known
<1> QED
    BY <1>1, SessionInvariant, PTL

=============================================================================
