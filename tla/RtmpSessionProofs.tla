------------------------- MODULE RtmpSessionProofs -------------------------
(***************************************************************************)
(* Proofs about the threads of RTMP sessions, for any number of sessions,  *)
(* operators and keys: SessionOK with the map of StreamRegistryProofs is   *)
(* inductive, and under it every step of a thread is a step of the         *)
(* sessions that RegistryClients knows, or none.                           *)
(***************************************************************************)
EXTENDS RtmpSession, StreamRegistryProofs

\* The part of TypeOK that is about sessions and their threads.
SessionTypes ==
    /\ objects \subseteq Session
    /\ rx \in [Session -> RxPlace]
    /\ tx \in [Session -> TxPlace]
    /\ call \in [Thread -> [of : Session \cup {NoSession}, at : CallPlace]]
    /\ todo \in [Thread -> SUBSET Session]
    /\ running \subseteq objects /\ linked \subseteq objects
    /\ key \in [Session -> Key \cup {NoKey}]
    /\ publishing \subseteq objects /\ playing \subseteq objects

\* A session is in memory as long as a thread of its own runs, or any thread stops
\* it or will visit it.
Held ==
    /\ \A s \in Session : rx[s] # "none" \/ tx[s] # "none" => s \in objects
    /\ \A t \in Thread : todo[t] \subseteq objects /\ (Free(t) \/ call[t].of \in objects)

\* A stop() that another one has not preceded: at most one of a session.
Past(t) == call[t].at \in {"unregister", "unsubscribe", "close"}

Alone ==
    /\ \A t \in Thread : Past(t) => call[t].of \notin running
    /\ \A t, u \in Thread : Past(t) /\ Past(u) /\ call[t].of = call[u].of => t = u

\* Where an rx thread can be: on its way out it has stopped its session or is
\* about to.
Places ==
    \A s \in Session :
        /\ rx[s] = "delete" => s \notin publishing
        /\ rx[s] = "exit" => s \notin running \/ call[Rx(s)] = Stopping(s)
        /\ rx[s] = "done" => s \notin running

SessionOK == SessionTypes /\ Held /\ Alone /\ Places

\* The threads are distinct.
LEMMA Threads ==
    /\ \A s \in Session : Rx(s) \in Thread /\ Tx(s) \in Thread
    /\ \A s, p \in Session : Rx(s) # Tx(p) /\ (Rx(s) = Rx(p) \/ Tx(s) = Tx(p) => s = p)
    /\ \A o \in Operators : o \in Thread /\ \A s \in Session : o # Rx(s) /\ o # Tx(s)
  BY SessionAssumption DEF Rx, Tx, Thread

\* Nobody stops an empty pointer.
LEMMA CallsDiffer ==
    /\ NoCall.of = NoSession /\ NoCall.at = "idle"
    /\ \A s : Stopping(s).of = s /\ Stopping(s).at = "exchange" /\ Stopping(s) # NoCall
  BY DEF NoCall, Stopping

LEMMA SessionInit ==
    ASSUME Init
    PROVE  SessionOK
  BY DEF Init, RegistryInit, SessionOK, SessionTypes, Held, Alone, Places, Past, NoCall, Free,
         Stopping, RxPlace, TxPlace, CallPlace

\* What a thread that is free takes on, and what a change of one call leaves.
LEMMA OneCall ==
    ASSUME SessionTypes, NEW t \in Thread, NEW c, call' = [call EXCEPT ![t] = c]
    PROVE  call'[t] = c /\ \A u \in Thread : u # t => call'[u] = call[u]
  BY DEF SessionTypes

\* Steps that stop nothing: a thread goes on from one place to another.
LEMMA MoveKeeps ==
    ASSUME SessionOK,
           UNCHANGED << objects, call >>,
           linked' \subseteq linked, running' \subseteq running,
           publishing' \subseteq objects, playing' \subseteq objects,
           key' \in [Session -> Key \cup {NoKey}],
           todo' \in [Thread -> SUBSET objects],
           rx' \in [Session -> RxPlace], tx' \in [Session -> TxPlace],
           \A s \in Session : tx[s] = "none" => tx'[s] = "none",
           \A s \in Session :
               \/ rx'[s] = rx[s] /\ (rx[s] = "delete" /\ s \in publishing' => s \in publishing)
               \/ rx[s] # "none" /\ rx'[s] \in {"check", "recv", "fanout"}
               \/ rx[s] # "none" /\ rx'[s] = "delete" /\ s \notin publishing'
               \/ rx[s] = "exit" /\ rx'[s] = "done" /\ Free(Rx(s))
    PROVE  SessionOK'
<1>1. SessionTypes'
  BY DEF SessionOK, SessionTypes
<1>2. Held'
  BY DEF SessionOK, SessionTypes, Held, Free
<1>3. Alone'
  BY DEF SessionOK, Alone, Past
<1>4. Places'
  BY CallsDiffer DEF SessionOK, SessionTypes, Places, Free
<1> QED
  BY <1>1, <1>2, <1>3, <1>4 DEF SessionOK

\* Steps in which a free thread begins a stop(), its own rx thread to leave.
LEMMA BeginKeeps ==
    ASSUME SessionOK, NEW t \in Thread, NEW p \in objects, Free(t),
           call' = [call EXCEPT ![t] = Stopping(p)],
           UNCHANGED << objects, running, linked, playing >>,
           \A u \in Thread : todo'[u] \subseteq todo[u],
           todo' \in [Thread -> SUBSET Session],
           key' \in [Session -> Key \cup {NoKey}],
           publishing \subseteq publishing', publishing' \subseteq objects,
           tx' \in [Session -> TxPlace], rx' \in [Session -> RxPlace],
           \A s \in Session : tx[s] = "none" => tx'[s] = "none",
           \A s \in Session :
               \/ rx'[s] = rx[s] /\ (s \in publishing' => s \in publishing)
               \/ rx[s] # "none" /\ rx'[s] = "check"
               \/ rx[s] # "none" /\ rx'[s] = "exit" /\ s = p /\ t = Rx(s)
    PROVE  SessionOK'
<1>1. /\ call'[t] = Stopping(p) /\ \A u \in Thread : u # t => call'[u] = call[u]
      /\ p \in Session
  BY OneCall DEF SessionOK, SessionTypes
<1>2. SessionTypes'
  BY <1>1 DEF SessionOK, SessionTypes, Stopping, CallPlace
<1>3. Held'
  <2>1. \A u \in Thread : Free(u)' \/ call'[u].of \in objects'
    BY <1>1, CallsDiffer DEF SessionOK, Held, Free
  <2>2. \A s \in Session : rx'[s] # "none" \/ tx'[s] # "none" => s \in objects'
    BY DEF SessionOK, Held
  <2>3. \A u \in Thread : todo'[u] \subseteq objects'
    BY DEF SessionOK, Held
  <2> QED
    BY <2>1, <2>2, <2>3 DEF Held
<1>4. Alone'
  <2>1. \A u \in Thread : Past(u)' => u # t /\ Past(u) /\ call'[u] = call[u]
    BY <1>1, CallsDiffer DEF Past
  <2> QED
    BY <2>1 DEF SessionOK, Alone
<1>5. Places'
  <2>1. \A s \in Session : call[Rx(s)] = Stopping(s) => call'[Rx(s)] = Stopping(s)
    BY <1>1, Threads, CallsDiffer DEF Free
  <2> QED
    BY <1>1, <2>1 DEF SessionOK, Places
<1> QED
  BY <1>2, <1>3, <1>4, <1>5 DEF SessionOK

\* stop(): only the call and what it clears change.
LEMMA StopKeeps ==
    ASSUME SessionOK, NEW t \in Thread, StopStep(t)
    PROVE  SessionOK'
<1> DEFINE s == call[t].of
<1>1. ~Free(t) /\ s \in objects /\ s \in Session
  <2>1. call[t].at # "idle"
    BY DEF StopStep, StopExchange, StopUnregister, StopUnsubscribe, StopClose
  <2> QED
    BY <2>1, CallsDiffer DEF SessionOK, SessionTypes, Held, Free
<1>2. UNCHANGED << objects, rx, todo, key, publishing, playing >>
  BY DEF StopStep, StopExchange, StopUnregister, StopUnsubscribe, StopClose, flags
<1>3. /\ linked' \subseteq linked
      /\ tx' \in [Session -> TxPlace]
      /\ \A p \in Session : tx[p] = "none" => tx'[p] = "none"
  BY <1>1 DEF StopStep, StopExchange, StopUnregister, StopUnsubscribe, StopClose, Notified,
              SessionOK, SessionTypes, TxPlace
<1>4. PICK c \in {[call[t] EXCEPT !.at = "unregister"], [call[t] EXCEPT !.at = "unsubscribe"],
                  [call[t] EXCEPT !.at = "close"], NoCall} :
          /\ call' = [call EXCEPT ![t] = c]
          /\ running' \in {running, running \ {s}}
          /\ c # NoCall => s \notin running'
          /\ c # NoCall => s \in running \/ Past(t)
          /\ call[t].at = "exchange" => s \notin running'
  <2>1. CASE StopExchange(t)
    BY <2>1 DEF StopExchange
  <2>2. CASE StopUnregister(t) \/ StopUnsubscribe(t) \/ StopClose(t)
    <3>1. Past(t) /\ s \notin running /\ running' = running
      BY <2>2 DEF StopUnregister, StopUnsubscribe, StopClose, Past, SessionOK, Alone
    <3> QED
      BY <2>2, <3>1 DEF StopUnregister, StopUnsubscribe, StopClose, Past
  <2> QED
    BY <2>1, <2>2 DEF StopStep
<1>5. /\ call'[t] = c /\ \A u \in Thread : u # t => call'[u] = call[u]
      /\ c = NoCall \/ (c.of = s /\ c \in [of : Session \cup {NoSession}, at : CallPlace])
  BY <1>4, OneCall DEF SessionOK, SessionTypes, CallPlace
<1> HIDE DEF s
<1>6. SessionTypes'
  BY <1>2, <1>3, <1>4, <1>5 DEF SessionOK, SessionTypes, NoCall, CallPlace
<1>7. Held'
  BY <1>1, <1>2, <1>3, <1>5 DEF SessionOK, Held, Free
<1>8. Alone'
  <2>1. \A u \in Thread : Past(u) => call[u].of \notin running
    BY DEF SessionOK, Alone
  <2>2. \A u \in Thread : u # t => (Past(u)' <=> Past(u)) /\ call'[u] = call[u]
    BY <1>5 DEF Past
  <2>3. Past(t)' => /\ c # NoCall /\ call'[t].of = s /\ s \notin running'
                    /\ s \in running \/ Past(t)
    BY <1>4, <1>5, CallsDiffer DEF Past
  <2>4. s = call[t].of
    BY DEF s
  <2> QED
    BY <1>4, <2>1, <2>2, <2>3, <2>4 DEF SessionOK, Alone
<1>9. Places'
  <2>1. ASSUME NEW p \in Session, rx[p] = "exit"
        PROVE  p \notin running' \/ call'[Rx(p)] = Stopping(p)
    <3>1. CASE Rx(p) = t
      <4>1. p \notin running \/ (s = p /\ call[t].at = "exchange")
        BY <2>1, <3>1, CallsDiffer DEF SessionOK, Places, s
      <4> QED
        BY <1>4, <4>1
    <3>2. CASE Rx(p) # t
      BY <1>4, <1>5, <2>1, <3>2, Threads DEF SessionOK, Places
    <3> QED
      BY <3>1, <3>2
  <2> QED
    BY <1>2, <1>4, <2>1 DEF SessionOK, Places
<1> QED
  BY <1>6, <1>7, <1>8, <1>9 DEF SessionOK

\* A session begins, and the last that holds one lets it go.
LEMMA MemoryKeeps ==
    ASSUME SessionOK, NEW s \in Session, Accept(s) \/ Destroy(s)
    PROVE  SessionOK'
<1>1. CASE Accept(s)
  <2>1. \A t \in Thread : call[t].of = s => Free(t)
    BY <1>1 DEF Accept, SessionOK, Held
  <2>2. SessionTypes'
    BY <1>1 DEF Accept, SessionOK, SessionTypes, RxPlace, TxPlace, flags
  <2>3. Held'
    BY <1>1 DEF Accept, SessionOK, SessionTypes, Held, Free
  <2>4. Alone'
    BY <1>1, <2>1, CallsDiffer DEF Accept, SessionOK, Alone, Past, Free
  <2>5. Places'
    BY <1>1 DEF Accept, SessionOK, SessionTypes, Places, flags
  <2> QED
    BY <2>2, <2>3, <2>4, <2>5 DEF SessionOK
<1>2. CASE Destroy(s)
  <2>1. SessionTypes'
    BY <1>2 DEF Destroy, SessionOK, SessionTypes, RxPlace, TxPlace
  <2>2. Held'
    BY <1>2 DEF Destroy, SessionOK, SessionTypes, Held, Free
  <2>3. Alone'
    BY <1>2 DEF Destroy, SessionOK, Alone, Past
  <2>4. Places'
    BY <1>2 DEF Destroy, SessionOK, SessionTypes, Places
  <2> QED
    BY <2>1, <2>2, <2>3, <2>4 DEF SessionOK
<1> QED
  BY <1>1, <1>2

\* A message is handled by a thread whose session is in memory.
LEMMA HandleKeeps ==
    ASSUME SessionOK, NEW s \in Session, Handle(s)
    PROVE  SessionOK'
<1>0. /\ Rx(s) \in Thread
      /\ RxHandles(s) \/ RxAt(s, "delete") => s \in objects /\ rx[s] # "none" /\ Free(Rx(s))
  BY Threads DEF RxHandles, RxAt, SessionOK, Held
<1>1. ASSUME NEW k \in Key, HandlePublish(s, k) PROVE SessionOK'
  <2>1. /\ key' \in [Session -> Key \cup {NoKey}]
        /\ rx' \in [Session -> RxPlace]
        /\ publishing' = publishing \cup {s}
        /\ \A p \in Session : rx'[p] = IF p = s THEN "check" ELSE rx[p]
    BY <1>0, <1>1 DEF HandlePublish, RxTo, SessionOK, SessionTypes, RxPlace
  <2>2. CASE UNCHANGED call
    BY <1>0, <1>1, <2>1, <2>2, MoveKeeps DEF HandlePublish, SessionOK, SessionTypes, Held
  <2>3. ASSUME NEW p \in Displaced(k, s), call' = [call EXCEPT ![Rx(s)] = Stopping(p)]
        PROVE  SessionOK'
    BY <1>0, <1>1, <2>1, <2>3, BeginKeeps
       DEF HandlePublish, Displaced, SessionOK, SessionTypes, Held
  <2> QED
    BY <1>1, <2>2, <2>3 DEF HandlePublish
<1>2. ASSUME NEW k \in Key, HandlePlay(s, k) PROVE SessionOK'
  <2>1. /\ key' \in [Session -> Key \cup {NoKey}]
        /\ rx' \in [Session -> RxPlace]
        /\ todo' \in [Thread -> SUBSET objects]
        /\ \A p \in Session : rx'[p] = IF p = s THEN "fanout" ELSE rx[p]
    BY <1>0, <1>2 DEF HandlePlay, RxTo, SessionOK, SessionTypes, RxPlace, Held
  <2> QED
    BY <1>0, <1>2, <2>1, MoveKeeps DEF HandlePlay, SessionOK, SessionTypes
<1>3. ASSUME \/ HandleFcUnpublish(s) \/ HandleDeletePublisher(s)
             \/ HandleDeletePlayer(s) \/ HandleBadChunkSize(s) \/ HandleOther(s)
      PROVE  SessionOK'
  <2>1. PICK at \in {"check", "delete"} :
            /\ rx' = [rx EXCEPT ![s] = at]
            /\ at = "delete" => s \notin publishing'
    BY <1>3 DEF HandleFcUnpublish, HandleDeletePublisher, HandleDeletePlayer, HandleOther, RxTo,
                HandleBadChunkSize, flags
  <2>2. /\ publishing' \in {publishing, publishing \ {s}}
        /\ playing' \in {playing, playing \ {s}}
        /\ s \in objects /\ rx[s] # "none"
        /\ running' \subseteq running
        /\ UNCHANGED << objects, tx, call, todo, linked, key >>
    BY <1>0, <1>3 DEF HandleFcUnpublish, HandleDeletePublisher, HandleDeletePlayer, HandleOther,
                      HandleBadChunkSize, flags
  <2>3. /\ rx' \in [Session -> RxPlace]
        /\ \A p \in Session : rx'[p] = IF p = s THEN at ELSE rx[p]
    BY <2>1 DEF SessionOK, SessionTypes, RxPlace
  <2>4. todo' \in [Thread -> SUBSET objects]
    BY <2>2 DEF SessionOK, SessionTypes, Held
  <2> QED
    BY <2>1, <2>2, <2>3, <2>4, MoveKeeps DEF SessionOK, SessionTypes
<1>4. ASSUME NEW m \in MediaKinds, HandleMedia(s, m) PROVE SessionOK'
  <2>1. /\ rx' \in [Session -> RxPlace]
        /\ todo' \in [Thread -> SUBSET objects]
        /\ \A p \in Session : rx'[p] = IF p = s THEN "fanout" ELSE rx[p]
    BY <1>0, <1>4 DEF HandleMedia, RxTo, SessionOK, SessionTypes, RxPlace, Held
  <2> QED
    BY <1>0, <1>4, <2>1, MoveKeeps DEF HandleMedia, SessionOK, SessionTypes, flags
<1> QED
  BY <1>1, <1>2, <1>3, <1>4 DEF Handle

\* The loops of the two threads.
LEMMA ThreadKeeps ==
    ASSUME SessionOK, NEW s \in Session,
           RxFail(s) \/ RxStep(s) \/ TxStep(s) \/ SpuriousWakeup(s) \/ PeerGone(s)
    PROVE  SessionOK'
<1>0. Rx(s) \in Thread /\ Tx(s) \in Thread /\ todo \in [Thread -> SUBSET objects]
  BY Threads DEF SessionOK, SessionTypes, Held
<1>1. ASSUME RxFail(s) \/ RxCheck(s), RxLeave(s) PROVE SessionOK'
  <2>1. /\ s \in objects /\ rx[s] # "none" /\ Free(Rx(s))
        /\ UNCHANGED << objects, tx, todo, running, linked, flags >>
    BY <1>1 DEF RxFail, RxCheck, RxAt, SessionOK, Held
  <2>2. /\ rx' \in [Session -> RxPlace]
        /\ \A p \in Session : rx'[p] = IF p = s THEN "exit" ELSE rx[p]
    BY <1>1 DEF RxLeave, RxTo, SessionOK, SessionTypes, RxPlace
  <2> QED
    BY <1>0, <1>1, <2>1, <2>2, BeginKeeps DEF RxLeave, SessionOK, SessionTypes, flags
<1>2. ASSUME RxCheck(s), RxTo(s, "recv"), UNCHANGED call PROVE SessionOK'
  <2>1. /\ rx' \in [Session -> RxPlace]
        /\ \A p \in Session : rx'[p] = IF p = s THEN "recv" ELSE rx[p]
    BY <1>2 DEF RxTo, SessionOK, SessionTypes, RxPlace
  <2> QED
    BY <1>0, <1>2, <2>1, MoveKeeps DEF RxCheck, RxAt, SessionOK, SessionTypes, flags
<1>3. ASSUME FanOutEnd(s) \/ RxDone(s) PROVE SessionOK'
  <2>1. PICK at \in {"check", "done"} :
            /\ rx' = [rx EXCEPT ![s] = at]
            /\ at = "done" => rx[s] = "exit"
    BY <1>3 DEF FanOutEnd, RxDone, RxTo, RxAt
  <2>2. /\ rx' \in [Session -> RxPlace]
        /\ \A p \in Session : rx'[p] = IF p = s THEN at ELSE rx[p]
    BY <2>1 DEF SessionOK, SessionTypes, RxPlace
  <2>3. /\ rx[s] # "none" /\ Free(Rx(s))
        /\ UNCHANGED << objects, tx, call, todo, running, linked, flags >>
    BY <1>3 DEF FanOutEnd, RxDone, RxAt
  <2> QED
    BY <1>0, <2>1, <2>2, <2>3, MoveKeeps DEF SessionOK, SessionTypes, flags
<1>4. ASSUME FanOut(s) PROVE SessionOK'
  <2>1. PICK v \in todo[Rx(s)] :
            /\ todo' = [todo EXCEPT ![Rx(s)] = @ \ {v}]
            /\ \/ UNCHANGED << tx, call >>
               \/ tx' = Queued(v) /\ UNCHANGED call
               \/ call' = [call EXCEPT ![Rx(s)] = Stopping(v)] /\ UNCHANGED tx
    BY <1>4 DEF FanOut
  <2>2. /\ v \in objects /\ Free(Rx(s))
        /\ UNCHANGED << objects, rx, running, linked, flags >>
    BY <1>0, <1>4 DEF FanOut, RxAt
  <2>3. /\ todo' \in [Thread -> SUBSET objects]
        /\ \A u \in Thread : todo'[u] \subseteq todo[u]
    BY <1>0, <2>1
  <2>4. CASE UNCHANGED call
    <3>1. /\ tx' \in [Session -> TxPlace]
          /\ \A p \in Session : tx[p] = "none" => tx'[p] = "none"
      BY <2>1, <2>4, CallsDiffer DEF Queued, SessionOK, SessionTypes, TxPlace
    <3> QED
      BY <2>2, <2>3, <2>4, <3>1, MoveKeeps DEF SessionOK, SessionTypes, flags
  <2>5. CASE call' = [call EXCEPT ![Rx(s)] = Stopping(v)] /\ UNCHANGED tx
    BY <1>0, <2>2, <2>3, <2>5, BeginKeeps DEF SessionOK, SessionTypes, flags
  <2> QED
    BY <2>1, <2>4, <2>5
<1>5. ASSUME TxSend(s), call' = [call EXCEPT ![Tx(s)] = Stopping(s)], TxTo(s, "exit")
      PROVE  SessionOK'
  <2>1. /\ tx' \in [Session -> TxPlace]
        /\ \A p \in Session : tx[p] = "none" => tx'[p] = "none"
        /\ s \in objects /\ Free(Tx(s))
    BY <1>5 DEF TxSend, TxAt, TxTo, SessionOK, SessionTypes, TxPlace, Held
  <2> QED
    BY <1>0, <1>5, <2>1, BeginKeeps DEF TxSend, SessionOK, SessionTypes, flags
<1>6. ASSUME \/ TxSend(s) /\ UNCHANGED call
             \/ TxLook(s) \/ TxBlock(s) \/ TxEnd(s) \/ SpuriousWakeup(s)
      PROVE  SessionOK'
  <2>1. /\ UNCHANGED << objects, rx, call, todo, running, linked, flags >>
        /\ tx[s] # "none"
        /\ \E to \in TxPlace : tx' = [tx EXCEPT ![s] = to]
    BY <1>6, CallsDiffer DEF TxSend, TxLook, TxBlock, TxEnd, SpuriousWakeup, TxAt, TxTo, TxPlace
  <2>2. /\ tx' \in [Session -> TxPlace]
        /\ \A p \in Session : tx[p] = "none" => tx'[p] = "none"
    BY <2>1 DEF SessionOK, SessionTypes
  <2> QED
    BY <1>0, <2>1, <2>2, MoveKeeps DEF SessionOK, SessionTypes, flags
<1>7. ASSUME PeerGone(s) PROVE SessionOK'
  BY <1>0, <1>7, MoveKeeps DEF PeerGone, threadVars, flags, SessionOK, SessionTypes
<1> QED
  BY <1>1, <1>2, <1>3, <1>4, <1>5, <1>6, <1>7 DEF RxFail, RxStep, RxCheck, TxStep, TxSend

\* The operator's threads.
LEMMA OperatorKeeps ==
    ASSUME SessionOK, NEW o \in Operators,
           (\E k \in Key : DisconnectCopy(o, k)) \/ DisconnectNext(o)
    PROVE  SessionOK'
<1>0. o \in Thread /\ todo \in [Thread -> SUBSET objects]
  BY Threads DEF SessionOK, SessionTypes, Held
<1>1. ASSUME NEW k \in Key, DisconnectCopy(o, k) PROVE SessionOK'
  <2>1. todo' \in [Thread -> SUBSET objects]
    BY <1>0, <1>1 DEF DisconnectCopy, Disconnected
  <2> QED
    BY <1>1, <2>1, MoveKeeps DEF DisconnectCopy, SessionOK, SessionTypes, flags
<1>2. ASSUME DisconnectNext(o) PROVE SessionOK'
  <2>1. PICK s \in todo[o] : /\ todo' = [todo EXCEPT ![o] = @ \ {s}]
                            /\ call' = [call EXCEPT ![o] = Stopping(s)]
    BY <1>2 DEF DisconnectNext
  <2>2. s \in objects /\ Free(o)
    BY <1>0, <1>2 DEF DisconnectNext
  <2>3. /\ todo' \in [Thread -> SUBSET Session]
        /\ \A u \in Thread : todo'[u] \subseteq todo[u]
    BY <1>0, <2>1 DEF SessionOK, SessionTypes
  <2> QED
    BY <1>0, <1>2, <2>1, <2>2, <2>3, BeginKeeps
       DEF DisconnectNext, SessionOK, SessionTypes, flags
<1> QED
  BY <1>1, <1>2

\* Every step keeps the sessions and their threads consistent.
LEMMA SessionStep ==
    ASSUME SessionOK, [Next]_vars
    PROVE  SessionOK'
<1>1. CASE Next
  BY <1>1, StopKeeps, MemoryKeeps, HandleKeeps, ThreadKeeps, OperatorKeeps DEF Next
<1>2. CASE UNCHANGED vars
  BY <1>2 DEF vars, threadVars, flags, SessionOK, SessionTypes, Held, Free, Alone, Past, Places
<1> QED
  BY <1>1, <1>2

\* Every step is one of the map's operations, or leaves the map alone.
LEMMA MapStep ==
    ASSUME MapOK, SessionOK, [Next]_vars
    PROVE  MapOK'
<1>a. UNCHANGED streams => MapOK'
  BY DEF MapOK
<1>1. ASSUME NEW t \in Thread, StopStep(t) PROVE MapOK'
  <2>1. call[t].at # "idle" => call[t].of \in Session
    BY <1>1, CallsDiffer DEF SessionOK, SessionTypes, Held, Free
  <2> QED
    BY <1>1, <1>a, <2>1, UnregisterPublisherKeeps, RemoveSubscriberKeeps
       DEF StopStep, StopExchange, StopUnregister, StopUnsubscribe, StopClose
<1>2. ASSUME NEW s \in Session, Handle(s) PROVE MapOK'
  <2>1. ASSUME NEW k \in Key, HandlePublish(s, k) \/ HandlePlay(s, k) PROVE MapOK'
    BY <2>1, RegisterPublisherKeeps, AddSubscriberKeeps DEF HandlePublish, HandlePlay
  <2>2. ASSUME HandleFcUnpublish(s) \/ HandleDeletePublisher(s) PROVE MapOK'
    BY <2>2, UnregisterPublisherKeeps DEF HandleFcUnpublish, HandleDeletePublisher
  <2>3. ASSUME HandleDeletePlayer(s) PROVE MapOK'
    BY <2>3, RemoveSubscriberKeeps DEF HandleDeletePlayer
  <2>4. ASSUME NEW m \in MediaKinds, HandleMedia(s, m) PROVE MapOK'
    BY <2>4, PublishMediaKeeps, SessionAssumption DEF HandleMedia
  <2>5. ASSUME HandleBadChunkSize(s) \/ HandleOther(s) PROVE MapOK'
    BY <2>5, <1>a DEF HandleBadChunkSize, HandleOther
  <2> QED
    BY <1>2, <2>1, <2>2, <2>3, <2>4, <2>5 DEF Handle
<1>3. ASSUME NEW s \in Session,
             \/ Accept(s) \/ RxFail(s) \/ RxStep(s) \/ TxStep(s)
             \/ SpuriousWakeup(s) \/ PeerGone(s) \/ Destroy(s)
      PROVE  MapOK'
  BY <1>3, <1>a
     DEF Accept, RxFail, RxStep, RxCheck, FanOut, FanOutEnd, RxDone, TxStep, TxLook, TxBlock,
         TxSend, TxEnd, SpuriousWakeup, PeerGone, Destroy
<1>4. ASSUME NEW o \in Operators, (\E k \in Key : DisconnectCopy(o, k)) \/ DisconnectNext(o)
      PROVE  MapOK'
  BY <1>4, <1>a DEF DisconnectCopy, DisconnectNext
<1>5. CASE UNCHANGED vars
  BY <1>5, <1>a DEF vars
<1> QED
  BY <1>1, <1>2, <1>3, <1>4, <1>5 DEF Next

\* The inductive invariant: a sound map, and sessions that are in memory while they
\* are needed, stopped by one thread, and left by their rx thread when stopped.
Inv == MapOK /\ SessionOK

\* Inv is inductive.
LEMMA InvHolds == Spec => []Inv
<1>1. Init => Inv
  <2> SUFFICES ASSUME Init PROVE Inv
    OBVIOUS
  <2>1. MapOK
    BY FreshSound DEF Init, RegistryInit, MapOK, Sound
  <2> QED
    BY <2>1, SessionInit DEF Inv
<1>2. Inv /\ [Next]_vars => Inv'
  BY MapStep, SessionStep DEF Inv
<1> QED
  BY <1>1, <1>2, PTL DEF Spec

\* The registry, the sessions and their threads are type-correct in every reachable
\* state; in particular what runs, has a connection, publishes or plays is in memory.
THEOREM TypeCorrect == Spec => []TypeOK
<1>1. Inv => TypeOK
  BY DEF Inv, MapOK, SessionOK, SessionTypes, TypeOK, RegistryTypeOK
<1> QED
  BY <1>1, InvHolds, PTL

\* Whichever threads call stop() on a session, and however they interleave, at most
\* one of them is past the exchange of running_ until the session is gone, and the
\* session does not run then.
THEOREM StopsOnce == Spec => []Alone
<1>1. Inv => Alone
  BY DEF Inv, SessionOK
<1> QED
  BY <1>1, InvHolds, PTL

-----------------------------------------------------------------------------
(* The refinement: what the abstract sessions are, before and after a step. *)

\* A session that a thread has stopped and not done with is in memory, does not run
\* and is at one place.
OnePlace ==
    /\ running \subseteq objects
    /\ \A s \in Session :
          /\ At1(s, {"unregister"}) => s \in objects \ running
          /\ At1(s, {"unsubscribe"}) => s \in objects \ running /\ ~At1(s, {"unregister"})

LEMMA StopPlaces == SessionOK => OnePlace
<1> SUFFICES ASSUME SessionOK PROVE OnePlace
  OBVIOUS
<1>1. /\ \A t \in Thread : Past(t) => ~Free(t) /\ call[t].of \notin running
      /\ \A t, u \in Thread : Past(t) /\ Past(u) /\ call[t].of = call[u].of => t = u
  BY CallsDiffer DEF SessionOK, Alone, Past, Free
<1>2. \A t \in Thread : Past(t) => call[t].of \in objects \ running
  BY <1>1 DEF SessionOK, Held
<1> QED
  BY <1>1, <1>2 DEF At1, Past, SessionOK, SessionTypes, OnePlace

\* How far the abstract session is.
LEMMA LifeIs ==
    ASSUME SessionOK, NEW s \in Session
    PROVE  /\ s \notin objects => life[s] = "none"
           /\ s \in running => life[s] = "running"
           /\ At1(s, {"unregister"}) => life[s] = "stopping"
           /\ At1(s, {"unsubscribe"}) => life[s] = "unregistered"
           /\ s \in objects \ running /\ ~At1(s, {"unregister"}) /\ ~At1(s, {"unsubscribe"})
                  => life[s] = "closed"
  BY StopPlaces DEF life, OnePlace

LEMMA LifeBecomes ==
    ASSUME SessionOK', NEW s \in Session
    PROVE  /\ s \notin objects' => life'[s] = "none"
           /\ s \in running' => life'[s] = "running"
           /\ At1(s, {"unregister"})' => life'[s] = "stopping"
           /\ At1(s, {"unsubscribe"})' => life'[s] = "unregistered"
           /\ s \in objects' \ running' /\ ~At1(s, {"unregister"})' /\ ~At1(s, {"unsubscribe"})'
                  => life'[s] = "closed"
<1>1. OnePlace'
  BY StopPlaces, PTL
<1> QED
  BY <1>1 DEF life, OnePlace

\* The life of a session stays if it stays in memory or out of it, running or not,
\* and the calls that have begun on it stay where they are.
LEMMA LifeStays ==
    ASSUME SessionOK, SessionOK', NEW s \in Session,
           s \in objects' <=> s \in objects,
           s \in running' <=> s \in running,
           \A t \in Thread : call[t].of = s /\ Past(t) => call'[t] = call[t],
           \A t \in Thread : call'[t].of = s /\ Past(t)' => call'[t] = call[t]
    PROVE  life'[s] = life[s]
<1>1. /\ At1(s, {"unregister"})' <=> At1(s, {"unregister"})
      /\ At1(s, {"unsubscribe"})' <=> At1(s, {"unsubscribe"})
  BY DEF At1, Past
<1> QED
  BY <1>1, LifeIs, LifeBecomes

\* A function is its values.
LEMMA LifeMoves ==
    ASSUME NEW s \in Session, \A p \in Session : p # s => life'[p] = life[p]
    PROVE  life' = [life EXCEPT ![s] = life'[s]]
<1>1. /\ life = [p \in Session |-> life[p]]
      /\ life' = [p \in Session |-> life'[p]]
  BY DEF life
<1> QED
  BY <1>1

LEMMA LifeSame ==
    ASSUME \A p \in Session : life'[p] = life[p]
    PROVE  life' = life
<1>1. /\ life = [p \in Session |-> life[p]]
      /\ life' = [p \in Session |-> life'[p]]
  BY DEF life
<1> QED
  BY <1>1

\* Who is about to stop s, and is no thread of its own.
LEMMA InUnion ==
    ASSUME NEW x, NEW S, NEW f
    PROVE  x \in UNION {f[o] : o \in S} <=> \E o \in S : x \in f[o]
  OBVIOUS

LEMMA Callers ==
    ASSUME NEW s \in Session, NEW c
    PROVE  s \in {p \in Session : \E t \in Thread \ {Rx(p), Tx(p)} : c[t] = Stopping(p)} <=>
               \E t \in Thread : t # Rx(s) /\ t # Tx(s) /\ c[t] = Stopping(s)
  OBVIOUS

LEMMA CondemnedIs ==
    ASSUME NEW s \in Session
    PROVE  s \in condemned <=>
               \/ \E o \in Operators : s \in todo[o]
               \/ \E t \in Thread : t # Rx(s) /\ t # Tx(s) /\ call[t] = Stopping(s)
<1>1. s \in condemned <=>
          \/ s \in UNION {todo[o] : o \in Operators}
          \/ s \in {p \in Session : \E t \in Thread \ {Rx(p), Tx(p)} : call[t] = Stopping(p)}
  BY DEF condemned
<1> QED
  BY <1>1, InUnion, Callers

LEMMA CondemnedBecomes ==
    ASSUME NEW s \in Session
    PROVE  s \in condemned' <=>
               \/ \E o \in Operators : s \in todo'[o]
               \/ \E t \in Thread : t # Rx(s) /\ t # Tx(s) /\ call'[t] = Stopping(s)
<1>1. s \in condemned' <=>
          \/ s \in UNION {todo'[o] : o \in Operators}
          \/ s \in {p \in Session : \E t \in Thread \ {Rx(p), Tx(p)} : call'[t] = Stopping(p)}
  BY DEF condemned
<1> QED
  BY <1>1, InUnion, Callers

CondemnedInSession == condemned \subseteq Session

LEMMA CondemnedType == SessionTypes => CondemnedInSession
<1> SUFFICES ASSUME SessionTypes PROVE condemned \subseteq Session
  BY DEF CondemnedInSession
<1>1. \A o \in Operators : todo[o] \subseteq Session
  BY Threads DEF SessionTypes
<1>2. \A s \in UNION {todo[o] : o \in Operators} : s \in Session
  BY <1>1, InUnion
<1> QED
  BY <1>2 DEF condemned

\* What the abstract state keeps.
LEMMA LifeKept ==
    ASSUME SessionOK, SessionOK', UNCHANGED << objects, running >>,
           \A t \in Thread : call'[t] = call[t] \/ (~Past(t) /\ ~Past(t)')
    PROVE  life' = life
<1>1. \A p \in Session : life'[p] = life[p]
  BY LifeStays
<1> QED
  BY <1>1, LifeSame

LEMMA LateKept ==
    ASSUME UNCHANGED << objects, running >>,
           \A s \in objects \ running :
               rx'[s] \in {"recv", "delete"} <=> rx[s] \in {"recv", "delete"}
    PROVE  late' = late
  BY DEF late

LEMMA LateEnds ==
    ASSUME SessionTypes, NEW s \in Session, NEW at, at \notin {"recv", "delete"},
           rx' = [rx EXCEPT ![s] = at], UNCHANGED << objects, running >>
    PROVE  late' = late \ {s}
<1>1. \A p \in objects : rx'[p] = IF p = s THEN at ELSE rx[p]
  BY DEF SessionTypes
<1> QED
  BY <1>1 DEF late

\* What becomes of those who are about to be stopped.
LEMMA CondemnedKept ==
    ASSUME SessionTypes, SessionTypes',
           UNCHANGED call, \A o \in Operators : todo'[o] = todo[o]
    PROVE  condemned' = condemned
<1>0. CondemnedInSession /\ CondemnedInSession'
  BY CondemnedType, PTL
<1>1. condemned \subseteq Session /\ condemned' \subseteq Session
  BY <1>0 DEF CondemnedInSession
<1>2. \A p \in Session : p \in condemned' <=> p \in condemned
  BY CondemnedIs, CondemnedBecomes
<1> QED
  BY <1>1, <1>2

\* The operations are those of the map that the clients share.
LEMMA SameOperations ==
    ASSUME NEW k, NEW s, NEW m
    PROVE  /\ RegisterPublisher(k, s) => Clients!RegisterPublisher(k, s)
           /\ UnregisterPublisher(s) => Clients!UnregisterPublisher(s)
           /\ AddSubscriber(k, s) => Clients!AddSubscriber(k, s)
           /\ RemoveSubscriber(s) => Clients!RemoveSubscriber(s)
           /\ PublishMedia(k, m) => Clients!PublishMedia(k, m)
           /\ Displaced(k, s) = Clients!Displaced(k, s)
           /\ Disconnected(k) = Clients!Disconnected(k)
<1>1. RegisterPublisher(k, s) => Clients!RegisterPublisher(k, s)
  BY DEF RegisterPublisher, Store, ResetCaches, At, Fresh,
         Clients!RegisterPublisher, Clients!Store, Clients!ResetCaches, Clients!At, Clients!Fresh
<1>2. UnregisterPublisher(s) => Clients!UnregisterPublisher(s)
  BY DEF UnregisterPublisher, StoreAll, Collect, Prune, Referenced, HasPublisher, Expired,
         Vacant, Fresh,
         Clients!UnregisterPublisher, Clients!StoreAll, Clients!Collect, Clients!Prune,
         Clients!Referenced, Clients!HasPublisher, Clients!Expired, Clients!Vacant, Clients!Fresh
<1>3. AddSubscriber(k, s) => Clients!AddSubscriber(k, s)
  BY DEF AddSubscriber, Store, At, Fresh,
         Clients!AddSubscriber, Clients!Store, Clients!At, Clients!Fresh
<1>4. RemoveSubscriber(s) => Clients!RemoveSubscriber(s)
  BY DEF RemoveSubscriber, StoreAll, Collect, Prune, Referenced, HasPublisher, Expired,
         Vacant, Fresh,
         Clients!RemoveSubscriber, Clients!StoreAll, Clients!Collect, Clients!Prune,
         Clients!Referenced, Clients!HasPublisher, Clients!Expired, Clients!Vacant, Clients!Fresh
<1>5. PublishMedia(k, m) => Clients!PublishMedia(k, m)
  BY DEF PublishMedia, Store, Ingest, Prune, GopAdd, Vacant, Fresh,
         Clients!PublishMedia, Clients!Store, Clients!Ingest, Clients!Prune, Clients!GopAdd,
         Clients!Vacant, Clients!Fresh
<1>6. Displaced(k, s) = Clients!Displaced(k, s) /\ Disconnected(k) = Clients!Disconnected(k)
  BY DEF Displaced, Disconnected, Clients!Displaced, Clients!Disconnected
<1> QED
  BY <1>1, <1>2, <1>3, <1>4, <1>5, <1>6

\* A thread that begins a stop() condemns the session, unless it is its own.
LEMMA CondemnedBegins ==
    ASSUME SessionTypes, SessionTypes', NEW t \in Thread, NEW p \in Session, Free(t),
           call' = [call EXCEPT ![t] = Stopping(p)],
           \A o \in Operators : todo'[o] = todo[o]
    PROVE  condemned' = IF t = Rx(p) \/ t = Tx(p) THEN condemned ELSE condemned \cup {p}
<1>0. CondemnedInSession /\ CondemnedInSession'
  BY CondemnedType, PTL
<1>1. condemned \subseteq Session /\ condemned' \subseteq Session
  BY <1>0 DEF CondemnedInSession
<1>2. call'[t] = Stopping(p) /\ \A u \in Thread : u # t => call'[u] = call[u]
  BY OneCall
<1>3. \A q \in Session : call[t] # Stopping(q) /\ (call'[t] = Stopping(q) <=> q = p)
  BY <1>2, CallsDiffer DEF Free
<1>4. ASSUME NEW q \in Session
      PROVE  q \in condemned' <=> q \in condemned \/ (q = p /\ t # Rx(p) /\ t # Tx(p))
  BY <1>2, <1>3, CondemnedIs, CondemnedBecomes
<1> QED
  BY <1>1, <1>4

\* A thread at the exchange of a session that is not its own has condemned it; when
\* it has passed, others still may.
LEMMA CondemnedEnds ==
    ASSUME SessionTypes, SessionTypes', NEW t \in Thread, NEW c, NEW s \in Session,
           call[t] = Stopping(s), c.at # "exchange",
           call' = [call EXCEPT ![t] = c], UNCHANGED todo
    PROVE  /\ t = Rx(s) \/ t = Tx(s) => condemned' = condemned
           /\ t # Rx(s) /\ t # Tx(s) =>
                  s \in condemned /\ condemned' \in {condemned, condemned \ {s}}
<1>0. CondemnedInSession /\ CondemnedInSession'
  BY CondemnedType, PTL
<1>1. condemned \subseteq Session /\ condemned' \subseteq Session
  BY <1>0 DEF CondemnedInSession
<1>2. call'[t] = c /\ \A u \in Thread : u # t => call'[u] = call[u]
  BY OneCall
<1>3. \A q \in Session : call'[t] # Stopping(q) /\ (call[t] = Stopping(q) <=> q = s)
  BY <1>2, CallsDiffer
<1>4. \A q \in Session : q # s => (q \in condemned' <=> q \in condemned)
  BY <1>2, <1>3, CondemnedIs, CondemnedBecomes
<1>5. t = Rx(s) \/ t = Tx(s) => (s \in condemned' <=> s \in condemned)
  BY <1>2, <1>3, CondemnedIs, CondemnedBecomes
<1>6. t # Rx(s) /\ t # Tx(s) => s \in condemned
  BY CondemnedIs
<1>7. (s \in condemned' <=> s \in condemned) => condemned' = condemned
  BY <1>1, <1>4
<1>8. s \notin condemned' => condemned' = condemned \ {s}
  BY <1>1, <1>4
<1> QED
  BY <1>5, <1>6, <1>7, <1>8

-----------------------------------------------------------------------------
(* The refinement: each step of a thread is one of a session, or none. *)

Mapped == Clients!Next \/ UNCHANGED Clients!vars

\* Nothing happens that the clients of the registry can tell.
LEMMA Stutter ==
    ASSUME SessionOK, SessionOK',
           UNCHANGED << streams, objects, running, flags >>,
           late' = late, condemned' = condemned,
           \A t \in Thread : call'[t] = call[t] \/ (~Past(t) /\ ~Past(t)')
    PROVE  Mapped
<1>1. life' = life
  BY LifeKept
<1> QED
  BY <1>1 DEF Mapped, Clients!vars, Clients!sessionVars, flags, Off

LEMMA InitMaps ==
    ASSUME Init
    PROVE  Clients!Init
<1>1. SessionOK
  BY SessionInit
<1>2. \A s \in Session : life[s] = "none"
  BY <1>1, LifeIs DEF Init, RegistryInit
<1>3. life = [s \in Session |-> "none"]
  BY <1>2 DEF life
<1>4. condemned = {}
  <2>1. \A s \in Session : s \notin condemned
    BY CondemnedIs, CallsDiffer, Threads DEF Init
  <2> QED
    BY <1>1, <2>1, CondemnedType DEF SessionOK, CondemnedInSession
<1>5. late = {}
  BY DEF late, Init, RegistryInit
<1>6. Clients!RegistryInit
  BY DEF Init, RegistryInit, Vacant, Fresh, Clients!RegistryInit, Clients!Vacant, Clients!Fresh
<1> QED
  BY <1>3, <1>4, <1>5, <1>6 DEF Init, Clients!Init, Off

\* stop(): the exchange is that of StopSelf or StopOther, or comes too late; what
\* follows it is StopUnregister and StopUnsubscribe; closing the socket is nothing
\* to the registry.
LEMMA StopMaps ==
    ASSUME SessionOK, SessionOK', NEW t \in Thread, StopStep(t)
    PROVE  Mapped
<1>s. PICK s \in objects : s = call[t].of
  <2>1. call[t].at # "idle"
    BY DEF StopStep, StopExchange, StopUnregister, StopUnsubscribe, StopClose
  <2> QED
    BY <2>1, CallsDiffer DEF SessionOK, Held, Free
<1>1. s \in Session /\ s \in objects /\ s = call[t].of
  BY <1>s DEF SessionOK, SessionTypes
<1>t. SessionTypes /\ SessionTypes'
  BY DEF SessionOK
<1>2. CASE StopExchange(t)
  <2>1. PICK c \in {[call[t] EXCEPT !.at = "unregister"], NoCall} :
            /\ call' = [call EXCEPT ![t] = c]
            /\ s \in running => c = [call[t] EXCEPT !.at = "unregister"]
            /\ s \notin running => c = NoCall
    BY <1>1, <1>2 DEF StopExchange
  <2>2. /\ call'[t] = c /\ \A u \in Thread : u # t => call'[u] = call[u]
        /\ c.at # "exchange" /\ call[t] = Stopping(s)
    BY <1>1, <1>2, <1>t, <2>1, OneCall, CallsDiffer DEF StopExchange, SessionTypes, Stopping
  <2>3. /\ t = Rx(s) \/ t = Tx(s) => condemned' = condemned
        /\ t # Rx(s) /\ t # Tx(s) =>
               s \in condemned /\ condemned' \in {condemned, condemned \ {s}}
    <3>1. UNCHANGED todo
      BY <1>2 DEF StopExchange
    <3>2. call' = [call EXCEPT ![t] = c] /\ c.at # "exchange" /\ call[t] = Stopping(s)
      BY <2>1, <2>2
    <3>3. s \in Session
      BY <1>1
    <3> QED
      BY <1>t, <3>1, <3>2, <3>3, CondemnedEnds
  <2>4. UNCHANGED << streams, objects, rx, key, publishing, playing >> /\ running' = running \ {s}
    BY <1>1, <1>2 DEF StopExchange, flags
  <2>5. CASE s \in running
    <3>1. /\ life[s] = "running"
          /\ life' = [life EXCEPT ![s] = "stopping"]
      <4>1. life[s] = "running"
        BY <1>1, <2>5, LifeIs
      <4>2. At1(s, {"unregister"})'
        BY <1>1, <1>t, <2>1, <2>2, <2>5 DEF At1, SessionTypes
      <4>3. life'[s] = "stopping"
        BY <1>1, <4>2, LifeBecomes
      <4>4. ASSUME NEW p \in Session, p # s PROVE life'[p] = life[p]
        <5>1. call[t].of = s /\ call'[t].of = s
          BY <1>1, <1>t, <2>1, <2>2, <2>5 DEF SessionTypes
        <5> QED
          BY <1>1, <2>2, <2>4, <4>4, <5>1, LifeStays
      <4> QED
        BY <1>1, <4>1, <4>3, <4>4, LifeMoves
    <3>2. late' \in {late, late \cup {s}}
      <4>1. late' = IF rx[s] \in {"recv", "delete"} THEN late \cup {s} ELSE late
        BY <1>1, <2>4, <2>5 DEF late, SessionOK, SessionTypes
      <4> QED
        BY <1>1, <4>1
    <3>3. Clients!StopExchange(s)
      BY <1>1, <2>4, <3>1, <3>2 DEF Clients!StopExchange, Off
    <3>4. Clients!StopSelf(s) \/ Clients!StopOther(s)
      BY <1>1, <2>3, <3>3 DEF Clients!StopSelf, Clients!StopOther
    <3> QED
      BY <1>1, <3>4 DEF Mapped, Clients!Next
  <2>6. CASE s \notin running
    <3>1. \A u \in Thread : call'[u] = call[u] \/ (~Past(u) /\ ~Past(u)')
      BY <1>1, <2>1, <2>2, <2>6, CallsDiffer DEF Past
    <3>2. running' = running
      BY <1>1, <2>4, <2>6
    <3>3. late' = late /\ life' = life
      BY <1>1, <2>4, <3>1, <3>2, LateKept, LifeKept
    <3>4. CASE t = Rx(s) \/ t = Tx(s)
      BY <1>1, <2>3, <2>4, <3>1, <3>2, <3>3, <3>4, Stutter DEF flags
    <3>5. CASE t # Rx(s) /\ t # Tx(s)
      <4>1. life[s] # "running"
        BY <1>1, <2>6, LifeIs DEF SessionOK
      <4>2. Clients!StopOther(s)
        BY <1>1, <2>3, <2>4, <3>3, <3>5, <4>1 DEF Clients!StopOther, Clients!sessionVars, Off
      <4> QED
        BY <1>1, <4>2 DEF Mapped, Clients!Next
    <3> QED
      BY <1>1, <3>4, <3>5
  <2> QED
    BY <1>1, <2>5, <2>6
<1>3. CASE StopUnregister(t) \/ StopUnsubscribe(t) \/ StopClose(t)
  <2>1. PICK c \in {[call[t] EXCEPT !.at = "unsubscribe"], [call[t] EXCEPT !.at = "close"], NoCall} :
            /\ call' = [call EXCEPT ![t] = c]
            /\ StopUnregister(t) => c = [call[t] EXCEPT !.at = "unsubscribe"]
            /\ StopUnsubscribe(t) => c = [call[t] EXCEPT !.at = "close"]
            /\ StopClose(t) => c = NoCall
    BY <1>1, <1>3 DEF StopUnregister, StopUnsubscribe, StopClose
  <2>2. /\ call'[t] = c /\ \A u \in Thread : u # t => call'[u] = call[u]
        /\ \A u \in Thread : u # t => (Past(u)' <=> Past(u))
        /\ c.of \in {s, NoSession} /\ Past(t) /\ call[t].at # "exchange" /\ c.at # "exchange"
    BY <1>1, <1>3, <1>t, <2>1, OneCall, CallsDiffer
       DEF StopUnregister, StopUnsubscribe, StopClose, SessionTypes, Past
  <2>3. \A u \in Thread : u # t /\ Past(u) => call[u].of # s
    BY <1>1, <2>2 DEF SessionOK, Alone
  <2>4. UNCHANGED << objects, running, rx, todo, key, publishing, playing >>
    BY <1>1, <1>3 DEF StopUnregister, StopUnsubscribe, StopClose, flags
  <2>5. late' = late
    BY <1>1, <2>4, LateKept
  <2>6. condemned' = condemned
    <3>1. ASSUME NEW p \in Session PROVE p \in condemned' <=> p \in condemned
      <4>1. call[t] # Stopping(p) /\ call'[t] # Stopping(p)
        BY <1>1, <2>2, CallsDiffer
      <4> QED
        BY <1>1, <2>2, <2>4, <4>1, CondemnedIs, CondemnedBecomes
    <3>2. CondemnedInSession /\ CondemnedInSession'
      BY <1>t, CondemnedType, PTL
    <3> QED
      BY <1>1, <3>1, <3>2 DEF CondemnedInSession
  <2>7. \A p \in Session : p # s => life'[p] = life[p]
    <3>1. ASSUME NEW p \in Session, p # s PROVE life'[p] = life[p]
      <4>1. call[t].of = s /\ call'[t].of # p
        BY <1>1, <2>2, <3>1, NoSessionAssumption
      <4> QED
        BY <1>1, <2>2, <2>4, <3>1, <4>1, LifeStays
    <3> QED
      BY <1>1, <3>1
  <2>8. s \notin running
    BY <1>1, <2>2 DEF SessionOK, Alone
  <2>9. CASE StopUnregister(t)
    <3>1. life[s] = "stopping"
      BY <1>1, <2>9, LifeIs DEF StopUnregister, At1
    <3>2. At1(s, {"unsubscribe"})'
      BY <1>1, <1>t, <2>1, <2>2, <2>9 DEF At1, SessionTypes
    <3>3. life' = [life EXCEPT ![s] = "unregistered"]
      BY <1>1, <2>7, <3>2, LifeBecomes, LifeMoves
    <3>4. Clients!StopUnregister(s)
      BY <1>1, <2>4, <2>5, <2>6, <2>9, <3>1, <3>3, SameOperations
         DEF StopUnregister, Clients!StopUnregister, Off
    <3> QED
      BY <1>1, <3>4 DEF Mapped, Clients!Next
  <2>10. \A u \in Thread : call'[u].of = s /\ call'[u].at \in {"unregister", "unsubscribe"} =>
             u = t
    BY <1>1, <2>2, <2>3 DEF Past
  <2>11. CASE StopUnsubscribe(t)
    <3>1. life[s] = "unregistered"
      BY <1>1, <2>11, LifeIs DEF StopUnsubscribe, At1
    <3>2. c.at = "close"
      BY <1>1, <1>t, <2>1, <2>11 DEF SessionTypes
    <3>3. ~At1(s, {"unregister"})' /\ ~At1(s, {"unsubscribe"})'
      BY <1>1, <2>2, <2>10, <3>2 DEF At1
    <3>4. life' = [life EXCEPT ![s] = "closed"]
      BY <1>1, <2>4, <2>7, <2>8, <3>3, LifeBecomes, LifeMoves
    <3>5. Clients!StopUnsubscribe(s)
      BY <1>1, <2>4, <2>5, <2>6, <2>11, <3>1, <3>4, SameOperations
         DEF StopUnsubscribe, Clients!StopUnsubscribe, Off
    <3> QED
      BY <1>1, <3>5 DEF Mapped, Clients!Next
  <2>12. CASE StopClose(t)
    <3>1. ~At1(s, {"unregister"}) /\ ~At1(s, {"unsubscribe"})
      BY <1>1, <2>3, <2>12 DEF At1, Past, StopClose
    <3>2. ~At1(s, {"unregister"})' /\ ~At1(s, {"unsubscribe"})'
      BY <1>1, <2>1, <2>2, <2>10, <2>12, CallsDiffer DEF At1
    <3>3. life'[s] = "closed" /\ life[s] = "closed"
      BY <1>1, <2>4, <2>8, <3>1, <3>2, LifeIs, LifeBecomes
    <3>4. life' = life
      BY <1>1, <2>7, <3>3, LifeSame
    <3> QED
      BY <1>1, <2>4, <2>5, <2>6, <2>12, <3>4
         DEF StopClose, Mapped, Clients!vars, Clients!sessionVars, Off
  <2> QED
    BY <1>1, <1>3, <2>9, <2>11, <2>12
<1> QED
  BY <1>2, <1>3 DEF StopStep

\* A session begins as Connect and goes as Destroy.
LEMMA MemoryMaps ==
    ASSUME SessionOK, SessionOK', NEW s \in Session, Accept(s) \/ Destroy(s)
    PROVE  Mapped
<1>t. SessionTypes /\ SessionTypes' /\ UNCHANGED << streams, call, todo >>
  BY DEF SessionOK, Accept, Destroy
<1>1. condemned' = condemned
  BY <1>t, CondemnedKept
<1>2. ASSUME NEW p \in Session, p # s PROVE life'[p] = life[p]
  <2>1. (p \in objects' <=> p \in objects) /\ (p \in running' <=> p \in running)
    BY <1>2 DEF Accept, Destroy
  <2> QED
    BY <1>t, <2>1, LifeStays
<1>3. CASE Accept(s)
  <2>1. life[s] = "none" /\ life'[s] = "running"
    BY <1>3, LifeIs, LifeBecomes DEF Accept
  <2>2. life' = [life EXCEPT ![s] = "running"]
    BY <1>2, <2>1, LifeMoves
  <2>3. late' = late
    BY <1>3, <1>t DEF Accept, late, SessionTypes
  <2>4. Clients!Connect(s)
    BY <1>3, <1>1, <2>1, <2>2, <2>3 DEF Accept, Clients!Connect, Off, flags
  <2> QED
    BY <2>4 DEF Mapped, Clients!Next
<1>4. CASE Destroy(s)
  <2>1. /\ s \notin running
        /\ \A t \in Thread : call[t].of # s /\ s \notin todo[t]
    BY <1>4 DEF Destroy, SessionOK, Places
  <2>2. life[s] = "closed"
    <3>1. ~At1(s, {"unregister"}) /\ ~At1(s, {"unsubscribe"})
      BY <2>1 DEF At1
    <3> QED
      BY <1>4, <2>1, <3>1, LifeIs DEF Destroy
  <2>3. life'[s] = "none"
    BY <1>4, LifeBecomes DEF Destroy
  <2>4. life' = [life EXCEPT ![s] = "none"]
    BY <1>2, <2>3, LifeMoves
  <2>5. s \notin condemned
    BY <2>1, Threads, CondemnedIs, CallsDiffer
  <2>6. s \notin late /\ late' = late
    BY <1>4, <1>t, <2>1 DEF Destroy, late, SessionTypes
  <2>7. Clients!Destroy(s)
    BY <1>4, <1>1, <2>2, <2>4, <2>5, <2>6 DEF Destroy, Clients!Destroy, Off
  <2> QED
    BY <2>7 DEF Mapped, Clients!Next
<1> QED
  BY <1>3, <1>4

\* A handler is one of the abstract session's, or nothing to it.
LEMMA HandleMaps ==
    ASSUME SessionOK, SessionOK', NEW s \in Session, Handle(s), ~BadChunkSize
    PROVE  Mapped
<1>t. /\ SessionTypes /\ SessionTypes'
      /\ Rx(s) \in Thread /\ \A o \in Operators : o \in Thread /\ o # Rx(s)
  BY Threads DEF SessionOK
<1>0. ASSUME RxHandles(s) \/ RxAt(s, "delete")
      PROVE  /\ s \in objects /\ Free(Rx(s))
             /\ life[s] = "running" \/ s \in late
  BY <1>0, LifeIs DEF RxHandles, RxAt, SessionOK, Held, late
<1>1. ASSUME NEW k \in Key, HandlePublish(s, k) PROVE Mapped
  <2>1. /\ UNCHANGED << objects, running, playing, todo >> /\ rx' = [rx EXCEPT ![s] = "check"]
        /\ Free(Rx(s)) /\ (life[s] = "running" \/ s \in late)
    BY <1>0, <1>1 DEF HandlePublish, RxTo
  <2>2. late' = late \ {s}
    BY <1>t, <2>1, LateEnds
  <2>3. /\ \A t \in Thread : call'[t] = call[t] \/ (~Past(t) /\ ~Past(t)')
        /\ condemned' = condemned \cup Displaced(k, s)
    <3>1. CASE Displaced(k, s) = {} /\ UNCHANGED call
      BY <1>t, <2>1, <3>1, CondemnedKept
    <3>2. ASSUME NEW p \in Displaced(k, s), call' = [call EXCEPT ![Rx(s)] = Stopping(p)]
          PROVE  /\ \A t \in Thread : call'[t] = call[t] \/ (~Past(t) /\ ~Past(t)')
                 /\ condemned' = condemned \cup Displaced(k, s)
      <4>1. p \in Session /\ p # s /\ Displaced(k, s) = {p}
        BY <1>t DEF Displaced, SessionTypes
      <4>2. Rx(s) # Rx(p) /\ Rx(s) # Tx(p)
        BY <4>1, Threads
      <4>3. condemned' = condemned \cup {p}
        BY <1>t, <2>1, <3>2, <4>1, <4>2, CondemnedBegins
      <4>4. \A t \in Thread : call'[t] = call[t] \/ (~Past(t) /\ ~Past(t)')
        BY <1>t, <2>1, <3>2, OneCall, CallsDiffer DEF Past, Free
      <4> QED
        BY <4>1, <4>3, <4>4
    <3> QED
      BY <1>1, <3>1, <3>2 DEF HandlePublish
  <2>4. life' = life
    BY <2>1, <2>3, LifeKept
  <2>5. Clients!OnPublish(s, k)
    BY <1>1, <2>1, <2>2, <2>3, <2>4, SameOperations
       DEF HandlePublish, Clients!OnPublish, Clients!Handles, Off
  <2> QED
    BY <2>5 DEF Mapped, Clients!Next
<1>2. ASSUME NEW at, at \notin {"recv"}, at = "delete" => rx[s] # "delete",
             rx' = [rx EXCEPT ![s] = at], RxHandles(s) \/ RxAt(s, "delete"),
             UNCHANGED << objects, call, running >>,
             \A o \in Operators : todo'[o] = todo[o]
      PROVE  /\ late' = IF at = "delete" THEN late ELSE late \ {s}
             /\ life' = life /\ condemned' = condemned
  <2>1. life' = life
    BY <1>2, LifeKept
  <2>2. condemned' = condemned
    BY <1>2, <1>t, CondemnedKept
  <2>3. CASE at = "delete"
    <3>1. \A p \in objects : rx'[p] = IF p = s THEN at ELSE rx[p]
      BY <1>2, <1>t DEF SessionTypes
    <3>2. late' = late
      BY <1>2, <2>3, <3>1, LateKept DEF RxHandles, RxAt
    <3> QED
      BY <2>1, <2>2, <2>3, <3>2
  <2>4. CASE at # "delete"
    BY <1>2, <1>t, <2>1, <2>2, <2>4, LateEnds
  <2> QED
    BY <2>3, <2>4
<1>3. ASSUME NEW k \in Key, HandlePlay(s, k) PROVE Mapped
  <2>1. \A o \in Operators : todo'[o] = todo[o]
    BY <1>3, <1>t DEF HandlePlay, SessionTypes
  <2>2. late' = late \ {s} /\ life' = life /\ condemned' = condemned
    <3>1. PICK at \in {"fanout"} : rx' = [rx EXCEPT ![s] = at]
      BY <1>3 DEF HandlePlay, RxTo
    <3>2. RxHandles(s) /\ UNCHANGED << objects, call, running >>
      BY <1>3 DEF HandlePlay
    <3> QED
      BY <1>2, <2>1, <3>1, <3>2
  <2>3. Clients!OnPlay(s, k)
    BY <1>0, <1>3, <2>2, SameOperations
       DEF HandlePlay, Clients!OnPlay, Clients!Handles, Off
  <2> QED
    BY <2>3 DEF Mapped, Clients!Next
<1>4. ASSUME HandleFcUnpublish(s) \/ HandleDeletePublisher(s) PROVE Mapped
  <2>1. PICK at \in {"check", "delete"} :
            rx' = [rx EXCEPT ![s] = at] /\ (at = "delete" => s \in playing)
    BY <1>4 DEF HandleFcUnpublish, HandleDeletePublisher, RxTo
  <2>2. /\ RxHandles(s) /\ s \in publishing /\ UnregisterPublisher(s)
        /\ publishing' = publishing \ {s}
        /\ UNCHANGED << objects, call, todo, running, key, playing >>
    BY <1>4 DEF HandleFcUnpublish, HandleDeletePublisher
  <2>3. /\ late' = IF at = "delete" THEN late ELSE late \ {s}
        /\ life' = life /\ condemned' = condemned
    BY <1>2, <2>1, <2>2 DEF RxHandles, RxAt
  <2>4. late' \in {late \ {s}} \cup (IF s \in playing THEN {late} ELSE {})
    BY <2>1, <2>3
  <2>5. Clients!Unpublish(s)
    BY <1>0, <2>2, <2>3, <2>4, SameOperations DEF Clients!Unpublish, Off
  <2> QED
    BY <2>5 DEF Mapped, Clients!Next
<1>5. ASSUME HandleDeletePlayer(s) PROVE Mapped
  <2>1. /\ s \in playing \ publishing /\ (RxAt(s, "delete") \/ RxHandles(s))
        /\ RemoveSubscriber(s) /\ playing' = playing \ {s}
        /\ rx' = [rx EXCEPT ![s] = "check"]
        /\ UNCHANGED << objects, call, todo, running, key, publishing >>
    BY <1>5 DEF HandleDeletePlayer, RxTo, RxAt, SessionOK, Places
  <2>2. late' = late \ {s} /\ life' = life /\ condemned' = condemned
    <3>1. PICK at \in {"check"} : rx' = [rx EXCEPT ![s] = at]
      BY <2>1
    <3> QED
      BY <1>2, <2>1, <3>1
  <2>3. Clients!StopPlaying(s)
    BY <1>0, <2>1, <2>2, SameOperations DEF Clients!StopPlaying, Clients!Handles, Off
  <2> QED
    BY <2>3 DEF Mapped, Clients!Next
<1>6. ASSUME NEW m \in MediaKinds, HandleMedia(s, m) PROVE Mapped
  <2>1. \A o \in Operators : todo'[o] = todo[o]
    BY <1>6, <1>t DEF HandleMedia, SessionTypes
  <2>2. late' = late \ {s} /\ life' = life /\ condemned' = condemned
    <3>1. PICK at \in {"fanout"} : rx' = [rx EXCEPT ![s] = at]
      BY <1>6 DEF HandleMedia, RxTo
    <3>2. RxHandles(s) /\ UNCHANGED << objects, call, running >>
      BY <1>6 DEF HandleMedia
    <3> QED
      BY <1>2, <2>1, <3>1, <3>2
  <2>3. Clients!OnMedia(s, m)
    BY <1>0, <1>6, <2>2, SameOperations
       DEF HandleMedia, Clients!OnMedia, Clients!Handles, Off, flags
  <2> QED
    BY <2>3 DEF Mapped, Clients!Next
<1>7. ASSUME HandleOther(s) PROVE Mapped
  <2>1. UNCHANGED << streams, objects, call, todo, running, flags >>
    BY <1>7 DEF HandleOther
  <2>2. late' = late \ {s} /\ life' = life /\ condemned' = condemned
    <3>1. PICK at \in {"check"} : RxHandles(s) /\ rx' = [rx EXCEPT ![s] = at]
      BY <1>7 DEF HandleOther, RxTo
    <3> QED
      BY <1>2, <2>1, <3>1
  <2>3. CASE s \in late
    <3>1. Clients!OtherMessage(s)
      BY <2>1, <2>2, <2>3 DEF Clients!OtherMessage, Clients!Handles, Off, flags
    <3> QED
      BY <3>1 DEF Mapped, Clients!Next
  <2>4. CASE s \notin late
    BY <2>1, <2>2, <2>4, Stutter
  <2> QED
    BY <2>3, <2>4
<1> QED
  BY <1>1, <1>3, <1>4, <1>5, <1>6, <1>7 DEF Handle, HandleBadChunkSize

\* The loops of the threads: an rx thread that leaves has handled its last message,
\* one that finds a player too slow condemns it, and the rest is nothing to the
\* registry.
LEMMA ThreadMaps ==
    ASSUME SessionOK, SessionOK', NEW s \in Session,
           RxFail(s) \/ RxStep(s) \/ TxStep(s) \/ SpuriousWakeup(s) \/ PeerGone(s)
    PROVE  Mapped
<1>t. /\ SessionTypes /\ SessionTypes' /\ Rx(s) \in Thread /\ Tx(s) \in Thread
      /\ \A o \in Operators : o \in Thread /\ o # Rx(s)
  BY Threads DEF SessionOK
<1>s. UNCHANGED << streams, objects, running, flags >>
  BY DEF RxFail, RxStep, RxCheck, FanOut, FanOutEnd, RxDone, TxStep, TxLook, TxBlock,
         TxSend, TxEnd, SpuriousWakeup, PeerGone
<1>o. \A o \in Operators : todo'[o] = todo[o]
  BY <1>t DEF RxFail, RxStep, RxCheck, FanOut, FanOutEnd, RxDone, TxStep, TxLook, TxBlock,
              TxSend, TxEnd, SpuriousWakeup, PeerGone, threadVars, SessionTypes
<1>1. ASSUME NEW t \in {Rx(s), Tx(s)}, Free(t), call' = [call EXCEPT ![t] = Stopping(s)]
      PROVE  /\ condemned' = condemned
             /\ \A u \in Thread : call'[u] = call[u] \/ (~Past(u) /\ ~Past(u)')
  <2>1. condemned' = condemned
    BY <1>t, <1>o, <1>1, CondemnedBegins
  <2>2. \A u \in Thread : call'[u] = call[u] \/ (~Past(u) /\ ~Past(u)')
    BY <1>t, <1>1, OneCall, CallsDiffer DEF Past, Free
  <2> QED
    BY <2>1, <2>2
<1>2. UNCHANGED call => condemned' = condemned
  BY <1>t, <1>o, CondemnedKept
<1>3. UNCHANGED rx => late' = late
  BY <1>s, LateKept
<1>4. CASE RxFail(s)
  <2>1. PICK at \in {"exit"} :
            /\ rx' = [rx EXCEPT ![s] = at]
            /\ rx[s] = "recv" /\ Free(Rx(s)) /\ call' = [call EXCEPT ![Rx(s)] = Stopping(s)]
    BY <1>4 DEF RxFail, RxLeave, RxTo, RxAt
  <2>2. late' = late \ {s}
    BY <1>t, <1>s, <2>1, LateEnds
  <2>3. /\ condemned' = condemned
        /\ \A u \in Thread : call'[u] = call[u] \/ (~Past(u) /\ ~Past(u)')
    BY <1>1, <2>1
  <2>4. life' = life
    BY <1>s, <2>3, LifeKept
  <2>5. CASE s \in late
    <3>1. Clients!OtherMessage(s)
      BY <1>s, <2>2, <2>3, <2>4, <2>5 DEF Clients!OtherMessage, Clients!Handles, Off, flags
    <3> QED
      BY <3>1 DEF Mapped, Clients!Next
  <2>6. CASE s \notin late
    BY <1>s, <2>2, <2>3, <2>6, Stutter
  <2> QED
    BY <2>5, <2>6
<1>5. CASE RxCheck(s) \/ FanOutEnd(s) \/ RxDone(s)
  <2>1. /\ Free(Rx(s)) /\ rx[s] \in {"check", "fanout", "exit"}
        /\ UNCHANGED call \/ call' = [call EXCEPT ![Rx(s)] = Stopping(s)]
        /\ \E at \in RxPlace : /\ rx' = [rx EXCEPT ![s] = at]
                               /\ at \in {"recv", "delete"} => s \in running
    BY <1>5 DEF RxCheck, FanOutEnd, RxDone, RxLeave, RxTo, RxAt, RxPlace
  <2>2. late' = late
    <3>1. PICK at \in RxPlace : /\ rx' = [rx EXCEPT ![s] = at]
                                /\ at \in {"recv", "delete"} => s \in running
      BY <2>1
    <3>2. \A p \in objects : rx'[p] = IF p = s THEN at ELSE rx[p]
      BY <1>t, <3>1 DEF SessionTypes
    <3> QED
      BY <1>s, <2>1, <3>1, <3>2, LateKept
  <2> QED
    BY <1>s, <1>1, <1>2, <2>1, <2>2, Stutter
<1>6. CASE FanOut(s)
  <2>1. PICK v \in todo[Rx(s)] :
            \/ UNCHANGED call
            \/ v \in running /\ call' = [call EXCEPT ![Rx(s)] = Stopping(v)]
    BY <1>6 DEF FanOut
  <2>2. Free(Rx(s)) /\ UNCHANGED rx /\ v \in Session /\ v \in objects
    BY <1>t, <1>6 DEF FanOut, RxAt, SessionOK, SessionTypes, Held
  <2>3. CASE UNCHANGED call
    BY <1>s, <1>2, <1>3, <2>2, <2>3, Stutter
  <2>4. CASE v = s /\ call' = [call EXCEPT ![Rx(s)] = Stopping(v)]
    BY <1>s, <1>1, <1>3, <2>2, <2>4, Stutter
  <2>5. CASE v # s /\ call' = [call EXCEPT ![Rx(s)] = Stopping(v)]
    <3>1. Rx(s) # Rx(v) /\ Rx(s) # Tx(v)
      BY <2>2, <2>5, Threads
    <3>2. condemned' = condemned \cup {v}
      BY <1>t, <1>o, <2>2, <2>5, <3>1, CondemnedBegins
    <3>3. \A u \in Thread : call'[u] = call[u] \/ (~Past(u) /\ ~Past(u)')
      BY <1>t, <2>2, <2>5, OneCall, CallsDiffer DEF Past, Free
    <3>4. life' = life
      BY <1>s, <3>3, LifeKept
    <3>5. Clients!SlowPlayer(v)
      BY <1>s, <1>3, <2>2, <3>2, <3>4
         DEF Clients!SlowPlayer, Clients!sessionVars, Off, flags
    <3> QED
      BY <2>2, <3>5 DEF Mapped, Clients!Next
  <2> QED
    BY <2>1, <2>3, <2>4, <2>5
<1>7. CASE TxStep(s) \/ SpuriousWakeup(s) \/ PeerGone(s)
  <2>1. /\ UNCHANGED rx
        /\ \/ UNCHANGED call
           \/ Free(Tx(s)) /\ call' = [call EXCEPT ![Tx(s)] = Stopping(s)]
    BY <1>7 DEF TxStep, TxLook, TxBlock, TxSend, TxEnd, SpuriousWakeup, PeerGone, TxAt,
                threadVars
  <2> QED
    BY <1>s, <1>1, <1>2, <1>3, <2>1, Stutter
<1> QED
  BY <1>4, <1>5, <1>6, <1>7 DEF RxStep

\* An operator condemns the sessions it copies, and visits one of them after another.
LEMMA OperatorMaps ==
    ASSUME SessionOK, SessionOK', NEW o \in Operators,
           (\E k \in Key : DisconnectCopy(o, k)) \/ DisconnectNext(o)
    PROVE  Mapped
<1>t. /\ SessionTypes /\ SessionTypes' /\ o \in Thread
      /\ \A p \in Operators : p \in Thread
      /\ CondemnedInSession /\ CondemnedInSession'
  <2>1. CondemnedInSession /\ CondemnedInSession'
    BY CondemnedType, PTL DEF SessionOK
  <2> QED
    BY <2>1, Threads DEF SessionOK
<1>s. UNCHANGED << streams, objects, rx, running, flags >>
  BY DEF DisconnectCopy, DisconnectNext
<1>1. late' = late
  BY <1>s, LateKept
<1>2. ASSUME NEW k \in Key, DisconnectCopy(o, k) PROVE Mapped
  <2>1. UNCHANGED call /\ todo[o] = {} /\ todo' = [todo EXCEPT ![o] = Disconnected(k)]
    BY <1>2 DEF DisconnectCopy
  <2>2. \A p \in Operators : todo'[p] = IF p = o THEN Disconnected(k) ELSE todo[p]
    BY <1>t, <2>1 DEF SessionTypes
  <2>3. Disconnected(k) \subseteq Session
    BY <1>t DEF Disconnected, SessionTypes
  <2>4. \A p \in Session : p \in condemned' <=> p \in condemned \/ p \in Disconnected(k)
    BY <2>1, <2>2, CondemnedIs, CondemnedBecomes
  <2>5. condemned' = condemned \cup Disconnected(k)
    BY <1>t, <2>3, <2>4 DEF CondemnedInSession
  <2>6. life' = life
    BY <1>s, <2>1, LifeKept
  <2>7. Clients!Disconnect(k)
    BY <1>s, <1>1, <2>5, <2>6, SameOperations
       DEF Clients!Disconnect, Clients!sessionVars, Off, flags
  <2> QED
    BY <2>7 DEF Mapped, Clients!Next
<1>3. ASSUME DisconnectNext(o) PROVE Mapped
  <2>1. PICK s \in todo[o] : /\ todo' = [todo EXCEPT ![o] = @ \ {s}]
                             /\ call' = [call EXCEPT ![o] = Stopping(s)]
                             /\ Free(o)
    BY <1>3 DEF DisconnectNext
  <2>2. s \in Session /\ o # Rx(s) /\ o # Tx(s)
    BY <1>t, Threads DEF SessionTypes
  <2>3. /\ call'[o] = Stopping(s) /\ \A u \in Thread : u # o => call'[u] = call[u]
        /\ \A q \in Session : call[o] # Stopping(q) /\ (call'[o] = Stopping(q) <=> q = s)
    <3>1. call'[o] = Stopping(s) /\ \A u \in Thread : u # o => call'[u] = call[u]
      BY <1>t, <2>1, OneCall
    <3> QED
      BY <2>1, <3>1, CallsDiffer DEF Free
  <2>4. \A p \in Operators : todo'[p] = IF p = o THEN todo[o] \ {s} ELSE todo[p]
    BY <1>t, <2>1 DEF SessionTypes
  <2>5. ASSUME NEW p \in Session PROVE p \in condemned' <=> p \in condemned
    BY <1>t, <2>2, <2>3, <2>4, CondemnedIs, CondemnedBecomes
  <2>6. condemned' = condemned
    BY <1>t, <2>5 DEF CondemnedInSession
  <2>7. \A u \in Thread : call'[u] = call[u] \/ (~Past(u) /\ ~Past(u)')
    BY <1>t, <2>1, <2>3, CallsDiffer DEF Past, Free
  <2> QED
    BY <1>s, <1>1, <2>6, <2>7, Stutter
<1> QED
  BY <1>2, <1>3

\* For peers that send no invalid chunk size: whatever the threads of sessions and
\* operators do, in whichever order, the registry sees sessions that begin, call its
\* operations and are stopped as RegistryClients has it - each stopped once,
\* unregistered before unsubscribed, and not gone while anybody is about to stop it.
THEOREM SessionsImplementClients ==
    ASSUME ~BadChunkSize
    PROVE  Spec => ImplementsClients
<1>1. Init => Clients!Init
  BY InitMaps
<1>2. Inv /\ Inv' /\ [Next]_vars => [Clients!Next]_(Clients!vars)
  <2> SUFFICES ASSUME Inv, Inv', [Next]_vars PROVE Mapped
    BY DEF Mapped
  <2>1. SessionOK /\ SessionOK'
    BY DEF Inv
  <2>2. CASE Next
    BY <2>1, <2>2, StopMaps, MemoryMaps, HandleMaps, ThreadMaps, OperatorMaps DEF Next
  <2>3. CASE UNCHANGED vars
    <3>1. UNCHANGED << streams, objects, running, flags, rx, call, todo >>
      BY <2>3 DEF vars, threadVars
    <3>2. late' = late /\ condemned' = condemned
      BY <2>1, <3>1, LateKept, CondemnedKept DEF SessionOK
    <3> QED
      BY <2>1, <3>1, <3>2, Stutter
  <2> QED
    BY <2>2, <2>3
<1> QED
  BY <1>1, <1>2, InvHolds, PTL DEF Spec, ImplementsClients, Clients!Spec

=============================================================================
