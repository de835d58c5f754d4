----------------------- MODULE RegistryClientsProofs -----------------------
(***************************************************************************)
(* Proofs about the registry and its clients, for any number of sessions,  *)
(* ingests, viewers and keys.  Inv is inductive; each property of the      *)
(* module RegistryClients follows from it or is inductive relative to it.  *)
(***************************************************************************)
EXTENDS RegistryClients, StreamRegistryProofs

\* A client that uses the registry knows the key it uses it with.
KeyOK ==
    /\ \A s \in publishing : key[s] \in Key
    /\ \A i \in Ingests : ingest[i].phase # "off" => ingest[i].key \in Key
    /\ \A c \in Callback : viewer[c].phase # "off" => viewer[c].key \in Key

\* The clients' half of TypeOK, with KeyOK.
ClientOK ==
    /\ objects \subseteq Session
    /\ life \in [Session -> Life]
    /\ key \in [Session -> Key \cup {NoKey}]
    /\ publishing \subseteq Session
    /\ playing \subseteq Session
    /\ late \subseteq Session
    /\ condemned \subseteq Session
    /\ ingest \in [Ingests -> [phase : IngestPhase, key : Key \cup {NoKey}]]
    /\ viewer \in [Callback -> [phase : ViewerPhase, key : Key \cup {NoKey}]]
    /\ LifeOK
    /\ KeyOK

\* The inductive invariant: sound entries and clients that know where they are.
Inv == MapOK /\ ClientOK

\* The empty map and clients that have done nothing satisfy Inv.
LEMMA InitInv == Init => Inv
<1> SUFFICES ASSUME Init PROVE Inv
    OBVIOUS
<1>1. MapOK
    BY FreshSound DEF Init, RegistryInit, MapOK, Sound
<1>2. ClientOK
    BY DEF Init, RegistryInit, ClientOK, LifeOK, KeyOK, Life, IngestPhase, ViewerPhase
<1> QED
    BY <1>1, <1>2 DEF Inv

\* Every step keeps the entries of the map sound.
LEMMA MapStep == Inv /\ [Next]_vars => MapOK'
<1> SUFFICES ASSUME Inv, [Next]_vars PROVE MapOK'
    OBVIOUS
<1>a. MapOK /\ ClientOK
    BY DEF Inv
<1>b. UNCHANGED streams => MapOK'
    BY <1>a DEF MapOK
<1>c. External \subseteq Source /\ {"srt", "whip"} \subseteq Source
    BY DEF External, Source
<1>1. ASSUME NEW s \in Session, Connect(s) PROVE MapOK'
    BY <1>1, <1>b DEF Connect
<1>2. ASSUME NEW s \in Session, NEW k \in Key, OnPublish(s, k) PROVE MapOK'
    BY <1>2, <1>a, RegisterPublisherKeeps DEF OnPublish
<1>3. ASSUME NEW s \in Session, NEW k \in Key, OnPlay(s, k) PROVE MapOK'
    BY <1>3, <1>a, AddSubscriberKeeps DEF OnPlay
<1>4. ASSUME NEW s \in Session, Unpublish(s) PROVE MapOK'
    BY <1>4, <1>a, UnregisterPublisherKeeps DEF Unpublish
<1>5. ASSUME NEW s \in Session, StopPlaying(s) PROVE MapOK'
    BY <1>5, <1>a, RemoveSubscriberKeeps DEF StopPlaying
<1>6. ASSUME NEW s \in Session, NEW m \in MediaKinds, OnMedia(s, m) PROVE MapOK'
    BY <1>6, <1>a, PublishMediaKeeps, ClientsAssumption DEF OnMedia
<1>7. ASSUME NEW s \in Session,
             OtherMessage(s) \/ StopSelf(s) \/ StopOther(s) \/ Destroy(s) \/ SlowPlayer(s)
      PROVE  MapOK'
    BY <1>7, <1>b DEF OtherMessage, StopSelf, StopOther, StopExchange, Destroy, SlowPlayer
<1>8. ASSUME NEW s \in Session, StopUnregister(s) PROVE MapOK'
    BY <1>8, <1>a, UnregisterPublisherKeeps DEF StopUnregister
<1>9. ASSUME NEW s \in Session, StopUnsubscribe(s) PROVE MapOK'
    BY <1>9, <1>a, RemoveSubscriberKeeps DEF StopUnsubscribe
<1>10. ASSUME NEW i \in Ingests, NEW k \in Key, IngestBegin(i, k) PROVE MapOK'
    BY <1>10, <1>a, <1>c, BeginExternalPublishKeeps, ClientsAssumption DEF IngestBegin
<1>11. ASSUME NEW i \in Ingests, NEW k \in Key, IngestUpsert(i, k) PROVE MapOK'
    BY <1>11, <1>a, <1>c, UpsertExternalStreamKeeps, ClientsAssumption DEF IngestUpsert
<1>12. ASSUME NEW i \in Ingests, NEW m \in MediaKinds, IngestMedia(i, m) PROVE MapOK'
    <2>1. ingest[i].key \in Key
        BY <1>12, <1>a DEF IngestMedia, ClientOK, KeyOK
    <2> QED
        BY <1>12, <1>a, <1>c, <2>1, PublishExternalMediaKeeps, ClientsAssumption DEF IngestMedia
<1>13. ASSUME NEW i \in Ingests, IngestEnd(i) PROVE MapOK'
    BY <1>13, <1>a, RemoveExternalStreamKeeps DEF IngestEnd
<1>14. ASSUME NEW i \in Ingests, IngestClosed(i) PROVE MapOK'
    BY <1>14, <1>b DEF IngestClosed
<1>15. ASSUME NEW i \in Ingests, NEW k \in Key, IngestAbort(i, k) PROVE MapOK'
    BY <1>15, <1>a, RemoveExternalStreamKeeps DEF IngestAbort
<1>16. ASSUME NEW c \in Callback, NEW k \in Key, ViewerCount(c, k) PROVE MapOK'
    BY <1>16, <1>a, <1>c, UpdateExternalViewersKeeps DEF ViewerCount
<1>17. ASSUME NEW c \in Callback, NEW k \in Key, ViewerJoin(c, k) PROVE MapOK'
    BY <1>17, <1>a, AddCallbackKeeps, ClientsAssumption DEF ViewerJoin
<1>18. ASSUME NEW c \in Callback, ViewerLeave(c) PROVE MapOK'
    <2>1. viewer[c].key \in Key
        BY <1>18, <1>a DEF ViewerLeave, ClientOK, KeyOK
    <2> QED
        BY <1>18, <1>a, <2>1, RemoveCallbackKeeps DEF ViewerLeave
<1>19. ASSUME NEW c \in Callback, ViewerUncount(c) PROVE MapOK'
    <2>1. viewer[c].key \in Key
        BY <1>19, <1>a DEF ViewerUncount, ClientOK, KeyOK
    <2> QED
        BY <1>19, <1>a, <1>c, <2>1, UpdateExternalViewersKeeps DEF ViewerUncount
<1>20. ASSUME NEW k \in Key, Disconnect(k) PROVE MapOK'
    BY <1>20, <1>b DEF Disconnect
<1>21. ASSUME NEW k \in Key, TimePasses(k) PROVE MapOK'
    BY <1>21, <1>a, ElapseKeeps DEF TimePasses
<1>22. CASE Cleanup
    BY <1>22, <1>a, CleanupStaleKeeps DEF Cleanup
<1>23. CASE UNCHANGED vars
    BY <1>23, <1>b DEF vars, sessionVars
<1> QED
    BY <1>1, <1>2, <1>3, <1>4, <1>5, <1>6, <1>7, <1>8, <1>9, <1>10, <1>11, <1>12,
       <1>13, <1>14, <1>15, <1>16, <1>17, <1>18, <1>19, <1>20, <1>21, <1>22, <1>23
       DEF Next

\* Every step keeps the clients' own state consistent.
LEMMA ClientStep == Inv /\ [Next]_vars => ClientOK'
<1> SUFFICES ASSUME Inv, [Next]_vars PROVE ClientOK'
    OBVIOUS
<1>a. ClientOK
    BY DEF Inv
<1>1. ASSUME NEW s \in Session, Connect(s) PROVE ClientOK'
    BY <1>1, <1>a DEF ClientOK, LifeOK, KeyOK, Life, Connect
<1>2. ASSUME NEW s \in Session, NEW k \in Key, OnPublish(s, k) PROVE ClientOK'
    BY <1>2, <1>a DEF ClientOK, LifeOK, KeyOK, Life, OnPublish, Handles, Displaced
<1>3. ASSUME NEW s \in Session, NEW k \in Key, OnPlay(s, k) PROVE ClientOK'
    BY <1>3, <1>a DEF ClientOK, LifeOK, KeyOK, Life, OnPlay, Handles
<1>4. ASSUME NEW s \in Session, Unpublish(s) PROVE ClientOK'
    BY <1>4, <1>a DEF ClientOK, LifeOK, KeyOK, Life, Unpublish
<1>5. ASSUME NEW s \in Session, StopPlaying(s) PROVE ClientOK'
    BY <1>5, <1>a DEF ClientOK, LifeOK, KeyOK, Life, StopPlaying, Handles
<1>6. ASSUME NEW s \in Session, NEW m \in MediaKinds, OnMedia(s, m) PROVE ClientOK'
    BY <1>6, <1>a DEF ClientOK, LifeOK, KeyOK, Life, OnMedia, Handles
<1>7. ASSUME NEW s \in Session, OtherMessage(s) PROVE ClientOK'
    BY <1>7, <1>a DEF ClientOK, LifeOK, KeyOK, Life, OtherMessage, Handles
<1>8. ASSUME NEW s \in Session, StopSelf(s) PROVE ClientOK'
    BY <1>8, <1>a DEF ClientOK, LifeOK, KeyOK, Life, StopSelf, StopExchange
<1>9. ASSUME NEW s \in Session, StopOther(s) PROVE ClientOK'
    BY <1>9, <1>a DEF ClientOK, LifeOK, KeyOK, Life, StopOther, StopExchange, sessionVars
<1>10. ASSUME NEW s \in Session, StopUnregister(s) PROVE ClientOK'
    BY <1>10, <1>a DEF ClientOK, LifeOK, KeyOK, Life, StopUnregister
<1>11. ASSUME NEW s \in Session, StopUnsubscribe(s) PROVE ClientOK'
    BY <1>11, <1>a DEF ClientOK, LifeOK, KeyOK, Life, StopUnsubscribe
<1>12. ASSUME NEW s \in Session, Destroy(s) PROVE ClientOK'
    BY <1>12, <1>a DEF ClientOK, LifeOK, KeyOK, Life, Destroy
<1>13. ASSUME NEW s \in Session, SlowPlayer(s) PROVE ClientOK'
    BY <1>13, <1>a DEF ClientOK, LifeOK, KeyOK, Life, SlowPlayer, sessionVars
<1>14. ASSUME NEW i \in Ingests, NEW k \in Key, IngestBegin(i, k) PROVE ClientOK'
    BY <1>14, <1>a DEF ClientOK, LifeOK, KeyOK, Life, IngestBegin, IngestTo, IngestPhase, sessionVars
<1>15. ASSUME NEW i \in Ingests, NEW k \in Key, IngestUpsert(i, k) PROVE ClientOK'
    BY <1>15, <1>a DEF ClientOK, LifeOK, KeyOK, Life, IngestUpsert, IngestTo, IngestPhase, sessionVars
<1>16. ASSUME NEW i \in Ingests, NEW m \in MediaKinds, IngestMedia(i, m) PROVE ClientOK'
    BY <1>16, <1>a DEF ClientOK, LifeOK, KeyOK, Life, IngestMedia, IngestPhase, sessionVars
<1>17. ASSUME NEW i \in Ingests, IngestEnd(i) PROVE ClientOK'
    BY <1>17, <1>a DEF ClientOK, LifeOK, KeyOK, Life, IngestEnd, IngestTo, IngestPhase, sessionVars
<1>18. ASSUME NEW i \in Ingests, IngestClosed(i) PROVE ClientOK'
    BY <1>18, <1>a DEF ClientOK, LifeOK, KeyOK, Life, IngestClosed, IngestTo, IngestPhase, sessionVars
<1>19. ASSUME NEW i \in Ingests, NEW k \in Key, IngestAbort(i, k) PROVE ClientOK'
    BY <1>19, <1>a DEF ClientOK, LifeOK, KeyOK, Life, IngestAbort, sessionVars
<1>20. ASSUME NEW c \in Callback, NEW k \in Key, ViewerCount(c, k) PROVE ClientOK'
    BY <1>20, <1>a DEF ClientOK, LifeOK, KeyOK, Life, ViewerCount, ViewerTo, ViewerPhase, sessionVars
<1>21. ASSUME NEW c \in Callback, NEW k \in Key, ViewerJoin(c, k) PROVE ClientOK'
    BY <1>21, <1>a DEF ClientOK, LifeOK, KeyOK, Life, ViewerJoin, ViewerTo, ViewerPhase, sessionVars
<1>22. ASSUME NEW c \in Callback, ViewerLeave(c) PROVE ClientOK'
    BY <1>22, <1>a DEF ClientOK, LifeOK, KeyOK, Life, ViewerLeave, ViewerTo, ViewerPhase, sessionVars
<1>23. ASSUME NEW c \in Callback, ViewerUncount(c) PROVE ClientOK'
    BY <1>23, <1>a DEF ClientOK, LifeOK, KeyOK, Life, ViewerUncount, ViewerTo, ViewerPhase, sessionVars
<1>24. ASSUME NEW k \in Key, Disconnect(k) PROVE ClientOK'
    BY <1>24, <1>a DEF ClientOK, LifeOK, KeyOK, Life, Disconnect, Disconnected, sessionVars
<1>25. ASSUME NEW k \in Key, TimePasses(k) PROVE ClientOK'
    BY <1>25, <1>a DEF ClientOK, LifeOK, KeyOK, Life, TimePasses, sessionVars
<1>26. CASE Cleanup
    BY <1>26, <1>a DEF ClientOK, LifeOK, KeyOK, Life, Cleanup, sessionVars
<1>27. CASE UNCHANGED vars
    BY <1>27, <1>a DEF ClientOK, LifeOK, KeyOK, Life, vars, sessionVars
<1> QED
    BY <1>1, <1>2, <1>3, <1>4, <1>5, <1>6, <1>7, <1>8, <1>9, <1>10, <1>11, <1>12,
       <1>13, <1>14, <1>15, <1>16, <1>17, <1>18, <1>19, <1>20, <1>21, <1>22, <1>23, <1>24, <1>25, <1>26, <1>27
       DEF Next

\* Inv is inductive.
THEOREM InvHolds == Spec => []Inv
<1>1. Inv /\ [Next]_vars => Inv'
    BY MapStep, ClientStep DEF Inv
<1> QED
    BY InitInv, <1>1, PTL DEF Spec

\* Registry and clients are type-correct in every reachable state, and a session
\* that somebody is about to stop, or that publishes or plays, is in memory.
THEOREM TypeCorrect == Spec => []TypeOK
<1>1. Inv => TypeOK
    BY DEF Inv, MapOK, ClientOK, TypeOK, RegistryTypeOK
<1> QED
    BY <1>1, InvHolds, PTL

\* GopCache for any capacity: the keyframe is the first packet of the cache and
\* gone only when the cache is full.
THEOREM KeyframeFirst == Spec => []GopStartsAtKeyframe
<1>1. Inv => GopStartsAtKeyframe
    BY DEF Inv, MapOK, Sound, GopOK, GopStartsAtKeyframe
<1> QED
    BY <1>1, InvHolds, PTL

-----------------------------------------------------------------------------
(* What the steps leave registered.  Claims, Listens and Attached are the   *)
(* clients whose registrations the two properties are about; no step takes  *)
(* a registration of one of them that it does not also put out of the set.  *)

Claims == {s \in publishing \ condemned : life[s] = "running"}
Listens == {s \in playing : life[s] = "running"}
Attached == {c \in Callback : viewer[c].phase = "joined"}
OtherIds == {IdOf[c] : c \in Callback \ Attached}

StepKept == KeepsBut(Session \ Claims', Session \ Listens', OtherIds')

\* Keeping the registrations of more clients than Claims, Listens and Attached name
\* is enough.
LEMMA KeepsLess ==
    ASSUME NEW P, NEW S, NEW C, KeepsBut(P, S, C), ClientOK,
           P \cap Claims' = {}, S \cap Listens' = {}, C \subseteq OtherIds'
    PROVE  StepKept
<1> DEFINE P2 == Session \ Claims'
           S2 == Session \ Listens'
           C2 == OtherIds'
<1>1. objects \ P2 \subseteq objects \ P /\ objects \ S2 \subseteq objects \ S
    BY DEF ClientOK
<1>2. C \subseteq C2
    OBVIOUS
<1> HIDE DEF P2, S2, C2
<1>3. KeepsBut(P2, S2, C2)
    BY <1>1, <1>2 DEF KeepsBut
<1> QED
    BY <1>3 DEF StepKept, P2, S2, C2

\* A step that does not touch the map keeps all registrations.
LEMMA UnchangedKeeps == UNCHANGED streams => KeepsBut({}, {}, {})
BY DEF KeepsBut

\* No step takes the registration of a client that is in Claims, Listens or
\* Attached after it.
LEMMA StepKeeps ==
    ASSUME Inv, [Next]_vars
    PROVE  StepKept
<1>a. MapOK /\ ClientOK
    BY DEF Inv
<1>b. KeepsBut({}, {}, {}) => StepKept
    BY <1>a, KeepsLess
<1>c. External \subseteq Source /\ {"srt", "whip"} \subseteq Source
    BY DEF External, Source
<1>1. ASSUME NEW s \in Session, NEW k \in Key, OnPublish(s, k) PROVE StepKept
    <2>1. KeepsBut(Displaced(k, s), {}, {})
        BY <1>1, <1>a, RegisterPublisherKeeps DEF OnPublish
    <2>2. Displaced(k, s) \cap Claims' = {}
        BY <1>1 DEF OnPublish, Claims
    <2> QED
        BY <1>a, <2>1, <2>2, KeepsLess
<1>2. ASSUME NEW s \in Session, Unpublish(s) PROVE StepKept
    <2>1. KeepsBut({s}, {}, {})
        BY <1>2, <1>a, UnregisterPublisherKeeps DEF Unpublish
    <2>2. {s} \cap Claims' = {}
        BY <1>2 DEF Unpublish, Claims
    <2> QED
        BY <1>a, <2>1, <2>2, KeepsLess
<1>3. ASSUME NEW s \in Session, StopUnregister(s) PROVE StepKept
    <2>1. KeepsBut({s}, {}, {})
        BY <1>3, <1>a, UnregisterPublisherKeeps DEF StopUnregister
    <2>2. {s} \cap Claims' = {}
        BY <1>3, <1>a DEF StopUnregister, Claims, ClientOK
    <2> QED
        BY <1>a, <2>1, <2>2, KeepsLess
<1>4. ASSUME NEW s \in Session, StopPlaying(s) PROVE StepKept
    <2>1. KeepsBut({}, {s}, {})
        BY <1>4, <1>a, RemoveSubscriberKeeps DEF StopPlaying
    <2>2. {s} \cap Listens' = {}
        BY <1>4 DEF StopPlaying, Listens
    <2> QED
        BY <1>a, <2>1, <2>2, KeepsLess
<1>5. ASSUME NEW s \in Session, StopUnsubscribe(s) PROVE StepKept
    <2>1. KeepsBut({}, {s}, {})
        BY <1>5, <1>a, RemoveSubscriberKeeps DEF StopUnsubscribe
    <2>2. {s} \cap Listens' = {}
        BY <1>5, <1>a DEF StopUnsubscribe, Listens, ClientOK
    <2> QED
        BY <1>a, <2>1, <2>2, KeepsLess
<1>6. ASSUME NEW c \in Callback, ViewerLeave(c) PROVE StepKept
    <2>1. viewer[c].key \in Key
        BY <1>6, <1>a DEF ViewerLeave, ClientOK, KeyOK
    <2>2. KeepsBut({}, {}, {IdOf[c]})
        BY <1>6, <1>a, <2>1, RemoveCallbackKeeps DEF ViewerLeave
    <2>3. {IdOf[c]} \subseteq OtherIds'
        <3>1. c \notin Attached'
            BY <1>6, <1>a DEF ViewerLeave, ViewerTo, Attached, ClientOK
        <3> QED
            BY <3>1 DEF OtherIds
    <2> QED
        BY <1>a, <2>2, <2>3, KeepsLess
<1>7. ASSUME NEW s \in Session, Connect(s) PROVE StepKept
    BY <1>7, <1>a, <1>b, UnchangedKeeps DEF Connect
<1>8. ASSUME NEW s \in Session, NEW k \in Key, OnPlay(s, k) PROVE StepKept
    BY <1>8, <1>a, <1>b, AddSubscriberKeeps DEF OnPlay
<1>9. ASSUME NEW s \in Session, NEW m \in MediaKinds, OnMedia(s, m) PROVE StepKept
    BY <1>9, <1>a, <1>b, PublishMediaKeeps, ClientsAssumption DEF OnMedia
<1>10. ASSUME NEW s \in Session, OtherMessage(s) PROVE StepKept
    BY <1>10, <1>a, <1>b, UnchangedKeeps DEF OtherMessage
<1>11. ASSUME NEW s \in Session, StopSelf(s) PROVE StepKept
    BY <1>11, <1>a, <1>b, UnchangedKeeps DEF StopSelf, StopExchange
<1>12. ASSUME NEW s \in Session, StopOther(s) PROVE StepKept
    BY <1>12, <1>a, <1>b, UnchangedKeeps DEF StopOther, StopExchange
<1>13. ASSUME NEW s \in Session, Destroy(s) PROVE StepKept
    BY <1>13, <1>a, <1>b, UnchangedKeeps DEF Destroy
<1>14. ASSUME NEW s \in Session, SlowPlayer(s) PROVE StepKept
    BY <1>14, <1>a, <1>b, UnchangedKeeps DEF SlowPlayer
<1>15. ASSUME NEW i \in Ingests, NEW k \in Key, IngestBegin(i, k) PROVE StepKept
    BY <1>15, <1>a, <1>b, <1>c, BeginExternalPublishKeeps, ClientsAssumption DEF IngestBegin
<1>16. ASSUME NEW i \in Ingests, NEW k \in Key, IngestUpsert(i, k) PROVE StepKept
    BY <1>16, <1>a, <1>b, <1>c, UpsertExternalStreamKeeps, ClientsAssumption DEF IngestUpsert
<1>17. ASSUME NEW i \in Ingests, NEW m \in MediaKinds, IngestMedia(i, m) PROVE StepKept
    <2>1. ingest[i].key \in Key
        BY <1>17, <1>a DEF IngestMedia, ClientOK, KeyOK
    <2> QED
        BY <1>17, <1>a, <1>b, <2>1, <1>c, PublishExternalMediaKeeps, ClientsAssumption DEF IngestMedia
<1>18. ASSUME NEW i \in Ingests, IngestEnd(i) PROVE StepKept
    BY <1>18, <1>a, <1>b, RemoveExternalStreamKeeps DEF IngestEnd
<1>19. ASSUME NEW i \in Ingests, IngestClosed(i) PROVE StepKept
    BY <1>19, <1>a, <1>b, UnchangedKeeps DEF IngestClosed
<1>20. ASSUME NEW i \in Ingests, NEW k \in Key, IngestAbort(i, k) PROVE StepKept
    BY <1>20, <1>a, <1>b, RemoveExternalStreamKeeps DEF IngestAbort
<1>21. ASSUME NEW c \in Callback, NEW k \in Key, ViewerCount(c, k) PROVE StepKept
    BY <1>21, <1>a, <1>b, <1>c, UpdateExternalViewersKeeps DEF ViewerCount
<1>22. ASSUME NEW c \in Callback, NEW k \in Key, ViewerJoin(c, k) PROVE StepKept
    BY <1>22, <1>a, <1>b, AddCallbackKeeps, ClientsAssumption DEF ViewerJoin
<1>23. ASSUME NEW c \in Callback, ViewerUncount(c) PROVE StepKept
    <2>1. viewer[c].key \in Key
        BY <1>23, <1>a DEF ViewerUncount, ClientOK, KeyOK
    <2> QED
        BY <1>23, <1>a, <1>b, <2>1, <1>c, UpdateExternalViewersKeeps DEF ViewerUncount
<1>24. ASSUME NEW k \in Key, Disconnect(k) PROVE StepKept
    BY <1>24, <1>a, <1>b, UnchangedKeeps DEF Disconnect
<1>25. ASSUME NEW k \in Key, TimePasses(k) PROVE StepKept
    BY <1>25, <1>a, <1>b, ElapseKeeps DEF TimePasses
<1>26. CASE Cleanup
    BY <1>26, <1>a, <1>b, CleanupStaleKeeps DEF Cleanup
<1>27. CASE UNCHANGED vars
    BY <1>27, <1>b, UnchangedKeeps DEF vars
<1> QED
    BY <1>1, <1>2, <1>3, <1>4, <1>5, <1>6, <1>7, <1>8, <1>9, <1>10, <1>11, <1>12,
       <1>13, <1>14, <1>15, <1>16, <1>17, <1>18, <1>19, <1>20, <1>21, <1>22, <1>23, <1>24, <1>25, <1>26, <1>27
       DEF Next

-----------------------------------------------------------------------------
(* What the steps add *)

\* Ingests, viewers, cleanup and time do not touch the sessions.
OtherStep ==
    \/ \E i \in Ingests :
          \/ \E k \in Key : IngestBegin(i, k) \/ IngestUpsert(i, k) \/ IngestAbort(i, k)
          \/ \E m \in MediaKinds : IngestMedia(i, m)
          \/ IngestEnd(i) \/ IngestClosed(i)
    \/ \E c \in Callback :
          \/ \E k \in Key : ViewerCount(c, k) \/ ViewerJoin(c, k)
          \/ ViewerLeave(c) \/ ViewerUncount(c)
    \/ \E k \in Key : TimePasses(k)
    \/ Cleanup
    \/ UNCHANGED vars

SessionStep ==
    \E s \in Session :
        \/ Connect(s) \/ Unpublish(s) \/ StopPlaying(s) \/ OtherMessage(s)
        \/ \E m \in MediaKinds : OnMedia(s, m)
        \/ StopSelf(s) \/ StopOther(s) \/ StopUnregister(s) \/ StopUnsubscribe(s)
        \/ Destroy(s) \/ SlowPlayer(s)

\* Which steps touch the sessions: taking a slot, subscribing, the other steps of a
\* session, a disconnect; nothing else does.
LEMMA StepKinds ==
    ASSUME [Next]_vars
    PROVE  \/ \E s \in Session, k \in Key : OnPublish(s, k)
           \/ \E s \in Session, k \in Key : OnPlay(s, k)
           \/ SessionStep
           \/ \E k \in Key : Disconnect(k)
           \/ OtherStep
BY DEF Next, SessionStep, OtherStep

\* Steps of ingests, viewers, cleanup and time leave the sessions as they are.
LEMMA OtherStepKeepsSessions ==
    ASSUME OtherStep
    PROVE  UNCHANGED << life, publishing, playing, condemned >>
<1>1. ASSUME NEW i \in Ingests, NEW k \in Key,
             IngestBegin(i, k) \/ IngestUpsert(i, k) \/ IngestAbort(i, k)
      PROVE  UNCHANGED << life, publishing, playing, condemned >>
    BY <1>1 DEF IngestBegin, IngestUpsert, IngestAbort, sessionVars
<1>2. ASSUME NEW i \in Ingests, NEW m \in MediaKinds,
             IngestMedia(i, m) \/ IngestEnd(i) \/ IngestClosed(i)
      PROVE  UNCHANGED << life, publishing, playing, condemned >>
    BY <1>2 DEF IngestMedia, IngestEnd, IngestClosed, sessionVars
<1>3. ASSUME NEW i \in Ingests, IngestEnd(i) \/ IngestClosed(i)
      PROVE  UNCHANGED << life, publishing, playing, condemned >>
    BY <1>3 DEF IngestEnd, IngestClosed, sessionVars
<1>4. ASSUME NEW c \in Callback, NEW k \in Key, ViewerCount(c, k) \/ ViewerJoin(c, k)
      PROVE  UNCHANGED << life, publishing, playing, condemned >>
    BY <1>4 DEF ViewerCount, ViewerJoin, sessionVars
<1>5. ASSUME NEW c \in Callback, ViewerLeave(c) \/ ViewerUncount(c)
      PROVE  UNCHANGED << life, publishing, playing, condemned >>
    BY <1>5 DEF ViewerLeave, ViewerUncount, sessionVars
<1>6. ASSUME (\E k \in Key : TimePasses(k)) \/ Cleanup \/ UNCHANGED vars
      PROVE  UNCHANGED << life, publishing, playing, condemned >>
    BY <1>6 DEF TimePasses, Cleanup, vars, sessionVars
<1> QED
    BY <1>1, <1>2, <1>3, <1>4, <1>5, <1>6 DEF OtherStep

\* The other steps of the sessions take clients out of Claims and Listens only.
LEMMA SessionStepAddsNone ==
    ASSUME ClientOK, SessionStep
    PROVE  Claims' \subseteq Claims /\ Listens' \subseteq Listens
<1> DEFINE Shrinks == Claims' \subseteq Claims /\ Listens' \subseteq Listens
<1> PICK s \in Session :
        \/ Connect(s) \/ Unpublish(s) \/ StopPlaying(s) \/ OtherMessage(s)
        \/ \E m \in MediaKinds : OnMedia(s, m)
        \/ StopSelf(s) \/ StopOther(s) \/ StopUnregister(s) \/ StopUnsubscribe(s)
        \/ Destroy(s) \/ SlowPlayer(s)
    BY DEF SessionStep
<1>1. CASE Connect(s)
    BY <1>1 DEF Connect, Claims, Listens, ClientOK, LifeOK
<1>2. CASE Unpublish(s)
    BY <1>2 DEF Unpublish, Claims, Listens
<1>3. CASE StopPlaying(s)
    BY <1>3 DEF StopPlaying, Handles, Claims, Listens
<1>4. CASE OtherMessage(s)
    BY <1>4 DEF OtherMessage, Handles, Claims, Listens
<1>5. ASSUME NEW m \in MediaKinds, OnMedia(s, m) PROVE Shrinks
    BY <1>5 DEF OnMedia, Handles, Claims, Listens
<1>6. CASE StopSelf(s)
    BY <1>6 DEF StopSelf, StopExchange, Claims, Listens, ClientOK
<1>7. CASE StopOther(s)
    BY <1>7 DEF StopOther, StopExchange, sessionVars, Claims, Listens, ClientOK
<1>8. CASE StopUnregister(s)
    BY <1>8 DEF StopUnregister, Claims, Listens, ClientOK
<1>9. CASE StopUnsubscribe(s)
    BY <1>9 DEF StopUnsubscribe, Claims, Listens, ClientOK
<1>10. CASE Destroy(s)
    BY <1>10 DEF Destroy, Claims, Listens, ClientOK
<1>11. CASE SlowPlayer(s)
    BY <1>11 DEF SlowPlayer, sessionVars, Claims, Listens
<1> QED
    BY <1>1, <1>2, <1>3, <1>4, <1>5, <1>6, <1>7, <1>8, <1>9, <1>10, <1>11

\* Whoever becomes the publisher or a player of a stream is registered for it by
\* the same step.
LEMMA SessionGains ==
    ASSUME Inv, [Next]_vars
    PROVE  /\ \A s \in Claims' \ Claims : \E k \in Key : streams'[k].publisher = s
           /\ \A s \in Listens' \ Listens : \E k \in Key : s \in streams'[k].subscribers
<1> DEFINE Gains ==
        /\ \A s \in Claims' \ Claims : \E k \in Key : streams'[k].publisher = s
        /\ \A s \in Listens' \ Listens : \E k \in Key : s \in streams'[k].subscribers
<1>a. MapOK /\ ClientOK
    BY DEF Inv
<1>1. ASSUME NEW s \in Session, NEW k \in Key, OnPublish(s, k) PROVE Gains
    <2>1. streams'[k].publisher = s
        BY <1>1, <1>a, RegisterPublisherKeeps DEF OnPublish
    <2>2. Claims' \subseteq Claims \cup {s} /\ Listens' \subseteq Listens
        BY <1>1 DEF OnPublish, Handles, Claims, Listens
    <2> QED
        BY <2>1, <2>2
<1>2. ASSUME NEW s \in Session, NEW k \in Key, OnPlay(s, k) PROVE Gains
    <2>1. s \in streams'[k].subscribers
        BY <1>2, <1>a, AddSubscriberKeeps DEF OnPlay
    <2>2. Claims' \subseteq Claims /\ Listens' \subseteq Listens \cup {s}
        BY <1>2 DEF OnPlay, Handles, Claims, Listens
    <2> QED
        BY <2>1, <2>2
<1>3. CASE SessionStep
    BY <1>3, <1>a, SessionStepAddsNone
<1>4. ASSUME NEW k \in Key, Disconnect(k) PROVE Gains
    <2>1. Claims' \subseteq Claims /\ Listens' \subseteq Listens
        BY <1>4 DEF Disconnect, sessionVars, Claims, Listens
    <2> QED
        BY <2>1
<1>5. CASE OtherStep
    <2>1. Claims' = Claims /\ Listens' = Listens
        BY <1>5, OtherStepKeepsSessions DEF Claims, Listens
    <2> QED
        BY <2>1
<1> QED
    BY <1>1, <1>2, <1>3, <1>4, <1>5, StepKinds

\* A viewer stays at the key it joined, and joins by registering its callback.
LEMMA ViewerGains ==
    ASSUME Inv, [Next]_vars, NEW c \in Attached'
    PROVE  \/ c \in Attached /\ viewer'[c].key = viewer[c].key
           \/ << IdOf[c], c >> \in streams'[viewer'[c].key].callbacks
<1> DEFINE Goal ==
        \/ c \in Attached /\ viewer'[c].key = viewer[c].key
        \/ << IdOf[c], c >> \in streams'[viewer'[c].key].callbacks
<1>a. MapOK /\ ClientOK /\ c \in Callback
    BY DEF Inv, Attached
<1>b. viewer' = viewer => Goal
    BY DEF Attached
<1>1. ASSUME NEW d \in Callback, NEW k \in Key, ViewerCount(d, k) PROVE Goal
    BY <1>1, <1>a DEF ViewerCount, ViewerTo, Attached, ClientOK
<1>2. ASSUME NEW d \in Callback, NEW k \in Key, ViewerJoin(d, k) PROVE Goal
    <2>1. << IdOf[d], d >> \in streams'[k].callbacks
        BY <1>2, <1>a, AddCallbackKeeps, ClientsAssumption DEF ViewerJoin
    <2>2. viewer'[d].key = k
        BY <1>2, <1>a DEF ViewerJoin, ViewerTo, ClientOK
    <2>3. c # d => viewer'[c] = viewer[c]
        BY <1>2, <1>a DEF ViewerJoin, ViewerTo, ClientOK
    <2> QED
        BY <2>1, <2>2, <2>3 DEF Attached
<1>3. ASSUME NEW d \in Callback, ViewerLeave(d) PROVE Goal
    BY <1>3, <1>a DEF ViewerLeave, ViewerTo, Attached, ClientOK
<1>4. ASSUME NEW d \in Callback, ViewerUncount(d) PROVE Goal
    BY <1>4, <1>a DEF ViewerUncount, ViewerTo, Attached, ClientOK
<1>5. ASSUME NEW i \in Ingests, NEW k \in Key,
             IngestBegin(i, k) \/ IngestUpsert(i, k) \/ IngestAbort(i, k)
      PROVE  Goal
    BY <1>5, <1>b DEF IngestBegin, IngestUpsert, IngestAbort
<1>6. ASSUME NEW i \in Ingests,
             (\E m \in MediaKinds : IngestMedia(i, m)) \/ IngestEnd(i) \/ IngestClosed(i)
      PROVE  Goal
    BY <1>6, <1>b DEF IngestMedia, IngestEnd, IngestClosed
<1>7. ASSUME (\E k \in Key : TimePasses(k)) \/ Cleanup \/ UNCHANGED vars
      PROVE  Goal
    BY <1>7, <1>b DEF TimePasses, Cleanup, vars
<1>8. CASE SessionStep
    BY <1>8, <1>b DEF SessionStep, Connect, Unpublish, StopPlaying, OtherMessage, OnMedia,
       Handles, StopSelf, StopOther, StopExchange, StopUnregister, StopUnsubscribe,
       Destroy, SlowPlayer
<1>9. ASSUME NEW s \in Session, NEW k \in Key, OnPublish(s, k) \/ OnPlay(s, k)
      PROVE  Goal
    BY <1>9, <1>b DEF OnPublish, OnPlay, Handles
<1>10. ASSUME NEW k \in Key, Disconnect(k) PROVE Goal
    BY <1>10, <1>b DEF Disconnect
<1> QED
    BY <1>1, <1>2, <1>3, <1>4, <1>5, <1>6, <1>7, <1>8, <1>9, <1>10, StepKinds DEF OtherStep

-----------------------------------------------------------------------------

\* Nobody is displaced silently: a running session that believes it publishes
\* holds a slot, or a thread is on its way to stop it.
THEOREM SlotKept == Spec => []PublisherKeepsSlot
<1> DEFINE Slot == \A s \in Claims : \E k \in Key : streams[k].publisher = s
<1>1. Init => Slot
    BY DEF Init, Claims
<1>2. Slot /\ Inv /\ [Next]_vars => Slot'
    <2> SUFFICES ASSUME Slot, Inv, [Next]_vars, NEW s \in Claims'
                 PROVE  \E k \in Key : streams'[k].publisher = s
        OBVIOUS
    <2>1. CASE s \notin Claims
        BY <2>1, SessionGains
    <2>2. CASE s \in Claims
        <3>1. PICK k \in Key : streams[k].publisher = s
            BY <2>2
        <3>2. s \in objects \ (Session \ Claims')
            BY <2>2 DEF Inv, ClientOK, LifeOK, Claims
        <3>3. streams'[k].publisher = streams[k].publisher
            BY <3>1, <3>2, StepKeeps DEF StepKept, KeepsBut
        <3> QED
            BY <3>1, <3>3
    <2> QED
        BY <2>1, <2>2
<1>3. Inv /\ Slot => PublisherKeepsSlot
    BY DEF PublisherKeepsSlot, Claims, Inv, ClientOK
<1> QED
    BY <1>1, <1>2, <1>3, InvHolds, PTL DEF Spec

\* No operation of the registry drops the registration of a running player or of a
\* joined viewer, unless another viewer has its id: not the registry's own cleanup,
\* not the exit of another client, not the removal of the stream's publisher.
THEOREM StaysRegistered == Spec => []AttachedStaysRegistered
<1> DEFINE Own == {c \in Attached : ~SharesId(c)}
           Calls == \A c \in Own : << IdOf[c], c >> \in streams[viewer[c].key].callbacks
           Plays == \A s \in Listens : \E k \in Key : s \in streams[k].subscribers
<1>1. Init => Calls /\ Plays
    BY DEF Init, Attached, Listens
<1>2. Calls /\ Inv /\ [Next]_vars => Calls'
    <2> SUFFICES ASSUME Calls, Inv, [Next]_vars, NEW c \in Attached', ~SharesId(c)
                 PROVE  << IdOf[c], c >> \in streams'[viewer'[c].key].callbacks
        BY DEF SharesId
    <2>1. CASE c \in Attached /\ viewer'[c].key = viewer[c].key
        <3>1. viewer[c].key \in Key /\ c \in Callback
            BY <2>1 DEF Inv, ClientOK, KeyOK, Attached
        <3>2. IdOf[c] \notin OtherIds'
            BY <3>1 DEF OtherIds, SharesId
        <3>3. << IdOf[c], c >> \in streams[viewer[c].key].callbacks
            BY <2>1
        <3>4. {r \in streams[viewer[c].key].callbacks : r[1] \notin OtherIds'}
                \subseteq streams'[viewer[c].key].callbacks
            BY <3>1, StepKeeps DEF StepKept, KeepsBut
        <3>5. << IdOf[c], c >>[1] = IdOf[c]
            OBVIOUS
        <3> QED
            BY <2>1, <3>2, <3>3, <3>4, <3>5
    <2> QED
        BY <2>1, ViewerGains
<1>3. Plays /\ Inv /\ [Next]_vars => Plays'
    <2> SUFFICES ASSUME Plays, Inv, [Next]_vars, NEW s \in Listens'
                 PROVE  \E k \in Key : s \in streams'[k].subscribers
        OBVIOUS
    <2>1. CASE s \notin Listens
        BY <2>1, SessionGains
    <2>2. CASE s \in Listens
        <3>1. PICK k \in Key : s \in streams[k].subscribers
            BY <2>2
        <3>2. s \in objects
            BY <2>2 DEF Inv, ClientOK, LifeOK, Listens
        <3>3. (streams[k].subscribers \cap objects) \ (Session \ Listens')
                \subseteq streams'[k].subscribers
            BY StepKeeps DEF StepKept, KeepsBut
        <3> QED
            BY <3>1, <3>2, <3>3
    <2> QED
        BY <2>1, <2>2
<1>4. Inv /\ Calls /\ Plays => AttachedStaysRegistered
    BY DEF AttachedStaysRegistered, Registered, Attached, Listens, Inv, ClientOK
<1> QED
    BY <1>1, <1>2, <1>3, <1>4, InvHolds, PTL DEF Spec

=============================================================================
