------------------------ MODULE StreamRegistryProofs ------------------------
(***************************************************************************)
(* What the operations of the registry preserve, entry by entry.  The      *)
(* invariant of one entry, Sound, is kept by every helper an operation is  *)
(* built from; the theorems of RegistryClientsProofs cite these lemmas.    *)
(***************************************************************************)
EXTENDS StreamRegistry, SequenceTheorems, TLAPS

\* The GOP cache of one entry, as GopStartsAtKeyframe states it for all.
GopOK(e) ==
    /\ Len(e.gop) <= GopMax
    /\ \A n \in 2 .. Len(e.gop) : e.gop[n] # "key"
    /\ e.keyframe /\ Len(e.gop) < GopMax => e.gop # << >> /\ e.gop[1] = "key"

\* The invariant of one entry: an absent one holds nothing.
Sound(e) ==
    /\ e \in Entry
    /\ ~e.present => e = Vacant
    /\ GopOK(e)

\* The default-constructed entry and the absent one are sound.
LEMMA FreshSound == Sound(Fresh) /\ Sound(Vacant) /\ Fresh.present
<1>1. << >> \in Seq(Kind)
    BY EmptySeq
<1>a. Fresh \in Entry
    BY <1>1 DEF Fresh, Entry, Source
<1>b. Vacant \in Entry
    BY <1>a DEF Vacant, Entry
<1>2. GopOK(Fresh) /\ GopOK(Vacant)
    BY GopMaxAssumption DEF GopOK, Fresh, Vacant
<1>3. Fresh.present
    BY DEF Fresh
<1> QED
    BY <1>a, <1>b, <1>2, <1>3 DEF Sound

\* streams_[key] is a sound entry of the map, whether it was there or not.
LEMMA AtSound ==
    ASSUME NEW k \in Key, Sound(streams[k])
    PROVE  Sound(At(k)) /\ At(k).present
BY FreshSound DEF At

\* Pruning expired weak_ptrs touches the subscribers only.
LEMMA PruneSound ==
    ASSUME NEW e, Sound(e), e.present
    PROVE  Sound(Prune(e)) /\ Prune(e).present
<1>1. Prune(e) \in Entry
    BY DEF Prune, Entry, Sound
<1>2. /\ Prune(e).present = e.present
      /\ Prune(e).gop = e.gop
      /\ Prune(e).keyframe = e.keyframe
    BY DEF Prune, Entry, Sound
<1> QED
    BY <1>1, <1>2 DEF Sound, GopOK

\* The erase rule leaves a sound entry or none.
LEMMA CollectSound ==
    ASSUME NEW e, Sound(e)
    PROVE  Sound(Collect(e))
BY FreshSound DEF Collect

\* GopCache::add: a keyframe clears the cache, a full cache loses its oldest packet.
LEMMA GopAddOK ==
    ASSUME NEW gop \in Seq(Kind), NEW m \in Kind,
           Len(gop) <= GopMax,
           \A n \in 2 .. Len(gop) : gop[n] # "key"
    PROVE  /\ GopAdd(gop, m) \in Seq(Kind)
           /\ Len(GopAdd(gop, m)) <= GopMax
           /\ \A n \in 2 .. Len(GopAdd(gop, m)) : GopAdd(gop, m)[n] # "key"
           /\ m = "key" => GopAdd(gop, m) = << "key" >>
           /\ m # "key" /\ Len(GopAdd(gop, m)) < GopMax => GopAdd(gop, m) = Append(gop, m)
<1> USE GopMaxAssumption
<1>1. CASE m = "key"
    <2>1. GopAdd(gop, m) = << m >>
        <3>1. Len(<< m >>) = 1
            OBVIOUS
        <3> QED
            BY <1>1, <3>1 DEF GopAdd
    <2>2. GopAdd(gop, m) \in Seq(Kind) /\ Len(GopAdd(gop, m)) = 1
        BY <2>1
    <2>3. GopAdd(gop, m) = << "key" >>
        BY <1>1, <2>1
    <2>4. 1 <= GopMax
        OBVIOUS
    <2>5. 2 .. Len(GopAdd(gop, m)) = {}
        BY <2>2
    <2> QED
        BY <1>1, <2>2, <2>3, <2>4, <2>5
<1>2. CASE m # "key"
    <2> DEFINE grown == Append(gop, m)
    <2>1. /\ grown \in Seq(Kind)
          /\ Len(grown) = Len(gop) + 1
          /\ \A n \in 1 .. Len(gop) : grown[n] = gop[n]
          /\ grown[Len(gop) + 1] = m
          /\ grown = Append(gop, m)
        OBVIOUS
    <2> HIDE DEF grown
    <2>2. \A n \in 2 .. Len(grown) : grown[n] # "key"
        BY <1>2, <2>1
    <2>3. CASE Len(grown) <= GopMax
        <3>1. GopAdd(gop, m) = grown
            BY <1>2, <2>1, <2>3 DEF GopAdd
        <3> QED
            BY <1>2, <2>1, <2>2, <2>3, <3>1
    <2>4. CASE Len(grown) > GopMax
        <3>1. GopAdd(gop, m) = Tail(grown)
            BY <1>2, <2>1, <2>4 DEF GopAdd
        <3>2. /\ Tail(grown) \in Seq(Kind)
              /\ Len(Tail(grown)) = Len(grown) - 1
              /\ \A n \in 1 .. Len(grown) - 1 : Tail(grown)[n] = grown[n + 1]
            BY <2>1, <2>4
        <3>3. Len(Tail(grown)) = GopMax
            BY <2>1, <2>4, <3>2
        <3>4. \A n \in 2 .. Len(Tail(grown)) : Tail(grown)[n] # "key"
            BY <2>1, <2>2, <3>2
        <3> DEFINE tail == Tail(grown)
        <3>5. GopAdd(gop, m) = tail
            BY <3>1
        <3> HIDE DEF tail
        <3>6. tail \in Seq(Kind) /\ Len(tail) <= GopMax /\ ~(Len(tail) < GopMax)
            BY <3>2, <3>3 DEF tail
        <3>7. \A n \in 2 .. Len(tail) : tail[n] # "key"
            BY <3>4 DEF tail
        <3> QED
            BY <1>2, <3>5, <3>6, <3>7, Zenon
    <2>5. Len(grown) <= GopMax \/ Len(grown) > GopMax
        BY <2>1
    <2> QED
        BY <2>3, <2>4, <2>5
<1> QED
    BY <1>1, <1>2

\* publish_media_locked keeps an entry sound.
LEMMA IngestSound ==
    ASSUME NEW e, NEW m \in Kind, Sound(e), e.present
    PROVE  Sound(Ingest(e, m)) /\ Ingest(e, m).present
<1> DEFINE p == Prune(e)
           i == Ingest(e, m)
<1>1. Sound(p) /\ p.present
    BY PruneSound
<1>2. /\ p \in Entry
      /\ p.gop \in Seq(Kind)
      /\ Len(p.gop) <= GopMax
      /\ \A n \in 2 .. Len(p.gop) : p.gop[n] # "key"
    BY <1>1 DEF Sound, GopOK, Entry
<1> HIDE DEF p
<1>3. i = [p EXCEPT !.fed      = "recent",
                    !.header   = @ \/ m = "header",
                    !.keyframe = @ \/ m = "key",
                    !.gop      = IF m = "data" THEN @ ELSE GopAdd(@, m)]
    BY DEF Ingest, p
<1> HIDE DEF i
<1>4. GopAdd(p.gop, m) \in Seq(Kind)
    BY <1>2, GopAddOK
<1>5. i \in Entry /\ i.present
    BY <1>1, <1>2, <1>3, <1>4 DEF Entry
<1>6. /\ i.gop = IF m = "data" THEN p.gop ELSE GopAdd(p.gop, m)
      /\ i.keyframe = (p.keyframe \/ m = "key")
    BY <1>2, <1>3 DEF Entry
<1>7. GopOK(i)
    <2>1. CASE m = "data"
        BY <1>1, <1>6, <2>1 DEF GopOK, Sound
    <2>2. CASE m = "key"
        <3>1. i.gop = << "key" >>
            BY <1>2, <1>6, <2>2, GopAddOK
        <3> QED
            BY <3>1, GopMaxAssumption DEF GopOK
    <2>3. CASE m \notin {"data", "key"}
        <3>1. i.gop = GopAdd(p.gop, m) /\ i.keyframe = p.keyframe
            BY <1>2, <1>6, <2>3 DEF Entry
        <3>2. /\ Len(i.gop) <= GopMax
              /\ \A n \in 2 .. Len(i.gop) : i.gop[n] # "key"
              /\ Len(i.gop) < GopMax => i.gop = Append(p.gop, m)
            BY <1>2, <2>3, <3>1, GopAddOK
        <3>3. ASSUME i.keyframe, Len(i.gop) < GopMax
              PROVE  i.gop # << >> /\ i.gop[1] = "key"
            <4>1. i.gop = Append(p.gop, m)
                BY <3>2, <3>3
            <4>2. Len(p.gop) < GopMax
                BY <1>2, <3>3, <4>1, GopMaxAssumption
            <4>3. p.gop # << >> /\ p.gop[1] = "key"
                BY <1>1, <3>1, <3>3, <4>2 DEF Sound, GopOK
            <4> QED
                BY <1>2, <4>1, <4>3
        <3> QED
            BY <3>2, <3>3 DEF GopOK
    <2> QED
        BY <2>1, <2>2, <2>3
<1> QED
    BY <1>5, <1>7 DEF Sound, i

\* A new publisher starts from empty caches.
LEMMA ResetSound ==
    ASSUME NEW e \in Entry, e.present
    PROVE  Sound(ResetCaches(e))
<1> DEFINE r == ResetCaches(e)
<1>1. r \in Entry /\ r.present
    BY EmptySeq DEF ResetCaches, Entry
<1>2. r.gop = << >> /\ r.keyframe = FALSE
    BY DEF ResetCaches, Entry
<1>3. GopOK(r)
    BY <1>2, GopMaxAssumption DEF GopOK
<1> QED
    BY <1>1, <1>3 DEF Sound

-----------------------------------------------------------------------------
(* The operations.  MapOK is the invariant they keep; KeepsBut says what    *)
(* they leave in place: the live publishers but those in P, the live        *)
(* subscribers but those in S, the callbacks but those under ids in C.      *)

MapOK ==
    /\ streams \in [Key -> Entry]
    /\ \A k \in Key : Sound(streams[k])

KeepsBut(P, S, C) ==
    \A k \in Key :
        /\ streams[k].publisher \in objects \ P => streams'[k].publisher = streams[k].publisher
        /\ (streams[k].subscribers \cap objects) \ S \subseteq streams'[k].subscribers
        /\ {r \in streams[k].callbacks : r[1] \notin C} \subseteq streams'[k].callbacks

\* What one entry e becomes keeps of it.
Follows(e, n, P, S, C) ==
    /\ Sound(n)
    /\ e.publisher \in objects \ P => n.publisher = e.publisher
    /\ (e.subscribers \cap objects) \ S \subseteq n.subscribers
    /\ {r \in e.callbacks : r[1] \notin C} \subseteq n.callbacks

\* An operation on one key that follows from its entry keeps the whole map.
LEMMA StoreKeeps ==
    ASSUME MapOK, NEW k, NEW e, NEW P, NEW S, NEW C,
           k \in Key => Follows(streams[k], e, P, S, C),
           Store(k, e)
    PROVE  MapOK' /\ KeepsBut(P, S, C) /\ (k \in Key => streams'[k] = e)
<1>1. \A j \in Key : streams'[j] = IF j = k THEN e ELSE streams[j]
    BY DEF Store, MapOK
<1>2. \A j \in Key : Sound(streams'[j])
    BY <1>1 DEF MapOK, Follows
<1>3. streams' \in [Key -> Entry]
    BY <1>1, <1>2 DEF Store, MapOK, Sound
<1>4. KeepsBut(P, S, C)
    BY <1>1 DEF KeepsBut, Follows
<1> QED
    BY <1>1, <1>2, <1>3, <1>4 DEF MapOK

\* An operation that walks the map and follows from each entry keeps the map.
LEMMA StoreAllKeeps ==
    ASSUME MapOK, NEW f, NEW P, NEW S, NEW C,
           \A k \in Key : streams[k].present => Follows(streams[k], f[k], P, S, C),
           streams' = [k \in Key |-> IF streams[k].present THEN f[k] ELSE Vacant]
    PROVE  MapOK' /\ KeepsBut(P, S, C)
<1>1. \A j \in Key : streams'[j] = IF streams[j].present THEN f[j] ELSE Vacant
    OBVIOUS
<1>2. \A j \in Key : Sound(streams'[j])
    BY <1>1, FreshSound DEF MapOK, Follows
<1>3. streams' \in [Key -> Entry]
    BY <1>1, <1>2 DEF Sound
<1>4. \A j \in Key : ~streams[j].present => streams'[j] = streams[j]
    BY <1>1 DEF MapOK, Sound
<1>5. KeepsBut(P, S, C)
    BY <1>1, <1>4 DEF KeepsBut, Follows
<1> QED
    BY <1>2, <1>3, <1>5 DEF MapOK

\* streams_[key] differs from the entry of an absent key only in being there.
LEMMA AtSame ==
    ASSUME MapOK, NEW k \in Key
    PROVE  /\ Sound(At(k)) /\ At(k).present
           /\ At(k).publisher = streams[k].publisher
           /\ At(k).subscribers = streams[k].subscribers
           /\ At(k).callbacks = streams[k].callbacks
<1>1. Sound(streams[k])
    BY DEF MapOK
<1>2. CASE streams[k].present
    BY <1>1, <1>2, AtSound DEF At
<1>3. CASE ~streams[k].present
    <2>1. streams[k] = Vacant /\ At(k) = Fresh
        BY <1>1, <1>3 DEF Sound, At
    <2>2. /\ Vacant.publisher = Fresh.publisher
          /\ Vacant.subscribers = Fresh.subscribers
          /\ Vacant.callbacks = Fresh.callbacks
        BY DEF Vacant, Fresh
    <2> QED
        BY <2>1, <2>2, FreshSound
<1> QED
    BY <1>2, <1>3

\* register_publisher takes the slot and leaves everything else.
LEMMA RegisterPublisherKeeps ==
    ASSUME MapOK, NEW k \in Key, NEW s \in Session, RegisterPublisher(k, s)
    PROVE  MapOK' /\ KeepsBut(Displaced(k, s), {}, {}) /\ streams'[k].publisher = s
<1> DEFINE a == At(k)
           b == [a EXCEPT !.publisher = s, !.source = "rtmp", !.active = FALSE]
           e == ResetCaches(b)
<1>1. /\ Sound(a) /\ a.present
      /\ a.publisher = streams[k].publisher
      /\ a.subscribers = streams[k].subscribers
      /\ a.callbacks = streams[k].callbacks
    BY AtSame
<1> HIDE DEF a
<1>2. /\ b \in Entry /\ b.present /\ b.publisher = s
      /\ b.subscribers = a.subscribers /\ b.callbacks = a.callbacks
    BY <1>1 DEF Sound, Entry, Source
<1> HIDE DEF b
<1>3. /\ Sound(e)
      /\ e.publisher = s /\ e.subscribers = b.subscribers /\ e.callbacks = b.callbacks
    <2>1. e.publisher = s /\ e.subscribers = b.subscribers /\ e.callbacks = b.callbacks
        BY <1>2 DEF ResetCaches, Entry
    <2> QED
        BY <1>2, <2>1, ResetSound
<1>4. Store(k, e)
    BY DEF RegisterPublisher, a, b
<1> HIDE DEF e
<1>5. Follows(streams[k], e, Displaced(k, s), {}, {})
    BY <1>1, <1>2, <1>3 DEF Follows, Displaced
<1> QED
    BY <1>3, <1>4, <1>5, StoreKeeps

\* begin_external_publish leaves the RTMP publisher and all attached clients.
LEMMA BeginExternalPublishKeeps ==
    ASSUME MapOK, NEW k \in Key, NEW src \in Source, BeginExternalPublish(k, src)
    PROVE  MapOK' /\ KeepsBut({}, {}, {})
<1> DEFINE a == At(k)
           b == [a EXCEPT !.source = src, !.active = TRUE]
           e == ResetCaches(b)
<1>1. /\ Sound(a) /\ a.present
      /\ a.publisher = streams[k].publisher
      /\ a.subscribers = streams[k].subscribers
      /\ a.callbacks = streams[k].callbacks
    BY AtSame
<1> HIDE DEF a
<1>2. /\ b \in Entry /\ b.present /\ b.publisher = a.publisher
      /\ b.subscribers = a.subscribers /\ b.callbacks = a.callbacks
    BY <1>1 DEF Sound, Entry
<1> HIDE DEF b
<1>3. /\ Sound(e) /\ e.publisher = b.publisher
      /\ e.subscribers = b.subscribers /\ e.callbacks = b.callbacks
    <2>1. /\ e.publisher = b.publisher
          /\ e.subscribers = b.subscribers /\ e.callbacks = b.callbacks
        BY <1>2 DEF ResetCaches, Entry
    <2> QED
        BY <1>2, <2>1, ResetSound
<1>4. Store(k, e)
    BY DEF BeginExternalPublish, a, b
<1> HIDE DEF e
<1>5. Follows(streams[k], e, {}, {}, {})
    BY <1>1, <1>2, <1>3 DEF Follows
<1> QED
    BY <1>4, <1>5, StoreKeeps

\* The erase rule keeps whatever a live client still holds.
LEMMA CollectKeeps ==
    ASSUME NEW e, Sound(e), NEW P, NEW S, NEW C, NEW o, e.present,
           o.publisher \in objects \ P => e.publisher = o.publisher,
           (o.subscribers \cap objects) \ S \subseteq e.subscribers,
           {r \in o.callbacks : r[1] \notin C} \subseteq e.callbacks
    PROVE  Follows(o, Collect(e), P, S, C)
<1>1. CASE Referenced(e)
    <2>1. Collect(e) = e
        BY <1>1 DEF Collect
    <2> QED
        BY <2>1 DEF Follows
<1>2. CASE ~Referenced(e)
    <2>1. Collect(e) = Vacant
        BY <1>2 DEF Collect
    <2>2. e.publisher \notin objects /\ e.subscribers = {} /\ e.callbacks = {}
        BY <1>2 DEF Referenced, HasPublisher, Expired
    <2> QED
        BY <2>1, <2>2, FreshSound DEF Follows
<1> QED
    BY <1>1, <1>2

\* unregister_publisher of s: no other publisher, subscriber or callback goes.
LEMMA UnregisterPublisherKeeps ==
    ASSUME MapOK, NEW s \in Session, UnregisterPublisher(s)
    PROVE  MapOK' /\ KeepsBut({s}, {}, {})
<1> DEFINE B(e) == [e EXCEPT !.publisher = IF @ = s THEN NoSession ELSE @]
           f == [k \in Key |-> Collect(Prune(B(streams[k])))]
<1>1. streams' = [k \in Key |-> IF streams[k].present THEN f[k] ELSE Vacant]
    BY DEF UnregisterPublisher, StoreAll
<1>2. ASSUME NEW k \in Key, streams[k].present
      PROVE  Follows(streams[k], f[k], {s}, {}, {})
    <2> DEFINE e == streams[k]
               b == B(e)
               p == Prune(b)
    <2>1. Sound(e) /\ e.present
        BY <1>2 DEF MapOK
    <2> HIDE DEF e
    <2>2. /\ b \in Entry /\ b.present /\ b.gop = e.gop /\ b.keyframe = e.keyframe
          /\ b.publisher = (IF e.publisher = s THEN NoSession ELSE e.publisher)
          /\ b.subscribers = e.subscribers /\ b.callbacks = e.callbacks
        BY <2>1 DEF Sound, Entry
    <2> HIDE DEF b, B
    <2>3. Sound(b)
        BY <2>1, <2>2 DEF Sound, GopOK
    <2>4. Sound(p) /\ p.present
        BY <2>2, <2>3, PruneSound
    <2>5. /\ p.publisher = b.publisher /\ p.callbacks = b.callbacks
          /\ p.subscribers = b.subscribers \cap objects
        BY <2>2 DEF Prune, Entry
    <2> HIDE DEF p
    <2>6. Follows(e, Collect(p), {s}, {}, {})
        BY <2>2, <2>4, <2>5, CollectKeeps
    <2> QED
        BY <2>6 DEF e, b, p
<1> HIDE DEF f
<1> QED
    BY <1>1, <1>2, StoreAllKeeps

\* add_subscriber registers s and takes no registration of anybody.
LEMMA AddSubscriberKeeps ==
    ASSUME MapOK, NEW k \in Key, NEW s \in Session, AddSubscriber(k, s)
    PROVE  MapOK' /\ KeepsBut({}, {}, {}) /\ s \in streams'[k].subscribers
<1> DEFINE a == At(k)
           e == [a EXCEPT !.subscribers = @ \cup {s}]
<1>1. /\ Sound(a) /\ a.present
      /\ a.publisher = streams[k].publisher
      /\ a.subscribers = streams[k].subscribers
      /\ a.callbacks = streams[k].callbacks
    BY AtSame
<1>2. Store(k, e)
    BY DEF AddSubscriber
<1> HIDE DEF a
<1>3. /\ e \in Entry /\ e.present /\ e.gop = a.gop /\ e.keyframe = a.keyframe
      /\ e.publisher = a.publisher
      /\ e.subscribers = a.subscribers \cup {s}
      /\ e.callbacks = a.callbacks
    BY <1>1 DEF Sound, Entry
<1> HIDE DEF e
<1>4. Follows(streams[k], e, {}, {}, {})
    BY <1>1, <1>3 DEF Follows, Sound, GopOK
<1>5. MapOK' /\ KeepsBut({}, {}, {}) /\ streams'[k] = e
    BY <1>2, <1>4, StoreKeeps
<1> QED
    BY <1>3, <1>5

\* add_callback_subscriber and add_live_callback_subscriber register the id and take
\* no registration of anybody.
LEMMA AddCallbackKeeps ==
    ASSUME MapOK, NEW k \in Key, NEW id \in CallbackId, NEW c \in Callback,
           AddCallback(k, id, c)
    PROVE  MapOK' /\ KeepsBut({}, {}, {}) /\ << id, c >> \in streams'[k].callbacks
<1> DEFINE a == At(k)
           e == [a EXCEPT !.callbacks = @ \cup {<< id, c >>}]
<1>1. /\ Sound(a) /\ a.present
      /\ a.publisher = streams[k].publisher
      /\ a.subscribers = streams[k].subscribers
      /\ a.callbacks = streams[k].callbacks
    BY AtSame
<1>2. Store(k, e)
    BY DEF AddCallback
<1> HIDE DEF a
<1>3. /\ e \in Entry /\ e.present /\ e.gop = a.gop /\ e.keyframe = a.keyframe
      /\ e.publisher = a.publisher
      /\ e.subscribers = a.subscribers
      /\ e.callbacks = a.callbacks \cup {<< id, c >>}
    BY <1>1 DEF Sound, Entry
<1> HIDE DEF e
<1>4. Follows(streams[k], e, {}, {}, {})
    BY <1>1, <1>3 DEF Follows, Sound, GopOK
<1>5. MapOK' /\ KeepsBut({}, {}, {}) /\ streams'[k] = e
    BY <1>2, <1>4, StoreKeeps
<1> QED
    BY <1>3, <1>5

\* remove_subscriber of s: no publisher, other subscriber or callback goes.
LEMMA RemoveSubscriberKeeps ==
    ASSUME MapOK, NEW s \in Session, RemoveSubscriber(s)
    PROVE  MapOK' /\ KeepsBut({}, {s}, {})
<1> DEFINE B(e) == [Prune(e) EXCEPT !.subscribers = @ \ {s}]
           f == [k \in Key |-> Collect(B(streams[k]))]
<1>1. streams' = [k \in Key |-> IF streams[k].present THEN f[k] ELSE Vacant]
    BY DEF RemoveSubscriber, StoreAll
<1>2. ASSUME NEW k \in Key, streams[k].present
      PROVE  Follows(streams[k], f[k], {}, {s}, {})
    <2> DEFINE e == streams[k]
               p == Prune(e)
               b == B(e)
    <2>1. Sound(e) /\ e.present
        BY <1>2 DEF MapOK
    <2> HIDE DEF e
    <2>2. Sound(p) /\ p.present
        BY <2>1, PruneSound
    <2>3. /\ p.publisher = e.publisher /\ p.callbacks = e.callbacks
          /\ p.subscribers = e.subscribers \cap objects
        BY <2>1 DEF Prune, Sound, Entry
    <2>4. b = [p EXCEPT !.subscribers = @ \ {s}]
        OBVIOUS
    <2> HIDE DEF p, b, B
    <2>5. /\ b \in Entry /\ b.present /\ b.gop = p.gop /\ b.keyframe = p.keyframe
          /\ b.publisher = p.publisher
          /\ b.subscribers = p.subscribers \ {s} /\ b.callbacks = p.callbacks
        BY <2>2, <2>4 DEF Sound, Entry
    <2>6. Sound(b)
        BY <2>2, <2>5 DEF Sound, GopOK
    <2>7. Follows(e, Collect(b), {}, {s}, {})
        BY <2>3, <2>5, <2>6, CollectKeeps
    <2> QED
        BY <2>7 DEF e, b
<1> HIDE DEF f
<1> QED
    BY <1>1, <1>2, StoreAllKeeps

\* remove_callback_subscriber of one id at one key.
LEMMA RemoveCallbackKeeps ==
    ASSUME MapOK, NEW k \in Key, NEW id, RemoveCallback(k, id)
    PROVE  MapOK' /\ KeepsBut({}, {}, {id})
<1> DEFINE e == streams[k]
           b == [e EXCEPT !.callbacks = {r \in @ : r[1] # id}]
<1>1. Sound(e)
    BY DEF MapOK
<1>2. Store(k, Collect(b))
    BY DEF RemoveCallback
<1>3. Follows(e, Collect(b), {}, {}, {id})
    <2> HIDE DEF e
    <2>1. /\ b \in Entry /\ b.present = e.present /\ b.gop = e.gop /\ b.keyframe = e.keyframe
          /\ b.publisher = e.publisher /\ b.subscribers = e.subscribers
          /\ b.callbacks = {r \in e.callbacks : r[1] # id}
        BY <1>1 DEF Sound, Entry
    <2> HIDE DEF b
    <2>2. CASE e.present
        <3>1. Sound(b)
            BY <1>1, <2>1, <2>2 DEF Sound, GopOK
        <3> QED
            BY <2>1, <2>2, <3>1, CollectKeeps
    <2>3. CASE ~e.present
        <3>1. Collect(b) = Vacant /\ e = Vacant
            BY <1>1, <2>1, <2>3 DEF Collect, Sound
        <3> QED
            BY <3>1, FreshSound DEF Follows
    <2> QED
        BY <2>2, <2>3
<1> HIDE DEF b
<1> QED
    BY <1>2, <1>3, StoreKeeps

\* What is needed of a change that leaves the clients and the GOP cache alone.
LEMMA SameClients ==
    ASSUME NEW o, Sound(o), NEW e \in Entry, e.present,
           e.gop = o.gop, e.keyframe = o.keyframe,
           e.publisher = o.publisher, e.subscribers = o.subscribers,
           e.callbacks = o.callbacks
    PROVE  Follows(o, e, {}, {}, {})
BY DEF Follows, Sound, GopOK

\* Media drops expired subscribers and nothing else.
LEMMA IngestKeeps ==
    ASSUME NEW e, Sound(e), e.present, NEW m \in Kind
    PROVE  Follows(e, Ingest(e, m), {}, {}, {})
<1> DEFINE p == Prune(e)
           i == Ingest(e, m)
<1>1. Sound(i)
    BY IngestSound
<1>2. /\ p \in Entry
      /\ p.publisher = e.publisher /\ p.callbacks = e.callbacks
      /\ p.subscribers = e.subscribers \cap objects
    BY DEF Prune, Sound, Entry
<1>3. /\ i.publisher = p.publisher /\ i.callbacks = p.callbacks
      /\ i.subscribers = p.subscribers
    <2> HIDE DEF p
    <2>1. i = [p EXCEPT !.fed      = "recent",
                        !.header   = @ \/ m = "header",
                        !.keyframe = @ \/ m = "key",
                        !.gop      = IF m = "data" THEN @ ELSE GopAdd(@, m)]
        BY DEF Ingest, p
    <2> QED
        BY <1>2, <2>1 DEF Entry
<1> HIDE DEF i, p
<1>4. Follows(e, i, {}, {}, {})
    BY <1>1, <1>2, <1>3 DEF Follows
<1> QED
    BY <1>4 DEF i

\* publish_media drops expired subscribers and no registration; a stale stream_key_ of no entry is ignored.
LEMMA PublishMediaKeeps ==
    ASSUME MapOK, NEW k, NEW m \in Kind, PublishMedia(k, m)
    PROVE  MapOK' /\ KeepsBut({}, {}, {})
<1> DEFINE e == IF streams[k].present THEN Ingest(streams[k], m) ELSE Vacant
<1>1. Store(k, e)
    BY DEF PublishMedia
<1>2. ASSUME k \in Key
      PROVE  Follows(streams[k], e, {}, {}, {})
    <2>1. Sound(streams[k])
        BY <1>2 DEF MapOK
    <2>2. CASE streams[k].present
        BY <2>1, <2>2, IngestKeeps
    <2>3. CASE ~streams[k].present
        BY <2>1, <2>3 DEF Follows, Sound
    <2> QED
        BY <2>2, <2>3
<1> HIDE DEF e
<1> QED
    BY <1>1, <1>2, StoreKeeps

\* publish_external_media keeps the entries sound and takes no client's registration.
LEMMA PublishExternalMediaKeeps ==
    ASSUME MapOK, NEW k \in Key, NEW src \in Source, NEW m \in Kind,
           PublishExternalMedia(k, src, m)
    PROVE  MapOK' /\ KeepsBut({}, {}, {})
<1> DEFINE a == At(k)
           c == ClaimSource(a, src)
           b == [c EXCEPT !.active = TRUE]
           e == Ingest(b, m)
<1>1. /\ Sound(a) /\ a.present
      /\ a.publisher = streams[k].publisher
      /\ a.subscribers = streams[k].subscribers
      /\ a.callbacks = streams[k].callbacks
    BY AtSame
<1>2. Store(k, e)
    BY DEF PublishExternalMedia
<1> HIDE DEF a
<1>3. /\ c \in Entry /\ c.present /\ c.gop = a.gop /\ c.keyframe = a.keyframe
      /\ c.publisher = a.publisher /\ c.subscribers = a.subscribers
      /\ c.callbacks = a.callbacks
    BY <1>1 DEF ClaimSource, Sound, Entry
<1> HIDE DEF c
<1>4. /\ b \in Entry /\ b.present /\ b.gop = a.gop /\ b.keyframe = a.keyframe
      /\ b.publisher = a.publisher /\ b.subscribers = a.subscribers
      /\ b.callbacks = a.callbacks
    BY <1>3 DEF Entry
<1> HIDE DEF b
<1>5. Sound(b)
    BY <1>1, <1>4 DEF Sound, GopOK
<1>6. Follows(b, e, {}, {}, {})
    BY <1>4, <1>5, IngestKeeps
<1> HIDE DEF e
<1>7. Follows(streams[k], e, {}, {}, {})
    BY <1>1, <1>4, <1>6 DEF Follows
<1> QED
    BY <1>2, <1>7, StoreKeeps

\* upsert_external_stream keeps the entries sound and takes no client's registration.
LEMMA UpsertExternalStreamKeeps ==
    ASSUME MapOK, NEW k \in Key, NEW src \in Source, NEW has \in BOOLEAN,
           UpsertExternalStream(k, src, has)
    PROVE  MapOK' /\ KeepsBut({}, {}, {})
<1> DEFINE a == At(k)
           c == ClaimSource(a, src)
           e == [c EXCEPT !.active = has]
<1>1. /\ Sound(a) /\ a.present
      /\ a.publisher = streams[k].publisher
      /\ a.subscribers = streams[k].subscribers
      /\ a.callbacks = streams[k].callbacks
    BY AtSame
<1>2. Store(k, e)
    BY DEF UpsertExternalStream
<1> HIDE DEF a
<1>3. /\ c \in Entry /\ c.present /\ c.gop = a.gop /\ c.keyframe = a.keyframe
      /\ c.publisher = a.publisher /\ c.subscribers = a.subscribers
      /\ c.callbacks = a.callbacks
    BY <1>1 DEF ClaimSource, Sound, Entry
<1> HIDE DEF c
<1>4. /\ e \in Entry /\ e.present /\ e.gop = a.gop /\ e.keyframe = a.keyframe
      /\ e.publisher = a.publisher /\ e.subscribers = a.subscribers
      /\ e.callbacks = a.callbacks
    BY <1>3 DEF Entry
<1> HIDE DEF e
<1>5. Follows(a, e, {}, {}, {})
    BY <1>1, <1>4, SameClients
<1>6. Follows(streams[k], e, {}, {}, {})
    BY <1>1, <1>5 DEF Follows
<1> QED
    BY <1>2, <1>6, StoreKeeps

\* update_external_viewers keeps the entries sound and takes no client's registration.
LEMMA UpdateExternalViewersKeeps ==
    ASSUME MapOK, NEW k \in Key, NEW src \in Source, NEW n \in Nat,
           UpdateExternalViewers(k, src, n)
    PROVE  MapOK' /\ KeepsBut({}, {}, {})
<1> DEFINE a == At(k)
           e == [a EXCEPT !.viewers = n,
                          !.source = IF streams[k].present THEN @ ELSE src]
<1>1. /\ Sound(a) /\ a.present
      /\ a.publisher = streams[k].publisher
      /\ a.subscribers = streams[k].subscribers
      /\ a.callbacks = streams[k].callbacks
    BY AtSame
<1>2. Store(k, e)
    BY DEF UpdateExternalViewers
<1> HIDE DEF a
<1>3. /\ e \in Entry /\ e.present /\ e.gop = a.gop /\ e.keyframe = a.keyframe
      /\ e.publisher = a.publisher /\ e.subscribers = a.subscribers
      /\ e.callbacks = a.callbacks
    BY <1>1 DEF Sound, Entry
<1> HIDE DEF e
<1>4. Follows(a, e, {}, {}, {})
    BY <1>1, <1>3, SameClients
<1>5. Follows(streams[k], e, {}, {}, {})
    BY <1>1, <1>4 DEF Follows
<1> QED
    BY <1>2, <1>5, StoreKeeps

\* remove_external_stream erases only what no publisher, subscriber or callback uses.
LEMMA RemoveExternalStreamKeeps ==
    ASSUME MapOK, NEW k, NEW src, RemoveExternalStream(k, src)
    PROVE  MapOK' /\ KeepsBut({}, {}, {})
<1> DEFINE o == streams[k]
           e == [o EXCEPT !.active = @ /\ o.source # src]
           z == [e EXCEPT !.viewers = 0]
           n == IF Referenced(z) THEN e ELSE Vacant
<1>1. Store(k, n)
    BY DEF RemoveExternalStream
<1>2. ASSUME k \in Key
      PROVE  Follows(o, n, {}, {}, {})
    <2>1. Sound(o)
        BY <1>2 DEF MapOK
    <2> HIDE DEF o
    <2>2. /\ e \in Entry /\ e.present = o.present
          /\ e.gop = o.gop /\ e.keyframe = o.keyframe
          /\ e.publisher = o.publisher /\ e.subscribers = o.subscribers
          /\ e.callbacks = o.callbacks
        BY <2>1 DEF Sound, Entry
    <2>3. CASE ~o.present
        <3>1. o = Vacant /\ o.active = FALSE
            BY <2>1, <2>3 DEF Sound, Vacant, Fresh
        <3>2. e = o
            BY <2>1, <3>1 DEF Sound, Entry
        <3> QED
            BY <2>1, <3>1, <3>2, FreshSound DEF Follows
    <2> HIDE DEF e
    <2>4. /\ z.publisher = e.publisher /\ z.subscribers = e.subscribers
          /\ z.callbacks = e.callbacks
        BY <2>2 DEF Entry
    <2> HIDE DEF z
    <2>5. CASE o.present /\ Referenced(z)
        BY <2>1, <2>2, <2>5, SameClients
    <2>6. CASE o.present /\ ~Referenced(z)
        <3>1. o.publisher \notin objects /\ o.subscribers = {} /\ o.callbacks = {}
            BY <2>2, <2>4, <2>6 DEF Referenced, HasPublisher, Expired
        <3> QED
            BY <2>6, <3>1, FreshSound DEF Follows
    <2> QED
        BY <2>3, <2>5, <2>6
<1> HIDE DEF n
<1> QED
    BY <1>1, <1>2, StoreKeeps

\* cleanup_stale never takes anything a live client still uses.
LEMMA CleanupStaleKeeps ==
    ASSUME MapOK, CleanupStale
    PROVE  MapOK' /\ KeepsBut({}, {}, {})
<1> DEFINE B(e) == [Prune(e) EXCEPT !.active = @ /\ e.fed # "idle"]
           f == [k \in Key |-> Collect(B(streams[k]))]
<1>1. streams' = [k \in Key |-> IF streams[k].present THEN f[k] ELSE Vacant]
    BY DEF CleanupStale, StoreAll
<1>2. ASSUME NEW k \in Key, streams[k].present
      PROVE  Follows(streams[k], f[k], {}, {}, {})
    <2> DEFINE e == streams[k]
               p == Prune(e)
               b == B(e)
    <2>1. Sound(e) /\ e.present
        BY <1>2 DEF MapOK
    <2> HIDE DEF e
    <2>2. Sound(p) /\ p.present
        BY <2>1, PruneSound
    <2>3. /\ p.publisher = e.publisher /\ p.callbacks = e.callbacks
          /\ p.subscribers = e.subscribers \cap objects
        BY <2>1 DEF Prune, Sound, Entry
    <2>4. b = [p EXCEPT !.active = @ /\ e.fed # "idle"]
        OBVIOUS
    <2> HIDE DEF p, b, B
    <2>5. /\ b \in Entry /\ b.present /\ b.gop = p.gop /\ b.keyframe = p.keyframe
          /\ b.publisher = p.publisher
          /\ b.subscribers = p.subscribers /\ b.callbacks = p.callbacks
        BY <2>2, <2>4 DEF Sound, Entry
    <2>6. Sound(b)
        BY <2>2, <2>5 DEF Sound, GopOK
    <2>7. Follows(e, Collect(b), {}, {}, {})
        BY <2>3, <2>5, <2>6, CollectKeeps
    <2> QED
        BY <2>7 DEF e, b
<1> HIDE DEF f
<1> QED
    BY <1>1, <1>2, StoreAllKeeps

\* The passing of time ages a present entry and changes nothing else.
LEMMA ElapseKeeps ==
    ASSUME MapOK, NEW k \in Key, Elapse(k)
    PROVE  MapOK' /\ KeepsBut({}, {}, {})
<1> DEFINE o == streams[k]
           e == [o EXCEPT !.fed = "idle"]
<1>1. Sound(o) /\ o.fed = "recent" /\ Store(k, e)
    BY DEF Elapse, MapOK
<1>2. Vacant.fed = "never"
    BY DEF Vacant, Fresh
<1>3. o.present
    BY <1>1, <1>2 DEF Sound
<1> HIDE DEF o
<1>4. /\ e \in Entry /\ e.present /\ e.gop = o.gop /\ e.keyframe = o.keyframe
      /\ e.publisher = o.publisher /\ e.subscribers = o.subscribers
      /\ e.callbacks = o.callbacks
    BY <1>1, <1>3 DEF Sound, Entry
<1> HIDE DEF e
<1>5. Follows(o, e, {}, {}, {})
    BY <1>1, <1>4, SameClients
<1> QED
    BY <1>1, <1>5, StoreKeeps DEF o

=============================================================================
