------------------------- MODULE MediaDeliveryProofs -------------------------
(***************************************************************************)
(* Proofs about MediaDelivery, for any number of feeders and viewers, any  *)
(* capacity of the GOP cache and any number of messages: no viewer that    *)
(* registers with its copy of the cache misses a message, and nobody gets  *)
(* one twice (the refinement of Fanout).                                   *)
(***************************************************************************)
EXTENDS MediaDelivery, SequenceLemmas

-----------------------------------------------------------------------------

\* A stream without messages, readers and copies is of the right types.
LEMMA InitType == Init => TypeOK
BY DeliveryAssumption, EmptySeq DEF Init, TypeOK, published, Phase

\* The copy of the cache is an increasing sequence of its messages.
LEMMA CachedOK ==
    ASSUME TypeOK
    PROVE  /\ Cached \in Seq(1 .. published)
           /\ Increasing(Cached)
           /\ Range(Cached) = first .. published
<1> DEFINE n == published + 1 - first
<1>1. published \in Nat /\ first \in 1 .. published + 1
    BY DEF TypeOK, published
<1>2. n \in Nat
    BY <1>1
<1>3. Cached = [i \in 1 .. n |-> first + i - 1]
    BY DEF Cached
<1>4. /\ Cached \in [1 .. n -> 1 .. published]
      /\ DOMAIN Cached = 1 .. n
      /\ \A i \in 1 .. n : Cached[i] = first + i - 1
    BY <1>1, <1>3
<1> HIDE DEF n
<1>5. Cached \in Seq(1 .. published)
    BY <1>2, <1>4, SeqDef
<1>6. Len(Cached) = n
    BY <1>2, <1>4, <1>5
<1>7. Increasing(Cached)
    BY <1>1, <1>2, <1>4, <1>6 DEF Increasing
<1>8. Range(Cached) = first .. published
    <2>1. ASSUME NEW x \in first .. published PROVE x \in Range(Cached)
        <3>1. x - first + 1 \in 1 .. n /\ Cached[x - first + 1] = x
            BY <1>1, <1>4 DEF n
        <3> QED
            BY <1>4, <3>1 DEF Range
    <2>2. ASSUME NEW x \in Range(Cached) PROVE x \in first .. published
        BY <1>1, <1>4 DEF Range, n
    <2> QED
        BY <2>1, <2>2
<1> QED
    BY <1>5, <1>7, <1>8

\* publish_media numbers one message and keeps the types.
LEMMA PublishType ==
    ASSUME TypeOK, NEW f \in Feeder, NEW keyframe \in BOOLEAN, Publish(f, keyframe)
    PROVE  TypeOK' /\ published' = published + 1
<1>1. /\ by' \in Seq(Feeder) /\ published' = published + 1 /\ published \in Nat
    BY DEF TypeOK, Publish, published
<1>2. first' \in 1 .. published' + 1
    BY <1>1, DeliveryAssumption DEF TypeOK, Publish
<1>3. feed' \in [Feeder -> [msg : 0 .. published', left : SUBSET Viewer]]
    BY <1>1 DEF TypeOK, Publish, Registered
<1>4. Seq(1 .. published) \subseteq Seq(1 .. published')
    BY <1>1, SeqMonotonic
<1>5. base' \in [Viewer -> 0 .. published']
    BY <1>1 DEF TypeOK, Publish
<1>6. handing' \in [Viewer -> Seq(1 .. published')] /\ inbox' \in [Viewer -> Seq(1 .. published')]
    BY <1>4 DEF TypeOK, Publish
<1> QED
    BY <1>1, <1>2, <1>3, <1>5, <1>6 DEF TypeOK, Publish

-----------------------------------------------------------------------------
(* What is on its way.  A message is in one place only: copies of the cache *)
(* hold what was published before the registration, feeders deliver what    *)
(* was published after it, and each its own.                                *)

Places ==
    /\ \A v \in Viewer :
          /\ phase[v] \in {"copied", "queued"} => v \in TwoStep
          /\ phase[v] = "out" => handing[v] = << >>
          /\ phase[v] \in {"out", "copied"} => inbox[v] = << >>
          /\ v \in TwoStep /\ phase[v] # "copied" => handing[v] = << >>
          /\ Increasing(handing[v])
          /\ phase[v] \in {"in", "gone"} => \A n \in Range(handing[v]) : n <= base[v]
    /\ \A f \in Feeder : \A v \in feed[f].left :
          /\ phase[v] \in {"in", "gone"}
          /\ feed[f].msg \in 1 .. published
          /\ by[feed[f].msg] = f
          /\ base[v] < feed[f].msg

Once == \A v \in Viewer : Got(v) \cap Owed(v) = {}

DeliveryInv == TypeOK /\ Places /\ Once

\* What a viewer hears goes to the end of its inbox, or nowhere.
LEMMA HearType ==
    ASSUME TypeOK, NEW v \in Viewer, NEW n \in 1 .. published, Hear(v, n)
    PROVE  inbox' \in [Viewer -> Seq(1 .. published)]
<1> DEFINE S == 1 .. published
<1>1. inbox \in [Viewer -> Seq(S)] /\ n \in S
    BY DEF TypeOK
<1> HIDE DEF S
<1>2. [inbox EXCEPT ![v] = Append(@, n)] \in [Viewer -> Seq(S)]
    BY <1>1, PutSeq
<1>3. inbox' \in [Viewer -> Seq(S)]
    BY <1>1, <1>2 DEF Hear
<1> QED
    BY <1>3 DEF S

\* No step but publish_media numbers a message, and all of them keep the types.
LEMMA OtherType ==
    ASSUME TypeOK, Places, [Next]_vars,
           ~ \E f \in Feeder, keyframe \in BOOLEAN : Publish(f, keyframe)
    PROVE  TypeOK' /\ published' = published
<1>1. by' = by
    BY DEF Next, FeederStep, JoinStep, Republish, Deliver, Join, Copy, Hand, Enqueue,
           JoinLive, Leave, vars
<1>2. published' = published /\ published \in Nat
    BY <1>1 DEF published, TypeOK
<1> DEFINE T == TypeOK'
<1>3. CASE Republish
    BY <1>1, <1>2, <1>3 DEF TypeOK, Republish
<1>4. ASSUME NEW f \in Feeder, NEW v \in Viewer, Deliver(f, v) PROVE T
    <2>1. feed[f].msg \in 0 .. published /\ feed[f].left \subseteq Viewer
        BY DEF TypeOK
    <2>2. feed' \in [Feeder -> [msg : 0 .. published, left : SUBSET Viewer]]
        BY <1>4, <2>1 DEF TypeOK, Deliver
    <2>3. feed[f].msg \in 1 .. published
        BY <1>4 DEF Deliver, Places
    <2>4. inbox' \in [Viewer -> Seq(1 .. published)]
        BY <1>4, <2>3, HearType DEF Deliver
    <2> QED
        BY <1>1, <1>2, <1>4, <2>2, <2>4 DEF TypeOK, Deliver
<1>5. ASSUME NEW v \in Viewer, Join(v) \/ Copy(v) PROVE T
    <2>1. Cached \in Seq(1 .. published)
        BY CachedOK
    <2>2. handing' \in [Viewer -> Seq(1 .. published)]
        <3> DEFINE S == 1 .. published
        <3>1. Cached \in Seq(S) /\ handing \in [Viewer -> Seq(S)]
            BY <2>1 DEF TypeOK
        <3> HIDE DEF S
        <3>2. [handing EXCEPT ![v] = Cached] \in [Viewer -> Seq(S)]
            BY <3>1, PutSeq
        <3>3. handing' \in [Viewer -> Seq(S)]
            BY <1>5, <3>2 DEF Join, Copy
        <3> QED
            BY <3>3 DEF S
    <2>3. /\ phase' \in [Viewer -> Phase]
          /\ base' \in [Viewer -> 0 .. published]
          /\ UNCHANGED << by, first, feed, inbox >>
        <3>1. phase \in [Viewer -> Phase] /\ base \in [Viewer -> 0 .. published]
            BY DEF TypeOK
        <3>2. published \in 0 .. published
            BY <1>2
        <3>3. CASE Join(v)
            BY <3>1, <3>2, <3>3 DEF Join, Phase
        <3>4. CASE Copy(v)
            BY <3>1, <3>4 DEF Copy, Phase
        <3> QED
            BY <1>5, <3>3, <3>4
    <2>4. /\ handing' \in [Viewer -> Seq(1 .. published')]
          /\ inbox' \in [Viewer -> Seq(1 .. published')]
          /\ base' \in [Viewer -> 0 .. published']
        BY <1>2, <2>2, <2>3 DEF TypeOK
    <2>5. /\ first' \in 1 .. published' + 1
          /\ feed' \in [Feeder -> [msg : 0 .. published', left : SUBSET Viewer]]
          /\ by' \in Seq(Feeder)
        BY <1>2, <2>3 DEF TypeOK
    <2> QED
        BY <2>3, <2>4, <2>5 DEF TypeOK
<1>6. ASSUME NEW v \in Viewer, Hand(v) PROVE T
    <2> DEFINE S == 1 .. published
    <2>1. handing \in [Viewer -> Seq(S)] /\ handing[v] # << >>
        BY <1>6 DEF TypeOK, Hand
    <2> HIDE DEF S
    <2>2. handing' \in [Viewer -> Seq(S)] /\ Head(handing[v]) \in S
        BY <1>6, <2>1, PutSeq DEF Hand
    <2>3. inbox' \in [Viewer -> Seq(1 .. published)]
        BY <1>6, <2>2, HearType DEF Hand, S
    <2> QED
        BY <1>1, <1>2, <1>6, <2>2, <2>3 DEF TypeOK, Hand, S
<1>7. ASSUME NEW v \in Viewer, Enqueue(v) PROVE T
    BY <1>1, <1>2, <1>7, EmptySeq DEF TypeOK, Enqueue, Phase
<1>8. ASSUME NEW v \in Viewer, JoinLive(v) PROVE T
    BY <1>1, <1>2, <1>8 DEF TypeOK, JoinLive, Phase
<1>9. ASSUME NEW v \in Viewer, Leave(v) PROVE T
    BY <1>1, <1>2, <1>9 DEF TypeOK, Leave, Phase
<1>10. CASE UNCHANGED vars
    BY <1>1, <1>2, <1>10 DEF TypeOK, vars
<1> QED
    BY <1>2, <1>3, <1>4, <1>5, <1>6, <1>7, <1>8, <1>9, <1>10 DEF Next, FeederStep, JoinStep

\* What changes for nobody but v.
OthersKept(v) == \A w \in Viewer \ {v} : Owed(w)' = Owed(w) /\ Got(w)' = Got(w)

\* One message n leaves the way to v, and v gets it, or has left.
Moved(v, n) ==
    /\ n \in Owed(v)
    /\ Owed(v)' = Owed(v) \ {n}
    /\ \/ Got(v)' = Got(v) \cup {n}
       \/ phase[v] = "gone" /\ Got(v)' = Got(v)
    /\ OthersKept(v)

\* A viewer that hears a message has it afterwards, unless it has left; the
\* inboxes of the others stay.
LEMMA HearEffect ==
    ASSUME TypeOK, NEW v \in Viewer, NEW n \in 1 .. published, Hear(v, n)
    PROVE  /\ \/ Got(v)' = Got(v) \cup {n}
              \/ phase[v] = "gone" /\ Got(v)' = Got(v)
           /\ \A w \in Viewer \ {v} : Got(w)' = Got(w)
<1>1. inbox[v] \in Seq(1 .. published)
    BY DEF TypeOK
<1>2. CASE inbox' = [inbox EXCEPT ![v] = Append(@, n)]
    <2>1. inbox'[v] = Append(inbox[v], n) /\ \A w \in Viewer \ {v} : inbox'[w] = inbox[w]
        BY <1>2 DEF TypeOK
    <2>2. Range(Append(inbox[v], n)) = Range(inbox[v]) \cup {n}
        <3> DEFINE S == 1 .. published
        <3>1. inbox[v] \in Seq(S) /\ n \in S
            BY <1>1
        <3> HIDE DEF S
        <3> QED
            BY <3>1, RangeAppend
    <2> QED
        BY <2>1, <2>2 DEF Got
<1>3. CASE phase[v] = "gone" /\ UNCHANGED inbox
    BY <1>3 DEF Got
<1> QED
    BY <1>2, <1>3 DEF Hear

\* The fan-out to one viewer takes the message out of the copy of the feeder and
\* gives it to that viewer.
LEMMA DeliverEffect ==
    ASSUME DeliveryInv, NEW f \in Feeder, NEW v \in Viewer, Deliver(f, v)
    PROVE  Moved(v, feed[f].msg)
<1> DEFINE n == feed[f].msg
<1>1. /\ TypeOK /\ Places /\ v \in feed[f].left /\ n \in 1 .. published
    BY DEF DeliveryInv, Deliver, Places
<1>2. /\ \A g \in Feeder : feed'[g].msg = feed[g].msg
      /\ \A g \in Feeder \ {f} : feed'[g].left = feed[g].left
      /\ feed'[f].left = feed[f].left \ {v}
      /\ handing' = handing
    BY <1>1 DEF Deliver, TypeOK
<1>3. n \in Owed(v)
    BY <1>1 DEF Owed
<1>4. \A w \in Viewer \ {v} : Owed(w)' = Owed(w)
    BY <1>2 DEF Owed
<1>5. \A g \in Feeder \ {f} : v \in feed[g].left => feed[g].msg # n
    BY <1>1 DEF Places
<1>6. n \notin Range(handing[v])
    <2>1. base[v] < n /\ \A m \in Range(handing[v]) : m <= base[v]
        BY <1>1 DEF Places
    <2>2. base[v] \in Nat /\ n \in Nat
        BY <1>1 DEF TypeOK
    <2> QED
        BY <2>1, <2>2
<1>7. Owed(v)' = Owed(v) \ {n}
    <2> HIDE DEF n
    <2>1. {feed'[g].msg : g \in {h \in Feeder : v \in feed'[h].left}}
            = {feed[g].msg : g \in {h \in Feeder : v \in feed[h].left}} \ {n}
        BY <1>2, <1>5 DEF n
    <2> QED
        BY <1>2, <1>6, <2>1 DEF Owed
<1>8. Hear(v, n)
    BY DEF Deliver
<1> HIDE DEF n
<1>9. /\ \/ Got(v)' = Got(v) \cup {n}
         \/ phase[v] = "gone" /\ Got(v)' = Got(v)
      /\ \A w \in Viewer \ {v} : Got(w)' = Got(w)
    BY <1>1, <1>8, HearEffect
<1> QED
    BY <1>3, <1>4, <1>7, <1>9 DEF Moved, OthersKept, n

\* The serving of one cached message takes the oldest of the copy and leaves the
\* rest in order.
LEMMA HandEffect ==
    ASSUME DeliveryInv, NEW v \in Viewer, Hand(v)
    PROVE  Moved(v, Head(handing[v])) /\ Increasing(handing'[v])
           /\ Range(handing'[v]) \subseteq Range(handing[v])
<1> DEFINE q == handing[v]
           n == Head(q)
<1>1. TypeOK /\ Places /\ v \notin TwoStep /\ q # << >>
    BY DEF DeliveryInv, Hand
<1>2. q \in Seq(1 .. published) /\ published \in Nat /\ base[v] \in Nat
    BY <1>1 DEF TypeOK, published
<1>3. q \in Seq(Nat) /\ Increasing(q)
    <2>1. 1 .. published \subseteq Nat
        OBVIOUS
    <2>2. Increasing(q)
        BY <1>1 DEF Places
    <2> DEFINE S == 1 .. published
    <2> HIDE DEF S, q
    <2>3. q \in Seq(S) /\ S \subseteq Nat
        BY <1>2, <2>1 DEF S
    <2>4. q \in Seq(Nat)
        BY <2>3, SeqMonotonic
    <2> QED
        BY <2>2, <2>4
<1>4. /\ Increasing(Tail(q))
      /\ Range(Tail(q)) = Range(q) \ {n}
      /\ n \in Range(q)
    BY <1>1, <1>3, TailIncreasing
<1>5. /\ handing'[v] = Tail(q)
      /\ \A w \in Viewer \ {v} : handing'[w] = handing[w]
      /\ feed' = feed
    BY <1>1 DEF Hand, TypeOK
<1>6. phase[v] \in {"in", "gone"}
    BY <1>1 DEF Places, TypeOK, Phase
<1>7. \A f \in Feeder : v \in feed[f].left => feed[f].msg # n
    <2> SUFFICES ASSUME NEW f \in Feeder, v \in feed[f].left PROVE feed[f].msg # n
        OBVIOUS
    <2>1. base[v] < feed[f].msg /\ feed[f].msg \in 1 .. published
        BY <1>1 DEF Places
    <2>2. n <= base[v]
        BY <1>1, <1>4, <1>6 DEF Places
    <2>3. n \in Nat
        BY <1>3, <1>1, HeadTailProperties
    <2> QED
        BY <1>2, <2>1, <2>2, <2>3
<1>8. n \in Owed(v)
    BY <1>4 DEF Owed
<1>9. Owed(v)' = Owed(v) \ {n}
    <2> HIDE DEF n
    <2>1. Owed(v)' = Range(handing'[v]) \cup {feed[f].msg : f \in {g \in Feeder : v \in feed[g].left}}
        BY <1>5 DEF Owed
    <2>2. n \notin {feed[f].msg : f \in {g \in Feeder : v \in feed[g].left}}
        BY <1>7
    <2> QED
        BY <1>4, <1>5, <2>1, <2>2 DEF Owed
<1>10. \A w \in Viewer \ {v} : Owed(w)' = Owed(w)
    BY <1>5 DEF Owed
<1>11. n \in 1 .. published
    BY <1>2, <1>4, RangeType
<1>12. Hear(v, n)
    BY DEF Hand
<1>13. Increasing(handing'[v]) /\ Range(handing'[v]) \subseteq Range(handing[v])
    BY <1>4, <1>5
<1> HIDE DEF n
<1>14. /\ \/ Got(v)' = Got(v) \cup {n}
          \/ phase[v] = "gone" /\ Got(v)' = Got(v)
       /\ \A w \in Viewer \ {v} : Got(w)' = Got(w)
    BY <1>1, <1>11, <1>12, HearEffect
<1> QED
    BY <1>8, <1>9, <1>10, <1>13, <1>14 DEF Moved, OthersKept, n

\* A published message is on its way to whoever is registered, and to nobody else.
LEMMA PublishEffect ==
    ASSUME DeliveryInv, NEW f \in Feeder, NEW keyframe \in BOOLEAN, Publish(f, keyframe)
    PROVE  \A v \in Viewer :
              /\ Got(v)' = Got(v)
              /\ Owed(v)' = IF phase[v] = "in" THEN Owed(v) \cup {published + 1} ELSE Owed(v)
<1> SUFFICES ASSUME NEW v \in Viewer
             PROVE  /\ Got(v)' = Got(v)
                    /\ Owed(v)' = IF phase[v] = "in" THEN Owed(v) \cup {published + 1} ELSE Owed(v)
    OBVIOUS
<1> DEFINE m == published + 1
<1>1. TypeOK /\ feed[f].left = {} /\ handing' = handing /\ inbox' = inbox
    BY DEF DeliveryInv, Publish
<1>2. /\ feed'[f].msg = m /\ feed'[f].left = Registered
      /\ \A g \in Feeder \ {f} : feed'[g] = feed[g]
    BY <1>1 DEF Publish, TypeOK
<1> HIDE DEF m
<1> DEFINE Old == {feed[g].msg : g \in {h \in Feeder : v \in feed[h].left}}
           New == {feed'[g].msg : g \in {h \in Feeder : v \in feed'[h].left}}
<1>3. New = IF phase[v] = "in" THEN Old \cup {m} ELSE Old
    <2>1. CASE phase[v] = "in"
        <3>1. v \in feed'[f].left
            BY <1>2, <2>1 DEF Registered
        <3> QED
            BY <1>1, <1>2, <2>1, <3>1
    <2>2. CASE phase[v] # "in"
        <3>1. v \notin feed'[f].left
            BY <1>2, <2>2 DEF Registered
        <3> QED
            BY <1>1, <1>2, <2>2, <3>1
    <2> QED
        BY <2>1, <2>2
<1>4. Owed(v) = Range(handing[v]) \cup Old /\ Owed(v)' = Range(handing[v]) \cup New
    BY <1>1 DEF Owed
<1>5. Got(v)' = Got(v)
    BY <1>1 DEF Got
<1> HIDE DEF Old, New
<1> QED
    BY <1>3, <1>4, <1>5 DEF m

\* Who has not joined is owed nothing: the copy of the cache is all there is.
LEMMA JoinEffect ==
    ASSUME DeliveryInv, NEW v \in Viewer, Join(v) \/ Copy(v)
    PROVE  /\ Owed(v) = {} /\ Got(v) = {} /\ Got(v)' = {}
           /\ Owed(v)' = first .. published
           /\ OthersKept(v)
<1>1. TypeOK /\ Places /\ phase[v] = "out"
    BY DEF DeliveryInv, Join, Copy
<1>2. handing[v] = << >> /\ inbox[v] = << >> /\ \A f \in Feeder : v \notin feed[f].left
    BY <1>1 DEF Places
<1>3. /\ handing'[v] = Cached
      /\ \A w \in Viewer \ {v} : handing'[w] = handing[w]
      /\ inbox' = inbox /\ feed' = feed
    BY <1>1 DEF Join, Copy, TypeOK
<1>4. Range(Cached) = first .. published
    BY <1>1, CachedOK
<1>5. Owed(v) = {} /\ Got(v) = {} /\ Got(v)' = {}
    BY <1>2, <1>3, RangeEmpty DEF Owed, Got
<1>6. Owed(v)' = first .. published
    BY <1>2, <1>3, <1>4 DEF Owed
<1>7. OthersKept(v)
    BY <1>3 DEF OthersKept, Owed, Got
<1> QED
    BY <1>5, <1>6, <1>7

\* WHEP and RTSP viewers enter with the whole copy of the cache in their queue and
\* are owed nothing else at that moment.
LEMMA EnqueueEffect ==
    ASSUME DeliveryInv, NEW v \in Viewer, Enqueue(v)
    PROVE  /\ Got(v) = {} /\ Got(v)' = Owed(v) /\ Owed(v)' = {}
           /\ OthersKept(v)
<1>1. TypeOK /\ Places /\ phase[v] = "copied"
    BY DEF DeliveryInv, Enqueue
<1>2. inbox[v] = << >> /\ \A f \in Feeder : v \notin feed[f].left
    BY <1>1 DEF Places
<1>3. /\ handing'[v] = << >> /\ inbox'[v] = handing[v]
      /\ \A w \in Viewer \ {v} : handing'[w] = handing[w] /\ inbox'[w] = inbox[w]
      /\ feed' = feed
    BY <1>1 DEF Enqueue, TypeOK
<1>4. Got(v) = {} /\ Got(v)' = Range(handing[v])
    BY <1>2, <1>3, RangeEmpty DEF Got
<1>5. Owed(v)' = {} /\ Owed(v) = Range(handing[v])
    BY <1>2, <1>3, RangeEmpty DEF Owed
<1>6. OthersKept(v)
    BY <1>3 DEF OthersKept, Owed, Got
<1> QED
    BY <1>4, <1>5, <1>6

\* The other steps deliver nothing.
LEMMA StillEffect ==
    ASSUME UNCHANGED << feed, handing, inbox >>, NEW v \in Viewer
    PROVE  Owed(v)' = Owed(v) /\ Got(v)' = Got(v)
BY DEF Owed, Got

-----------------------------------------------------------------------------
(* DeliveryInv is inductive. *)

\* In the initial state no message is anywhere.
LEMMA InitDelivery == Init => DeliveryInv
<1> SUFFICES ASSUME Init PROVE DeliveryInv
    OBVIOUS
<1>1. TypeOK
    BY InitType
<1>2. Places
    BY RangeEmpty DEF Init, Places, Increasing
<1>3. Once
    BY RangeEmpty DEF Init, Once, Got
<1> QED
    BY <1>1, <1>2, <1>3 DEF DeliveryInv

\* Every step keeps the copies in the places a viewer of that phase can have.
LEMMA PlacesStep == DeliveryInv /\ [Next]_vars => Places'
<1> SUFFICES ASSUME DeliveryInv, [Next]_vars PROVE Places'
    OBVIOUS
<1>a. TypeOK /\ Places
    BY DEF DeliveryInv
<1>b. published \in Nat /\ \A v \in Viewer : base[v] \in 0 .. published
    BY <1>a DEF TypeOK, published
<1>1. ASSUME NEW f \in Feeder, NEW keyframe \in BOOLEAN, Publish(f, keyframe) PROVE Places'
    <2>1. published' = published + 1
        BY <1>1, <1>a, PublishType
    <2>2. /\ phase' = phase /\ handing' = handing /\ inbox' = inbox /\ base' = base
          /\ feed'[f].msg = published + 1 /\ feed'[f].left = Registered
          /\ \A g \in Feeder \ {f} : feed'[g] = feed[g]
        BY <1>1, <1>a DEF Publish, TypeOK
    <2>3. by'[published + 1] = f /\ \A n \in 1 .. published : by'[n] = by[n]
        BY <1>1, <1>a DEF Publish, TypeOK, published
    <2>4. ASSUME NEW g \in Feeder, NEW v \in feed'[g].left
          PROVE  /\ phase'[v] \in {"in", "gone"}
                 /\ feed'[g].msg \in 1 .. published'
                 /\ by'[feed'[g].msg] = g
                 /\ base'[v] < feed'[g].msg
        <3>1. CASE g = f
            BY <1>b, <2>1, <2>2, <2>3, <2>4, <3>1 DEF Registered
        <3>2. CASE g # f
            BY <1>a, <1>b, <2>1, <2>2, <2>3, <2>4, <3>2 DEF Places
        <3> QED
            BY <3>1, <3>2
    <2> QED
        BY <1>a, <2>2, <2>4 DEF Places
<1>2. CASE Republish
    BY <1>2, <1>a DEF Republish, Places, published
<1>3. ASSUME NEW f \in Feeder, NEW v \in Viewer, Deliver(f, v) PROVE Places'
    <2>1. /\ \A g \in Feeder : feed'[g].msg = feed[g].msg /\ feed'[g].left \subseteq feed[g].left
          /\ UNCHANGED << by, first, phase, handing, base >>
        BY <1>3, <1>a DEF Deliver, TypeOK
    <2>2. published' = published
        BY <2>1 DEF published
    <2>3. \A w \in Viewer : phase[w] \in {"out", "copied"} => inbox'[w] = << >>
        <3>1. phase[v] \in {"in", "gone"}
            BY <1>3, <1>a DEF Deliver, Places
        <3>2. \A w \in Viewer \ {v} : inbox'[w] = inbox[w]
            BY <1>3, <1>a DEF Deliver, Hear, TypeOK
        <3> QED
            BY <1>a, <3>1, <3>2 DEF Places
    <2> QED
        BY <1>a, <2>1, <2>2, <2>3 DEF Places
<1>4. ASSUME NEW v \in Viewer, Join(v) \/ Copy(v) PROVE Places'
    <2>1. phase[v] = "out" /\ \A f \in Feeder : v \notin feed[f].left
        BY <1>4, <1>a DEF Join, Copy, Places
    <2>2. /\ handing'[v] = Cached
          /\ \/ phase'[v] = "in" /\ v \notin TwoStep /\ base'[v] = published
             \/ phase'[v] = "copied" /\ v \in TwoStep
          /\ \A w \in Viewer \ {v} : /\ handing'[w] = handing[w] /\ phase'[w] = phase[w]
                                      /\ base'[w] = base[w]
          /\ UNCHANGED << by, feed, inbox >>
        <3>1. CASE Join(v)
            BY <1>a, <3>1 DEF Join, TypeOK
        <3>2. CASE Copy(v)
            BY <1>a, <3>2 DEF Copy, TypeOK
        <3> QED
            BY <1>4, <3>1, <3>2
    <2>3. published' = published
        BY <2>2 DEF published
    <2>4. inbox[v] = << >>
        BY <1>a, <2>1 DEF Places
    <2>5. Increasing(Cached) /\ \A n \in Range(Cached) : n <= published
        BY <1>a, <1>b, CachedOK DEF TypeOK
    <2>6. /\ phase'[v] \in {"copied", "queued"} => v \in TwoStep
          /\ phase'[v] = "out" => handing'[v] = << >>
          /\ phase'[v] \in {"out", "copied"} => inbox'[v] = << >>
          /\ v \in TwoStep /\ phase'[v] # "copied" => handing'[v] = << >>
          /\ Increasing(handing'[v])
          /\ phase'[v] \in {"in", "gone"} => \A n \in Range(handing'[v]) : n <= base'[v]
        BY <2>2, <2>4, <2>5
    <2>7. ASSUME NEW f \in Feeder, NEW w \in feed'[f].left
          PROVE  /\ phase'[w] \in {"in", "gone"}
                 /\ feed'[f].msg \in 1 .. published'
                 /\ by'[feed'[f].msg] = f
                 /\ base'[w] < feed'[f].msg
        <3>1. w \in feed[f].left /\ w # v /\ w \in Viewer
            BY <1>a, <2>1, <2>2, <2>7 DEF TypeOK
        <3> QED
            BY <1>a, <2>2, <2>3, <3>1 DEF Places
    <2> QED
        BY <1>a, <2>2, <2>6, <2>7 DEF Places
<1>5. ASSUME NEW v \in Viewer, Hand(v) PROVE Places'
    <2>1. Increasing(handing'[v]) /\ Range(handing'[v]) \subseteq Range(handing[v])
        BY <1>5, HandEffect
    <2>2. /\ v \notin TwoStep /\ phase[v] \in {"in", "gone"}
          /\ \A w \in Viewer \ {v} : handing'[w] = handing[w]
          /\ UNCHANGED << by, first, feed, phase, base >>
        BY <1>5, <1>a DEF Hand, Places, TypeOK, Phase
    <2>3. \A w \in Viewer \ {v} : inbox'[w] = inbox[w]
        BY <1>5, <1>a DEF Hand, Hear, TypeOK
    <2>4. published' = published
        BY <2>2 DEF published
    <2> QED
        BY <1>a, <2>1, <2>2, <2>3, <2>4 DEF Places
<1>6. ASSUME NEW v \in Viewer, Enqueue(v) PROVE Places'
    <2>1. /\ phase[v] = "copied" /\ phase'[v] = "queued" /\ handing'[v] = << >>
          /\ \A w \in Viewer \ {v} : /\ handing'[w] = handing[w] /\ phase'[w] = phase[w]
                                      /\ inbox'[w] = inbox[w]
          /\ UNCHANGED << by, feed, base >>
        BY <1>6, <1>a DEF Enqueue, TypeOK
    <2>2. published' = published
        BY <2>1 DEF published
    <2>3. Increasing(<< >>)
        BY DEF Increasing
    <2>4. v \in TwoStep /\ \A f \in Feeder : v \notin feed[f].left
        BY <1>a, <2>1 DEF Places
    <2>5. ASSUME NEW f \in Feeder, NEW w \in feed'[f].left
          PROVE  /\ phase'[w] \in {"in", "gone"}
                 /\ feed'[f].msg \in 1 .. published'
                 /\ by'[feed'[f].msg] = f
                 /\ base'[w] < feed'[f].msg
        <3>1. w \in feed[f].left /\ w # v /\ w \in Viewer
            BY <1>a, <2>1, <2>4, <2>5 DEF TypeOK
        <3> QED
            BY <1>a, <2>1, <2>2, <3>1 DEF Places
    <2> QED
        BY <1>a, <2>1, <2>3, <2>4, <2>5 DEF Places
<1>7. ASSUME NEW v \in Viewer, JoinLive(v) PROVE Places'
    <2>1. /\ phase[v] = "queued" /\ phase'[v] = "in" /\ base'[v] = published
          /\ \A w \in Viewer \ {v} : phase'[w] = phase[w] /\ base'[w] = base[w]
          /\ UNCHANGED << by, feed, handing, inbox >>
        BY <1>7, <1>a DEF JoinLive, TypeOK
    <2>2. published' = published
        BY <2>1 DEF published
    <2>3. handing[v] = << >> /\ \A f \in Feeder : v \notin feed[f].left
        BY <1>a, <2>1 DEF Places
    <2> QED
        BY <1>a, <2>1, <2>2, <2>3, RangeEmpty DEF Places, TypeOK
<1>8. ASSUME NEW v \in Viewer, Leave(v) PROVE Places'
    <2>1. /\ phase[v] = "in" /\ phase'[v] = "gone"
          /\ \A w \in Viewer \ {v} : phase'[w] = phase[w]
          /\ UNCHANGED << by, feed, handing, inbox, base >>
        BY <1>8, <1>a DEF Leave, TypeOK
    <2>2. published' = published
        BY <2>1 DEF published
    <2> QED
        BY <1>a, <2>1, <2>2 DEF Places, TypeOK
<1>9. CASE UNCHANGED vars
    BY <1>9, <1>a DEF Places, vars, published
<1> QED
    BY <1>1, <1>2, <1>3, <1>4, <1>5, <1>6, <1>7, <1>8, <1>9 DEF Next, FeederStep, JoinStep

\* No step lets a viewer be owed a message that it already got.
LEMMA OnceStep == DeliveryInv /\ [Next]_vars => Once'
<1> SUFFICES ASSUME DeliveryInv, [Next]_vars, NEW v \in Viewer PROVE Got(v)' \cap Owed(v)' = {}
    BY DEF Once
<1>a. TypeOK /\ Got(v) \cap Owed(v) = {}
    BY DEF DeliveryInv, Once
<1>1. ASSUME NEW f \in Feeder, NEW keyframe \in BOOLEAN, Publish(f, keyframe)
      PROVE  Got(v)' \cap Owed(v)' = {}
    <2>1. published + 1 \notin Got(v)
        <3>1. inbox[v] \in Seq(1 .. published) /\ published \in Nat
            BY <1>a DEF TypeOK, published
        <3>2. Got(v) \subseteq 1 .. published
            BY <3>1, RangeType DEF Got
        <3> QED
            BY <3>1, <3>2
    <2>2. /\ Got(v)' = Got(v)
          /\ Owed(v)' = IF phase[v] = "in" THEN Owed(v) \cup {published + 1} ELSE Owed(v)
        BY <1>1, PublishEffect
    <2> HIDE DEF published
    <2> QED
        BY <1>a, <2>1, <2>2
<1>2. ASSUME NEW w \in Viewer, NEW n, Moved(w, n) PROVE Got(v)' \cap Owed(v)' = {}
    BY <1>a, <1>2 DEF Moved, OthersKept
<1>3. ASSUME NEW w \in Viewer, Join(w) \/ Copy(w) PROVE Got(v)' \cap Owed(v)' = {}
    BY <1>a, <1>3, JoinEffect DEF OthersKept
<1>4. ASSUME NEW w \in Viewer, Enqueue(w) PROVE Got(v)' \cap Owed(v)' = {}
    BY <1>a, <1>4, EnqueueEffect DEF OthersKept
<1>5. ASSUME UNCHANGED << feed, handing, inbox >> PROVE Got(v)' \cap Owed(v)' = {}
    BY <1>a, <1>5, StillEffect
<1>6. ASSUME NEW f \in Feeder, NEW w \in Viewer, Deliver(f, w) PROVE Got(v)' \cap Owed(v)' = {}
    BY <1>2, <1>6, DeliverEffect
<1>7. ASSUME NEW w \in Viewer, Hand(w) PROVE Got(v)' \cap Owed(v)' = {}
    BY <1>2, <1>7, HandEffect
<1>8. ASSUME NEW w \in Viewer, JoinLive(w) \/ Leave(w) PROVE Got(v)' \cap Owed(v)' = {}
    BY <1>5, <1>8 DEF JoinLive, Leave
<1>9. CASE Republish \/ UNCHANGED vars
    BY <1>5, <1>9 DEF Republish, vars
<1> QED
    BY <1>1, <1>3, <1>4, <1>6, <1>7, <1>8, <1>9 DEF Next, FeederStep, JoinStep

\* DeliveryInv survives every step.
LEMMA DeliveryStep == DeliveryInv /\ [Next]_vars => DeliveryInv'
<1> SUFFICES ASSUME DeliveryInv, [Next]_vars PROVE DeliveryInv'
    OBVIOUS
<1>1. TypeOK'
    BY PublishType, OtherType DEF DeliveryInv
<1> QED
    BY <1>1, PlacesStep, OnceStep DEF DeliveryInv

\* DeliveryInv holds throughout.
THEOREM DeliveryInvHolds == Spec => []DeliveryInv
<1>1. Init => DeliveryInv
    BY InitDelivery
<1>2. DeliveryInv /\ [Next]_vars => DeliveryInv'
    BY DeliveryStep
<1> QED
    BY <1>1, <1>2, PTL DEF Spec

\* The stream, its feeders and its viewers keep their types.
THEOREM DeliveryTypeCorrect == Spec => []TypeOK
<1>1. DeliveryInv => TypeOK
    BY DEF DeliveryInv
<1> QED
    BY <1>1, DeliveryInvHolds, PTL

-----------------------------------------------------------------------------
(* No gap: what a registered viewer got and is owed is an interval that     *)
(* ends with the last message published.                                    *)

\* A viewer that registers under the lock that copies the cache is never past a
\* message it neither got nor is owed.
LEMMA NoGapStep == DeliveryInv /\ NoGap /\ [Next]_vars => NoGap'
<1> DEFINE Has(v) == Owed(v) \cup Got(v)
<1> SUFFICES ASSUME DeliveryInv, NoGap, [Next]_vars,
                    NEW v \in Viewer, phase'[v] = "in", v \notin TwoStep
             PROVE  \E n \in 1 .. published' + 1 : Has(v)' = n .. published'
    BY DEF NoGap, Registered
<1> DEFINE Goal == \E n \in 1 .. published' + 1 : Has(v)' = n .. published'
<1>a. TypeOK /\ Places /\ published \in Nat
    BY DEF DeliveryInv, TypeOK, published
<1>0. ASSUME phase[v] = "in", Has(v)' = Has(v), published' = published PROVE Goal
    BY <1>0 DEF NoGap, Registered
<1>1. ASSUME NEW f \in Feeder, NEW keyframe \in BOOLEAN, Publish(f, keyframe) PROVE Goal
    <2>1. phase[v] = "in" /\ published' = published + 1
        BY <1>1, <1>a, PublishType DEF Publish
    <2>2. Has(v)' = Has(v) \cup {published + 1}
        BY <1>1, <2>1, PublishEffect
    <2>3. PICK n \in 1 .. published + 1 : Has(v) = n .. published
        BY <2>1 DEF NoGap, Registered
    <2> HIDE DEF Has, published
    <2>4. Has(v)' = n .. published'
        BY <1>a, <2>1, <2>2, <2>3
    <2> QED
        BY <1>a, <2>1, <2>4
<1> HIDE DEF Goal
<1>2. ASSUME NEW w \in Viewer, NEW n, Moved(w, n), phase' = phase, published' = published
      PROVE  Goal
    <2>1. phase[v] = "in"
        BY <1>2
    <2>2. Has(v)' = Has(v)
        BY <1>2, <2>1 DEF Moved, OthersKept
    <2> QED
        BY <1>0, <1>2, <2>1, <2>2
<1>3. ASSUME NEW f \in Feeder, NEW w \in Viewer, Deliver(f, w) PROVE Goal
    BY <1>2, <1>3, DeliverEffect DEF Deliver, published
<1>4. ASSUME NEW w \in Viewer, Hand(w) PROVE Goal
    BY <1>2, <1>4, HandEffect DEF Hand, published
<1>5. ASSUME NEW w \in Viewer, Join(w) \/ Copy(w) PROVE Goal
    <2>1. published' = published /\ first \in 1 .. published + 1
        BY <1>5, <1>a DEF Join, Copy, published, TypeOK
    <2>2. CASE w = v
        <3>1. Has(v)' = first .. published
            BY <1>5, <2>2, JoinEffect
        <3> QED
            BY <2>1, <3>1 DEF Goal
    <2>3. CASE w # v
        <3>1. phase[v] = "in"
            BY <1>5, <1>a, <2>3 DEF Join, Copy, TypeOK
        <3>2. Has(v)' = Has(v)
            BY <1>5, <2>3, JoinEffect DEF OthersKept
        <3> QED
            BY <1>0, <2>1, <3>1, <3>2
    <2> QED
        BY <2>2, <2>3
<1>6. ASSUME NEW w \in Viewer, Enqueue(w) PROVE Goal
    <2>1. w # v /\ phase[v] = "in" /\ published' = published
        BY <1>6, <1>a DEF Enqueue, Places, TypeOK, published
    <2>2. Has(v)' = Has(v)
        BY <1>6, <2>1, EnqueueEffect DEF OthersKept
    <2> QED
        BY <1>0, <2>1, <2>2
<1>7. ASSUME NEW w \in Viewer, JoinLive(w) \/ Leave(w) PROVE Goal
    <2>1. /\ phase[v] = "in" /\ published' = published
          /\ UNCHANGED << feed, handing, inbox >>
        BY <1>7, <1>a DEF JoinLive, Leave, Places, TypeOK, published
    <2>2. Has(v)' = Has(v)
        BY <2>1, StillEffect
    <2> QED
        BY <1>0, <2>1, <2>2
<1>8. ASSUME Republish \/ UNCHANGED vars PROVE Goal
    <2>1. /\ phase[v] = "in" /\ published' = published
          /\ UNCHANGED << feed, handing, inbox >>
        BY <1>8 DEF Republish, vars, published
    <2>2. Has(v)' = Has(v)
        BY <2>1, StillEffect
    <2> QED
        BY <1>0, <2>1, <2>2
<1>9. Goal
    BY <1>1, <1>3, <1>4, <1>5, <1>6, <1>7, <1>8 DEF Next, FeederStep, JoinStep
<1> QED
    BY <1>9 DEF Goal

\* add_subscriber and add_callback_subscriber register a viewer in the locked block
\* that copies the cache, so that it misses nothing.
THEOREM NoGapHolds == Spec => []NoGap
<1>1. Init => NoGap
    BY DEF Init, NoGap, Registered
<1>2. DeliveryInv /\ NoGap /\ [Next]_vars => NoGap'
    BY NoGapStep
<1> QED
    BY <1>1, <1>2, DeliveryInvHolds, PTL DEF Spec

-----------------------------------------------------------------------------
(* In order: what a feeder delivers is its latest message, and the viewer    *)
(* got nothing later of that feeder; the copies of the cache are increasing. *)

Latest == \A f \in Feeder : \A n \in 1 .. published : by[n] = f => n <= feed[f].msg

OrderInv == DeliveryInv /\ Latest /\ LiveInOrder

\* Only publish_media moves a feeder on, to the message that it just numbered.
LEMMA LatestStep == OrderInv /\ [Next]_vars => Latest'
<1> SUFFICES ASSUME OrderInv, [Next]_vars PROVE Latest'
    OBVIOUS
<1>a. TypeOK /\ Places /\ Latest /\ published \in Nat
    BY DEF OrderInv, DeliveryInv, TypeOK, published
<1>1. ASSUME NEW f \in Feeder, NEW keyframe \in BOOLEAN, Publish(f, keyframe) PROVE Latest'
    <2>1. published' = published + 1
        BY <1>1, <1>a, PublishType
    <2>2. /\ \A n \in 1 .. published : by'[n] = by[n]
          /\ by'[published + 1] = f
          /\ feed'[f].msg = published + 1
          /\ \A g \in Feeder \ {f} : feed'[g] = feed[g]
        BY <1>1, <1>a DEF Publish, published, TypeOK
    <2> SUFFICES ASSUME NEW g \in Feeder, NEW n \in 1 .. published + 1, by'[n] = g
                 PROVE  n <= feed'[g].msg
        BY <2>1 DEF Latest
    <2> HIDE DEF published
    <2>3. CASE g = f
        BY <1>a, <2>2, <2>3
    <2>4. CASE g # f
        <3>1. n \in 1 .. published
            BY <1>a, <2>2, <2>4
        <3> QED
            BY <1>a, <2>2, <2>4, <3>1 DEF Latest
    <2> QED
        BY <2>3, <2>4
<1>2. ASSUME by' = by, \A f \in Feeder : feed'[f].msg = feed[f].msg PROVE Latest'
    BY <1>a, <1>2 DEF Latest, published
<1>3. ASSUME NEW f \in Feeder, NEW v \in Viewer, Deliver(f, v) PROVE Latest'
    <2>1. by' = by /\ \A g \in Feeder : feed'[g].msg = feed[g].msg
        BY <1>3, <1>a DEF Deliver, TypeOK
    <2> QED
        BY <1>2, <2>1
<1>4. CASE UNCHANGED << by, feed >>
    BY <1>2, <1>4
<1> QED
    BY <1>1, <1>3, <1>4
    DEF Next, FeederStep, JoinStep, Republish, Join, Copy, Hand, Enqueue, JoinLive, Leave, vars

\* A viewer may hear a message that is cached, or later than all it got of its feeder.
LEMMA HearInOrder ==
    ASSUME TypeOK, LiveInOrder, NEW v \in Viewer, NEW n \in 1 .. published, Hear(v, n),
           by' = by, base' = base,
           \/ v \notin TwoStep /\ n <= base[v]
           \/ \A m \in Got(v) : by[m] = by[n] => m < n
    PROVE  LiveInOrder'
<1> SUFFICES ASSUME NEW w \in Viewer,
                    NEW j \in 1 .. Len(inbox'[w]), NEW i \in 1 .. j - 1,
                    by[inbox'[w][i]] = by[inbox'[w][j]], inbox'[w][i] >= inbox'[w][j]
             PROVE  w \notin TwoStep /\ inbox'[w][j] <= base[w]
    BY DEF LiveInOrder
<1>0. published \in Nat
    BY DEF TypeOK, published
<1>1. inbox \in [Viewer -> Seq(1 .. published)] /\ inbox[v] \in Seq(1 .. published)
    BY DEF TypeOK
<1>2. CASE inbox'[w] = inbox[w]
    BY <1>2 DEF LiveInOrder
<1>3. CASE w = v /\ inbox'[v] = Append(inbox[v], n)
    <2> DEFINE k == Len(inbox[v])
    <2>1. /\ k \in Nat /\ Len(inbox'[v]) = k + 1
          /\ inbox'[v][k + 1] = n
          /\ \A x \in 1 .. k : inbox'[v][x] = inbox[v][x] /\ inbox[v][x] \in 1 .. published
          /\ DOMAIN inbox[v] = 1 .. k
        <3> DEFINE S == 1 .. published
                   q == inbox[v]
        <3>1. q \in Seq(S) /\ n \in S
            BY <1>1
        <3> HIDE DEF S, q
        <3>2. /\ Len(q) \in Nat /\ DOMAIN q = 1 .. Len(q)
              /\ Len(Append(q, n)) = Len(q) + 1
              /\ Append(q, n)[Len(q) + 1] = n
              /\ \A x \in 1 .. Len(q) : Append(q, n)[x] = q[x] /\ q[x] \in S
            BY <3>1
        <3> QED
            BY <1>3, <3>2 DEF S, q
    <2> HIDE DEF k
    <2>2. i \in 1 .. k /\ inbox[v][i] \in Got(v)
        BY <1>3, <2>1 DEF Got, Range
    <2>3. CASE j = k + 1
        <3>1. inbox'[w][j] = n /\ inbox'[w][i] = inbox[v][i] /\ inbox[v][i] \in 1 .. published
            BY <1>3, <2>1, <2>2, <2>3
        <3>2. ~ (by[inbox[v][i]] = by[n] => inbox[v][i] < n)
            BY <1>0, <3>1
        <3> QED
            BY <1>3, <2>2, <3>1, <3>2
    <2>4. CASE j \in 1 .. k
        BY <1>3, <2>1, <2>2, <2>4 DEF LiveInOrder, k
    <2> QED
        BY <1>3, <2>1, <2>3, <2>4
<1> QED
    BY <1>1, <1>2, <1>3 DEF Hear

\* Nothing that a thread does out of its turn puts a message of a feeder behind a
\* later one in an inbox, cached messages of a viewer that registered first excepted.
LEMMA LiveInOrderStep == OrderInv /\ [Next]_vars => LiveInOrder'
<1> SUFFICES ASSUME OrderInv, [Next]_vars PROVE LiveInOrder'
    OBVIOUS
<1>a. TypeOK /\ Places /\ Once /\ Latest /\ LiveInOrder /\ published \in Nat
    BY DEF OrderInv, DeliveryInv, TypeOK, published
<1>1. ASSUME NEW f \in Feeder, NEW keyframe \in BOOLEAN, Publish(f, keyframe)
      PROVE  LiveInOrder'
    <2>1. /\ \A n \in 1 .. published : by'[n] = by[n]
          /\ inbox' = inbox /\ base' = base
        BY <1>1, <1>a DEF Publish, published, TypeOK
    <2>2. ASSUME NEW v \in Viewer, NEW x \in 1 .. Len(inbox[v])
          PROVE  inbox[v][x] \in 1 .. published
        <3>1. inbox[v] \in Seq(1 .. published)
            BY <1>a DEF TypeOK
        <3> QED
            BY <3>1, ElementOfSeq
    <2> SUFFICES ASSUME NEW v \in Viewer, NEW j \in 1 .. Len(inbox[v]), NEW i \in 1 .. j - 1,
                        by'[inbox[v][i]] = by'[inbox[v][j]], inbox[v][i] >= inbox[v][j]
                 PROVE  v \notin TwoStep /\ inbox[v][j] <= base[v]
        BY <2>1 DEF LiveInOrder
    <2>3. Len(inbox[v]) \in Nat /\ i \in 1 .. Len(inbox[v])
        BY <1>a DEF TypeOK
    <2>4. by[inbox[v][i]] = by[inbox[v][j]]
        BY <2>1, <2>2, <2>3
    <2> QED
        BY <1>a, <2>4 DEF LiveInOrder
<1>2. ASSUME NEW f \in Feeder, NEW v \in Viewer, Deliver(f, v) PROVE LiveInOrder'
    <2> DEFINE n == feed[f].msg
    <2>1. v \in feed[f].left /\ n \in 1 .. published /\ by[n] = f
        BY <1>2, <1>a DEF Deliver, Places
    <2>2. n \notin Got(v)
        BY <1>a, <2>1 DEF Once, Owed
    <2>3. Got(v) \subseteq 1 .. published
        <3>1. inbox[v] \in Seq(1 .. published)
            BY <1>a DEF TypeOK
        <3> QED
            BY <3>1, RangeType DEF Got
    <2>4. ASSUME NEW m \in Got(v), by[m] = by[n] PROVE m < n
        <3>1. m <= n /\ m # n /\ m \in Nat /\ n \in Nat
            BY <1>a, <2>1, <2>2, <2>3, <2>4 DEF Latest
        <3> QED
            BY <3>1
    <2>5. Hear(v, n) /\ by' = by /\ base' = base
        BY <1>2 DEF Deliver
    <2> HIDE DEF n
    <2> QED
        BY <1>a, <2>1, <2>4, <2>5, HearInOrder
<1>3. ASSUME NEW v \in Viewer, Hand(v) PROVE LiveInOrder'
    <2> DEFINE n == Head(handing[v])
    <2>1. handing[v] # << >> /\ v \notin TwoStep /\ Hear(v, n) /\ by' = by /\ base' = base
        BY <1>3 DEF Hand
    <2>2. n \in 1 .. published /\ n \in Range(handing[v])
        <3> DEFINE S == 1 .. published
                   q == handing[v]
        <3>1. q \in Seq(S) /\ q # << >>
            BY <1>a, <2>1 DEF TypeOK
        <3> HIDE DEF S, q
        <3>2. Head(q) \in S /\ Head(q) = q[1] /\ 1 \in DOMAIN q
            BY <3>1, EmptySeq
        <3> QED
            BY <3>2 DEF Range, S, q
    <2>3. phase[v] \in {"in", "gone"}
        BY <1>a, <2>1 DEF Places, TypeOK, Phase
    <2>4. n <= base[v]
        BY <1>a, <2>2, <2>3 DEF Places
    <2> HIDE DEF n
    <2> QED
        BY <1>a, <2>1, <2>2, <2>4, HearInOrder
<1>4. ASSUME NEW v \in Viewer, Join(v) \/ JoinLive(v) PROVE LiveInOrder'
    <2>1. /\ by' = by /\ inbox' = inbox
          /\ \A w \in Viewer \ {v} : base'[w] = base[w]
        BY <1>4, <1>a DEF Join, JoinLive, TypeOK
    <2>2. inbox[v] = << >> \/ v \in TwoStep
        BY <1>4, <1>a DEF Join, JoinLive, Places
    <2> SUFFICES ASSUME NEW w \in Viewer, NEW j \in 1 .. Len(inbox[w]), NEW i \in 1 .. j - 1,
                        by[inbox[w][i]] = by[inbox[w][j]], inbox[w][i] >= inbox[w][j]
                 PROVE  w \notin TwoStep /\ inbox[w][j] <= base'[w]
        BY <2>1 DEF LiveInOrder
    <2>3. w \notin TwoStep /\ inbox[w][j] <= base[w]
        BY <1>a DEF LiveInOrder
    <2>4. w # v
        BY <2>2, <2>3, EmptySeq
    <2> QED
        BY <2>1, <2>3, <2>4
<1>5. ASSUME NEW v \in Viewer, Enqueue(v) PROVE LiveInOrder'
    <2>1. /\ by' = by /\ base' = base /\ phase[v] = "copied"
          /\ inbox'[v] = handing[v]
          /\ \A w \in Viewer \ {v} : inbox'[w] = inbox[w]
        BY <1>5, <1>a DEF Enqueue, TypeOK
    <2> SUFFICES ASSUME NEW w \in Viewer, NEW j \in 1 .. Len(inbox'[w]), NEW i \in 1 .. j - 1,
                        by[inbox'[w][i]] = by[inbox'[w][j]], inbox'[w][i] >= inbox'[w][j]
                 PROVE  w \notin TwoStep /\ inbox'[w][j] <= base[w]
        BY <2>1 DEF LiveInOrder
    <2>2. CASE w # v
        BY <1>a, <2>1, <2>2 DEF LiveInOrder
    <2>3. CASE w = v
        <3>1. handing[v] \in Seq(1 .. published) /\ Increasing(handing[v])
            BY <1>a DEF TypeOK, Places
        <3>2. j \in 1 .. Len(handing[v]) /\ i \in 1 .. Len(handing[v])
            BY <2>1, <2>3, <3>1
        <3>3. handing[v][i] < handing[v][j]
            BY <3>1, <3>2 DEF Increasing
        <3>4. handing[v][i] \in Nat /\ handing[v][j] \in Nat
            <4> DEFINE S == 1 .. published
                       q == handing[v]
            <4>1. q \in Seq(S) /\ i \in 1 .. Len(q) /\ j \in 1 .. Len(q)
                BY <3>1, <3>2
            <4> HIDE DEF S, q
            <4>2. q[i] \in S /\ q[j] \in S
                BY <4>1, ElementOfSeq
            <4> QED
                BY <4>2 DEF S, q
        <3> QED
            BY <2>1, <2>3, <3>3, <3>4
    <2> QED
        BY <2>2, <2>3
<1>6. CASE UNCHANGED << by, inbox, base >>
    BY <1>6, <1>a DEF LiveInOrder
<1> QED
    BY <1>1, <1>2, <1>3, <1>4, <1>5, <1>6
    DEF Next, FeederStep, JoinStep, Republish, Copy, Leave, vars

\* Two live messages of one feeder never overtake each other on the way to a viewer,
\* whatever the deliveries of other feeders, joins and removals in between.
THEOREM LiveInOrderHolds == Spec => []LiveInOrder
<1>1. Init => OrderInv
    <2> SUFFICES ASSUME Init PROVE OrderInv
        OBVIOUS
    <2>1. Latest /\ LiveInOrder
        BY EmptySeq DEF Init, Latest, LiveInOrder, published
    <2> QED
        BY <2>1, InitDelivery DEF OrderInv
<1>2. OrderInv /\ [Next]_vars => OrderInv'
    BY LatestStep, LiveInOrderStep, DeliveryStep DEF OrderInv
<1>3. OrderInv => LiveInOrder
    BY DEF OrderInv
<1> QED
    BY <1>1, <1>2, <1>3, PTL DEF Spec

-----------------------------------------------------------------------------
(* Exactly once: MediaDelivery implements Fanout. *)

\* The initial state maps to the initial state of Fanout.
LEMMA AbstractInit == Init => Abstract!Init
<1> SUFFICES ASSUME Init PROVE Abstract!Init
    OBVIOUS
<1>1. ASSUME NEW v \in Viewer PROVE Owed(v) = {} /\ Got(v) = {} /\ Stage(phase[v]) = "out"
    BY RangeEmpty DEF Init, Owed, Got, Stage
<1> QED
    BY <1>1 DEF Init, published, Abstract!Init

\* A step of the stream is a step of Fanout, or changes nothing that Fanout sees:
\* Publish is Publish, Join and Copy are Offer, JoinLive is Enter, Leave is Quit,
\* Deliver, Hand and Enqueue are Receive, or Forget for a viewer that has left.
LEMMA AbstractStep == DeliveryInv /\ [Next]_vars => [Abstract!Next]_(Abstract!vars)
<1> DEFINE stage == [v \in Viewer |-> Stage(phase[v])]
           owed == [v \in Viewer |-> Owed(v)]
           got == [v \in Viewer |-> Got(v)]
           Step == [Abstract!Next]_(Abstract!vars)
<1> SUFFICES ASSUME DeliveryInv, [Next]_vars PROVE Step
    OBVIOUS
<1>a. TypeOK /\ Places
    BY DEF DeliveryInv
<1>b. /\ stage' = [v \in Viewer |-> Stage(phase'[v])]
      /\ owed' = [v \in Viewer |-> Owed(v)']
      /\ got' = [v \in Viewer |-> Got(v)']
    BY DEF Stage
<1>1. ASSUME NEW f \in Feeder, NEW keyframe \in BOOLEAN, Publish(f, keyframe) PROVE Abstract!Publish
    <2>1. phase' = phase /\ published' = published + 1
        BY <1>1, <1>a, PublishType DEF Publish
    <2>2. \A v \in Viewer : (Stage(phase[v]) = "in") = (phase[v] = "in")
        BY <1>a DEF Stage, TypeOK, Phase
    <2>3. stage' = stage
        BY <2>1, <1>b
    <2>4. got' = got
        BY <1>1, <1>b, PublishEffect
    <2>5. owed' = [v \in Viewer |->
                     IF stage[v] = "in" THEN owed[v] \cup {published + 1} ELSE owed[v]]
        BY <1>1, <1>b, <2>2, PublishEffect
    <2> QED
        BY <2>1, <2>3, <2>4, <2>5 DEF Abstract!Publish
<1>2. ASSUME NEW v \in Viewer, NEW n, Moved(v, n), phase' = phase, published' = published
      PROVE  Abstract!Receive(v) \/ Abstract!Forget(v)
    <2>1. stage' = stage
        BY <1>2, <1>b
    <2>2. {n} \in SUBSET owed[v] /\ owed' = [owed EXCEPT ![v] = @ \ {n}]
        BY <1>2, <1>b DEF Moved, OthersKept
    <2>3. CASE Got(v)' = Got(v) \cup {n}
        <3>1. got' = [got EXCEPT ![v] = @ \cup {n}]
            BY <1>2, <1>b, <2>3 DEF Moved, OthersKept
        <3> HIDE DEF stage, owed, got
        <3> QED
            BY <1>2, <2>1, <2>2, <3>1 DEF Abstract!Receive, stage, owed, got
    <2>4. CASE phase[v] = "gone" /\ Got(v)' = Got(v)
        <3>1. got' = got /\ stage[v] = "gone"
            BY <1>2, <1>b, <2>4 DEF Moved, OthersKept, Stage
        <3> QED
            BY <1>2, <2>1, <2>2, <3>1 DEF Abstract!Forget
    <2> QED
        BY <1>2, <2>3, <2>4 DEF Moved
<1>3. ASSUME NEW v \in Viewer, Join(v) \/ Copy(v) PROVE Abstract!Offer(v)
    <2>1. /\ published' = published /\ phase[v] = "out"
          /\ phase'[v] \in {"in", "copied"}
          /\ \A w \in Viewer \ {v} : phase'[w] = phase[w]
        BY <1>3, <1>a DEF Join, Copy, TypeOK, published
    <2>2. stage[v] = "out"
        BY <2>1 DEF Stage
    <2>3. \E to \in {"in", "offered"} : stage' = [stage EXCEPT ![v] = to]
        <3>1. Stage(phase'[v]) \in {"in", "offered"}
            BY <2>1 DEF Stage
        <3>2. stage' = [stage EXCEPT ![v] = Stage(phase'[v])]
            BY <1>b, <2>1
        <3> QED
            BY <3>1, <3>2
    <2>4. first \in 1 .. published + 1 /\ owed' = [owed EXCEPT ![v] = first .. published]
        BY <1>3, <1>a, <1>b, JoinEffect DEF OthersKept, TypeOK
    <2>5. got' = got
        BY <1>3, <1>b, JoinEffect DEF OthersKept
    <2> QED
        BY <2>1, <2>2, <2>3, <2>4, <2>5 DEF Abstract!Offer
<1>4. ASSUME NEW v \in Viewer, Enqueue(v) PROVE Abstract!Receive(v)
    <2>1. /\ published' = published /\ phase[v] = "copied" /\ phase'[v] = "queued"
          /\ \A w \in Viewer \ {v} : phase'[w] = phase[w]
        BY <1>4, <1>a DEF Enqueue, TypeOK, published
    <2>2. stage' = stage
        BY <1>b, <2>1 DEF Stage
    <2>3. /\ owed' = [owed EXCEPT ![v] = @ \ Owed(v)]
          /\ got' = [got EXCEPT ![v] = @ \cup Owed(v)]
        BY <1>4, <1>b, EnqueueEffect DEF OthersKept
    <2>4. Owed(v) \in SUBSET owed[v]
        OBVIOUS
    <2> QED
        BY <2>1, <2>2, <2>3, <2>4 DEF Abstract!Receive
<1>5. ASSUME NEW v \in Viewer, JoinLive(v) \/ Leave(v) PROVE Abstract!Enter(v) \/ Abstract!Quit(v)
    <2>1. /\ \/ phase[v] = "queued" /\ phase'[v] = "in"
             \/ phase[v] = "in" /\ phase'[v] = "gone"
          /\ \A w \in Viewer \ {v} : phase'[w] = phase[w]
          /\ UNCHANGED << by, feed, handing, inbox >>
        BY <1>5, <1>a DEF JoinLive, Leave, TypeOK
    <2>2. published' = published /\ owed' = owed /\ got' = got
        BY <1>b, <2>1, StillEffect DEF published
    <2>3. \/ stage[v] = "offered" /\ stage' = [stage EXCEPT ![v] = "in"]
          \/ stage[v] = "in" /\ stage' = [stage EXCEPT ![v] = "gone"]
        BY <1>b, <2>1 DEF Stage
    <2> QED
        BY <2>2, <2>3 DEF Abstract!Enter, Abstract!Quit
<1>6. ASSUME Republish \/ UNCHANGED vars PROVE UNCHANGED Abstract!vars
    <2>1. UNCHANGED << by, feed, phase, handing, inbox >>
        BY <1>6 DEF Republish, vars
    <2>2. published' = published /\ owed' = owed /\ got' = got /\ stage' = stage
        BY <1>b, <2>1, StillEffect DEF published
    <2> QED
        BY <2>2 DEF Abstract!vars
<1>7. ASSUME NEW f \in Feeder, NEW v \in Viewer, Deliver(f, v)
      PROVE  Abstract!Receive(v) \/ Abstract!Forget(v)
    BY <1>2, <1>7, DeliverEffect DEF Deliver, published
<1>8. ASSUME NEW v \in Viewer, Hand(v) PROVE Abstract!Receive(v) \/ Abstract!Forget(v)
    BY <1>2, <1>8, HandEffect DEF Hand, published
<1> HIDE DEF stage, owed, got
<1>9. \/ Abstract!Publish
      \/ \E v \in Viewer : \/ Abstract!Offer(v) \/ Abstract!Enter(v) \/ Abstract!Receive(v)
                           \/ Abstract!Quit(v) \/ Abstract!Forget(v)
      \/ UNCHANGED Abstract!vars
    BY <1>1, <1>3, <1>4, <1>5, <1>6, <1>7, <1>8 DEF Next, FeederStep, JoinStep
<1> QED
    BY <1>9 DEF Abstract!Next

\* The fan-out on copies, with viewers that join and leave meanwhile, gives every
\* viewer each message it is owed exactly once.
THEOREM Refines == Spec => ImplementsFanout
<1>1. Init => Abstract!Init
    BY AbstractInit
<1>2. DeliveryInv /\ [Next]_vars => [Abstract!Next]_(Abstract!vars)
    BY AbstractStep
<1> QED
    BY <1>1, <1>2, DeliveryInvHolds, PTL DEF Spec, Abstract!Spec, ImplementsFanout

=============================================================================
