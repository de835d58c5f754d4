------------------------------- MODULE Fanout -------------------------------
(***************************************************************************)
(* What the media path of the stream registry promises one viewer: from    *)
(* the cached messages it is offered when it joins, and of every message   *)
(* published while it is in, it gets each exactly once, in no particular   *)
(* order.  MediaDelivery implements this.                                  *)
(***************************************************************************)
EXTENDS Naturals

CONSTANTS Viewer

VARIABLES
    published,   \* messages are numbered in the order the registry took them
    stage,       \* where each viewer is
    owed,        \* what each viewer still has to get
    got          \* what it got

vars == << published, stage, owed, got >>

Init ==
    /\ published = 0
    /\ stage = [v \in Viewer |-> "out"]
    /\ owed = [v \in Viewer |-> {}]
    /\ got = [v \in Viewer |-> {}]

Publish ==
    /\ published' = published + 1
    /\ owed' = [v \in Viewer |->
                  IF stage[v] = "in" THEN owed[v] \cup {published + 1} ELSE owed[v]]
    /\ UNCHANGED << stage, got >>

\* A viewer is offered the latest messages, and is in, or will be.
Offer(v) ==
    /\ stage[v] = "out"
    /\ \E n \in 1 .. published + 1 : owed' = [owed EXCEPT ![v] = n .. published]
    /\ \E to \in {"in", "offered"} : stage' = [stage EXCEPT ![v] = to]
    /\ UNCHANGED << published, got >>

Enter(v) ==
    /\ stage[v] = "offered"
    /\ stage' = [stage EXCEPT ![v] = "in"]
    /\ UNCHANGED << published, owed, got >>

Receive(v) ==
    /\ \E part \in SUBSET owed[v] :
          /\ owed' = [owed EXCEPT ![v] = @ \ part]
          /\ got' = [got EXCEPT ![v] = @ \cup part]
    /\ UNCHANGED << published, stage >>

Quit(v) ==
    /\ stage[v] = "in"
    /\ stage' = [stage EXCEPT ![v] = "gone"]
    /\ UNCHANGED << published, owed, got >>

\* Nobody owes anything to a viewer that has left.
Forget(v) ==
    /\ stage[v] = "gone"
    /\ \E part \in SUBSET owed[v] : owed' = [owed EXCEPT ![v] = @ \ part]
    /\ UNCHANGED << published, stage, got >>

Next ==
    \/ Publish
    \/ \E v \in Viewer : Offer(v) \/ Enter(v) \/ Receive(v) \/ Quit(v) \/ Forget(v)

Spec == Init /\ [][Next]_vars

=============================================================================
