----------------------------- MODULE StreamEvents -----------------------------
(***************************************************************************)
(* The events the console reports of streams.  reconcileStreamEvents       *)
(* compares a snapshot of the gateway's streams with what it noted of them *)
(* last, in streamEventState, and awaits the delivery of each event before *)
(* it goes on; the timer and two kinds of request call it, each with a     *)
(* snapshot of its own.  An event counts from when the manager remembers   *)
(* it, which is where its delivery begins; delivery itself, with its       *)
(* retries and timeouts, is only the await, and so is maybeAutoRecord,     *)
(* whose recordings are RecordingManager's.  An action is what runs from   *)
(* one await to the next.                                                  *)
(*                                                                         *)
(* A stream is the set of what holds of it; {} is a stream not listed.     *)
(***************************************************************************)
CONSTANTS
    Key,      \* streams
    Reporter  \* calls of reconcileStreamEvents under way at one time

EventBounds == Key # {}

VARIABLES
    reports,    \* per call: where it awaits, the stream it is at, what it found
                \* of it, what it has still to report, and the keys of its snapshot
    eventState, \* streamEventState
    heard,      \* per stream: what the events remembered so far say of it
    repeated,   \* per stream: an event said what the one before it had said
    overlapped  \* per stream: two calls were at it at once

eventVars == << reports, eventState, heard, repeated, overlapped >>

Fact == {"publisher", "viewers", "hls"}

\* The events on_publish and on_unpublish, on_play and on_stop; an on_hls with
\* "ready" has no counterpart for a stream that goes, and is not followed up.
Paired == {"publisher", "viewers"}

NoReport == [at |-> "none", key |-> CHOOSE k \in Key : TRUE,
             found |-> {}, due |-> {}, live |-> {}]

Init ==
    /\ reports = [r \in Reporter |-> NoReport]
    /\ eventState = [k \in Key |-> {}] /\ heard = [k \in Key |-> {}]
    /\ repeated = [k \in Key |-> FALSE] /\ overlapped = [k \in Key |-> FALSE]

\* The call has read the entry of k and will write it.
Visiting(r, k) == reports[r].at = "emitting" /\ reports[r].key = k

\* The one of some events that comes first.
Earliest(due) ==
    CHOOSE f \in due : \/ f = "publisher"
                       \/ f = "viewers" /\ "publisher" \notin due
                       \/ due = {"hls"}

\* The call goes on at its stream: it emits the next event, or it writes the entry
\* - deletes it, if the stream is not listed - and leaves the stream.
Proceed(r, report) ==
    LET k == report.key IN
    IF report.due = {}
    THEN /\ eventState' = [eventState EXCEPT ![k] = report.found]
         /\ reports' = [reports EXCEPT ![r] = [NoReport EXCEPT !.live = report.live,
                           !.at = IF report.found = {} THEN "removing" ELSE "looping"]]
         /\ UNCHANGED << heard, repeated >>
    ELSE LET f == Earliest(report.due)
             new == f \in report.found
         IN  /\ reports' = [reports EXCEPT ![r] = [report EXCEPT !.due = @ \ {f},
                                                                   !.at = "emitting"]]
             /\ repeated' = [repeated EXCEPT ![k] = @ \/ (f \in Paired /\ new = (f \in heard[k]))]
             /\ heard' = [heard EXCEPT ![k] = IF f \notin Paired THEN @
                             ELSE IF new THEN @ \cup {f} ELSE @ \ {f}]
             /\ UNCHANGED eventState

\* The entry of k is read, and compared with what was found.
Read(r, k, found, due, live) ==
    /\ overlapped' = [overlapped EXCEPT ![k] = @ \/ \E s \in Reporter \ {r} : Visiting(s, k)]
    /\ Proceed(r, [at |-> "looping", key |-> k, found |-> found, due |-> due, live |-> live])

-----------------------------------------------------------------------------
\* A snapshot is at hand.  A fetch that failed counts as one without streams.
Reconcile(r) ==
    /\ reports[r].at = "none"
    /\ reports' = [reports EXCEPT ![r].at = "looping"]
    /\ UNCHANGED << eventState, heard, repeated, overlapped >>

\* The next stream of the snapshot, whose playlist is looked up now.
Visit(r, k) ==
    /\ reports[r].at = "looping" /\ k \notin reports[r].live
    /\ \E found \in {facts \cup {"listed"} : facts \in SUBSET Fact} :
          Read(r, k, found, {f \in Fact : (f \in found) # (f \in eventState[k])},
               reports[r].live \cup {k})

\* The snapshot has no more streams.
Listed(r) ==
    /\ reports[r].at = "looping"
    /\ reports' = [reports EXCEPT ![r].at = "removing"]
    /\ UNCHANGED << eventState, heard, repeated, overlapped >>

\* Mutant: the viewers of a stream that goes are forgotten.
RemoveUnpublished(r, k) ==
    /\ reports[r].at = "removing" /\ k \notin reports[r].live /\ eventState[k] # {}
    /\ Read(r, k, {}, eventState[k] \cap {"publisher"}, reports[r].live)

\* An entry of a stream that the snapshot did not have; an entry that another call
\* adds is still met.
Remove(r, k) ==
    /\ reports[r].at = "removing" /\ k \notin reports[r].live /\ eventState[k] # {}
    /\ Read(r, k, {}, eventState[k] \cap Paired, reports[r].live)

Reconciled(r) ==
    /\ reports[r].at = "removing"
    /\ \A k \in Key : eventState[k] # {} => k \in reports[r].live
    /\ reports' = [reports EXCEPT ![r] = NoReport]
    /\ UNCHANGED << eventState, heard, repeated, overlapped >>

\* An event has been delivered, or given up.
Emitted(r) ==
    /\ reports[r].at = "emitting"
    /\ Proceed(r, reports[r])
    /\ UNCHANGED overlapped

Next ==
    \E r \in Reporter :
       \/ Reconcile(r) \/ Listed(r) \/ Reconciled(r) \/ Emitted(r)
       \/ \E k \in Key : Visit(r, k) \/ Remove(r, k)

EventSpec == Init /\ [][Next]_eventVars

-----------------------------------------------------------------------------
\* Whoever listens to the events of a stream hears each transition once: no event
\* repeats the one before it, and between two calls what the events say of the
\* stream is what the console compares the next snapshot with - through snapshots
\* that arrive out of order, streams that go and come back between two deliveries,
\* and entries that change under the iteration.  Exception, where overlapped holds:
\* two calls were at the stream at once (server.js:1247); both report the same
\* transition, or one writes what the other has reported otherwise.
ReportedOnce ==
    \A k \in Key :
       \/ overlapped[k]
       \/ /\ ~repeated[k]
          /\ (\A r \in Reporter : ~Visiting(r, k)) => heard[k] = eventState[k] \cap Paired

=============================================================================
