--------------------------- MODULE RecordingManager ---------------------------
(***************************************************************************)
(* The recordings of the console: one ffmpeg per stream, begun by a        *)
(* request or by maybeAutoRecord after an on_publish, ended by a request   *)
(* or by itself.  Node runs one callback at a time; an action is what runs *)
(* from one await to the next.                                             *)
(***************************************************************************)
EXTENDS Naturals

CONSTANTS
    Key,        \* streams
    Starter,    \* calls of start under way at one time
    MaxStarts   \* bound of the model: processes started

RecordingBounds == Key # {} /\ MaxStarts \in Nat \ {0}

VARIABLES
    starting,   \* per call: the stream it is starting, as a set of at most one
    recordings, \* per stream: the process in the map, 0 for none
    recorder,   \* per process: live, ending, ended, or unborn when spawn failed
    ofStream,   \* per process: its stream
    crowded     \* per stream: two calls of start were under way at once

recordingVars == << starting, recordings, recorder, ofStream, crowded >>

Recorder == 1..MaxStarts

Init ==
    /\ starting = [c \in Starter |-> {}] /\ recordings = [k \in Key |-> 0]
    /\ recorder = [p \in Recorder |-> "none"]
    /\ ofStream = [p \in Recorder |-> CHOOSE k \in Key : TRUE]
    /\ crowded = [k \in Key |-> FALSE]

Alive(p) == recorder[p] \in {"live", "ending"}

\* Mutant: a recording that was told to stop counts as over.
NotStopped(k) == recordings[k] # 0 /\ recorder[recordings[k]] \in {"live", "unborn"}

\* The entry has not exited.  Only the exit event sets that, so a process that was
\* never born is in it for ever.
Recording(k) == recordings[k] # 0 /\ recorder[recordings[k]] # "ended"

\* start, up to its first await.  A stream that is being recorded, is not ready, or
\* must not be recorded changes nothing.
Start(c, k) ==
    /\ starting[c] = {} /\ ~Recording(k)
    /\ starting' = [starting EXCEPT ![c] = {k}]
    /\ crowded' = [crowded EXCEPT ![k] = @ \/ \E d \in Starter : k \in starting[d]]
    /\ UNCHANGED << recordings, recorder, ofStream >>

\* The directories are made: spawn, the handlers of its events, and the entry.
Spawn(c, k, p) ==
    /\ k \in starting[c]
    /\ recorder[p] = "none" /\ \A q \in 1..(p - 1) : recorder[q] # "none"
    /\ \E result \in {"live", "unborn"} : recorder' = [recorder EXCEPT ![p] = result]
    /\ ofStream' = [ofStream EXCEPT ![p] = k]
    /\ recordings' = [recordings EXCEPT ![k] = p]
    /\ starting' = [starting EXCEPT ![c] = {}]
    /\ UNCHANGED crowded

\* A directory that cannot be made is an error to the caller.
Fail(c) ==
    /\ starting[c] # {}
    /\ starting' = [starting EXCEPT ![c] = {}]
    /\ UNCHANGED << recordings, recorder, ofStream, crowded >>

\* stop: SIGINT to the process in the map, then SIGTERM and SIGKILL if it has not
\* exited in time.  The entry stays; what stop does after its waits is to report.
Stop(k) ==
    /\ Recording(k) /\ recorder[recordings[k]] = "live"
    /\ recorder' = [recorder EXCEPT ![recordings[k]] = "ending"]
    /\ UNCHANGED << starting, recordings, ofStream, crowded >>

\* The exit event of a process that was told to stop or ended itself.
Exit(p) ==
    /\ Alive(p)
    /\ recorder' = [recorder EXCEPT ![p] = "ended"]
    /\ UNCHANGED << starting, recordings, ofStream, crowded >>

Next ==
    \/ \E c \in Starter : Fail(c) \/ \E k \in Key :
          Start(c, k) \/ \E p \in Recorder : Spawn(c, k, p)
    \/ \E k \in Key : Stop(k)
    \/ \E p \in Recorder : Exit(p)

RecordingSpec == Init /\ [][Next]_recordingVars

-----------------------------------------------------------------------------
\* A recorder that lives is the one the manager knows for its stream, so that stop
\* reaches it - though it may be stopping while another start comes, and a request
\* may start what the stream events start.  Exception, where crowded holds: two
\* calls of start checked before either had spawned (recording_manager.js:160);
\* then the recorder of the first is forgotten and nothing stops it.
OneRecorder ==
    \A p \in Recorder : Alive(p) => crowded[ofStream[p]] \/ recordings[ofStream[p]] = p

=============================================================================
