----------------------------- MODULE HlsManager -----------------------------
(***************************************************************************)
(* The HLS manager of the console: ensureRunning starts an ffmpeg that     *)
(* writes the playlist of a stream, for the timer's syncStreams and for    *)
(* requests.  Node runs one callback at a time, but between two awaits of  *)
(* one call any other call may run: an action is what runs from an await   *)
(* to the next.  One clean-up is under way at a time (a model bound).      *)
(***************************************************************************)
EXTENDS Naturals, Sequences

CONSTANTS
    Key,        \* streams
    SplitStreamKey, \* per stream: the names on the way to its directory, sanitised
    Caller,     \* calls of ensureRunning under way
    MaxStarts   \* bound of the model: processes started

HlsBounds ==
    /\ Key # {} /\ SplitStreamKey \in [Key -> Seq(STRING)]
    /\ MaxStarts \in Nat \ {0}

VARIABLES
    calls,     \* per caller: where it awaits, and for which stream
    processes, \* per stream: the process it has in the map, 0 for none
    ffmpeg,    \* per process: live, ending, ended, or unborn when spawn failed
    ofKey,     \* per process: its stream
    exited,    \* per process: the flag that the exit event sets
    backoff,   \* per stream: the last attempt is within restartBackoffMs
    dir,       \* per directory of a stream: none, empty, fresh or old playlist
    sweep,     \* the clean-up: where it awaits and the directories it has to look at
    raced      \* per stream: two calls were in each other's way

hlsVars == << calls, processes, ffmpeg, ofKey, exited, backoff, dir, sweep, raced >>

\* streamDir: a segment of the key is a directory, and what it may not be called
\* becomes "_".  Streams have directories in common, or one inside another's.
StreamDir(k) == SplitStreamKey[k]
Dir == {StreamDir(k) : k \in Key}

\* d is e, or lies below it: what rimrafDir(e) takes away.
Within(d, e) == \E n \in 0..Len(d) : e = SubSeq(d, 1, n)

\* The directory of k is that of another stream, or lies below it.
Shared(k) == \E j \in Key \ {k} : Within(StreamDir(k), StreamDir(j))

Proc == 1..MaxStarts
None == 0
NoCall == [at |-> "none", key |-> CHOOSE k \in Key : TRUE]
NoSweep == [at |-> "none", dirs |-> {}, chosen |-> {}]

Init ==
    /\ calls = [c \in Caller |-> NoCall] /\ processes = [k \in Key |-> None]
    /\ ffmpeg = [p \in Proc |-> "none"] /\ exited = [p \in Proc |-> FALSE]
    /\ ofKey = [p \in Proc |-> NoCall.key]
    /\ backoff = [k \in Key |-> FALSE] /\ dir = [d \in Dir |-> "none"]
    /\ sweep = NoSweep /\ raced = [k \in Key |-> FALSE]

At(c, place, k) == calls[c].at = place /\ calls[c].key = k
Move(c, place, k) == calls' = [calls EXCEPT ![c] = [at |-> place, key |-> k]]

Alive(p) == ffmpeg[p] \in {"live", "ending"}

\* The stream has a process that has not exited, as far as the manager knows.
Running(k) == processes[k] # None /\ ~exited[processes[k]]

\* Another caller than c is between its check and its spawn for k.
Starting(c, k) == \E b \in Caller \ {c} : At(b, "clearing", k) \/ At(b, "making", k)

-----------------------------------------------------------------------------
\* ensureRunning, up to ensureRoot's await.
EnsureRunning(c, k) ==
    /\ calls[c] = NoCall
    /\ Move(c, "checking", k)
    /\ UNCHANGED << processes, ffmpeg, ofKey, exited, backoff, dir, sweep, raced >>

\* A process that runs, a stream that is not ready, or an attempt too soon after
\* the last one ends the call.
Decline(c, k) ==
    /\ At(c, "checking", k)
    /\ calls' = [calls EXCEPT ![c] = NoCall]
    /\ UNCHANGED << processes, ffmpeg, ofKey, exited, backoff, dir, sweep, raced >>

\* Otherwise the attempt is noted in the entry there is, and the directory goes,
\* with all that lies below it.
Check(c, k) ==
    /\ At(c, "checking", k) /\ ~Running(k) /\ ~backoff[k]
    /\ backoff' = [backoff EXCEPT ![k] = processes[k] # None]
    /\ Move(c, "clearing", k)
    /\ raced' = [raced EXCEPT ![k] = @ \/ Starting(c, k) \/ StreamDir(k) \in sweep.chosen]
    /\ UNCHANGED << processes, ffmpeg, ofKey, exited, dir, sweep >>

Cleared(c, k) ==
    /\ At(c, "clearing", k)
    /\ dir' = [d \in Dir |-> IF Within(d, StreamDir(k)) THEN "none" ELSE dir[d]]
    /\ Move(c, "making", k)
    /\ UNCHANGED << processes, ffmpeg, ofKey, exited, backoff, sweep, raced >>

\* mkdir is done, for the directory and those above it: spawn, the handlers of its
\* events, and the entry, without an await.  A spawn that fails emits error, whose
\* handler does not set exited.
Spawn(c, k, p) ==
    /\ At(c, "making", k) /\ ffmpeg[p] = "none" /\ \A q \in 1..(p - 1) : ffmpeg[q] # "none"
    /\ \E result \in {"live", "unborn"} : ffmpeg' = [ffmpeg EXCEPT ![p] = result]
    /\ ofKey' = [ofKey EXCEPT ![p] = k]
    /\ dir' = [d \in Dir |-> IF dir[d] = "none" /\ Within(StreamDir(k), d)
                            THEN "empty" ELSE dir[d]]
    /\ processes' = [processes EXCEPT ![k] = p]
    /\ backoff' = [backoff EXCEPT ![k] = TRUE]
    /\ calls' = [calls EXCEPT ![c] = NoCall]
    /\ UNCHANGED << exited, sweep, raced >>

\* ffmpeg writes its playlist.
Write(p) ==
    /\ Alive(p) /\ dir[StreamDir(ofKey[p])] # "none"
    /\ dir' = [dir EXCEPT ![StreamDir(ofKey[p])] = "fresh"]
    /\ UNCHANGED << calls, processes, ffmpeg, ofKey, exited, backoff, sweep, raced >>

\* Time goes by.  A clean-up reads the clock once, so a playlist that was not old
\* when it began does not become so for it.
Age(k) ==
    /\ \/ /\ dir[StreamDir(k)] = "fresh" /\ sweep = NoSweep
          /\ dir' = [dir EXCEPT ![StreamDir(k)] = "old"] /\ UNCHANGED backoff
       \/ backoff[k] /\ backoff' = [backoff EXCEPT ![k] = FALSE] /\ UNCHANGED dir
    /\ UNCHANGED << calls, processes, ffmpeg, ofKey, exited, sweep, raced >>

\* The exit event, of a process that was killed or ended itself.
Exit(p) ==
    /\ Alive(p)
    /\ ffmpeg' = [ffmpeg EXCEPT ![p] = "ended"]
    /\ exited' = [exited EXCEPT ![p] = TRUE]
    /\ UNCHANGED << calls, processes, ofKey, backoff, dir, sweep, raced >>

\* SIGTERM, which has no effect on a process that was never born.
Kill(k) == ffmpeg' = [ffmpeg EXCEPT ![processes[k]] = IF @ = "live" THEN "ending" ELSE @]

\* Mutant: the entry of a process that is told to end is dropped.
StopForgets(k) ==
    /\ Running(k) /\ Kill(k)
    /\ processes' = [processes EXCEPT ![k] = None]
    /\ UNCHANGED << calls, ofKey, exited, backoff, dir, sweep, raced >>

\* A request, or a stream without a publisher for idleStopMs.  The entry stays,
\* and its stream counts as running until the exit event.
Stop(k) ==
    /\ Running(k) /\ Kill(k)
    /\ UNCHANGED << calls, processes, ofKey, exited, backoff, dir, sweep, raced >>

-----------------------------------------------------------------------------
(* cleanupStaleOutputs *)

\* Mutant: nothing is left out.
NoneActive == {}

\* activeDirs: the directories of running processes - not those inside them.
ActiveDirs == {StreamDir(k) : k \in {j \in Key : Running(j)}}

\* The directories with a playlist are collected, and the active ones left out.
Sweep ==
    /\ sweep = NoSweep
    /\ LET found == {d \in Dir : dir[d] \in {"fresh", "old"}} \ ActiveDirs
       IN  /\ found # {}
           /\ sweep' = [at |-> "looking", dirs |-> found, chosen |-> {}]
    /\ UNCHANGED << calls, processes, ffmpeg, ofKey, exited, backoff, dir, raced >>

\* stat has answered for the next directory.  It fails where the playlist is gone,
\* and ends the clean-up.
Look(d) ==
    /\ sweep.at = "looking" /\ d \in sweep.dirs
    /\ sweep' = CASE dir[d] \in {"none", "empty"} -> NoSweep
                  [] dir[d] = "old" -> [at |-> "removing", dirs |-> sweep.dirs \ {d},
                                        chosen |-> {d}]
                  [] OTHER -> [sweep EXCEPT !.dirs = @ \ {d}]
    /\ raced' = [k \in Key |-> \/ raced[k]
                              \/ /\ StreamDir(k) = d /\ dir[d] = "old"
                                 /\ \E c \in Caller : At(c, "clearing", k) \/ At(c, "making", k)]
    /\ UNCHANGED << calls, processes, ffmpeg, ofKey, exited, backoff, dir >>

\* The removal is done, of all that lies below too.
Removed ==
    /\ sweep.at = "removing"
    /\ dir' = [d \in Dir |-> IF \E e \in sweep.chosen : Within(d, e) THEN "none" ELSE dir[d]]
    /\ sweep' = [sweep EXCEPT !.at = "looking", !.chosen = {}]
    /\ UNCHANGED << calls, processes, ffmpeg, ofKey, exited, backoff, raced >>

SweepEnds ==
    /\ sweep.at = "looking" /\ sweep.dirs = {}
    /\ sweep' = NoSweep
    /\ UNCHANGED << calls, processes, ffmpeg, ofKey, exited, backoff, dir, raced >>

Next ==
    \/ \E c \in Caller, k \in Key :
          \/ EnsureRunning(c, k) \/ Decline(c, k) \/ Check(c, k) \/ Cleared(c, k)
          \/ \E p \in Proc : Spawn(c, k, p)
    \/ \E p \in Proc : Write(p) \/ Exit(p)
    \/ \E k \in Key : Age(k) \/ Stop(k)
    \/ \E d \in Dir : Look(d)
    \/ Sweep \/ Removed \/ SweepEnds

HlsSpec == Init /\ [][Next]_hlsVars

-----------------------------------------------------------------------------
\* An ffmpeg that lives is the one the manager knows for its stream, so that stop
\* reaches it, and its directory is not taken away under it.  Exceptions.  Where
\* raced holds, two calls of ensureRunning checked before either had spawned, or a
\* call started a stream whose old directory the clean-up was about to remove
\* (hls_manager.js:252, 428): then there are two processes in one directory, one of
\* them forgotten, or one that writes into nothing.  Where Shared holds, the
\* directory is taken away, without any race, when the other stream is started or
\* its old directory removed (hls_manager.js:255, 428): "live/a" takes that of
\* "live/a/b", and "live/a:b" that of "live/a_b".
OneFfmpeg ==
    \A p \in Proc : Alive(p) =>
        LET k == ofKey[p] IN
        raced[k] \/ (processes[k] = p /\ (Shared(k) \/ dir[StreamDir(k)] # "none"))

=============================================================================
