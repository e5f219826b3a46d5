------------------------------ MODULE Generate ------------------------------
(***************************************************************************)
(* `dmcp generate --resume` (dmcp/cli.py): one process after the other     *)
(* works through the same goals, appending a trace for every exploration   *)
(* and a spec for every exploration that distils, to two JSONL files.  A   *)
(* process may finish, raise, or be killed; the next one skips the goals   *)
(* whose spec it finds (resume.seen_goal_ids).                             *)
(*                                                                         *)
(* A row of either file is <<goal, run>>: a run writes at most one trace   *)
(* and one spec per goal, and the spec's source_trace_id is that trace.    *)
(***************************************************************************)
EXTENDS JsonlLog, FiniteSets

CONSTANTS
    Goals,      \* the goals file: a sequence of distinct goal ids
    MaxRuns     \* bound: processes started one after the other

GoalIds == {Goals[i] : i \in 1..Len(Goals)}
Row     == GoalIds \X (1..MaxRuns)

ASSUME GoalsAndRuns == /\ Len(Goals) \in Nat \ {0} /\ MaxRuns \in Nat
                       /\ {JUNK, EMPTY} \cap Row = {}

VARIABLES
    run,        \* number of the current or last process
    phase,      \* "idle" (no process), "explore" or "distill"
    pos,        \* index of the goal at hand
    seen,       \* seen_goals
    traceFile, specFile,    \* --traces-out and --specs-out on disk
    traceBuf, specBuf,      \* rows written by this process since it opened them
    distilled,  \* history: goals whose spec was written, in this process
    endings     \* history: how each process ended

files == <<traceFile, specFile>>
bufs  == <<traceBuf, specBuf>>
vars  == <<run, phase, pos, seen, files, bufs, distilled, endings>>

TypeOK == /\ run \in 0..MaxRuns
          /\ phase \in {"idle", "explore", "distill"}
          /\ pos \in 1..Len(Goals) + 1
          /\ seen \subseteq GoalIds
          /\ {traceFile, specFile} \subseteq Files(Row)
          /\ {traceBuf, specBuf} \subseteq Seq(Row)
          /\ distilled \subseteq GoalIds
          /\ endings \in Seq({"finished", "raised", "killed"})

Init == /\ run = 0
        /\ phase = "idle"
        /\ pos = 1
        /\ seen = {}
        /\ traceFile = EmptyFile /\ specFile = EmptyFile
        /\ traceBuf = <<>> /\ specBuf = <<>>
        /\ distilled = {}
        /\ endings = <<>>

\* Mutant: the goals of the traces file count as seen.
GoalsSeen_InTraces == {row[1] : row \in RowsIn(traceFile)}

\* Mutant: without --resume nothing is seen.
GoalsSeen_None == {}

\* resume.seen_goal_ids(specs_out)
GoalsSeen == {row[1] : row \in RowsIn(specFile)}

\* Mutant: the outputs are opened with "w".
StartRun_Truncates ==
    /\ phase = "idle"
    /\ run < MaxRuns
    /\ run' = run + 1
    /\ phase' = "explore"
    /\ pos' = 1
    /\ seen' = GoalsSeen
    /\ distilled' = {}
    /\ traceFile' = EmptyFile /\ specFile' = EmptyFile
    /\ UNCHANGED <<bufs, endings>>

StartRun ==
    /\ phase = "idle"
    /\ run < MaxRuns
    /\ run' = run + 1
    /\ phase' = "explore"
    /\ pos' = 1
    /\ seen' = GoalsSeen
    /\ distilled' = {}
    /\ UNCHANGED <<files, bufs, endings>>

Goal   == Goals[pos]
NewRow == <<Goal, run>>
HasGoal == pos <= Len(Goals)

\* The specs file cannot be decoded, so that the process ends where it began.
StartFails ==
    /\ phase = "idle"
    /\ run < MaxRuns
    /\ MayNotDecode(specFile)
    /\ run' = run + 1
    /\ endings' = Append(endings, "raised")
    /\ UNCHANGED <<phase, pos, seen, files, bufs, distilled>>

SkipSeen ==
    /\ phase = "explore" /\ HasGoal
    /\ Goal \in seen
    /\ pos' = pos + 1
    /\ UNCHANGED <<run, phase, seen, files, bufs, distilled, endings>>

\* _explore_in_subprocess returns None: timeout, crash or no trace.
NoTrace ==
    /\ phase = "explore" /\ HasGoal
    /\ Goal \notin seen
    /\ pos' = pos + 1
    /\ UNCHANGED <<run, phase, seen, files, bufs, distilled, endings>>

Explored ==
    /\ phase = "explore" /\ HasGoal
    /\ Goal \notin seen
    /\ traceBuf' = Append(traceBuf, NewRow)
    /\ phase' = "distill"
    /\ UNCHANGED <<run, pos, seen, files, specBuf, distilled, endings>>

\* No successful call, a distillation error, a transient API error, or a
\* checkpoint the reference does not satisfy.
NoSpec ==
    /\ phase = "distill"
    /\ phase' = "explore"
    /\ pos' = pos + 1
    /\ UNCHANGED <<run, seen, files, bufs, distilled, endings>>

Distilled ==
    /\ phase = "distill"
    /\ specBuf' = Append(specBuf, NewRow)
    /\ distilled' = distilled \cup {Goal}
    /\ phase' = "explore"
    /\ pos' = pos + 1
    /\ UNCHANGED <<run, seen, files, traceBuf, endings>>

\* The `with` statement closes both files.
Close(how) ==
    /\ traceFile' = Landed(traceFile, traceBuf)
    /\ specFile' = Landed(specFile, specBuf)
    /\ traceBuf' = <<>> /\ specBuf' = <<>>
    /\ endings' = Append(endings, how)
    /\ phase' = "idle"

Finish ==
    /\ phase = "explore" /\ ~HasGoal
    /\ Close("finished")
    /\ UNCHANGED <<run, pos, seen, distilled>>

\* A malformed worker trace, a configuration error or a bug propagates, and
\* the `with` statement closes the files.
Raise ==
    /\ \/ phase = "explore" /\ HasGoal /\ Goal \notin seen
       \/ phase = "distill"
    /\ Close("raised")
    /\ UNCHANGED <<run, pos, seen, distilled>>

\* SIGKILL: the two files are flushed independently of one another.
Kill ==
    /\ phase # "idle"
    /\ traceFile' \in KilledAfter(traceFile, traceBuf)
    /\ specFile' \in KilledAfter(specFile, specBuf)
    /\ traceBuf' = <<>> /\ specBuf' = <<>>
    /\ endings' = Append(endings, "killed")
    /\ phase' = "idle"
    /\ UNCHANGED <<run, pos, seen, distilled>>

Next == \/ StartRun
        \/ StartFails
        \/ SkipSeen
        \/ NoTrace
        \/ Explored
        \/ NoSpec
        \/ Distilled
        \/ Finish
        \/ Raise
        \/ Kill

Spec == Init /\ [][Next]_vars

-----------------------------------------------------------------------------
(* Properties.                                                             *)

NeverKilled == \A i \in 1..Len(endings) : endings[i] # "killed"

\* Resuming never makes a second task of a goal: the readable specs are of
\* different goals, whatever was killed in between (cli.py:1754-1760).
OneSpecPerGoal ==
    \A a, b \in RowsIn(specFile) : a[1] = b[1] => a = b

Extends(old, new) == /\ Len(old.lines) <= Len(new.lines)
                     /\ SubSeq(new.lines, 1, Len(old.lines)) = old.lines

\* A row that has its newline is never lost again: later runs only append
\* (cli.py:1757).
TerminatedRowsSurvive ==
    [][Extends(specFile, specFile') /\ Extends(traceFile, traceFile')]_vars

\* As long as nothing is killed - processes may raise - both files parse, and
\* each spec's source trace is in the traces file (cli.py:1757, 1771-1772, 1819-1820).
SpecsHaveTraces ==
    NeverKilled => /\ Parses(traceFile) /\ Parses(specFile)
                   /\ RowsIn(specFile) \subseteq RowsIn(traceFile)

\* However the processes before ended, the corpus of a goal is one readable
\* spec, and one with its trace unless a kill came between the two files.
CorpusSound == TypeOK /\ OneSpecPerGoal /\ SpecsHaveTraces

SpecGoals == {row[1] : row \in RowsIn(specFile)}

\* A run that finishes leaves a readable spec for every goal it distilled or
\* skipped, whatever happened to the runs before it, unless the specs file
\* ended in the middle of a line when the run began (cli.py:1754-1760).
FinishedRunCovers ==
    [][Finish /\ specFile.tail = EMPTY => distilled \cup seen \subseteq SpecGoals']_vars

-----------------------------------------------------------------------------
(* The inductive invariant.                                                *)

\* Between processes nothing is buffered.
IdleIsFlushed == phase = "idle" => traceBuf = <<>> /\ specBuf = <<>>

\* A process works on a goal that it has not seen, and what it saw is still
\* what the specs file holds: the file grows only when the process ends.
AtWork ==
    phase # "idle" =>
        /\ run > 0
        /\ seen = GoalsSeen
        /\ phase = "distill" => HasGoal /\ Goal \notin seen /\ NewRow \in Written(traceBuf)

\* The specs it has buffered are its own, of goals it has not seen, and each
\* with its trace.
BufferedSpecs ==
    phase # "idle" =>
        /\ Written(specBuf) = {<<g, run>> : g \in distilled}
        /\ distilled \cap seen = {}
        /\ Written(specBuf) \subseteq Written(traceBuf)

\* Without a kill both files end in a newline.
WholeLines == NeverKilled => traceFile.tail = EMPTY /\ specFile.tail = EMPTY

IInv == CorpusSound /\ IdleIsFlushed /\ AtWork /\ BufferedSpecs /\ WholeLines
=============================================================================
