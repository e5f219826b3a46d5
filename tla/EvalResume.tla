----------------------------- MODULE EvalResume -----------------------------
(***************************************************************************)
(* `dmcp eval --resume --repeat K` (dmcp/cli.py): one process after the    *)
(* other works through the same specs, writing one row per repetition of   *)
(* each, and skips a task as soon as it finds any row of it.  A process    *)
(* may finish, raise, or be killed; the report then reads the rows as the  *)
(* K runs of pass^k.                                                       *)
(*                                                                         *)
(* The candidate traces, written to a second file with each row and read   *)
(* by no resume, are left out; so is what a run scores: it passes or not.  *)
(***************************************************************************)
EXTENDS JsonlLog, FiniteSets

CONSTANTS
    Tasks,      \* the specs file: a sequence of distinct task ids
    Referenced, \* the tasks whose source trace is in --reference-traces
    Repeat,     \* --repeat, at least one
    MaxEvals    \* bound: processes started one after the other

TaskIds == {Tasks[i] : i \in 1..Len(Tasks)}
EvalRow == [task : TaskIds, rep : 0..Repeat - 1, run : 1..MaxEvals, passed : BOOLEAN]

\* A task's id is a UUID of its own.
ASSUME TasksAndRuns == /\ Len(Tasks) \in Nat \ {0}
                       /\ \A i, j \in 1..Len(Tasks) : Tasks[i] = Tasks[j] => i = j
                       /\ Repeat \in Nat \ {0}
                       /\ MaxEvals \in Nat
                       /\ {JUNK, EMPTY} \cap EvalRow = {}

VARIABLES
    evalRun,    \* number of the current or last process
    evalPhase,  \* "idle" (no process) or "eval"
    evalPos,    \* index of the task at hand
    rep,        \* _rep: its repetitions that have been written
    allPass,    \* all(run_passes)
    seenIds,    \* seen_ids
    output, outBuf, \* the output on disk, and the rows this process wrote to it
    passed,     \* the tasks that this process counted in `passed`
    mishaps     \* history: how often a process raised and was killed

evalVars == <<evalRun, evalPhase, evalPos, rep, allPass, seenIds, output, outBuf,
              passed, mishaps>>

EvalTypeOK == /\ evalRun \in 0..MaxEvals
              /\ evalPhase \in {"idle", "eval"}
              /\ evalPos \in 1..Len(Tasks) + 1
              /\ rep \in 0..Repeat
              /\ allPass \in BOOLEAN
              /\ seenIds \subseteq TaskIds
              /\ output \in Files(EvalRow)
              /\ outBuf \in Seq(EvalRow)
              /\ passed \subseteq TaskIds
              /\ mishaps \in [raised : Nat, killed : Nat]

EvalInit == /\ evalRun = 0
            /\ evalPhase = "idle"
            /\ evalPos = 1 /\ rep = 0 /\ allPass = TRUE
            /\ seenIds = {}
            /\ output = EmptyFile /\ outBuf = <<>>
            /\ passed = {}
            /\ mishaps = [raised |-> 0, killed |-> 0]

RowsOf(t, f) == {row \in RowsIn(f) : row.task = t}

\* Mutant: a task is seen only when all its repetitions are there.
TasksSeen_Complete == {t \in TaskIds : Cardinality(RowsOf(t, output)) = Repeat}

\* resume.seen_task_ids(output)
TasksSeen == {row.task : row \in RowsIn(output)}

StartEval ==
    /\ evalPhase = "idle"
    /\ evalRun < MaxEvals
    /\ evalRun' = evalRun + 1
    /\ evalPhase' = "eval"
    /\ evalPos' = 1 /\ rep' = 0 /\ allPass' = TRUE
    /\ seenIds' = TasksSeen
    /\ passed' = {}
    /\ UNCHANGED <<output, outBuf, mishaps>>

\* The output cannot be decoded, so that the process ends where it began.
StartEvalFails ==
    /\ evalPhase = "idle"
    /\ evalRun < MaxEvals
    /\ MayNotDecode(output)
    /\ evalRun' = evalRun + 1
    /\ UNCHANGED <<evalPhase, evalPos, rep, allPass, seenIds, output, outBuf, passed, mishaps>>

HasTask == evalPhase = "eval" /\ evalPos <= Len(Tasks)
Task    == Tasks[evalPos]

GoOn == evalPos' = evalPos + 1 /\ rep' = 0 /\ allPass' = TRUE

\* Already in the output, or without a reference trace to replay.
Skip ==
    /\ HasTask
    /\ Task \in seenIds \/ Task \notin Referenced
    /\ GoOn
    /\ UNCHANGED <<evalRun, evalPhase, seenIds, output, outBuf, passed, mishaps>>

\* _single_run and the row of its evaluation.
Repetition ==
    /\ HasTask
    /\ Task \in Referenced \ seenIds
    /\ rep < Repeat
    /\ \E ok \in BOOLEAN :
         /\ outBuf' = Append(outBuf, [task |-> Task, rep |-> rep, run |-> evalRun, passed |-> ok])
         /\ allPass' = (allPass /\ ok)
    /\ rep' = rep + 1
    /\ UNCHANGED <<evalRun, evalPhase, evalPos, seenIds, output, passed, mishaps>>

AllRepeated == rep = Repeat

\* Mutant: the last repetition decides.
PassK_Last == outBuf[Len(outBuf)].passed

\* spec_passk
PassK == allPass

TaskDone ==
    /\ HasTask
    /\ AllRepeated
    /\ passed' = IF PassK THEN passed \cup {Task} ELSE passed
    /\ GoOn
    /\ UNCHANGED <<evalRun, evalPhase, seenIds, output, outBuf, mishaps>>

\* The `with` statement closes the output.
CloseOutput ==
    /\ output' = Landed(output, outBuf)
    /\ outBuf' = <<>>
    /\ evalPhase' = "idle"

FinishEval ==
    /\ evalPhase = "eval" /\ ~HasTask
    /\ CloseOutput
    /\ UNCHANGED <<evalRun, evalPos, rep, allPass, seenIds, passed, mishaps>>

\* A malformed spec, or an exception of _single_run.
RaiseEval ==
    /\ HasTask
    /\ CloseOutput
    /\ mishaps' = [mishaps EXCEPT !.raised = @ + 1]
    /\ UNCHANGED <<evalRun, evalPos, rep, allPass, seenIds, passed>>

KillEval ==
    /\ evalPhase = "eval"
    /\ output' \in KilledAfter(output, outBuf)
    /\ outBuf' = <<>>
    /\ evalPhase' = "idle"
    /\ mishaps' = [mishaps EXCEPT !.killed = @ + 1]
    /\ UNCHANGED <<evalRun, evalPos, rep, allPass, seenIds, passed>>

EvalNext == \/ StartEval
            \/ StartEvalFails
            \/ Skip
            \/ Repetition
            \/ TaskDone
            \/ FinishEval
            \/ RaiseEval
            \/ KillEval

EvalSpec == EvalInit /\ [][EvalNext]_evalVars

-----------------------------------------------------------------------------
(* Properties.                                                             *)

\* However processes end, the rows that the report takes for the K runs of a
\* task were written by one process, one per repetition (cli.py:2203, 2232).
OneRunPerTask ==
    \A a, b \in RowsIn(output) :
        a.task = b.task => a.run = b.run /\ (a.rep = b.rep => a = b)

Incomplete == {t \in TaskIds : Cardinality(RowsOf(t, output)) \in 1..Repeat - 1}

\* A task that was cut short is never completed, but every raise costs at
\* most one task and every kill at most two: the one it cut, and the one the
\* next process glues to the torn line (cli.py:2200-2202, 2218).
CutsAreBounded == Cardinality(Incomplete) <= mishaps.raised + 2 * mishaps.killed

\* However the processes before ended, the rows of a task are runs of one
\* process, and each end costs the tasks it had in hand and no others.
RunsSound == EvalTypeOK /\ OneRunPerTask /\ CutsAreBounded

\* A process that finishes leaves every repetition of every task it did not
\* skip, and counts as passed those whose rows on disk all pass - unless the
\* output ended in the middle of a line when it began (cli.py:2224-2255).
FinishedRunCompletes ==
    [][FinishEval /\ output.tail = EMPTY =>
         \A t \in (TaskIds \cap Referenced) \ seenIds :
             /\ {row.rep : row \in RowsOf(t, output')} = 0..Repeat - 1
             /\ t \in passed <=> \A row \in RowsOf(t, output') : row.passed]_evalVars

-----------------------------------------------------------------------------
(* The inductive invariant.                                                *)

Of(t, rows)   == {row \in rows : row.task = t}
Reps(t, rows) == {row.rep : row \in Of(t, rows)}
AllReps == 0..Repeat - 1
ToDo    == Referenced \ seenIds

EvalIsFlushed == evalPhase = "idle" => outBuf = <<>>

\* The rows a process has buffered are its own: all repetitions of the tasks
\* before `evalPos` that it did not skip, and those of the task at hand so far.
Buffered ==
    evalPhase = "eval" =>
        /\ evalRun > 0 /\ seenIds = TasksSeen
        /\ rep > 0 => HasTask /\ Task \in ToDo
        /\ \A row \in Written(outBuf) : row.run = evalRun
        /\ \A a, b \in Written(outBuf) : a.task = b.task /\ a.rep = b.rep => a = b
        /\ \A j \in 1..Len(Tasks) :
              Reps(Tasks[j], Written(outBuf)) = IF Tasks[j] \notin ToDo \/ j > evalPos THEN {}
                                             ELSE IF j < evalPos THEN AllReps ELSE 0..rep - 1

\* What the process counts of the tasks behind it is what their rows say.
Counted ==
    evalPhase = "eval" =>
        /\ passed \subseteq {Tasks[j] : j \in 1..evalPos - 1}
        /\ \A j \in 1..Len(Tasks) :
              LET allPassed == \A row \in Of(Tasks[j], Written(outBuf)) : row.passed
              IN  /\ j < evalPos /\ Tasks[j] \in ToDo => (Tasks[j] \in passed <=> allPassed)
                  /\ j = evalPos => (allPass <=> allPassed)

\* Rows are buffered task by task: at every row, the rows before it are all or
\* none of those of any other task.
TaskByTask ==
    \A n \in 1..Len(outBuf) : \A t \in TaskIds \ {outBuf[n].task} :
        Reps(t, {outBuf[i] : i \in 1..n - 1}) \in {{}, AllReps}

\* The tasks that are cut, and the one that the next row written would cut.
Partial  == {t \in TaskIds : Reps(t, RowsIn(output)) \notin {{}, AllReps}}
TailTask == IF output.tail \in {JUNK, EMPTY} THEN {} ELSE {output.tail.task}

\* A file that does not end in a newline has one task more to lose.
CutsAreAccounted ==
    Cardinality(Partial \cup TailTask) + (IF output.tail = EMPTY THEN 0 ELSE 1)
        <= mishaps.raised + 2 * mishaps.killed

EvalIInv == /\ EvalTypeOK /\ OneRunPerTask /\ EvalIsFlushed /\ Buffered /\ Counted /\ TaskByTask
            /\ CutsAreAccounted
=============================================================================
