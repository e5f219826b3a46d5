---------------------------- MODULE ResumeProofs ----------------------------
(***************************************************************************)
(* Proofs about the two commands with --resume, whatever is killed, at     *)
(* whatever byte.  Generate, for every goals file and number of processes: *)
(* resuming makes one spec per goal, a spec has its trace as long as       *)
(* nothing is killed, terminated rows are never lost, and a run that       *)
(* finishes covers its goals.  EvalResume, for every list of tasks, number *)
(* of repetitions and of processes: the rows of a task are the repetitions *)
(* of one process, a kill costs at most two tasks and a raise one, and a   *)
(* process that finishes completes what it began.                          *)
(***************************************************************************)
EXTENDS Generate, EvalResume, JsonlLogProofs, FiniteSetTheorems

-----------------------------------------------------------------------------
(* Generate.                                                               *)

LEMMA Constants ==
    /\ Len(Goals) \in Nat /\ Len(Goals) > 0 /\ MaxRuns \in Nat
    /\ JUNK \notin Row /\ EMPTY \notin Row
    BY GoalsAndRuns

LEMMA KeptExtends ==
    ASSUME NEW old \in Files(Row), NEW new \in Files(Row), Kept(old, new)
    PROVE  Extends(old, new)
<1> DEFINE n == Len(old.lines)
<1>1. n \in Nat /\ Len(new.lines) \in Nat /\ n <= Len(new.lines)
      /\ old.lines \in Seq(Row \cup {JUNK}) /\ new.lines \in Seq(Row \cup {JUNK})
    BY FileShape DEF Kept
<1>2. \A i \in 1..n : new.lines[i] = old.lines[i] /\ new.lines[i] \in Row \cup {JUNK}
    BY <1>1, FileShape DEF Kept
<1>3. /\ SubSeq(new.lines, 1, n) \in Seq(Row \cup {JUNK})
      /\ Len(SubSeq(new.lines, 1, n)) = n
      /\ \A i \in 1..n : SubSeq(new.lines, 1, n)[i] = new.lines[i]
    BY <1>1, <1>2, SubSeqProperties
<1>4. SubSeq(new.lines, 1, n) = old.lines
    BY <1>1, <1>2, <1>3, SeqEqual
<1> QED BY <1>1, <1>4 DEF Extends

LEMMA SameFileExtends ==
    ASSUME NEW file \in Files(Row)
    PROVE  Extends(file, file)
<1>1. Len(file.lines) \in Nat
    BY FileShape
<1>2. Kept(file, file)
    BY <1>1 DEF Kept
<1> QED BY <1>2, KeptExtends

-----------------------------------------------------------------------------
(* The invariant holds initially, and while a process works.               *)

LEMMA InitInv == Init => IInv
<1> SUFFICES ASSUME Init PROVE IInv
    OBVIOUS
<1> USE DEF Init
<1>1. EmptyFile \in Files(Row) /\ RowsIn(EmptyFile) = {} /\ Parses(EmptyFile) /\ EmptyFile.tail = EMPTY
    BY NoFile DEF EmptyFile
<1>2. <<>> \in Seq({"finished", "raised", "killed"})
    BY EmptySeq
<1>3. TypeOK
    BY <1>1, <1>2, Constants, NothingWritten DEF TypeOK
<1> QED BY <1>1, <1>3 DEF IInv, CorpusSound, OneSpecPerGoal, SpecsHaveTraces, IdleIsFlushed, AtWork,
                          BufferedSpecs, WholeLines

\* A step that leaves the files and the ways processes ended alone.
LEMMA FilesAlone ==
    ASSUME IInv, UNCHANGED <<files, endings>>
    PROVE  OneSpecPerGoal' /\ SpecsHaveTraces' /\ WholeLines' /\ GoalsSeen' = GoalsSeen
    BY DEF IInv, CorpusSound, files, OneSpecPerGoal, SpecsHaveTraces, WholeLines, NeverKilled, GoalsSeen

LEMMA StartRunInv ==
    ASSUME IInv, StartRun
    PROVE  IInv'
<1> USE DEF StartRun, bufs
<1>0. TypeOK /\ IdleIsFlushed
    BY DEF IInv, CorpusSound
<1>1. OneSpecPerGoal' /\ SpecsHaveTraces' /\ WholeLines' /\ GoalsSeen' = GoalsSeen
    BY FilesAlone
<1>2. GoalsSeen \subseteq GoalIds
    BY <1>0 DEF TypeOK, GoalsSeen, Files, RowsIn, Row
<1>3. TypeOK'
    BY <1>0, <1>2, Constants DEF TypeOK, files
<1>4. IdleIsFlushed' /\ AtWork'
    BY <1>0, <1>1 DEF IdleIsFlushed, AtWork, TypeOK
<1>5. BufferedSpecs'
    BY <1>0, NothingWritten DEF IdleIsFlushed, BufferedSpecs
<1> QED BY <1>1, <1>3, <1>4, <1>5 DEF IInv, CorpusSound

LEMMA StartFailsInv ==
    ASSUME IInv, StartFails
    PROVE  IInv'
<1> USE DEF StartFails, bufs, files
<1>0. TypeOK
    BY DEF IInv, CorpusSound
<1>1. TypeOK'
    BY <1>0, Constants DEF TypeOK
<1>2. NeverKilled' => NeverKilled
  <2>1. endings \in Seq({"finished", "raised", "killed"})
      BY <1>0 DEF TypeOK
  <2>2. \A i \in 1..Len(endings) : i \in 1..Len(endings') /\ endings'[i] = endings[i]
      BY <2>1
  <2> QED BY <2>2 DEF NeverKilled
<1>3. OneSpecPerGoal' /\ SpecsHaveTraces' /\ WholeLines'
    BY <1>2 DEF IInv, CorpusSound, OneSpecPerGoal, SpecsHaveTraces, WholeLines
<1>4. IdleIsFlushed' /\ AtWork' /\ BufferedSpecs'
    BY DEF IInv, IdleIsFlushed, AtWork, BufferedSpecs
<1> QED BY <1>1, <1>3, <1>4 DEF IInv, CorpusSound

\* To the next goal, with nothing written.
LEMMA NextGoalInv ==
    ASSUME IInv, phase \in {"explore", "distill"}, HasGoal, phase' = "explore", pos' = pos + 1,
           UNCHANGED <<run, seen, files, bufs, distilled, endings>>
    PROVE  IInv'
<1> USE DEF bufs
<1>0. TypeOK /\ AtWork /\ BufferedSpecs
    BY DEF IInv, CorpusSound
<1>1. OneSpecPerGoal' /\ SpecsHaveTraces' /\ WholeLines' /\ GoalsSeen' = GoalsSeen
    BY FilesAlone
<1>2. TypeOK'
    BY <1>0, Constants DEF TypeOK, files, HasGoal
<1>3. IdleIsFlushed' /\ AtWork' /\ BufferedSpecs'
    BY <1>0, <1>1 DEF IdleIsFlushed, AtWork, BufferedSpecs
<1> QED BY <1>1, <1>2, <1>3 DEF IInv, CorpusSound

LEMMA NewRowFits ==
    ASSUME IInv, phase # "idle", HasGoal
    PROVE  NewRow \in Row /\ Goal \in GoalIds
<1>1. pos \in 1..Len(Goals) /\ run \in 1..MaxRuns
    BY Constants DEF IInv, CorpusSound, TypeOK, AtWork, HasGoal
<1> QED BY <1>1 DEF NewRow, Row, Goal, GoalIds

LEMMA ExploredInv ==
    ASSUME IInv, Explored
    PROVE  IInv'
<1> USE DEF Explored
<1>0. TypeOK /\ AtWork /\ BufferedSpecs
    BY DEF IInv, CorpusSound
<1>1. OneSpecPerGoal' /\ SpecsHaveTraces' /\ WholeLines' /\ GoalsSeen' = GoalsSeen
    BY FilesAlone
<1>2. traceBuf' \in Seq(Row) /\ Written(traceBuf') = Written(traceBuf) \cup {NewRow}
    BY <1>0, NewRowFits, AppendRow DEF TypeOK
<1>3. TypeOK'
    BY <1>0, <1>2 DEF TypeOK, files
<1>4. IdleIsFlushed' /\ AtWork'
    BY <1>0, <1>1, <1>2 DEF IdleIsFlushed, AtWork, HasGoal, Goal, NewRow
<1>5. BufferedSpecs'
    BY <1>0, <1>2 DEF BufferedSpecs
<1> QED BY <1>1, <1>3, <1>4, <1>5 DEF IInv, CorpusSound

LEMMA DistilledInv ==
    ASSUME IInv, Distilled
    PROVE  IInv'
<1> USE DEF Distilled
<1>0. TypeOK /\ AtWork /\ BufferedSpecs
    BY DEF IInv, CorpusSound
<1>1. OneSpecPerGoal' /\ SpecsHaveTraces' /\ WholeLines' /\ GoalsSeen' = GoalsSeen
    BY FilesAlone
<1>2. HasGoal /\ Goal \notin seen /\ NewRow \in Written(traceBuf)
    BY <1>0 DEF AtWork
<1>3. NewRow \in Row /\ Goal \in GoalIds
    BY <1>2, NewRowFits
<1>4. specBuf' \in Seq(Row) /\ Written(specBuf') = Written(specBuf) \cup {NewRow}
    BY <1>0, <1>3, AppendRow DEF TypeOK
<1>5. TypeOK'
    BY <1>0, <1>2, <1>3, <1>4, Constants DEF TypeOK, files, HasGoal
<1>6. IdleIsFlushed' /\ AtWork'
    BY <1>0, <1>1 DEF IdleIsFlushed, AtWork
<1>7. BufferedSpecs'
    BY <1>0, <1>2, <1>4 DEF BufferedSpecs, NewRow
<1> QED BY <1>1, <1>5, <1>6, <1>7 DEF IInv, CorpusSound

-----------------------------------------------------------------------------
(* A process ends.                                                         *)

\* Rows of the process at hand are of goals that no readable spec has.
LEMMA OneSpecPerGoalKept ==
    ASSUME IInv, phase # "idle", RowsIn(specFile') \subseteq RowsIn(specFile) \cup Written(specBuf)
    PROVE  OneSpecPerGoal'
<1>1. OneSpecPerGoal /\ seen = GoalsSeen
      /\ Written(specBuf) = {<<g, run>> : g \in distilled} /\ distilled \cap seen = {}
    BY DEF IInv, CorpusSound, AtWork, BufferedSpecs
<1> SUFFICES ASSUME NEW a \in RowsIn(specFile'), NEW b \in RowsIn(specFile'), a[1] = b[1]
             PROVE  a = b
    BY DEF OneSpecPerGoal
<1>2. a \in RowsIn(specFile) \cup Written(specBuf) /\ b \in RowsIn(specFile) \cup Written(specBuf)
    OBVIOUS
<1>3. \A r \in RowsIn(specFile) : r[1] \in seen
    BY <1>1 DEF GoalsSeen
<1>4. \A r \in Written(specBuf) : r = <<r[1], run>> /\ r[1] \notin seen
    BY <1>1
<1> QED BY <1>1, <1>2, <1>3, <1>4 DEF OneSpecPerGoal

LEMMA EndingNoted ==
    ASSUME TypeOK, NEW how \in {"finished", "raised", "killed"}, endings' = Append(endings, how)
    PROVE  /\ endings' \in Seq({"finished", "raised", "killed"})
           /\ NeverKilled' => NeverKilled /\ how # "killed"
<1> DEFINE E == {"finished", "raised", "killed"}
<1>1. endings \in Seq(E) /\ Len(endings) \in Nat
    BY LenProperties DEF TypeOK
<1>2. /\ endings' \in Seq(E) /\ Len(endings') = Len(endings) + 1
      /\ \A i \in 1..Len(endings) : endings'[i] = endings[i]
      /\ endings'[Len(endings) + 1] = how
    BY <1>1, AppendProperties
<1>3. \A i \in 1..Len(endings) : i \in 1..Len(endings')
    BY <1>1, <1>2
<1>4. Len(endings) + 1 \in 1..Len(endings')
    BY <1>1, <1>2
<1> QED BY <1>2, <1>3, <1>4 DEF NeverKilled

LEMMA CloseInv ==
    ASSUME IInv, phase # "idle", NEW how \in {"finished", "raised"}, Close(how),
           UNCHANGED <<run, pos, seen, distilled>>
    PROVE  IInv'
<1> USE DEF Close
<1>0. TypeOK /\ BufferedSpecs /\ WholeLines /\ SpecsHaveTraces
      /\ traceFile \in Files(Row) /\ specFile \in Files(Row)
      /\ traceBuf \in Seq(Row) /\ specBuf \in Seq(Row)
    BY DEF IInv, CorpusSound, TypeOK
<1>1. /\ traceFile' \in Files(Row) /\ specFile' \in Files(Row)
      /\ RowsIn(specFile') \subseteq RowsIn(specFile) \cup Written(specBuf)
    BY <1>0, LandedKeeps
<1>2. endings' \in Seq({"finished", "raised", "killed"}) /\ (NeverKilled' => NeverKilled)
    BY <1>0, EndingNoted
<1>3. TypeOK'
    BY <1>0, <1>1, <1>2, NothingWritten DEF TypeOK
<1>4. OneSpecPerGoal'
    BY <1>1, OneSpecPerGoalKept
<1>5. SpecsHaveTraces' /\ WholeLines'
  <2> SUFFICES ASSUME NeverKilled'
               PROVE  /\ Parses(traceFile') /\ Parses(specFile')
                      /\ RowsIn(specFile') \subseteq RowsIn(traceFile')
                      /\ traceFile'.tail = EMPTY /\ specFile'.tail = EMPTY
      BY DEF SpecsHaveTraces, WholeLines
  <2>1. /\ traceFile.tail = EMPTY /\ specFile.tail = EMPTY
        /\ Parses(traceFile) /\ Parses(specFile) /\ RowsIn(specFile) \subseteq RowsIn(traceFile)
        /\ Written(specBuf) \subseteq Written(traceBuf)
      BY <1>0, <1>2 DEF SpecsHaveTraces, WholeLines, BufferedSpecs
  <2>2. /\ RowsIn(specFile') = RowsIn(specFile) \cup Written(specBuf)
        /\ specFile'.tail = EMPTY /\ Parses(specFile')
      BY <1>0, <2>1, Constants, LandedAfterLine
  <2>3. /\ RowsIn(traceFile') = RowsIn(traceFile) \cup Written(traceBuf)
        /\ traceFile'.tail = EMPTY /\ Parses(traceFile')
      BY <1>0, <2>1, Constants, LandedAfterLine
  <2> QED BY <2>1, <2>2, <2>3
<1>6. IdleIsFlushed' /\ AtWork' /\ BufferedSpecs'
    BY DEF IdleIsFlushed, AtWork, BufferedSpecs
<1> QED BY <1>3, <1>4, <1>5, <1>6 DEF IInv, CorpusSound

LEMMA KillInv ==
    ASSUME IInv, Kill
    PROVE  IInv'
<1> USE DEF Kill
<1>0. TypeOK /\ traceFile \in Files(Row) /\ specFile \in Files(Row)
      /\ traceBuf \in Seq(Row) /\ specBuf \in Seq(Row)
    BY DEF IInv, CorpusSound, TypeOK
<1>1. /\ traceFile' \in Files(Row) /\ specFile' \in Files(Row)
      /\ RowsIn(specFile') \subseteq RowsIn(specFile) \cup Written(specBuf)
    BY <1>0, KilledKeeps
<1>2. endings' \in Seq({"finished", "raised", "killed"}) /\ ~NeverKilled'
    BY <1>0, EndingNoted
<1>3. TypeOK'
    BY <1>0, <1>1, <1>2, NothingWritten DEF TypeOK
<1>4. OneSpecPerGoal'
    BY <1>1, OneSpecPerGoalKept
<1>5. SpecsHaveTraces' /\ WholeLines' /\ IdleIsFlushed' /\ AtWork' /\ BufferedSpecs'
    BY <1>2 DEF SpecsHaveTraces, WholeLines, IdleIsFlushed, AtWork, BufferedSpecs
<1> QED BY <1>3, <1>4, <1>5 DEF IInv, CorpusSound

-----------------------------------------------------------------------------
(* Every step.                                                             *)

LEMMA StutterInv ==
    ASSUME IInv, UNCHANGED vars
    PROVE  IInv'
    BY DEF IInv, vars, files, bufs, CorpusSound, TypeOK, OneSpecPerGoal, SpecsHaveTraces, IdleIsFlushed,
           AtWork, BufferedSpecs, WholeLines, NeverKilled, GoalsSeen, HasGoal, Goal, NewRow

LEMMA StepInv == IInv /\ [Next]_vars => IInv'
<1> SUFFICES ASSUME IInv, [Next]_vars PROVE IInv'
    OBVIOUS
<1>1. CASE StartRun
    BY <1>1, StartRunInv
<1>2. CASE SkipSeen
    BY <1>2, NextGoalInv DEF SkipSeen
<1>3. CASE NoTrace
    BY <1>3, NextGoalInv DEF NoTrace
<1>4. CASE Explored
    BY <1>4, ExploredInv
<1>5. CASE NoSpec
  <2>1. HasGoal
      BY <1>5 DEF NoSpec, IInv, AtWork
  <2> QED BY <1>5, <2>1, NextGoalInv DEF NoSpec
<1>6. CASE Distilled
    BY <1>6, DistilledInv
<1>7. CASE Finish
    BY <1>7, CloseInv DEF Finish
<1>8. CASE Raise
    BY <1>8, CloseInv DEF Raise
<1>9. CASE Kill
    BY <1>9, KillInv
<1>10. CASE StartFails
    BY <1>10, StartFailsInv
<1>11. CASE UNCHANGED vars
    BY <1>11, StutterInv
<1> QED BY <1>1, <1>2, <1>3, <1>4, <1>5, <1>6, <1>7, <1>8, <1>9, <1>10, <1>11 DEF Next

-----------------------------------------------------------------------------
(* Theorems.                                                               *)

\* The inductive invariant holds in every state.
THEOREM Invariance == Spec => []IInv
    BY InitInv, StepInv, PTL DEF Spec

\* However the processes before ended, a goal has one readable spec, and one
\* with its trace as long as nothing was killed (cli.py:1754-1772).
THEOREM CorpusIsSound == Spec => []CorpusSound
<1>1. IInv => CorpusSound
    BY DEF IInv
<1> QED BY <1>1, Invariance, PTL

\* A row that has its newline is never lost again (cli.py:1757).
THEOREM RowsSurvive == Spec => TerminatedRowsSurvive
<1>1. IInv /\ [Next]_vars => [Extends(specFile, specFile') /\ Extends(traceFile, traceFile')]_vars
  <2> SUFFICES ASSUME IInv, Next
               PROVE  Extends(specFile, specFile') /\ Extends(traceFile, traceFile')
      OBVIOUS
  <2>1. traceFile \in Files(Row) /\ specFile \in Files(Row) /\ traceBuf \in Seq(Row) /\ specBuf \in Seq(Row)
      BY DEF IInv, CorpusSound, TypeOK
  <2>2. CASE UNCHANGED files
      BY <2>1, <2>2, SameFileExtends DEF files
  <2>3. CASE traceFile' = Landed(traceFile, traceBuf) /\ specFile' = Landed(specFile, specBuf)
      BY <2>1, <2>3, LandedKeeps, KeptExtends
  <2>4. CASE traceFile' \in KilledAfter(traceFile, traceBuf) /\ specFile' \in KilledAfter(specFile, specBuf)
      BY <2>1, <2>4, KilledKeeps, KeptExtends
  <2> QED BY <2>2, <2>3, <2>4
          DEF Next, StartRun, StartFails, SkipSeen, NoTrace, Explored, NoSpec, Distilled, Finish, Raise, Kill, Close
<1> QED BY <1>1, Invariance, PTL DEF Spec, TerminatedRowsSurvive

\* A run that finishes leaves a readable spec for every goal it distilled or
\* skipped, unless a torn line met its first row (cli.py:1754-1760).
THEOREM FinishedRunsCover == Spec => FinishedRunCovers
<1>1. IInv /\ [Next]_vars => [Finish /\ specFile.tail = EMPTY => distilled \cup seen \subseteq SpecGoals']_vars
  <2> SUFFICES ASSUME IInv, Finish, specFile.tail = EMPTY
               PROVE  distilled \cup seen \subseteq SpecGoals'
      OBVIOUS
  <2>1. specFile \in Files(Row) /\ specBuf \in Seq(Row) /\ seen = GoalsSeen
        /\ Written(specBuf) = {<<g, run>> : g \in distilled}
      BY DEF IInv, CorpusSound, TypeOK, AtWork, BufferedSpecs, Finish
  <2>2. RowsIn(specFile') = RowsIn(specFile) \cup Written(specBuf)
      BY <2>1, Constants, LandedAfterLine DEF Finish, Close
  <2>3. \A g \in distilled : \E row \in RowsIn(specFile') : row[1] = g
    <3> TAKE g \in distilled
    <3>1. <<g, run>> \in RowsIn(specFile') /\ <<g, run>>[1] = g
        BY <2>1, <2>2
    <3> QED BY <3>1
  <2>4. \A g \in seen : \E row \in RowsIn(specFile') : row[1] = g
      BY <2>1, <2>2 DEF GoalsSeen
  <2> QED BY <2>3, <2>4 DEF SpecGoals
<1> QED BY <1>1, Invariance, PTL DEF Spec, FinishedRunCovers

-----------------------------------------------------------------------------
(* EvalResume.                                                             *)

LEMMA EvalConstants ==
    /\ Len(Tasks) \in Nat /\ Len(Tasks) > 0 /\ Repeat \in Nat /\ Repeat > 0 /\ MaxEvals \in Nat
    /\ JUNK \notin EvalRow /\ EMPTY \notin EvalRow
    BY TasksAndRuns

LEMMA RowShape ==
    ASSUME NEW row \in EvalRow
    PROVE  row.task \in TaskIds /\ row.rep \in AllReps /\ row.run \in 1..MaxEvals /\ row.passed \in BOOLEAN
    BY DEF EvalRow, AllReps

LEMMA FileRows ==
    ASSUME NEW f \in Files(EvalRow)
    PROVE  RowsIn(f) \subseteq EvalRow /\ (f.tail \notin {JUNK, EMPTY} => f.tail \in RowsIn(f))
<1>1. f.tail \in EvalRow \cup {JUNK, EMPTY} /\ \A i \in 1..Len(f.lines) : f.lines[i] \in EvalRow \cup {JUNK}
    BY FileShape
<1> QED BY <1>1 DEF RowsIn

LEMMA BufRows ==
    ASSUME NEW rows \in Seq(EvalRow)
    PROVE  Written(rows) \subseteq EvalRow /\ Len(rows) \in Nat
    BY LenProperties, ElementOfSeq DEF Written

-----------------------------------------------------------------------------
(* Counting.                                                               *)

LEMMA FiniteTasks == IsFiniteSet(TaskIds)
<1> DEFINE f == [i \in 1..Len(Tasks) |-> Tasks[i]]
<1>1. f \in Surjection(1..Len(Tasks), TaskIds)
    BY DEF Surjection, TaskIds
<1>2. IsFiniteSet(1..Len(Tasks))
    BY EvalConstants, FS_Interval
<1> QED BY <1>1, <1>2, FS_Surjection

\* The rows of a task that has all its repetitions are as many as these.
LEMMA AllRepsCounted ==
    ASSUME NEW f \in Files(EvalRow), NEW t \in TaskIds,
           \A a, b \in RowsIn(f) : a.task = b.task => (a.rep = b.rep => a = b),
           Reps(t, RowsIn(f)) = AllReps
    PROVE  Cardinality(RowsOf(t, f)) = Repeat
<1> DEFINE S == RowsOf(t, f)
           F == [row \in S |-> row.rep]
<1>1. IsFiniteSet(AllReps) /\ Cardinality(AllReps) = Repeat
  <2>1. 0 \in Int /\ Repeat - 1 \in Int /\ ~(0 > Repeat - 1) /\ (Repeat - 1) - 0 + 1 = Repeat
      BY EvalConstants
  <2> QED BY <2>1, FS_Interval DEF AllReps
<1>2. S \subseteq RowsIn(f) /\ \A row \in S : row.task = t
    BY DEF RowsOf
<1>3. \A row \in S : row.rep \in AllReps
    BY <1>2, FileRows, RowShape
<1>4. \A k \in AllReps : \E row \in S : row.rep = k
    BY DEF Reps, Of, RowsOf
<1>5. \A a, b \in S : a.rep = b.rep => a = b
    BY <1>2
<1> HIDE DEF S
<1>6. F \in Injection(S, AllReps)
    BY <1>3, <1>5 DEF Injection, IsInjective
<1>7. F \in Surjection(S, AllReps)
    BY <1>3, <1>4 DEF Surjection
<1>8. Cardinality(S) = Cardinality(AllReps)
    BY <1>1, <1>6, <1>7, FS_Injection
<1> QED BY <1>1, <1>8 DEF S

LEMMA CutsBounded == EvalIInv => CutsAreBounded
<1> SUFFICES ASSUME EvalIInv PROVE CutsAreBounded
    OBVIOUS
<1>0. EvalTypeOK /\ OneRunPerTask /\ CutsAreAccounted /\ output \in Files(EvalRow)
    BY DEF EvalIInv, EvalTypeOK
<1>1. Incomplete \subseteq Partial
  <2> SUFFICES ASSUME NEW t \in TaskIds, Reps(t, RowsIn(output)) \in {{}, AllReps}
               PROVE  Cardinality(RowsOf(t, output)) \notin 1..Repeat - 1
      BY DEF Incomplete, Partial
  <2>1. CASE Reps(t, RowsIn(output)) = {}
    <3>1. RowsOf(t, output) = {}
        BY <2>1 DEF Reps, Of, RowsOf
    <3> QED BY <3>1, FS_EmptySet
  <2>2. CASE Reps(t, RowsIn(output)) = AllReps
    <3>1. Cardinality(RowsOf(t, output)) = Repeat
        BY <1>0, <2>2, AllRepsCounted DEF OneRunPerTask
    <3> QED BY <3>1, EvalConstants
  <2> QED BY <2>1, <2>2
<1>2. TailTask \subseteq TaskIds
    BY <1>0, FileRows, RowShape DEF TailTask
<1>3. IsFiniteSet(Partial \cup TailTask) /\ Cardinality(Partial \cup TailTask) \in Nat
    BY <1>2, FiniteTasks, FS_Subset, FS_CardinalityType DEF Partial
<1>4. /\ Cardinality(Incomplete) \in Nat
      /\ Cardinality(Incomplete) <= Cardinality(Partial \cup TailTask)
    BY <1>1, <1>3, FS_Subset, FS_CardinalityType
<1>5. mishaps.raised \in Nat /\ mishaps.killed \in Nat
    BY <1>0 DEF EvalTypeOK
<1> QED BY <1>0, <1>3, <1>4, <1>5 DEF CutsAreAccounted, CutsAreBounded

-----------------------------------------------------------------------------
(* The invariant holds initially, and while a process works.               *)

LEMMA EvalInitInv == EvalInit => EvalIInv
<1> SUFFICES ASSUME EvalInit PROVE EvalIInv
    OBVIOUS
<1> USE DEF EvalInit
<1>1. EmptyFile \in Files(EvalRow) /\ RowsIn(EmptyFile) = {} /\ EmptyFile.tail = EMPTY
    BY NoFile DEF EmptyFile
<1>2. EvalTypeOK
    BY <1>1, EvalConstants, NothingWritten DEF EvalTypeOK
<1>3. Partial \cup TailTask = {}
  <2>1. \A t : Reps(t, RowsIn(output)) = {}
      BY <1>1 DEF Reps, Of
  <2> QED BY <1>1, <2>1 DEF Partial, TailTask
<1>4. CutsAreAccounted
  <2>1. Cardinality(Partial \cup TailTask) = 0
      BY <1>3, FS_EmptySet
  <2>2. mishaps.raised + 2 * mishaps.killed = 0 /\ output.tail = EMPTY
      BY <1>1
  <2> QED BY <2>1, <2>2 DEF CutsAreAccounted
<1>5. TaskByTask
    BY NothingWritten DEF TaskByTask
<1> QED BY <1>1, <1>2, <1>4, <1>5 DEF EvalIInv, OneRunPerTask, EvalIsFlushed, Buffered, Counted

\* A step that leaves the file alone.
LEMMA FileAlone ==
    ASSUME EvalIInv, UNCHANGED <<output, mishaps>>
    PROVE  OneRunPerTask' /\ CutsAreAccounted' /\ TasksSeen' = TasksSeen
    BY DEF EvalIInv, OneRunPerTask, CutsAreAccounted, TasksSeen, Partial, TailTask

LEMMA OneMoreRow ==
    ASSUME NEW rows, NEW row, NEW t
    PROVE  /\ Of(t, rows \cup {row}) = IF row.task = t THEN Of(t, rows) \cup {row} ELSE Of(t, rows)
           /\ Reps(t, rows \cup {row}) = IF row.task = t THEN Reps(t, rows) \cup {row.rep} ELSE Reps(t, rows)
<1>1. Of(t, rows \cup {row}) = IF row.task = t THEN Of(t, rows) \cup {row} ELSE Of(t, rows)
    BY DEF Of
<1> QED BY <1>1 DEF Reps

LEMMA StartEvalInv ==
    ASSUME EvalIInv, StartEval
    PROVE  EvalIInv'
<1> USE DEF StartEval
<1>0. EvalTypeOK /\ EvalIsFlushed /\ output \in Files(EvalRow)
    BY DEF EvalIInv, EvalTypeOK
<1>1. OneRunPerTask' /\ CutsAreAccounted' /\ TasksSeen' = TasksSeen
    BY FileAlone
<1>2. outBuf' = <<>> /\ Written(outBuf') = {} /\ Len(outBuf') = 0
    BY <1>0, NothingWritten DEF EvalIsFlushed
<1>3. TasksSeen \subseteq TaskIds
    BY <1>0, FileRows, RowShape DEF TasksSeen
<1>4. EvalTypeOK'
    BY <1>0, <1>3, EvalConstants DEF EvalTypeOK
<1>5. Buffered'
  <2>1. evalRun' > 0 /\ seenIds' = TasksSeen'
      BY <1>0, <1>1 DEF EvalTypeOK
  <2>2. \A t : Reps(t, Written(outBuf')) = {}
      BY <1>2 DEF Reps, Of
  <2>3. rep' = 0 /\ 0..(rep' - 1) = {} /\ ~(rep' > 0) /\ \A j \in 1..Len(Tasks) : ~(j < evalPos')
      BY EvalConstants
  <2> QED BY <1>2, <2>1, <2>2, <2>3 DEF Buffered
<1>6. Counted'
  <2>1. \A j \in 1..Len(Tasks) : ~(j < evalPos')
      BY EvalConstants
  <2> QED BY <1>2, <2>1 DEF Counted, Of
<1>7. EvalIsFlushed' /\ TaskByTask'
    BY <1>2 DEF EvalIsFlushed, TaskByTask
<1> QED BY <1>1, <1>4, <1>5, <1>6, <1>7 DEF EvalIInv

LEMMA StartEvalFailsInv ==
    ASSUME EvalIInv, StartEvalFails
    PROVE  EvalIInv'
<1> USE DEF StartEvalFails
<1>1. OneRunPerTask' /\ CutsAreAccounted'
    BY FileAlone
<1>2. EvalTypeOK'
    BY EvalConstants DEF EvalIInv, EvalTypeOK
<1>3. EvalIsFlushed' /\ Buffered' /\ Counted' /\ TaskByTask'
    BY DEF EvalIInv, EvalIsFlushed, Buffered, Counted, TaskByTask
<1> QED BY <1>1, <1>2, <1>3 DEF EvalIInv

\* The tasks after the one at hand have no rows yet.
LEMMA NothingAhead ==
    ASSUME EvalIInv, evalPhase = "eval", NEW j \in 1..Len(Tasks), j > evalPos
    PROVE  Reps(Tasks[j], Written(outBuf)) = {} /\ Of(Tasks[j], Written(outBuf)) = {}
<1>1. Reps(Tasks[j], Written(outBuf)) = {}
    BY DEF EvalIInv, Buffered
<1> QED BY <1>1 DEF Reps

\* To the next task, the one at hand skipped or complete.
LEMMA GoOnInv ==
    ASSUME EvalIInv, HasTask, GoOn,
           UNCHANGED <<evalRun, evalPhase, seenIds, output, outBuf, mishaps>>,
           Task \in ToDo => rep = Repeat,
           passed' = IF Task \in ToDo /\ allPass THEN passed \cup {Task} ELSE passed
    PROVE  EvalIInv'
<1> USE DEF HasTask, Task, GoOn
<1>0. EvalTypeOK /\ Buffered /\ Counted /\ TaskByTask
    BY DEF EvalIInv
<1>1. OneRunPerTask' /\ CutsAreAccounted' /\ TasksSeen' = TasksSeen
    BY FileAlone
<1>2. evalPos \in 1..Len(Tasks) /\ evalPos \in Nat /\ Tasks[evalPos] \in TaskIds
    BY <1>0, EvalConstants DEF EvalTypeOK, TaskIds
<1>3. EvalTypeOK'
    BY <1>0, <1>2, EvalConstants DEF EvalTypeOK
<1>4. ToDo' = ToDo
    BY DEF ToDo
<1>5. Buffered'
  <2> SUFFICES ASSUME NEW j \in 1..Len(Tasks)
               PROVE  Reps(Tasks[j], Written(outBuf)) = IF Tasks[j] \notin ToDo \/ j > evalPos + 1 THEN {}
                                                     ELSE IF j < evalPos + 1 THEN AllReps ELSE 0..0 - 1
      BY <1>0, <1>1, <1>4 DEF Buffered
  <2>1. Reps(Tasks[j], Written(outBuf)) = IF Tasks[j] \notin ToDo \/ j > evalPos THEN {}
                                       ELSE IF j < evalPos THEN AllReps ELSE 0..rep - 1
      BY <1>0 DEF Buffered
  <2>2. CASE j < evalPos
      BY <1>2, <2>1, <2>2
  <2>3. CASE j = evalPos
    <3>1. Tasks[j] \in ToDo => 0..rep - 1 = AllReps
        BY <2>3 DEF AllReps
    <3> QED BY <1>2, <2>1, <2>3, <3>1
  <2>4. CASE j > evalPos
    <3>1. 0..0 - 1 = {}
        OBVIOUS
    <3> QED BY <1>2, <2>1, <2>4, <3>1
  <2> QED BY <1>2, <2>2, <2>3, <2>4
<1>6. Counted'
  <2>1. passed' \subseteq {Tasks[j] : j \in 1..evalPos' - 1}
    <3>1. \A j \in 1..evalPos - 1 : j \in 1..evalPos' - 1
        BY <1>2
    <3>2. evalPos \in 1..evalPos' - 1
        BY <1>2
    <3> QED BY <1>0, <3>1, <3>2 DEF Counted
  <2>2. Task \notin passed
    <3>1. passed \subseteq {Tasks[j] : j \in 1..evalPos - 1}
        BY <1>0 DEF Counted
    <3>2. \A j \in 1..evalPos - 1 : j \in 1..Len(Tasks) /\ j # evalPos
        BY <1>2, EvalConstants
    <3> QED BY <1>2, <3>1, <3>2, TasksAndRuns
  <2>3. ASSUME NEW j \in 1..Len(Tasks), j < evalPos', Tasks[j] \in ToDo
        PROVE  Tasks[j] \in passed' <=> \A row \in Of(Tasks[j], Written(outBuf)) : row.passed
    <3>1. CASE j = evalPos
      <4>1. allPass <=> \A row \in Of(Tasks[j], Written(outBuf)) : row.passed
          BY <1>0, <3>1 DEF Counted
      <4> QED BY <2>2, <2>3, <3>1, <4>1
    <3>2. CASE j # evalPos
      <4>1. j < evalPos /\ Tasks[j] # Task
          BY <1>2, <2>3, <3>2, TasksAndRuns
      <4>2. Tasks[j] \in passed <=> \A row \in Of(Tasks[j], Written(outBuf)) : row.passed
          BY <1>0, <2>3, <4>1 DEF Counted
      <4> QED BY <4>1, <4>2
    <3> QED BY <3>1, <3>2
  <2>4. ASSUME NEW j \in 1..Len(Tasks), j = evalPos'
        PROVE  Of(Tasks[j], Written(outBuf)) = {}
    <3>1. j > evalPos
        BY <1>2, <2>4
    <3> QED BY <3>1, NothingAhead
  <2> QED BY <1>4, <2>1, <2>3, <2>4 DEF Counted
<1>7. EvalIsFlushed' /\ TaskByTask'
    BY <1>0 DEF EvalIsFlushed, TaskByTask
<1> QED BY <1>1, <1>3, <1>5, <1>6, <1>7 DEF EvalIInv

LEMMA SkipInv ==
    ASSUME EvalIInv, Skip
    PROVE  EvalIInv'
    BY GoOnInv DEF Skip, ToDo

LEMMA TaskDoneInv ==
    ASSUME EvalIInv, TaskDone
    PROVE  EvalIInv'
<1>1. rep = Repeat /\ Task \in ToDo
    BY EvalConstants DEF EvalIInv, Buffered, TaskDone, AllRepeated, HasTask
<1> QED BY <1>1, GoOnInv DEF TaskDone, PassK

LEMMA RepetitionInv ==
    ASSUME EvalIInv, Repetition
    PROVE  EvalIInv'
<1> USE DEF HasTask, Task
<1>0. EvalTypeOK /\ Buffered /\ Counted /\ TaskByTask /\ evalPhase = "eval" /\ outBuf \in Seq(EvalRow)
    BY DEF EvalIInv, Repetition, EvalTypeOK
<1>1. OneRunPerTask' /\ CutsAreAccounted' /\ TasksSeen' = TasksSeen
    BY FileAlone DEF Repetition
<1>2. evalPos \in 1..Len(Tasks) /\ rep \in Nat /\ rep < Repeat /\ rep' = rep + 1 /\ Task \in TaskIds /\ Task \in ToDo
      /\ evalRun \in 1..MaxEvals
    BY <1>0, EvalConstants DEF EvalTypeOK, TaskIds, Repetition, ToDo, Buffered
<1>3. PICK ok \in BOOLEAN :
        /\ outBuf' = Append(outBuf, [task |-> Task, rep |-> rep, run |-> evalRun, passed |-> ok])
        /\ allPass' = (allPass /\ ok)
    BY DEF Repetition
<1> DEFINE new == [task |-> Task, rep |-> rep, run |-> evalRun, passed |-> ok]
<1>4. new \in EvalRow /\ new.task = Task /\ new.rep = rep /\ new.run = evalRun /\ new.passed = ok
    BY <1>2, EvalConstants DEF EvalRow
<1> HIDE DEF new
<1>5. /\ outBuf' \in Seq(EvalRow) /\ Len(outBuf) \in Nat /\ Len(outBuf') = Len(outBuf) + 1
      /\ \A i \in 1..Len(outBuf) : outBuf'[i] = outBuf[i]
      /\ outBuf'[Len(outBuf) + 1] = new
      /\ Written(outBuf') = Written(outBuf) \cup {new}
    BY <1>0, <1>3, <1>4, AppendRow DEF new
<1>5a. \A t : /\ Of(t, Written(outBuf')) = IF t = Task THEN Of(t, Written(outBuf)) \cup {new} ELSE Of(t, Written(outBuf))
              /\ Reps(t, Written(outBuf')) = IF t = Task THEN Reps(t, Written(outBuf)) \cup {rep} ELSE Reps(t, Written(outBuf))
  <2> TAKE t
  <2> DEFINE old == Written(outBuf)
  <2>1. /\ Of(t, old \cup {new}) = IF new.task = t THEN Of(t, old) \cup {new} ELSE Of(t, old)
        /\ Reps(t, old \cup {new}) = IF new.task = t THEN Reps(t, old) \cup {new.rep} ELSE Reps(t, old)
      BY OneMoreRow
  <2> QED BY <1>4, <1>5, <2>1
<1>6. EvalTypeOK'
    BY <1>0, <1>2, <1>3, <1>5, EvalConstants DEF EvalTypeOK, Repetition
<1>7. ToDo' = ToDo /\ UNCHANGED <<evalPhase, evalPos, seenIds, evalRun, passed>>
    BY DEF ToDo, Repetition
<1>8. \A j \in 1..Len(Tasks) : Tasks[j] = Task <=> j = evalPos
    BY <1>2, TasksAndRuns
<1>9. Reps(Task, Written(outBuf)) = 0..rep - 1
  <2>1. ~(evalPos > evalPos) /\ ~(evalPos < evalPos)
      BY <1>2
  <2> QED BY <1>0, <1>2, <2>1 DEF Buffered
<1>10. Buffered'
  <2>1. evalRun' > 0 /\ seenIds' = TasksSeen' /\ (rep' > 0 => (HasTask /\ Task \in ToDo)')
      BY <1>0, <1>1, <1>2, <1>7 DEF Buffered, Repetition
  <2>2. \A row \in Written(outBuf') : row.run = evalRun'
      BY <1>0, <1>4, <1>5, <1>7 DEF Buffered
  <2>3. ASSUME NEW a \in Written(outBuf'), NEW b \in Written(outBuf'), a.task = b.task, a.rep = b.rep
        PROVE  a = b
    <3>1. \A row \in Written(outBuf) : row.task = Task => row.rep \in 0..rep - 1
        BY <1>9 DEF Reps, Of
    <3>2. \A row \in Written(outBuf) : ~(row.task = Task /\ row.rep = rep)
        BY <1>2, <3>1
    <3> QED BY <1>0, <1>4, <1>5, <2>3, <3>2 DEF Buffered
  <2>4. ASSUME NEW j \in 1..Len(Tasks)
        PROVE  Reps(Tasks[j], Written(outBuf')) = IF Tasks[j] \notin ToDo \/ j > evalPos THEN {}
                                               ELSE IF j < evalPos THEN AllReps ELSE 0..rep' - 1
    <3>1. CASE j = evalPos
      <4>1. Reps(Tasks[j], Written(outBuf')) = Reps(Tasks[j], Written(outBuf)) \cup {rep}
          BY <1>5a, <3>1
      <4>2. 0..rep - 1 \cup {rep} = 0..rep' - 1
          BY <1>2
      <4> QED BY <1>2, <1>9, <3>1, <4>1, <4>2
    <3>2. CASE j # evalPos
      <4>1. Reps(Tasks[j], Written(outBuf')) = Reps(Tasks[j], Written(outBuf))
          BY <1>8, <1>5a, <3>2
      <4> QED BY <1>0, <1>2, <3>2, <4>1 DEF Buffered
    <3> QED BY <3>1, <3>2
  <2> QED BY <1>7, <2>1, <2>2, <2>3, <2>4 DEF Buffered
<1>11. Counted'
  <2>1. ASSUME NEW j \in 1..Len(Tasks), j # evalPos
        PROVE  Of(Tasks[j], Written(outBuf')) = Of(Tasks[j], Written(outBuf))
      BY <1>8, <1>5a, <2>1
  <2>2. Of(Task, Written(outBuf')) = Of(Task, Written(outBuf)) \cup {new}
      BY <1>5a
  <2>3. allPass <=> \A row \in Of(Task, Written(outBuf)) : row.passed
      BY <1>0, <1>2 DEF Counted
  <2>4. allPass' <=> \A row \in Of(Task, Written(outBuf')) : row.passed
      BY <1>3, <1>4, <2>2, <2>3
  <2>5. passed' \subseteq {Tasks[j] : j \in 1..evalPos' - 1}
      BY <1>0, <1>7 DEF Counted
  <2>6. ASSUME NEW j \in 1..Len(Tasks), j < evalPos, Tasks[j] \in ToDo
        PROVE  Tasks[j] \in passed <=> \A row \in Of(Tasks[j], Written(outBuf')) : row.passed
    <3>1. j # evalPos
        BY <1>2, <2>6
    <3> QED BY <1>0, <2>1, <2>6, <3>1 DEF Counted
  <2> QED BY <1>7, <2>4, <2>5, <2>6 DEF Counted
<1>12. TaskByTask'
  <2> SUFFICES ASSUME NEW n \in 1..Len(outBuf'), NEW t \in TaskIds, t # outBuf'[n].task
               PROVE  Reps(t, {outBuf'[i] : i \in 1..n - 1}) \in {{}, AllReps}
      BY DEF TaskByTask
  <2>1. \A i \in 1..n - 1 : i \in 1..Len(outBuf) /\ outBuf'[i] = outBuf[i]
      BY <1>5
  <2>2. {outBuf'[i] : i \in 1..n - 1} = {outBuf[i] : i \in 1..n - 1}
      BY <2>1
  <2>3. CASE n \in 1..Len(outBuf)
      BY <1>0, <1>5, <2>2, <2>3 DEF TaskByTask
  <2>4. CASE n = Len(outBuf) + 1
    <3>1. n - 1 = Len(outBuf)
        BY <1>5, <2>4
    <3>2. {outBuf[i] : i \in 1..n - 1} = Written(outBuf)
        BY <3>1 DEF Written
    <3>3. PICK j \in 1..Len(Tasks) : t = Tasks[j]
        BY DEF TaskIds
    <3>4. j # evalPos
        BY <1>4, <1>5, <2>4, <3>3
    <3>5. Reps(t, Written(outBuf)) \in {{}, AllReps}
        BY <1>0, <1>2, <3>3, <3>4 DEF Buffered
    <3> QED BY <2>2, <3>2, <3>5
  <2> QED BY <1>5, <2>3, <2>4
<1>13. EvalIsFlushed'
    BY <1>0, <1>7 DEF EvalIsFlushed
<1> QED BY <1>1, <1>6, <1>10, <1>11, <1>12, <1>13 DEF EvalIInv

-----------------------------------------------------------------------------
(* A process ends, with `n` of its rows on disk.                           *)

\* The task whose repetitions are then cut, if any.
Cut(n) == IF n < Len(outBuf) THEN {outBuf[n + 1].task}
          ELSE IF HasTask THEN {Task} ELSE {}

\* The task that loses its first row to a torn line, if any.
Stuck(n) == IF n = 0 \/ output.tail = EMPTY THEN {} ELSE {outBuf[1].task}

LEMMA PrefixWhole ==
    ASSUME EvalIInv, evalPhase = "eval", NEW n \in 0..Len(outBuf), NEW t \in TaskIds, t \notin Cut(n)
    PROVE  Reps(t, {outBuf[i] : i \in 1..n}) \in {{}, AllReps}
<1>0. EvalTypeOK /\ Buffered /\ TaskByTask /\ Len(outBuf) \in Nat
    BY BufRows DEF EvalIInv, EvalTypeOK
<1>1. CASE n < Len(outBuf)
  <2>1. n + 1 \in 1..Len(outBuf) /\ (n + 1) - 1 = n /\ t # outBuf[n + 1].task
      BY <1>0, <1>1 DEF Cut
  <2>2. Reps(t, {outBuf[i] : i \in 1..(n + 1) - 1}) \in {{}, AllReps}
      BY <1>0, <2>1 DEF TaskByTask
  <2> QED BY <2>1, <2>2
<1>2. CASE n = Len(outBuf)
  <2>1. {outBuf[i] : i \in 1..n} = Written(outBuf)
      BY <1>2 DEF Written
  <2>2. PICK j \in 1..Len(Tasks) : t = Tasks[j]
      BY DEF TaskIds
  <2>3. j # evalPos
    <3>1. ~(n < Len(outBuf))
        BY <1>0, <1>2
    <3>2. j = evalPos => HasTask
        BY EvalConstants DEF HasTask
    <3> QED BY <2>2, <3>1, <3>2 DEF Cut, Task
  <2>4. evalPos \in Nat
      BY <1>0, EvalConstants DEF EvalTypeOK
  <2>5. Reps(t, Written(outBuf)) \in {{}, AllReps}
      BY <1>0, <2>2, <2>3, <2>4 DEF Buffered
  <2> QED BY <2>1, <2>5
<1> QED BY <1>0, <1>1, <1>2

\* The process wrote no row of a task that had one.
LEMMA OwnTasks ==
    ASSUME EvalIInv, evalPhase = "eval", NEW row \in Written(outBuf)
    PROVE  row.task \in TaskIds /\ row.task \notin TasksSeen
<1>0. EvalTypeOK /\ Buffered /\ row \in EvalRow
    BY BufRows DEF EvalIInv, EvalTypeOK
<1>1. PICK j \in 1..Len(Tasks) : row.task = Tasks[j]
    BY <1>0, RowShape DEF TaskIds
<1>2. Reps(Tasks[j], Written(outBuf)) # {}
    BY <1>1 DEF Reps, Of
<1>3. Tasks[j] \in ToDo
    BY <1>0, <1>2 DEF Buffered
<1> QED BY <1>0, <1>1, <1>3 DEF ToDo, Buffered, TaskIds

LEMMA OneRunKept ==
    ASSUME EvalIInv, evalPhase = "eval", RowsIn(output') \subseteq RowsIn(output) \cup Written(outBuf)
    PROVE  OneRunPerTask'
<1>1. OneRunPerTask /\ Buffered
    BY DEF EvalIInv
<1> SUFFICES ASSUME NEW a \in RowsIn(output'), NEW b \in RowsIn(output'), a.task = b.task
             PROVE  a.run = b.run /\ (a.rep = b.rep => a = b)
    BY DEF OneRunPerTask
<1>2. a \in RowsIn(output) \cup Written(outBuf) /\ b \in RowsIn(output) \cup Written(outBuf)
    OBVIOUS
<1>3. \A r \in RowsIn(output) : r.task \in TasksSeen
    BY DEF TasksSeen
<1>4. \A r \in Written(outBuf) : r.task \notin TasksSeen
    BY OwnTasks
<1>5. CASE a \in RowsIn(output) /\ b \in RowsIn(output)
    BY <1>1, <1>5 DEF OneRunPerTask
<1>6. CASE a \in Written(outBuf) /\ b \in Written(outBuf)
    BY <1>1, <1>6 DEF Buffered
<1> QED BY <1>2, <1>3, <1>4, <1>5, <1>6

LEMMA NewCuts ==
    ASSUME EvalIInv, evalPhase = "eval", NEW n \in 0..Len(outBuf), Torn(output, outBuf, n, output')
    PROVE  Partial' \cup TailTask' \subseteq Partial \cup TailTask \cup Stuck(n) \cup Cut(n)
<1> DEFINE first == {outBuf[i] : i \in 1..n}
<1>0. /\ output \in Files(EvalRow) /\ Len(outBuf) \in Nat
      /\ \A i \in 1..n : i \in 1..Len(outBuf)
    BY BufRows DEF EvalIInv, EvalTypeOK
<1>1. /\ RowsIn(output') \subseteq RowsIn(output) \cup first \cup (IF n < Len(outBuf) THEN {outBuf[n + 1]} ELSE {})
      /\ \A r \in RowsIn(output) : r # output.tail => r \in RowsIn(output')
      /\ \A i \in 1..n : i > 1 \/ output.tail = EMPTY => outBuf[i] \in RowsIn(output')
      /\ \/ output' = output
         \/ output'.tail \in {JUNK, EMPTY}
         \/ n < Len(outBuf) /\ output'.tail = outBuf[n + 1]
    BY DEF Torn
<1>2. first \subseteq Written(outBuf)
    BY <1>0 DEF Written
<1>3. TailTask' \subseteq TailTask \cup Cut(n)
    BY <1>1 DEF TailTask, Cut
<1>4. ASSUME NEW t \in TaskIds, t \notin TailTask, t \notin Stuck(n), t \notin Cut(n)
      PROVE  Of(t, RowsIn(output')) = Of(t, RowsIn(output)) \cup Of(t, first)
  <2>1. ASSUME NEW r \in RowsIn(output'), r.task = t PROVE r \in RowsIn(output) \cup first
    <3>1. ~(n < Len(outBuf) /\ r = outBuf[n + 1])
        BY <1>4, <2>1 DEF Cut
    <3> QED BY <1>1, <3>1
  <2>2. ASSUME NEW r \in RowsIn(output), r.task = t PROVE r \in RowsIn(output')
    <3>1. r # output.tail
        BY <1>4, <2>2 DEF TailTask, RowsIn
    <3> QED BY <1>1, <3>1
  <2>3. ASSUME NEW r \in first, r.task = t PROVE r \in RowsIn(output')
    <3>1. PICK i \in 1..n : r = outBuf[i]
        BY DEF first
    <3>2. i > 1 \/ i = 1
        BY <1>0
    <3>3. i = 1 => output.tail = EMPTY
        BY <1>4, <2>3, <3>1 DEF Stuck
    <3> QED BY <1>1, <3>1, <3>2, <3>3
  <2> HIDE DEF first
  <2> QED BY <2>1, <2>2, <2>3 DEF Of
<1>5. ASSUME NEW t \in Partial', t \notin TailTask, t \notin Stuck(n), t \notin Cut(n)
      PROVE  t \in Partial
  <2>1. t \in TaskIds /\ Reps(t, RowsIn(output')) \notin {{}, AllReps}
      BY <1>5 DEF Partial
  <2>2. Of(t, RowsIn(output')) = Of(t, RowsIn(output)) \cup Of(t, first)
      BY <1>4, <1>5, <2>1
  <2>3. CASE t \in TasksSeen
    <3>1. \A row \in first : row.task # t
        BY <1>2, <2>3, OwnTasks
    <3>2. Of(t, first) = {}
        BY <3>1 DEF Of
    <3>3. Reps(t, RowsIn(output')) = Reps(t, RowsIn(output))
        BY <2>2, <3>2 DEF Reps
    <3> QED BY <2>1, <3>3 DEF Partial
  <2>4. CASE t \notin TasksSeen
    <3>1. Of(t, RowsIn(output)) = {}
        BY <2>4 DEF Of, TasksSeen
    <3>2. Reps(t, RowsIn(output')) = Reps(t, first)
        BY <2>2, <3>1 DEF Reps
    <3>3. Reps(t, first) \in {{}, AllReps}
        BY <1>5, <2>1, PrefixWhole
    <3> QED BY <2>1, <3>2, <3>3
  <2> QED BY <2>3, <2>4
<1> QED BY <1>3, <1>5

\* What a set of tasks can grow by.
LEMMA AddUpTo ==
    ASSUME NEW S \in SUBSET TaskIds, NEW T \in SUBSET TaskIds,
           NEW x \in SUBSET TaskIds, NEW y \in SUBSET TaskIds,
           x = {} \/ \E t : x = {t}, y = {} \/ \E t : y = {t},
           T \subseteq S \cup x \cup y
    PROVE  /\ Cardinality(S) \in Nat /\ Cardinality(T) \in Nat
           /\ Cardinality(T) <= Cardinality(S) + (IF x = {} THEN 0 ELSE 1) + (IF y = {} THEN 0 ELSE 1)
<1>1. IsFiniteSet(S) /\ IsFiniteSet(T) /\ Cardinality(S) \in Nat /\ Cardinality(T) \in Nat
    BY FiniteTasks, FS_Subset, FS_CardinalityType
<1>2. ASSUME NEW A, IsFiniteSet(A), NEW z, z = {} \/ \E t : z = {t}
      PROVE  /\ IsFiniteSet(A \cup z) /\ Cardinality(A \cup z) \in Nat
             /\ Cardinality(A \cup z) <= Cardinality(A) + (IF z = {} THEN 0 ELSE 1)
  <2>0. Cardinality(A) \in Nat
      BY <1>2, FS_CardinalityType
  <2>1. CASE z = {}
    <3>1. A \cup z = A
        BY <2>1
    <3> QED BY <1>2, <2>0, <2>1, <3>1
  <2>2. CASE z # {}
    <3>1. PICK t : z = {t}
        BY <1>2, <2>2
    <3>2. IsFiniteSet(A \cup {t}) /\ Cardinality(A \cup {t}) = IF t \in A THEN Cardinality(A) ELSE Cardinality(A) + 1
        BY <1>2, FS_AddElement
    <3> QED BY <2>0, <2>2, <3>1, <3>2
  <2> QED BY <2>1, <2>2
<1>3. /\ IsFiniteSet(S \cup x) /\ Cardinality(S \cup x) \in Nat
      /\ Cardinality(S \cup x) <= Cardinality(S) + (IF x = {} THEN 0 ELSE 1)
    BY <1>1, <1>2
<1>4. /\ IsFiniteSet((S \cup x) \cup y) /\ Cardinality((S \cup x) \cup y) \in Nat
      /\ Cardinality((S \cup x) \cup y) <= Cardinality(S \cup x) + (IF y = {} THEN 0 ELSE 1)
    BY <1>2, <1>3
<1>5. T \in SUBSET ((S \cup x) \cup y)
    OBVIOUS
<1>6. Cardinality(T) <= Cardinality((S \cup x) \cup y)
    BY <1>4, <1>5, FS_Subset
<1> QED BY <1>1, <1>3, <1>4, <1>6

\* What the end of a process adds to the account.
LEMMA Account ==
    ASSUME EvalIInv, evalPhase = "eval", NEW n \in 0..Len(outBuf), Torn(output, outBuf, n, output'), output' \in Files(EvalRow)
    PROVE  LET old == Cardinality(Partial \cup TailTask)
               new == Cardinality(Partial \cup TailTask)'
           IN  /\ old \in Nat /\ new \in Nat
               /\ new <= old + (IF Stuck(n) = {} THEN 0 ELSE 1) + (IF Cut(n) = {} THEN 0 ELSE 1)
<1>0. EvalTypeOK /\ output \in Files(EvalRow) /\ outBuf \in Seq(EvalRow) /\ Len(outBuf) \in Nat
      /\ \A i \in 1..Len(outBuf) : outBuf[i] \in EvalRow
    BY BufRows, ElementOfSeq DEF EvalIInv, EvalTypeOK
<1>1. Partial \cup TailTask \in SUBSET TaskIds
    BY <1>0, FileRows, RowShape DEF Partial, TailTask
<1>2. (Partial \cup TailTask)' \in SUBSET TaskIds
  <2>1. Partial' \subseteq TaskIds
      BY DEF Partial
  <2>2. TailTask' \subseteq TaskIds
      BY FileRows, RowShape DEF TailTask
  <2> QED BY <2>1, <2>2
<1>3. Stuck(n) \in SUBSET TaskIds /\ (Stuck(n) = {} \/ \E t : Stuck(n) = {t})
  <2>1. n # 0 => 1 \in 1..Len(outBuf)
      BY <1>0
  <2> QED BY <1>0, <2>1, RowShape DEF Stuck
<1>4. Cut(n) \in SUBSET TaskIds /\ (Cut(n) = {} \/ \E t : Cut(n) = {t})
  <2>1. n < Len(outBuf) => n + 1 \in 1..Len(outBuf)
      BY <1>0
  <2>2. HasTask => Task \in TaskIds
      BY <1>0, EvalConstants DEF EvalTypeOK, HasTask, Task, TaskIds
  <2> QED BY <1>0, <2>1, <2>2, RowShape DEF Cut
<1>5. (Partial \cup TailTask)' \subseteq (Partial \cup TailTask) \cup Stuck(n) \cup Cut(n)
    BY NewCuts
<1> QED BY <1>1, <1>2, <1>3, <1>4, <1>5, AddUpTo

\* With the process gone, only the account is left to show.
LEMMA EndInv ==
    ASSUME EvalIInv, evalPhase = "eval", output' \in Files(EvalRow),
           RowsIn(output') \subseteq RowsIn(output) \cup Written(outBuf),
           outBuf' = <<>>, evalPhase' = "idle", mishaps' \in [raised : Nat, killed : Nat],
           UNCHANGED <<evalRun, evalPos, rep, allPass, seenIds, passed>>, CutsAreAccounted'
    PROVE  EvalIInv'
<1>1. EvalTypeOK'
    BY NothingWritten DEF EvalIInv, EvalTypeOK
<1>2. OneRunPerTask'
    BY OneRunKept
<1>3. EvalIsFlushed' /\ Buffered' /\ Counted' /\ TaskByTask'
    BY NothingWritten DEF EvalIsFlushed, Buffered, Counted, TaskByTask
<1> QED BY <1>1, <1>2, <1>3 DEF EvalIInv

LEMMA CloseOutputInv ==
    ASSUME EvalIInv, evalPhase = "eval", CloseOutput, UNCHANGED <<evalRun, evalPos, rep, allPass, seenIds, passed>>,
           \/ ~HasTask /\ UNCHANGED mishaps
           \/ mishaps' = [mishaps EXCEPT !.raised = @ + 1]
    PROVE  EvalIInv'
<1> USE DEF CloseOutput
<1>0. /\ CutsAreAccounted /\ output \in Files(EvalRow) /\ outBuf \in Seq(EvalRow) /\ Len(outBuf) \in Nat
      /\ mishaps \in [raised : Nat, killed : Nat]
    BY BufRows DEF EvalIInv, EvalTypeOK
<1>1. /\ Torn(output, outBuf, Len(outBuf), output') /\ output' \in Files(EvalRow)
      /\ RowsIn(output') \subseteq RowsIn(output) \cup Written(outBuf)
    BY <1>0, EvalConstants, LandedTorn, LandedKeeps
<1>6. Len(outBuf) \in 0..Len(outBuf)
    BY <1>0
<1> DEFINE old == Cardinality(Partial \cup TailTask)
           new == Cardinality(Partial \cup TailTask)'
<1>2. /\ old \in Nat /\ new \in Nat
      /\ new <= old + (IF Stuck(Len(outBuf)) = {} THEN 0 ELSE 1) + (IF Cut(Len(outBuf)) = {} THEN 0 ELSE 1)
    BY <1>1, <1>6, Account
<1>3. /\ mishaps' \in [raised : Nat, killed : Nat]
      /\ \/ ~HasTask /\ mishaps'.raised = mishaps.raised
         \/ mishaps'.raised = mishaps.raised + 1
      /\ mishaps'.killed = mishaps.killed /\ mishaps.raised \in Nat /\ mishaps.killed \in Nat
    BY <1>0
<1>4. old + (IF output.tail = EMPTY THEN 0 ELSE 1) <= mishaps.raised + 2 * mishaps.killed
    BY <1>0 DEF CutsAreAccounted
<1>5. CutsAreAccounted'
  <2>1. CASE outBuf = <<>>
    <3>1. output' = output
        BY <2>1 DEF Landed
    <3>2. new = old
        BY <3>1 DEF Partial, TailTask
    <3> HIDE DEF old, new
    <3>3. new + (IF output'.tail = EMPTY THEN 0 ELSE 1) <= mishaps'.raised + 2 * mishaps'.killed
        BY <1>2, <1>3, <1>4, <3>1, <3>2
    <3> QED BY <3>3 DEF CutsAreAccounted, new
  <2>2. CASE outBuf # <<>>
    <3>1. output'.tail = EMPTY
        BY <1>0, <2>2, LandedShape
    <3>2. output.tail = EMPTY => Stuck(Len(outBuf)) = {}
        BY DEF Stuck
    <3>3. ~HasTask => Cut(Len(outBuf)) = {}
        BY <1>0 DEF Cut
    <3> HIDE DEF old, new
    <3>4. new <= mishaps'.raised + 2 * mishaps'.killed
      <4>1. new <= old + (IF output.tail = EMPTY THEN 0 ELSE 1) + (IF HasTask THEN 1 ELSE 0)
          BY <1>2, <3>2, <3>3
      <4> HIDE DEF CloseOutput
      <4> QED BY <1>2, <1>3, <1>4, <4>1
    <3>5. new \in Nat
        BY <1>2
    <3> QED BY <3>1, <3>4, <3>5 DEF CutsAreAccounted, new
  <2> QED BY <2>1, <2>2
<1> QED BY <1>1, <1>3, <1>5, EndInv

LEMMA KillEvalInv ==
    ASSUME EvalIInv, KillEval
    PROVE  EvalIInv'
<1> USE DEF KillEval
<1>0. /\ CutsAreAccounted /\ output \in Files(EvalRow) /\ outBuf \in Seq(EvalRow) /\ Len(outBuf) \in Nat
      /\ mishaps \in [raised : Nat, killed : Nat]
    BY BufRows DEF EvalIInv, EvalTypeOK
<1>1. PICK n \in 0..Len(outBuf) : Torn(output, outBuf, n, output')
    BY <1>0, EvalConstants, KilledLoses
<1>2. output' \in Files(EvalRow) /\ RowsIn(output') \subseteq RowsIn(output) \cup Written(outBuf)
    BY <1>0, KilledKeeps
<1> DEFINE old == Cardinality(Partial \cup TailTask)
           new == Cardinality(Partial \cup TailTask)'
<1>3. /\ old \in Nat /\ new \in Nat
      /\ new <= old + (IF Stuck(n) = {} THEN 0 ELSE 1) + (IF Cut(n) = {} THEN 0 ELSE 1)
    BY <1>1, <1>2, Account
<1>4. /\ mishaps' \in [raised : Nat, killed : Nat]
      /\ mishaps'.raised = mishaps.raised /\ mishaps'.killed = mishaps.killed + 1
      /\ mishaps.raised \in Nat /\ mishaps.killed \in Nat
    BY <1>0
<1>5. old + (IF output.tail = EMPTY THEN 0 ELSE 1) <= mishaps.raised + 2 * mishaps.killed
    BY <1>0 DEF CutsAreAccounted
<1>6. output.tail = EMPTY => Stuck(n) = {}
    BY DEF Stuck
<1> HIDE DEF old, new
<1>7. new + (IF output'.tail = EMPTY THEN 0 ELSE 1) <= mishaps'.raised + 2 * mishaps'.killed
  <2>1. new + (IF output'.tail = EMPTY THEN 0 ELSE 1) <= old + (IF output.tail = EMPTY THEN 0 ELSE 1) + 2
    <3> DEFINE s == IF Stuck(n) = {} THEN 0 ELSE 1
               c == IF Cut(n) = {} THEN 0 ELSE 1
               t == IF output.tail = EMPTY THEN 0 ELSE 1
               k == IF output'.tail = EMPTY THEN 0 ELSE 1
    <3>1. s \in 0..1 /\ c \in 0..1 /\ t \in 0..1 /\ k \in 0..1 /\ s <= t
        BY <1>6
    <3>2. old \in Nat /\ new \in Nat /\ new <= old + s + c
        BY <1>3
    <3> HIDE DEF s, c, t, k
    <3>3. new + k <= old + t + 2
        BY <3>1, <3>2
    <3> QED BY <3>3 DEF t, k
  <2> DEFINE t == IF output.tail = EMPTY THEN 0 ELSE 1
             k == IF output'.tail = EMPTY THEN 0 ELSE 1
             r == mishaps.raised
             d == mishaps.killed
  <2>2. r \in Nat /\ d \in Nat /\ t \in 0..1 /\ k \in 0..1 /\ old \in Nat /\ new \in Nat
      BY <1>3, <1>4
  <2>3. new + k <= old + t + 2 /\ old + t <= r + 2 * d
      BY <1>5, <2>1
  <2>4. mishaps'.raised = r /\ mishaps'.killed = d + 1
      BY <1>4
  <2> HIDE DEF KillEval, t, k, r, d
  <2>5. new + k <= r + 2 * (d + 1)
      BY <2>2, <2>3
  <2> QED BY <2>4, <2>5 DEF k
<1>8. CutsAreAccounted'
    BY <1>7 DEF CutsAreAccounted, new
<1>9. /\ evalPhase = "eval" /\ outBuf' = <<>> /\ evalPhase' = "idle"
      /\ UNCHANGED <<evalRun, evalPos, rep, allPass, seenIds, passed>>
    OBVIOUS
<1> HIDE DEF KillEval
<1> QED BY <1>2, <1>4, <1>8, <1>9, EndInv

-----------------------------------------------------------------------------
(* Every step.                                                             *)

LEMMA EvalStutterInv ==
    ASSUME EvalIInv, UNCHANGED evalVars
    PROVE  EvalIInv'
<1> USE DEF evalVars
<1>1. OneRunPerTask' /\ CutsAreAccounted' /\ TasksSeen' = TasksSeen
    BY FileAlone
<1>2. EvalTypeOK' /\ EvalIsFlushed' /\ TaskByTask'
    BY DEF EvalIInv, EvalTypeOK, EvalIsFlushed, TaskByTask
<1>3. ToDo' = ToDo /\ HasTask' = HasTask /\ Task' = Task
    BY DEF ToDo, HasTask, Task
<1>4. Buffered'
    BY <1>1, <1>3 DEF EvalIInv, Buffered
<1>5. Counted'
    BY <1>3 DEF EvalIInv, Counted
<1> QED BY <1>1, <1>2, <1>4, <1>5 DEF EvalIInv

LEMMA EvalStepInv == EvalIInv /\ [EvalNext]_evalVars => EvalIInv'
<1> SUFFICES ASSUME EvalIInv, [EvalNext]_evalVars PROVE EvalIInv'
    OBVIOUS
<1>1. CASE StartEval
    BY <1>1, StartEvalInv
<1>2. CASE Skip
    BY <1>2, SkipInv
<1>3. CASE Repetition
    BY <1>3, RepetitionInv
<1>4. CASE TaskDone
    BY <1>4, TaskDoneInv
<1>5. CASE FinishEval
    BY <1>5, CloseOutputInv DEF FinishEval
<1>6. CASE RaiseEval
    BY <1>6, CloseOutputInv DEF RaiseEval, HasTask
<1>7. CASE KillEval
    BY <1>7, KillEvalInv
<1>8. CASE StartEvalFails
    BY <1>8, StartEvalFailsInv
<1>9. CASE UNCHANGED evalVars
    BY <1>9, EvalStutterInv
<1> QED BY <1>1, <1>2, <1>3, <1>4, <1>5, <1>6, <1>7, <1>8, <1>9 DEF EvalNext

-----------------------------------------------------------------------------
(* Theorems.                                                               *)

\* The inductive invariant holds in every state.
THEOREM EvalInvariance == EvalSpec => []EvalIInv
    BY EvalInitInv, EvalStepInv, PTL DEF EvalSpec

\* However processes end, the rows taken for the repetitions of a task are of
\* one process, one per repetition; a raise costs at most one task and a kill
\* two (cli.py:2200-2232).
THEOREM RunsAreSound == EvalSpec => []RunsSound
<1>1. EvalIInv => RunsSound
    BY CutsBounded DEF EvalIInv, RunsSound
<1> QED BY <1>1, EvalInvariance, PTL

\* A process that finishes has written every repetition of every task it did
\* not skip, and counts as passed those whose rows all pass, unless its first
\* row met a torn line (cli.py:2224-2255).
THEOREM FinishedRunsComplete == EvalSpec => FinishedRunCompletes
<1> DEFINE Complete ==
        FinishEval /\ output.tail = EMPTY =>
          \A t \in (TaskIds \cap Referenced) \ seenIds :
             /\ {row.rep : row \in RowsOf(t, output')} = 0..Repeat - 1
             /\ t \in passed <=> \A row \in RowsOf(t, output') : row.passed
<1>1. EvalIInv /\ [EvalNext]_evalVars => [Complete]_evalVars
  <2> SUFFICES ASSUME EvalIInv, FinishEval, output.tail = EMPTY,
                      NEW t \in (TaskIds \cap Referenced) \ seenIds
               PROVE  /\ {row.rep : row \in RowsOf(t, output')} = 0..Repeat - 1
                      /\ t \in passed <=> \A row \in RowsOf(t, output') : row.passed
      OBVIOUS
  <2>1. /\ output \in Files(EvalRow) /\ outBuf \in Seq(EvalRow) /\ evalPhase = "eval" /\ seenIds = TasksSeen
        /\ evalPos \in Nat /\ ~(evalPos <= Len(Tasks)) /\ Buffered /\ Counted
      BY EvalConstants DEF EvalIInv, EvalTypeOK, Buffered, FinishEval, HasTask
  <2>2. RowsIn(output') = RowsIn(output) \cup Written(outBuf)
      BY <2>1, EvalConstants, LandedAfterLine DEF FinishEval, CloseOutput
  <2>3. \A row \in RowsIn(output) : row.task # t
      BY <2>1 DEF TasksSeen
  <2>4. RowsOf(t, output') = Of(t, Written(outBuf))
      BY <2>2, <2>3 DEF RowsOf, Of
  <2>5. PICK j \in 1..Len(Tasks) : t = Tasks[j]
      BY DEF TaskIds
  <2>6. j < evalPos /\ ~(j > evalPos) /\ t \in ToDo
      BY <2>1, <2>5, EvalConstants DEF ToDo
  <2>7. Reps(t, Written(outBuf)) = AllReps
      BY <2>1, <2>5, <2>6 DEF Buffered
  <2>8. t \in passed <=> \A row \in Of(t, Written(outBuf)) : row.passed
      BY <2>1, <2>5, <2>6 DEF Counted
  <2> QED BY <2>4, <2>7, <2>8 DEF Reps, AllReps
<1> QED BY <1>1, EvalInvariance, PTL DEF EvalSpec, FinishedRunCompletes
=============================================================================
