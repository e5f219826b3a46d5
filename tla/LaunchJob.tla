----------------------------- MODULE LaunchJob ------------------------------
(***************************************************************************)
(* Guarded launches of the benchmark advisor (benchmark_advisor/           *)
(* v2_launch.py).  A launch starts a thread that runs build_corpus.py,     *)
(* tops the corpus up, selects `target` specs, evaluates every candidate   *)
(* model on them and writes a report.  The directory of a job is named     *)
(* after its request: all jobs here have the same request, and so append   *)
(* to, rewrite and read the same files, one after the other or at the same *)
(* time, and across restarts of the server, which forgets its jobs but     *)
(* does not end their child processes.                                     *)
(*                                                                         *)
(* A child has rows in the buffers of the files it appends to, which reach *)
(* each file on their own, one after the other or only in part.  A task is *)
(* a number, given in the order the goals are explored; its reference      *)
(* trace and its spec are rows of two files of the directory it was        *)
(* generated in.                                                           *)
(***************************************************************************)
EXTENDS CorpusMath, JsonlLog

CONSTANTS
    Jobs,           \* launches of the one request
    Models,         \* candidate models, a sequence without repetition
    Target,         \* export_config.tasks
    MaxBuild,       \* bound: goals one build explores
    MaxTasks,       \* bound: tasks made altogether
    MaxCuts,        \* bound: rows that reach their file in two parts, or only the first
    Verbatim,       \* tasks whose prompt is their goal, word for word
    DepthOf,        \* chain length of each task
    GoalOf,         \* goal of each task
    Requests,       \* what may be requested: [dry_run, run_benchmark]
    NONE

ASSUME LaunchAssumption ==
    /\ Target \in Nat \ {0} /\ MaxBuild \in Nat /\ MaxTasks \in Nat /\ MaxCuts \in Nat
    /\ Len(Models) \in Nat \ {0}
    /\ DepthOf \in [1..MaxTasks -> Range(Depths)]
    /\ DOMAIN GoalOf = 1..MaxTasks
    /\ Requests \subseteq [dry_run : BOOLEAN, run_benchmark : BOOLEAN]
    /\ JUNK \notin 1..MaxTasks /\ EMPTY \notin 1..MaxTasks /\ NONE \notin Jobs

Dirs    == 0..2                 \* the directory, its _topup1 and its _topup2
ModelIx == 1..Len(Models)
Row     == 1..MaxTasks

\* specs.jsonl and traces.jsonl of each directory, eval_<model>.jsonl of each model.
Specs(d)  == <<"specs", d>>
Traces(d) == <<"traces", d>>
Evals(m)  == <<"evals", m>>
File      == ({"specs", "traces"} \X Dirs) \cup ({"evals"} \X ModelIx)

VARIABLES
    request,    \* the request all jobs share
    job,        \* _JOBS: job -> [status, phase], or NONE (404)
    at,         \* where each job's thread stands
    attempts, generated,    \* of _run_full_benchmark
    model,      \* the model a job evaluates
    selected,   \* the tasks and the traces each job selected
    copy,       \* the rows _dedup_eval has read and not yet written
    warned,     \* the models whose results had invalid lines when a job copied them
    queue,      \* rows each job's child has still to append to each file
    half,       \* the row of which a part is in the file and the rest is not, or EMPTY
    files,      \* the files that children append to
    author,     \* the job whose child alone wrote what follows a file's last newline, or NONE
    tasks, cuts,            \* tasks made, and rows cut, so far
    combined,   \* combined_specs.jsonl and combined_traces.jsonl
    owner,      \* history: the jobs that wrote these last, or NONE
    dedup,      \* the deduplicated copies of the evals, and the job that wrote each last
    report      \* advisor_replay_demo_report.json: its tasks, or NONE

local    == <<attempts, generated, model, selected, copy, warned>>
children == <<queue, half>>
disk     == <<files, author, cuts>>
outputs  == <<combined, owner, dedup, report>>
vars     == <<request, job, at, local, children, disk, tasks, outputs>>

Unselected == [specs |-> {}, traces |-> {}]
NoCopy     == [rows |-> <<>>, by |-> NONE]
Idle       == [f \in File |-> <<>>]
Whole      == [f \in File |-> EMPTY]

Steps == {"unborn", "corpus", "building", "topping", "top_up", "selecting", "eval",
          "evaluating", "copying", "done"}

TypeOK == /\ request \in Requests
          /\ job \in [Jobs -> {NONE} \cup [status : {"queued", "running", "succeeded", "failed"},
                                         phase : {"queued", "corpus", "top_up", "select_corpus",
                                                  "eval", "succeeded", "failed"}]]
          /\ at \in [Jobs -> Steps]
          /\ attempts \in [Jobs -> 0..2] /\ generated \in [Jobs -> Nat]
          /\ model \in [Jobs -> 1..Len(Models) + 1]
          /\ selected \in [Jobs -> [specs : SUBSET Row, traces : SUBSET Row]]
          /\ copy \in [Jobs -> Seq(Row)] /\ warned \in [Jobs -> SUBSET ModelIx]
          /\ queue \in [Jobs -> [File -> Seq(Row)]]
          /\ half \in [Jobs -> [File -> Row \cup {EMPTY}]]
          /\ files \in [File -> Files(Row)] /\ author \in [File -> Jobs \cup {NONE}]
          /\ tasks \in 0..MaxTasks /\ cuts \in 0..MaxCuts
          /\ combined \in [specs : Seq(Row), traces : SUBSET Row]
          /\ owner \in [specs : Jobs \cup {NONE}, traces : Jobs \cup {NONE}]
          /\ dedup \in [ModelIx -> [rows : Seq(Row), by : Jobs \cup {NONE}]]
          /\ report = NONE \/ report \subseteq 1..tasks

Init == /\ request \in Requests
        /\ job = [j \in Jobs |-> NONE]
        /\ at = [j \in Jobs |-> "unborn"]
        /\ attempts = [j \in Jobs |-> 0] /\ generated = [j \in Jobs |-> 0]
        /\ model = [j \in Jobs |-> 1]
        /\ selected = [j \in Jobs |-> Unselected]
        /\ copy = [j \in Jobs |-> <<>>] /\ warned = [j \in Jobs |-> {}]
        /\ queue = [j \in Jobs |-> Idle] /\ half = [j \in Jobs |-> Whole]
        /\ files = [f \in File |-> EmptyFile] /\ author = [f \in File |-> NONE]
        /\ tasks = 0 /\ cuts = 0
        /\ combined = [specs |-> <<>>, traces |-> {}]
        /\ owner = [specs |-> NONE, traces |-> NONE]
        /\ dedup = [m \in ModelIx |-> NoCopy]
        /\ report = NONE

Goto(j, step)          == at' = [at EXCEPT ![j] = step]
Phase(j, status, what) == job' = [job EXCEPT ![j] = [status |-> status, phase |-> what]]

\* The thread ends, and its locals with it.
Exit(j) == /\ Goto(j, "done")
           /\ attempts' = [attempts EXCEPT ![j] = 0]
           /\ generated' = [generated EXCEPT ![j] = 0]
           /\ model' = [model EXCEPT ![j] = 1]
           /\ selected' = [selected EXCEPT ![j] = Unselected]
           /\ copy' = [copy EXCEPT ![j] = <<>>]
           /\ warned' = [warned EXCEPT ![j] = {}]

\* launch_advisor_corpus; a dry run is over at once.
Launch(j) ==
    /\ at[j] = "unborn"
    /\ IF request.dry_run THEN Phase(j, "succeeded", "succeeded") /\ Goto(j, "done")
       ELSE Phase(j, "queued", "queued") /\ Goto(j, "corpus")
    /\ UNCHANGED <<request, local, children, disk, tasks, outputs>>

-----------------------------------------------------------------------------
(* What a child appends: each file has a buffer of its own, which is       *)
(* written out when it is full, in the middle of a row as often as not.    *)
(* Other children may append to the file in between, and no one looks at   *)
(* its last line first.                                                    *)

\* Part of the next row reaches the file, all but its newline at most.
Begins(j, f) ==
    /\ half[j][f] = EMPTY /\ queue[j][f] # <<>>
    /\ cuts < MaxCuts /\ cuts' = cuts + 1
    /\ \E tail \in {JUNK, Glued(files[f].tail, Head(queue[j][f]))} :
          files' = [files EXCEPT ![f] = [lines |-> @.lines, tail |-> tail]]
    /\ author' = [author EXCEPT ![f] = IF files[f].tail = EMPTY THEN j ELSE NONE]
    /\ half' = [half EXCEPT ![j][f] = Head(queue[j][f])]
    /\ queue' = [queue EXCEPT ![j][f] = Tail(@)]

\* A line is closed; nothing but a newline makes a blank one, which all readers skip.
Closed(file, line) == [lines |-> IF line = EMPTY THEN file.lines ELSE Append(file.lines, line),
                       tail  |-> EMPTY]

\* The rest of the row: behind its own part, or behind whatever else is there -
\* when that rest is the newline, what is there becomes a line.
Ends(j, f) ==
    /\ half[j][f] # EMPTY
    /\ \E line \in IF author[f] = j THEN {half[j][f]} ELSE {JUNK, files[f].tail} :
          files' = [files EXCEPT ![f] = Closed(@, line)]
    /\ author' = [author EXCEPT ![f] = NONE]
    /\ half' = [half EXCEPT ![j][f] = EMPTY]
    /\ UNCHANGED <<cuts, queue>>

\* A row at once.
Lands(j, f) ==
    /\ half[j][f] = EMPTY /\ queue[j][f] # <<>>
    /\ files' = [files EXCEPT ![f] = Closed(@, Glued(@.tail, Head(queue[j][f])))]
    /\ author' = [author EXCEPT ![f] = NONE]
    /\ queue' = [queue EXCEPT ![j][f] = Tail(@)]
    /\ UNCHANGED <<cuts, half>>

\* A child that was killed together with the server is one that takes no more steps.
Child(j) == /\ \E f \in File : Begins(j, f) \/ Ends(j, f) \/ Lands(j, f)
            /\ UNCHANGED <<request, job, at, local, tasks, outputs>>

\* The child is gone, with what it has not written.
Reaped(j) == /\ queue' = [queue EXCEPT ![j] = Idle]
             /\ half' = [half EXCEPT ![j] = Whole]

Finished(j) == queue[j] = Idle /\ half[j] = Whole

-----------------------------------------------------------------------------
(* Builds: build_corpus.py without a panel, which runs `dmcp generate` on  *)
(* freshly generated goals without --resume and ignores its exit code.     *)

\* _jsonl_count counts the lines, readable or not.
JsonlCount(file) == Len(file.lines) + (IF file.tail = EMPTY THEN 0 ELSE 1)

NewTasks(n) == [i \in 1..n |-> tasks + i]

\* A child that will write the traces of `n` goals, and the specs of those it distils.
Build(j, d) ==
    \E n \in 0..MaxBuild :
        /\ tasks + n <= MaxTasks
        /\ tasks' = tasks + n
        /\ \E distilled \in SUBSET (tasks + 1..tasks + n) :
              queue' = [queue EXCEPT ![j] = [f \in File |->
                           CASE f = Specs(d)  -> Filter(NewTasks(n), distilled)
                             [] f = Traces(d) -> NewTasks(n)
                             [] OTHER         -> <<>>]]
        /\ half' = [half EXCEPT ![j] = Whole]

StartCorpus(j) ==
    /\ at[j] = "corpus"
    /\ Phase(j, "running", "corpus")
    /\ Build(j, 0)
    /\ Goto(j, "building")
    /\ UNCHANGED <<request, local, disk, outputs>>

\* After _run_corpus_only: done, or on to the benchmark, which counts the specs.
\* Whether the inner generate finished, raised or was killed, build_corpus.py ends.
EndCorpus(j) ==
    /\ at[j] = "building"
    /\ Reaped(j)
    /\ IF request.run_benchmark
       THEN /\ generated' = [generated EXCEPT ![j] = JsonlCount(files[Specs(0)])]
            /\ Goto(j, "topping")
            /\ UNCHANGED <<job, attempts, model, selected, copy, warned>>
       ELSE Phase(j, "succeeded", "succeeded") /\ Exit(j)
    /\ UNCHANGED <<request, disk, tasks, outputs>>

\* Mutant: the corpus is topped up only once.
Short_Once(j) == generated[j] < Target /\ attempts[j] < 1

Short(j) == generated[j] < Target /\ attempts[j] < 2

StartTopUp(j) ==
    /\ at[j] = "topping" /\ Short(j)
    /\ attempts' = [attempts EXCEPT ![j] = @ + 1]
    /\ Phase(j, "running", "top_up")
    /\ Build(j, attempts'[j])
    /\ Goto(j, "top_up")
    /\ UNCHANGED <<request, generated, model, selected, copy, warned, disk, outputs>>

EndTopUp(j) ==
    /\ at[j] = "top_up"
    /\ Reaped(j)
    /\ generated' = [generated EXCEPT ![j] = @ + JsonlCount(files[Specs(attempts[j])])]
    /\ Goto(j, "topping")
    /\ UNCHANGED <<request, job, attempts, model, selected, copy, warned, disk, tasks, outputs>>

\* A build that ends with another exit code fails the job, as do specs that cannot
\* be decoded to be counted.  The generate it started may outlive it and go on writing.
BuildFails(j) ==
    /\ at[j] \in {"building", "top_up"}
    /\ Phase(j, "failed", "failed")
    /\ Exit(j)
    /\ UNCHANGED <<request, children, disk, tasks, outputs>>

-----------------------------------------------------------------------------
(* _select_combined_corpus.                                                *)

Readable(file) == Filter(Append(file.lines, file.tail), Row)

\* The rows of the directory and of the top-ups this job made.
Read(kind, j) == Readable(files[<<kind, 0>>])
                 \o (IF attempts[j] >= 1 THEN Readable(files[<<kind, 1>>]) ELSE <<>>)
                 \o (IF attempts[j] >= 2 THEN Readable(files[<<kind, 2>>]) ELSE <<>>)

\* The rows, each at its first occurrence only.
FirstOfEach(rows) ==
    LET first == {i \in 1..Len(rows) : \A h \in 1..i - 1 : rows[h] # rows[i]}
        kept  == Filter([i \in 1..Len(rows) |-> i], first)
    IN  [i \in 1..Len(kept) |-> rows[kept[i]]]

\* The prompt of a spec is a rewording of its goal, of its own, or the goal.
Prompt(t) == IF t \in Verbatim THEN GoalOf[t] ELSE NONE

\* trace_rows: a trace is filed under its goal, and a later one replaces it.
TraceRows(j) ==
    LET all == Read("traces", j)
    IN  [goal \in {GoalOf[t] : t \in Range(all)} |->
            all[Max({i \in 1..Len(all) : GoalOf[all[i]] = goal})]]

SelectedTraces(picked, j) ==
    {TraceRows(j)[p] : p \in {Prompt(t) : t \in Range(picked)} \cap DOMAIN TraceRows(j)}

Picked(j) == SelectByDepth(FirstOfEach(Read("specs", j)), Target, DepthOf)

\* Both selections are made from what was read, and written one after the other.
SelectSpecs(j) ==
    /\ at[j] = "topping" /\ ~Short(j)
    /\ combined' = [combined EXCEPT !.specs = Picked(j)]
    /\ owner' = [owner EXCEPT !.specs = j]
    /\ selected' = [selected EXCEPT ![j] = [specs  |-> Range(Picked(j)),
                                            traces |-> SelectedTraces(Picked(j), j)]]
    /\ Phase(j, "running", "select_corpus")
    /\ Goto(j, "selecting")
    /\ generated' = [generated EXCEPT ![j] = 0]
    /\ UNCHANGED <<request, attempts, model, copy, warned, children, disk, tasks, dedup, report>>

SelectTraces(j) ==
    /\ at[j] = "selecting"
    /\ combined' = [combined EXCEPT !.traces = selected[j].traces]
    /\ owner' = [owner EXCEPT !.traces = j]
    /\ Goto(j, "eval")
    /\ UNCHANGED <<request, job, local, children, disk, tasks, dedup, report>>

\* A file that was cut inside a character cannot be read at all.
SelectFails(j) ==
    /\ at[j] = "topping" /\ ~Short(j)
    /\ \E f \in {"specs", "traces"} \X Dirs : ~Parses(files[f])
    /\ Phase(j, "failed", "failed")
    /\ Exit(j)
    /\ UNCHANGED <<request, children, disk, tasks, outputs>>

-----------------------------------------------------------------------------
(* One `dmcp eval --replay --resume` per model.                            *)

\* Mutant: every model resumes from the first model's file.
SeenTasks_OneFile(j) == RowsIn(files[Evals(1)])

\* --resume: the tasks in the eval file of the model.
SeenTasks(j) == RowsIn(files[Evals(model[j])])

\* The child loads the reference traces and the tasks it has seen.  It will write
\* a row for each spec that was not seen and whose source trace is loaded.
StartEval(j) ==
    /\ at[j] = "eval" /\ model[j] \in ModelIx
    /\ queue' = [queue EXCEPT ![j] =
                    [f \in File |-> IF f = Evals(model[j])
                                    THEN Filter(combined.specs, combined.traces \ SeenTasks(j))
                                    ELSE <<>>]]
    /\ half' = [half EXCEPT ![j] = Whole]
    /\ Phase(j, "running", "eval")
    /\ Goto(j, "evaluating")
    /\ UNCHANGED <<request, local, disk, tasks, outputs>>

\* The child fails or is killed, or its results cannot be read.
EvalFails(j) ==
    /\ at[j] = "evaluating"
    /\ Reaped(j)
    /\ Phase(j, "failed", "failed")
    /\ Exit(j)
    /\ UNCHANGED <<request, disk, tasks, outputs>>

\* Mutant: rows are copied as they are.
DedupEval_Copy(rows) == rows

\* _dedup_eval keeps the first row of a task (and model, and repetition).
DedupEval(rows) == FirstOfEach(rows)

\* The child is done; _dedup_eval reads what is in the file, and a line that
\* does not parse is worth a warning.
EndEval(j) ==
    /\ at[j] = "evaluating" /\ Finished(j)
    /\ copy' = [copy EXCEPT ![j] = DedupEval(Readable(files[Evals(model[j])]))]
    /\ warned' = [warned EXCEPT ![j] = IF Parses(files[Evals(model[j])]) THEN @ ELSE @ \cup {model[j]}]
    /\ Goto(j, "copying")
    /\ UNCHANGED <<request, job, attempts, generated, model, selected, children, disk, tasks, outputs>>

WriteCopy(j) ==
    /\ at[j] = "copying"
    /\ dedup' = [dedup EXCEPT ![model[j]] = [rows |-> copy[j], by |-> j]]
    /\ copy' = [copy EXCEPT ![j] = <<>>]
    /\ model' = [model EXCEPT ![j] = @ + 1]
    /\ Goto(j, "eval")
    /\ UNCHANGED <<request, job, attempts, generated, selected, warned, children, disk, tasks,
                   combined, owner, report>>

\* _build_report: over the tasks every model has a row of.
CommonTasks == {t \in 1..tasks : \A m \in ModelIx : t \in Range(dedup[m].rows)}

BuildReport(j) ==
    /\ at[j] = "eval" /\ model[j] \notin ModelIx
    /\ report' = CommonTasks
    /\ Phase(j, "succeeded", "succeeded")
    /\ Exit(j)
    /\ UNCHANGED <<request, children, disk, tasks, combined, owner, dedup>>

-----------------------------------------------------------------------------
\* The server is restarted: its jobs are forgotten, and their threads, which are
\* daemons, end where they stand.  Their children do not.
Restart ==
    /\ \E j \in Jobs : job[j] # NONE
    /\ job' = [j \in Jobs |-> NONE]
    /\ at' = [j \in Jobs |-> IF at[j] = "unborn" THEN "unborn" ELSE "done"]
    /\ attempts' = [j \in Jobs |-> 0] /\ generated' = [j \in Jobs |-> 0]
    /\ model' = [j \in Jobs |-> 1]
    /\ selected' = [j \in Jobs |-> Unselected]
    /\ copy' = [j \in Jobs |-> <<>>] /\ warned' = [j \in Jobs |-> {}]
    /\ UNCHANGED <<request, children, disk, tasks, outputs>>

Thread(j) == \/ StartCorpus(j)
             \/ EndCorpus(j)
             \/ StartTopUp(j)
             \/ EndTopUp(j)
             \/ BuildFails(j)
             \/ SelectSpecs(j)
             \/ SelectTraces(j)
             \/ SelectFails(j)
             \/ StartEval(j)
             \/ EvalFails(j)
             \/ EndEval(j)
             \/ WriteCopy(j)
             \/ BuildReport(j)

Next == (\E j \in Jobs : Launch(j) \/ Thread(j) \/ Child(j)) \/ Restart

Spec == Init /\ [][Next]_vars

-----------------------------------------------------------------------------
(* Properties.                                                             *)

NoRepeats(seq) == \A a, b \in 1..Len(seq) : seq[a] = seq[b] => a = b

\* However many jobs and orphans append to the directory, the combined corpus and
\* the copies the report reads have one row per task, and the report is made of
\* tasks that were generated (v2_launch.py:405-412, 460-482).
OneRowPerTask == /\ TypeOK
                 /\ NoRepeats(combined.specs)
                 /\ \A m \in ModelIx : NoRepeats(dedup[m].rows)

\* The top-up loop trusts counts that other jobs, orphans and killed builds
\* change under it.  It never selects too much, and it misses the target only
\* after two top-ups or where a counted file has a line that cannot be read,
\* torn or glued (v2_launch.py:192-217, 440-457).
TopUpsSuffice ==
    [][\A j \in Jobs : SelectSpecs(j) =>
          /\ Len(combined'.specs) <= Target
          /\ \/ attempts[j] = 2 \/ Len(combined'.specs) = Target
             \/ \E d \in 0..attempts[j] : ~Parses(files[Specs(d)])]_vars

\* What a job has to report: the tasks it selected with their reference trace.
Due(j) == selected[j].specs \cap selected[j].traces

\* No other job has overwritten the selection of this one, nor a copy it made.
Stands(j) == /\ owner.specs = j /\ owner.traces = j
             /\ \A m \in ModelIx : dedup[m].by = j

\* A job whose selection and copies stand reports every task it selected with its
\* reference trace, rows of earlier jobs included, unless it has warned of invalid
\* lines in the results of a model that lacks the task: evaluations that were
\* killed, outlived their job or overlapped another's lose no result in silence
\* (v2_launch.py:247-285, 460-482, 496-498).
SelectionIsReported ==
    [][\A j \in Jobs : BuildReport(j) /\ Stands(j) =>
          \A t \in Due(j) \ report' : \E m \in warned[j] : t \notin Range(dedup[m].rows)]_vars

-----------------------------------------------------------------------------
(* What every step keeps, that the properties rest on.                     *)

\* No two whole rows of a file are the same.
EachOnce(file) ==
    /\ \A a, b \in 1..Len(file.lines) :
          file.lines[a] = file.lines[b] /\ file.lines[a] # JUNK => a = b
    /\ file.tail \notin {JUNK, EMPTY} => \A a \in 1..Len(file.lines) : file.lines[a] # file.tail

\* The row of which a part is what follows a file's last newline, and of which
\* the child of `j` will write the rest.
Own(j, f)  == IF author[f] = j /\ half[j][f] # EMPTY THEN {half[j][f]} ELSE {}
Held(j, f) == Written(queue[j][f]) \cup Own(j, f)

\* A spec is generated once, into one directory, by one child.
SpecsAreApart ==
    /\ \A d \in Dirs : RowsIn(files[Specs(d)]) \subseteq 1..tasks
    /\ \A j \in Jobs, d \in Dirs : Held(j, Specs(d)) \subseteq 1..tasks
    /\ \A d, e \in Dirs : d # e => RowsIn(files[Specs(d)]) \cap RowsIn(files[Specs(e)]) = {}
    /\ \A j \in Jobs, d, e \in Dirs : d # e => Held(j, Specs(d)) \cap RowsIn(files[Specs(e)]) = {}
    /\ \A j, k \in Jobs, d, e \in Dirs :
          <<j, d>> # <<k, e>> => Held(j, Specs(d)) \cap Held(k, Specs(e)) = {}

\* What is in a file of specs, what comes to it next and what comes later.
SpecsAreFresh ==
    /\ \A d \in Dirs : EachOnce(files[Specs(d)])
    /\ \A j \in Jobs, d \in Dirs :
          /\ NoRepeats(queue[j][Specs(d)])
          /\ Written(queue[j][Specs(d)]) \cap RowsIn(files[Specs(d)]) = {}
          /\ Own(j, Specs(d)) \cap Written(queue[j][Specs(d)]) = {}
          /\ Own(j, Specs(d)) \cap Written(files[Specs(d)].lines) = {}

\* What follows the last newline is the part that its author wrote.
TailsAreTheirs == \A j \in Jobs, f \in File :
    \A x \in Own(j, f) : files[f].tail \in {JUNK, x}

\* The lines a job may have counted when it had made `n` top-ups.
Countable(n) == JsonlCount(files[Specs(0)]) + (IF n >= 1 THEN JsonlCount(files[Specs(1)]) ELSE 0)
                                            + (IF n >= 2 THEN JsonlCount(files[Specs(2)]) ELSE 0)

\* A thread's counter of top-ups, the model it stands at, and the rows it is copying.
Progress == \A j \in Jobs :
    /\ at[j] \in {"unborn", "corpus", "building"} => attempts[j] = 0
    /\ at[j] = "top_up" => attempts[j] >= 1
    /\ at[j] \notin {"eval", "evaluating", "copying"} => model[j] = 1
    /\ at[j] \in {"evaluating", "copying"} => model[j] \in ModelIx
    /\ NoRepeats(copy[j])

\* What a job counted is still there.
CountsAreBacked == \A j \in Jobs :
    /\ at[j] = "topping" => generated[j] <= Countable(attempts[j])
    /\ at[j] = "top_up" => generated[j] <= Countable(attempts[j] - 1)

\* A file with a line that no one will make whole.
Broken(f) == \/ JUNK \in Written(files[f].lines)
             \/ files[f].tail = JUNK /\ author[f] = NONE

\* Task `t` is in file `f`, will be, or is lost and leaves a broken line.
Safe(t, f, j) == t \in RowsIn(files[f]) \/ Broken(f) \/ t \in Held(j, f)

\* A job whose selection stands selected what the files hold; of every task that
\* is due it has a row, or a warning, for the models it is done with, and will
\* have one for the model it is at work on.
SelectionIsCovered == \A j \in Jobs :
    /\ at[j] \in {"selecting", "eval", "evaluating", "copying"} /\ owner.specs = j =>
          selected[j].specs = Range(combined.specs)
    /\ at[j] \in {"eval", "evaluating", "copying"} /\ owner.traces = j =>
          selected[j].traces = combined.traces
    /\ at[j] \in {"eval", "evaluating", "copying"} =>
          \A m \in ModelIx : m < model[j] /\ dedup[m].by = j /\ owner.specs = j /\ owner.traces = j =>
             Due(j) \subseteq Range(dedup[m].rows) \/ m \in warned[j]
    /\ at[j] = "evaluating" /\ owner.specs = j /\ owner.traces = j =>
          \A t \in Due(j) : Safe(t, Evals(model[j]), j)
    /\ at[j] = "copying" /\ owner.specs = j /\ owner.traces = j =>
          Due(j) \subseteq Range(copy[j]) \/ model[j] \in warned[j]

IInv == /\ OneRowPerTask /\ combined.specs \in Seq(1..tasks)
        /\ SpecsAreApart /\ SpecsAreFresh /\ TailsAreTheirs
        /\ Progress /\ CountsAreBacked /\ SelectionIsCovered
=============================================================================
