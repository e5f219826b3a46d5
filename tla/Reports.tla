------------------------------ MODULE Reports ------------------------------
(***************************************************************************)
(* What is reported of finished runs: the tables of `dmcp report`          *)
(* (dmcp/report.py), the summary of a launch (benchmark_advisor/           *)
(* v2_launch.py) and the statistical report of an outcome tensor           *)
(* (benchmark_advisor/v2_report.py).                                       *)
(*                                                                         *)
(* A result is [model, task, passed, sae].  A tensor is [tasks, models,    *)
(* attempts, slices, cells, plan]: sequences of identifiers, of slices     *)
(* [id, confirmatory], of cells [task, model, attempt, slice, value] of    *)
(* one metric, and the plan [mode, margin] (NONE where nothing is          *)
(* declared).  A value is NONE with a reason, Unreadable for a text that   *)
(* is no number, or a rate in 0..One; One is chosen so that every mean of  *)
(* the instance is whole.                                                  *)
(***************************************************************************)
EXTENDS Integers, Sequences, FiniteSets, SequencesExt, FiniteSetsExt

CONSTANTS One, NONE

Unreadable == -1

Mean(values) == FoldLeft(LAMBDA a, b : a + b, 0, values) \div Len(values)

-----------------------------------------------------------------------------
(* dmcp/report.py.                                                         *)

RunsOf(results, m, t) == SelectSeq(results, LAMBDA r : r.model = m /\ r.task = t)
TasksOf(results, m)   == {r.task : r \in {r \in ToSet(results) : r.model = m}}

\* A task is passed when all its runs are.
AllPass(results, m, t) == \A r \in ToSet(RunsOf(results, m, t)) : r.passed
PassedTasks(results, m) == {t \in TasksOf(results, m) : AllPass(results, m, t)}

\* passk_stats, with counts for the fractions.
PassK(results, m) ==
    LET mine  == SelectSeq(results, LAMBDA r : r.model = m)
        noSae == {t \in TasksOf(results, m) : \A r \in ToSet(RunsOf(results, m, t)) : ~r.sae}
    IN  [tasks |-> Cardinality(TasksOf(results, m)), passk |-> Cardinality(PassedTasks(results, m)),
         noSae |-> Cardinality(noSae), noSaePass |-> Cardinality(noSae \cap PassedTasks(results, m)),
         runs  |-> Len(mine), runPasses |-> Len(SelectSeq(mine, LAMBDA r : r.passed)),
         maxRuns |-> Max({0} \cup {Len(RunsOf(results, m, t)) : t \in TasksOf(results, m)})]

\* A row of a table of subsets: a spec that was not evaluated is not passed.
Row(results, m, specs) == [passed |-> Cardinality(specs \cap PassedTasks(results, m)), total |-> Cardinality(specs)]

\* The tables by dynamism, depth and flags: `specs` maps tasks to their classes.
Table(results, m, specs) ==
    [c \in {specs[t] : t \in DOMAIN specs} |-> Row(results, m, {t \in DOMAIN specs : specs[t] = c})]

-----------------------------------------------------------------------------
(* v2_launch.py: _build_report, from the last row of a task of each model. *)

CommonTasks(rows) == {t \in UNION {DOMAIN rows[m] : m \in DOMAIN rows} : \A m \in DOMAIN rows : t \in DOMAIN rows[m]}

ModelSummary(rows, m) == Cardinality({t \in CommonTasks(rows) : rows[m][t]})

\* _paired_summary; the estimate is the sum of the differences.
PairedSummary(rows, a, b) ==
    LET In(x, y) == {t \in CommonTasks(rows) : rows[a][t] = x /\ rows[b][t] = y}
        n(x, y)  == Cardinality(In(x, y))
    IN  [bothPass |-> n(TRUE, TRUE), aOnly |-> n(TRUE, FALSE), bOnly |-> n(FALSE, TRUE),
         bothFail |-> n(FALSE, FALSE), sum |-> n(TRUE, FALSE) - n(FALSE, TRUE)]

-----------------------------------------------------------------------------
(* v2_report.py: what is missing.                                          *)

CellKey(v) == <<v.task, v.model, v.attempt, v.slice>>

Expected(x) == Len(x.tasks) * Len(x.models) * Len(x.attempts) * Len(x.slices)

\* Mutant: only cells that say that they are missing are counted.
Missingness_Explicit(x) ==
    LET explicit == Len(SelectSeq(x.cells, LAMBDA v : v.value = NONE))
    IN  [missing |-> explicit, total |-> Max({Expected(x), Len(x.cells)})]

\* Cells that are absent from the tensor are missing too.
Missingness(x) ==
    LET explicit == Len(SelectSeq(x.cells, LAMBDA v : v.value = NONE))
        seen     == {CellKey(v) : v \in ToSet(x.cells)}
        absent   == Max({0, Expected(x) - Cardinality(seen)})
    IN  [missing |-> explicit + absent, total |-> Max({Expected(x), Len(x.cells)})]

Issue(severity, code) == [severity |-> severity, code |-> code]

MissingnessIssues(m) ==
    CASE m.missing = 0 -> <<>>
      [] m.missing # 0 /\ m.missing >= m.total -> <<Issue("critical", "all_outcomes_missing")>>
      [] OTHER -> <<Issue("warning", "missing_outcomes_present")>>

StatusOf(issues) ==
    LET severities == {i.severity : i \in ToSet(issues)}
    IN  IF "critical" \in severities THEN "refused" ELSE IF "warning" \in severities THEN "warning" ELSE "approved"

-----------------------------------------------------------------------------
(* Scores.                                                                 *)

Mode(x) == CASE x.plan.mode # NONE -> x.plan.mode
             [] x.plan.mode = NONE /\ Len(x.models) >= 3 -> "leaderboard"
             [] OTHER -> IF Len(x.models) = 2 THEN "pairwise" ELSE "diagnostic"

PrimarySlice(x) ==
    LET all == SelectSeq(x.slices, LAMBDA s : s.id = "all") IN (IF all # <<>> THEN all ELSE x.slices)[1].id

\* The means of the readable values of a task and a model in a slice: over
\* all attempts, a repeated cell included.
Values(cells) == [i \in 1..Len(cells) |-> cells[i].value]

Means(cells) ==
    [k \in {<<v.task, v.model>> : v \in ToSet(cells)} |->
        Mean(Values(SelectSeq(cells, LAMBDA v : <<v.task, v.model>> = k)))]

TaskModelScores(x, s) ==
    Means(SelectSeq(x.cells, LAMBDA v : v.slice = s /\ v.value \notin {NONE, Unreadable}))

\* _model_scores and _paired_task_scores, of the scores on the primary slice.
Of(scores, tasks, m) == [i \in 1..Len(tasks) |-> scores[<<tasks[i], m>>]]
Scores(scores, tasks, m) == Of(scores, SelectSeq(tasks, LAMBDA t : <<t, m>> \in DOMAIN scores), m)

Differences(scores, tasks, a, b) == [i \in 1..Len(tasks) |-> scores[<<tasks[i], b>>] - scores[<<tasks[i], a>>]]
Deltas(scores, tasks, a, b) ==
    Differences(scores, SelectSeq(tasks, LAMBDA t : {<<t, a>>, <<t, b>>} \subseteq DOMAIN scores), a, b)

\* Bootstrap intervals.  `draws` lists resamples, each a sequence of positions
\* to be read modulo the length; of so few the outer quantiles are the ends.
Resampled(seq, draw) == [i \in 1..Len(seq) |-> seq[((draw[i] - 1) % Len(seq)) + 1]]

CI(means) == [low |-> Min(means), high |-> Max(means)]

BootstrapCI(deltas, draws) ==
    CI(IF Len(deltas) = 1 THEN {deltas[1]} ELSE {Mean(Resampled(deltas, d)) : d \in ToSet(draws)})

\* Highest first; models of the same rate in the order of their names.
Above(rate, names, a, b) == rate[a] > rate[b] \/ (rate[a] = rate[b] /\ names[a] < names[b])

Ranking(rate, names) ==
    [r \in 1..Cardinality(DOMAIN rate) |->
        CHOOSE m \in DOMAIN rate : Cardinality({b \in DOMAIN rate : Above(rate, names, b, m)}) = r - 1]

\* _rank_stability: the longest top that four fifths of the replicates keep; a
\* model without a value in a replicate is its last.
Rate(values) == IF values = <<>> THEN -1 ELSE Mean(values)

Replicate(scores, models, sampled) == [m \in models |-> Rate(Scores(scores, sampled, m))]

SameTop(one, two, k) == {one[i] : i \in 1..k} = {two[i] : i \in 1..k}

Stable(ranked, replicates) ==
    Max({1} \cup {k \in 1..Min({3, Len(ranked)}) :
        5 * Len(SelectSeq(replicates, LAMBDA r : SameTop(r, ranked, k))) >= 4 * Len(replicates)})

Replicates(scores, models, tasks, names, draws) ==
    [i \in 1..Len(draws) |-> Ranking(Replicate(scores, models, Resampled(tasks, draws[i])), names)]

StableTop(scores, models, tasks, ranked, names, draws) ==
    Stable(ranked, Replicates(scores, models,
                              SelectSeq(tasks, LAMBDA t : \E m \in models : <<t, m>> \in DOMAIN scores), names, draws))

-----------------------------------------------------------------------------
(* The reports of the four modes.                                          *)

SliceDiagnostics(s, scores, tasks, models) ==
    {[slice |-> s, model |-> m, estimate |-> Mean(Scores(scores, tasks, m))] :
        m \in {m \in models : \E t \in ToSet(tasks) : <<t, m>> \in DOMAIN scores}}

Diagnostics(x, slices) ==
    UNION {SliceDiagnostics(s, TaskModelScores(x, s), x.tasks, ToSet(x.models)) : s \in slices}

Empty(issues) == [status |-> StatusOf(issues), effect |-> NONE, ci |-> NONE, ranking |-> <<>>, stable |-> NONE,
                  diagnostics |-> {}, claim |-> "none", issues |-> issues]

Refused(issues, code) == Empty(Append(issues, Issue("critical", code)))

WithPrimary(x, issues) == [Empty(issues) EXCEPT !.diagnostics = Diagnostics(x, {PrimarySlice(x)})]

Paired(x, issues, deltas, ci, claim) ==
    [WithPrimary(x, issues) EXCEPT !.effect = Mean(deltas), !.ci = ci, !.claim = claim]

PairwiseReport(x, deltas, draws, issues) ==
    IF Len(x.models) # 2 THEN Refused(issues, "unsupported_candidate_model_count")
    ELSE IF deltas = <<>> THEN Refused(issues, "no_paired_task_outcomes")
    ELSE Paired(x, issues, deltas, BootstrapCI(deltas, draws), "difference")

Ranked(x, scores, ranking, names, draws, issues) ==
    [WithPrimary(x, issues) EXCEPT
        !.ranking = ranking, !.claim = "ranking",
        !.stable = StableTop(scores, ToSet(x.models), x.tasks, ranking, names, draws)]

ObservedRates(x, scores) ==
    [m \in {m \in ToSet(x.models) : \E t \in ToSet(x.tasks) : <<t, m>> \in DOMAIN scores} |->
        Mean(Scores(scores, x.tasks, m))]

LeaderboardReport(x, scores, names, draws, issues) ==
    IF Len(x.models) < 2 THEN Refused(issues, "unsupported_candidate_model_count")
    ELSE IF DOMAIN scores = {} THEN Refused(issues, "no_numeric_outcomes")
    ELSE Ranked(x, scores, Ranking(ObservedRates(x, scores), names), names, draws, issues)

\* The margin has to be declared; where the interval does not clear it the
\* claim is weakened, and refused where the estimate itself does not.
MarginIssues(margin, effect, low) ==
    IF low >= -margin THEN <<>>
    ELSE <<Issue(IF effect >= -margin THEN "warning" ELSE "critical", "non_inferiority_margin_not_cleared")>>

MarginClaim(status) ==
    CASE status = "approved" -> "non_inferior" [] status = "warning" -> "caveats" [] OTHER -> "none"

Margined(x, deltas, ci, issues) == Paired(x, issues, deltas, ci, MarginClaim(StatusOf(issues)))

Cleared(x, deltas, ci, issues) == Margined(x, deltas, ci, issues \o MarginIssues(x.plan.margin, Mean(deltas), ci.low))

RegressionReport(x, deltas, draws, issues) ==
    IF x.plan.margin = NONE THEN Refused(issues, "missing_non_inferiority_margin")
    ELSE IF Len(x.models) # 2 THEN Refused(issues, "unsupported_candidate_model_count")
    ELSE IF deltas = <<>> THEN Refused(issues, "no_paired_task_outcomes")
    ELSE Cleared(x, deltas, BootstrapCI(deltas, draws), issues)

DiagnosticReport(found, issues) ==
    [Empty(IF found = {} THEN Append(issues, Issue("critical", "no_numeric_outcomes")) ELSE issues)
     EXCEPT !.diagnostics = found, !.claim = "descriptive"]

\* build_statistical_report.
FirstTwo(x, scores) == IF Len(x.models) # 2 THEN <<>> ELSE Deltas(scores, x.tasks, x.models[1], x.models[2])

ModeReport(x, scores, names, draws, issues) ==
    CASE Mode(x) = "pairwise"    -> PairwiseReport(x, FirstTwo(x, scores), draws, issues)
      [] Mode(x) = "leaderboard" -> LeaderboardReport(x, scores, names, draws, issues)
      [] Mode(x) = "regression"  -> RegressionReport(x, FirstTwo(x, scores), draws, issues)
      [] OTHER                   -> DiagnosticReport(Diagnostics(x, {s.id : s \in ToSet(x.slices)}), issues)

StatisticalReport(x, names, draws) ==
    ModeReport(x, TaskModelScores(x, PrimarySlice(x)), names, draws, MissingnessIssues(Missingness(x)))

\* _multiplicity_summary: how many tests the slices are.
Multiplicity(x) ==
    LET declared == Cardinality({i \in 1..Len(x.slices) : x.slices[i].confirmatory})
        tests    == IF declared = 0 /\ Mode(x) # "diagnostic" THEN 1 ELSE declared
    IN  [confirmatory |-> tests, exploratory |-> Max({0, Len(x.slices) - tests}), corrected |-> tests > 1]
=============================================================================
