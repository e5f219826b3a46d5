----------------------------- MODULE MCReports -----------------------------
(***************************************************************************)
(* Cases of a comparison of agents from its design to its report.          *)
(* Planning: requests in every mode, with effects from three points up.    *)
(* Reports: results of repeated and torn evaluations, and outcome tensors  *)
(* with cells that are missing, unreadable or recorded twice.              *)
(***************************************************************************)
EXTENDS MCServers, Integers

-----------------------------------------------------------------------------
(* Planning.                                                               *)

\* stats.py in hundredths of a point, rounded up: (z_a + z_b) sqrt(0.5 / n),
\* and the numbers of tasks that power_n gives for the effects used here.
RequiredFor == (300 :> 4353) @@ (1000 :> 385) @@ (2200 :> 74)

Budgets == {20, 30, 40, 60, 74, 80, 90, 100, 120, 150, 160, 200, 225, 240, 300, 320, 385, 500, 800, 4353}

MdeOf == [b \in Budgets |-> CHOOSE m \in 1..5000 : m * m * b >= 392437000]

L == INSTANCE Planning WITH Mde <- LAMBDA b : MdeOf[b], Required <- LAMBDA e : RequiredFor[e]

Override == [sandbox : {NONE, FALSE}, missing : {NONE, 30}, baseline : {NONE}, stateful : {0, 20}, mix : {NONE}]
            \cup [sandbox : {NONE}, missing : {10}, baseline : {5}, stateful : {0}, mix : {NONE, <<50, 30, 30>>, <<60, 30, 10>>}]

Words == {{}, {"smoke"}, {"long_chain", "recovery"}, {"reliability", "pass@3"}, {"same_name", "broad"},
          {"hard_negative", "cross_server"}, {"launch"}, {"final_answer"}}

PlanningInputs ==
    [mode : {"pairwise", "leaderboard", "regression", "diagnostic"}, budget : {20, 80, 160}, attempts : {1},
     models : {0, 2, 3}, target : {NONE} \cup DOMAIN RequiredFor, words : Words, overrides : Override]

Enough(x, plan) ==
    plan.scope = "smoke_test_only" \/ (/\ plan.budget >= L!Warned[x.mode]
                                       /\ 4 * plan.target >= 3 * MdeOf[plan.budget])

Fits(x, plan) ==
    CASE x.mode = "pairwise"    -> plan.models = 2
      [] x.mode = "leaderboard" -> plan.models >= 3
      [] x.mode = "regression"  -> plan.models = 2 /\ x.target # NONE
      [] OTHER                  -> "broad" \notin x.words

Whole(plan) ==
    /\ plan.mix[1] + plan.mix[2] + plan.mix[3] = 100
    /\ plan.same + plan.near + plan.crossDomain + plan.random <= 100
    /\ plan.known

\* What a user may make of a design before it is checked again.
Edits(plan) ==
    {[plan EXCEPT !.known = FALSE], [plan EXCEPT !.random = 60], [plan EXCEPT !.crossDomain = 20, !.random = 20]}

EditsSound(x, plan) ==
    \A edited \in Edits(plan) :
        L!ValidatePlan(x, edited).launchable => Whole(edited) /\ Enough(x, edited)

LaunchSound(x, advice, plan, worst) ==
    /\ advice.launchable =>
          /\ x.words \cap {"launch", "final_answer"} = {} /\ plan # NONE
          /\ worst \subseteq {"warning"} /\ (advice.status = "approved" <=> worst = {})
          /\ Enough(x, plan) /\ Fits(x, plan) /\ Whole(plan)
          /\ plan.stateful > 0 => L!SandboxOf(x, plan) = TRUE
    /\ ~advice.launchable => "critical" \in worst
    /\ plan # NONE => EditsSound(x, plan)
    /\ plan # NONE =>
          /\ plan.target = IF x.target = NONE THEN MdeOf[plan.budget] ELSE x.target
          /\ x.mode # "regression" \/ x.target # NONE => L!ValidatePlan(x, plan).status = advice.status

AdviceSound(x, advice) ==
    LaunchSound(x, advice, advice.plan, {advice.issues[i].severity : i \in 1..Len(advice.issues)})

LaunchableSound(x) == AdviceSound(x, L!AdviseDesign(x))

\* A plan that may be launched has no critical issue, a budget and an effect it
\* can detect, the models its mode compares, a sandbox if it writes, a mix and
\* distractors that add up, and rules of the guide; one that may not says why.
\* Checking the recommended design again comes to the same status, and checking
\* an edited one lets nothing through that does not add up (benchmark_advisor/v2_service.py
\* advisor_v2_design and advisor_v2_validate, validator.py, v2_engine.py).  A
\* regression without a margin is the exception: its design is given one.
LaunchablePlanIsSound == Case("planning") => LaunchableSound(case.of)

-----------------------------------------------------------------------------
(* Reports.                                                                *)

One == 12

W == INSTANCE Reports

-----------------------------------------------------------------------------
(* Results: up to three rows over two models and three tasks, one of which *)
(* has no spec.                                                            *)

ResultRows == [model : {"m1", "m2"}, task : {"t1", "t2", "t3"}, passed : BOOLEAN, sae : {FALSE}]
              \cup [model : {"m1"}, task : {"t1"}, passed : {FALSE}, sae : {TRUE}]

Classes == [t1 |-> "static", t2 |-> "live_read"]

ResultInputs == [results : UNION {[1..n -> ResultRows] : n \in 1..3}]

LastRows(results, m) ==
    [t \in W!TasksOf(results, m) |-> Last(W!RunsOf(results, m, t)).passed]

Sum(table, field) == FoldSet(LAMBDA c, n : n + table[c][field], 0, DOMAIN table)

PassKSound(one, passed, table, even) ==
    /\ Sum(table, "passed") + Cardinality(passed \ DOMAIN Classes) = one.passk
    /\ Sum(table, "total") = Cardinality(DOMAIN Classes)
    /\ one.noSaePass <= one.passk /\ one.passk <= one.runPasses
    /\ even => one.passk * one.runs <= one.runPasses * one.tasks

PairSound(rows, pair) ==
    /\ pair.bothPass + pair.aOnly + pair.bOnly + pair.bothFail = Cardinality(W!CommonTasks(rows))
    /\ pair.sum = W!ModelSummary(rows, "m1") - W!ModelSummary(rows, "m2")

PairsSound(rows) == PairSound(rows, W!PairedSummary(rows, "m1", "m2"))

\* Another run never makes a failed task a passed one.
NoTaskMended(all, fewer, passed) ==
    passed \cap W!TasksOf(fewer, "m1") \subseteq W!PassedTasks(fewer, "m1")

ResultsAddUp(all) ==
    /\ PassKSound(W!PassK(all, "m1"), W!PassedTasks(all, "m1"), W!Table(all, "m1", Classes),
                  \A t, u \in W!TasksOf(all, "m1") : Len(W!RunsOf(all, "m1", t)) = Len(W!RunsOf(all, "m1", u)))
    /\ NoTaskMended(all, SubSeq(all, 1, Len(all) - 1), W!PassedTasks(all, "m1"))
    /\ PairsSound([m \in {"m1", "m2"} |-> LastRows(all, m)])

-----------------------------------------------------------------------------
(* Outcomes: two tasks and two models in one slice, a third model and a    *)
(* second slice with fewer choices of values, and a cell recorded again.   *)

OutcomeCell(t, m, s, v) == [task |-> t, model |-> m, attempt |-> "a1", slice |-> s, value |-> v]

\* A cell: absent, or with a value.
MaybeCell(t, m, s, values) == {<<>>} \cup {<<OutcomeCell(t, m, s, v)>> : v \in values}

AnyValue  == {NONE, W!Unreadable, 0, One}
Tensors(models, slices, cells, modes) ==
    [tasks : {<<"t1", "t2">>}, models : {models}, attempts : {<<"a1">>}, slices : {slices}, cells : cells,
     plan : [mode : modes, margin : {NONE, 6}]]

Slice(id, confirmatory) == [id |-> id, confirmatory |-> confirmatory]

Square(again) ==
    {a \o b \o c \o d \o e :
        a \in MaybeCell("t1", "m1", "all", AnyValue), b \in MaybeCell("t1", "m2", "all", AnyValue),
        c \in MaybeCell("t2", "m1", "all", AnyValue), d \in MaybeCell("t2", "m2", "all", AnyValue), e \in again}

OutcomeInputs ==
    Tensors(<<"m1", "m2">>, <<Slice("all", FALSE)>>,
            Square({<<>>, <<OutcomeCell("t1", "m1", "all", One)>>}),
            {NONE, "leaderboard", "regression", "diagnostic"})
    \cup Tensors(<<"m1", "m2", "m3">>, <<Slice("part", TRUE), Slice("all", TRUE)>>,
            {a \o <<OutcomeCell("t1", "m2", "all", One)>> \o b \o c :
                a \in MaybeCell("t1", "m1", "all", AnyValue), b \in MaybeCell("t2", "m3", "all", AnyValue),
                c \in MaybeCell("t2", "m1", "part", AnyValue)},
            {NONE, "pairwise", "regression", "diagnostic"})

Names == [m1 |-> 1, m2 |-> 2, m3 |-> 3]

Draws == <<<<1, 1>>, <<1, 2>>, <<2, 1>>, <<2, 2>>, <<2, 2, 1>>>>

\* The same tensor with its two first models in the other order.
Swapped(x) == [x EXCEPT !.models = <<x.models[2], x.models[1]>> \o SubSeq(@, 3, Len(@))]

Observed(x, t, m, s) ==
    \E v \in ToSet(x.cells) : v.task = t /\ v.model = m /\ v.slice = s /\ v.value # NONE

Once(keys) == Cardinality(ToSet(keys)) = Len(keys)

RankingSound(ranking, rates, stable) ==
    ranking # <<>> =>
        /\ stable \in 1..3 /\ ToSet(ranking) = {d.model : d \in rates}
        /\ \A d, e \in rates, i, h \in 1..Len(ranking) :
              i < h /\ ranking[i] = d.model /\ ranking[h] = e.model => d # e /\ d.estimate >= e.estimate

EffectSound(effect, ci, swapped, deltas) ==
    effect # NONE => /\ swapped = -effect
                     /\ Min(deltas) <= ci.low /\ ci.high <= Max(deltas)

ReportSound(x, mode, once, report, swapped, scores) ==
    /\ report.status = "approved" =>
          \A t \in ToSet(x.tasks), m \in ToSet(x.models), s \in {y.id : y \in ToSet(x.slices)} :
             Observed(x, t, m, s)
    /\ report.claim \in {"none", "descriptive"} <=> (report.effect = NONE /\ report.ranking = <<>>)
          \/ (mode = "regression" /\ report.status = "refused")
    /\ once /\ mode # "diagnostic" => (report.status = "refused" <=> report.claim = "none")
    /\ report.claim = "non_inferior" =>
          /\ report.status = "approved"
          /\ x.plan.margin # NONE /\ report.ci.low >= -x.plan.margin
    /\ EffectSound(report.effect, report.ci, swapped.effect, ToSet(W!FirstTwo(x, scores)))
    /\ RankingSound(report.ranking, {d \in report.diagnostics : d.slice = "all"}, report.stable)

MissedSound(x, once, missed) ==
    once => missed.missing + Cardinality({v \in ToSet(x.cells) : v.value # NONE}) = missed.total

ManySound(x, many) ==
    many.confirmatory + many.exploratory = Len(x.slices) /\ (many.corrected => many.confirmatory > 1)

OutcomeSound(x, once) ==
    /\ ReportSound(x, W!Mode(x), once, W!StatisticalReport(x, Names, Draws),
                   W!StatisticalReport(Swapped(x), Names, Draws), W!TaskModelScores(x, W!PrimarySlice(x)))
    /\ MissedSound(x, once, W!Missingness(x))
    /\ ManySound(x, W!Multiplicity(x))

OutcomesReported(x) == OutcomeSound(x, Once([i \in 1..Len(x.cells) |-> W!CellKey(x.cells[i])]))

-----------------------------------------------------------------------------
(* Agreement: two cells of two models on one task, three raters who may    *)
(* leave a row empty, the second cell rated alike; results with two checks *)
(* of which the judge answers for the failed ones.                         *)

A == INSTANCE Agreement

Candidates == <<[task |-> "t1", trace |-> "c1"], [task |-> "t2", trace |-> "c2"], [task |-> "t9", trace |-> "c3"]>>

\* A result, and what the judge makes of it: `answer` for each failed check.
Unjudged(cell, checks, clean) ==
    [cell |-> cell, checks |-> [i \in 1..2 |-> [passed |-> checks[i], tier |-> 1]], clean |-> clean, judged |-> FALSE,
     passed |-> clean /\ checks[1] /\ checks[2]]

Answer(check, answer) ==
    IF check.passed \/ answer = "down" THEN check ELSE [passed |-> answer = "yes", tier |-> 2]

WithChecks(ev, checks) ==
    [ev EXCEPT !.checks = checks, !.judged = TRUE, !.passed = ev.clean /\ checks[1].passed /\ checks[2].passed]

Judged(ev, answer) == WithChecks(ev, [i \in 1..2 |-> Answer(ev.checks[i], answer)])

Filled == {"", "pass", "fail"}

AgreementInputs ==
    [votes : [1..3 -> Filled] \X {<<v, v, w>> : v \in Filled, w \in Filled},
     checks : {<<TRUE, TRUE>>, <<TRUE, FALSE>>, <<FALSE, FALSE>>} \X {<<FALSE, TRUE>>},
     clean : BOOLEAN \X {TRUE}, answer : {"yes", "no", "down"}, again : {<<TRUE, TRUE>>, <<TRUE, FALSE>>, <<>>}]

Turned(rows) == [i \in 1..Len(rows) |-> [rows[i] EXCEPT !.verdict = IF @ = "pass" THEN "fail" ELSE "pass"]]

TierSound(tier) ==
    /\ tier.agree + tier.falseFail + tier.falsePass = tier.n
    /\ tier.kappa = NONE => tier.n = 0 \/ tier.agree = tier.n
    /\ tier.kappa # NONE =>
          /\ -tier.kappa[2] <= tier.kappa[1] /\ tier.kappa[1] <= tier.kappa[2]
          /\ tier.kappa[1] = tier.kappa[2] <=> tier.agree = tier.n

AlphaSound(alpha, one, consensus) ==
    alpha # NONE =>
        /\ {"pass", "fail"} \subseteq {consensus[c] : c \in DOMAIN consensus} => alpha[1] <= alpha[2]
        /\ alpha[1] = alpha[2] => one.falseFail + one.falsePass = 0

ReplaySound(replay, first, again) ==
    /\ replay.n = Len(again)
    /\ replay.flips = 0 => replay.meets
    /\ replay.flips > 0 <=> again # <<>> /\ again[1].passed # first.passed

BothSound(report, answer) ==
    /\ report.decisive + report.ties = report.cells
    /\ report.one.n = report.decisive /\ TierSound(report.one)
    /\ report.two # NONE => TierSound(report.two) /\ report.two.n = report.one.n
    /\ report.two # NONE /\ answer # "no" => report.two.falseFail <= report.one.falseFail

JudgedSound(first, judged, answer) ==
    \A i \in 1..2 :
        /\ A!TierOne(first[i]) = A!Verdict(first[i].passed)
        /\ answer = "down" => A!TierOne(judged[i]) = A!TierOne(first[i])
        /\ judged[i].passed => A!TierOne(judged[i]) = "pass"

TiesSound(consensus, turned) == \A c \in DOMAIN turned : turned[c] = "tie" <=> consensus[c] = "tie"

AgreementSound(x, report, consensus, turned, first, judged, again) ==
    /\ BothSound(report, x.answer)
    /\ AlphaSound(report.alpha, report.one, consensus)
    /\ TiesSound(consensus, turned)
    /\ JudgedSound(first, judged, x.answer)
    /\ ReplaySound(report.replay, first[1], again)

Blank == A!Template({"t1", "t2"}, Candidates, <<"r1", "r2", "r3">>)

Ballots(votes) ==
    A!Annotated([i \in 1..Len(Blank) |->
        [Blank[i] EXCEPT !.verdict = IF i <= 3 THEN votes[1][i] ELSE votes[2][i - 3]]])

Evaluated(x, rows, first, judged, again) ==
    /\ A!AgreementReport(rows, first, judged, again) = A!AgreementReport(Reverse(rows), first, judged, again)
    /\ AgreementSound(x, A!AgreementReport(rows, first, judged, again), A!Consensus(rows), A!Consensus(Turned(rows)),
                      first, judged, again)

Repeated(cell, checks) == IF checks = <<>> THEN <<>> ELSE <<Unjudged(cell, checks, TRUE)>>

Answered(x, rows, first) ==
    Evaluated(x, rows, first, [i \in 1..2 |-> Judged(first[i], x.answer)], Repeated(first[1].cell, x.again))

AgreementReported(x) ==
    Answered(x, Ballots(x.votes),
             [i \in 1..2 |-> Unjudged(<<Candidates[i].task, Candidates[i].trace>>, x.checks[i], x.clean[i])])

\* The subset: up to seven strata of unequal size.
SubsetInputs == [sizes : UNION {[1..k -> {1, 2, 5, 13}] : k \in 1..3}
                         \cup {[i \in 1..7 |-> IF i = k THEN 30 ELSE 1 + (i % 2)] : k \in 0..7},
                 n : {1, 3, 5, 8, 12}]

QuotasSound(sizes, quotas, all, target) ==
    /\ SumFunction(quotas) = Max({target, Len(sizes)})
    /\ \A i \in DOMAIN quotas :
          /\ 1 <= quotas[i] /\ quotas[i] <= sizes[i]
          /\ quotas[i] * all <= Max({target * sizes[i] + all, all})
          /\ \A h \in DOMAIN quotas : sizes[i] >= sizes[h] => quotas[i] + 1 >= quotas[h]

SubsetBalanced(x) ==
    QuotasSound(x.sizes, A!Quotas(x.sizes, [i \in DOMAIN x.sizes |-> i], x.n), SumFunction(x.sizes),
                Min({x.n, SumFunction(x.sizes)}))

\* What is reported is what was recorded: the tables of a results file add up
\* and another run never makes a failed task a passed one; the paired counts of
\* a launch are the difference of its models' totals; a statistical report is
\* approved only where every cell was observed, claims non-inferiority only
\* within a declared margin that the interval clears, is refused exactly where
\* it claims nothing (a cell recorded twice excepted: its missing row may make
\* the whole tensor count as missing), and does not depend on the order of two models but for
\* the sign (dmcp/report.py passk_stats and aggregate_markdown,
\* benchmark_advisor/v2_launch.py _paired_summary, v2_report.py).  The subset that
\* people annotate has a task of every stratum and as many as asked for, no
\* stratum far from its share; and the agreement with them depends on no order
\* of rows, leaves ties out and is complete exactly where no verdict differs
\* (dmcp/baselines/rq4_subset.py, rq4_agreement.py).
OutcomesAreReported ==
    /\ Case("results") => ResultsAddUp(case.of.results)
    /\ Case("outcomes") => OutcomesReported(case.of)
    /\ Case("agreement") => AgreementReported(case.of)
    /\ Case("subset") => SubsetBalanced(case.of)
=============================================================================
