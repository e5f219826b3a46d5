------------------------------ MODULE Agreement ------------------------------
(***************************************************************************)
(* Scorer against humans: the stratified subset that people annotate, the  *)
(* consensus of their verdicts (dmcp/baselines/rq4_subset.py), and the     *)
(* agreement of the scorer's tiers with it (rq4_agreement.py).             *)
(*                                                                         *)
(* An annotation is [task, trace, rater, verdict], a cell <<task, trace>>. *)
(* A result is [cell, checks, clean, judged, passed]: a sequence of checks *)
(* [passed, tier], whether no minefield was hit and the order was right,   *)
(* whether the mode names the judge, and the verdict.  A ratio is          *)
(* <<numerator, denominator>>, NONE where the code gives None.             *)
(***************************************************************************)
EXTENDS Integers, Sequences, FiniteSets, SequencesExt, FiniteSetsExt, Functions

CONSTANT NONE

Verdicts == {"pass", "fail"}
Verdict(b) == IF b THEN "pass" ELSE "fail"

Where(seq, Test(_)) == Cardinality({i \in 1..Len(seq) : Test(seq[i])})

-----------------------------------------------------------------------------
(* build_subset: `size` maps the strata of the specs to their numbers of   *)
(* tasks, `order` lists them as their keys sort.                           *)

\* Each stratum's share rounded down, at least one and at most all of it.
FirstQuotas(size, target, all) ==
    [s \in DOMAIN size |-> Min({Max({1, (target * size[s]) \div all}), size[s]})]

\* Strata by a key, greatest first, then by name.
Before(key, order, i, h) == key[order[i]] > key[order[h]] \/ (key[order[i]] = key[order[h]] /\ i < h)

SortedBy(key, order) ==
    [r \in 1..Len(order) |->
        order[CHOOSE h \in 1..Len(order) : Cardinality({i \in 1..Len(order) : Before(key, order, i, h)}) = r - 1]]

\* One more to each stratum in turn while some are missing, by lost fraction.
RECURSIVE TopUp(_, _, _, _, _)
TopUp(quotas, size, target, turn, i) ==
    LET s    == turn[i]
        more == IF quotas[s] < size[s] THEN [quotas EXCEPT ![s] = @ + 1] ELSE quotas
    IN  IF SumFunction(quotas) >= target THEN quotas
        ELSE IF \A r \in DOMAIN size : more[r] >= size[r] THEN more
        ELSE TopUp(more, size, target, turn, (i % Len(turn)) + 1)

\* One less to each in turn while there are too many, largest first; a stratum
\* keeps one, and after ten rounds it stops.
RECURSIVE Trim(_, _, _, _)
Trim(quotas, target, turn, i) ==
    LET s    == turn[((i - 1) % Len(turn)) + 1]
        less == IF quotas[s] > 1 THEN [quotas EXCEPT ![s] = @ - 1] ELSE quotas
    IN  IF SumFunction(quotas) <= target THEN quotas
        ELSE IF i > Len(turn) * 10 THEN less
        ELSE Trim(less, target, turn, i + 1)

Adjusted(first, size, order, target, all) ==
    IF SumFunction(first) < target
    THEN TopUp(first, size, target, SortedBy([s \in DOMAIN size |-> target * size[s] - first[s] * all], order), 1)
    ELSE Trim(first, target, SortedBy(first, order), 1)

Split(size, order, target, all) == Adjusted(FirstQuotas(size, target, all), size, order, target, all)

Quotas(size, order, n) == Split(size, order, Min({n, SumFunction(size)}), SumFunction(size))

-----------------------------------------------------------------------------
(* Annotations.                                                            *)

\* write_annotation_template: a row for every rater of every candidate in the
\* subset, its verdict empty.
Template(subset, candidates, raters) ==
    LET mine == SelectSeq(candidates, LAMBDA c : c.task \in subset)
    IN  FlattenSeq([i \in 1..Len(mine) |->
            [h \in 1..Len(raters) |->
                [task |-> mine[i].task, trace |-> mine[i].trace, rater |-> raters[h], verdict |-> ""]]])

\* load_annotations: rows not filled in yet are skipped.
Annotated(rows) == SelectSeq(rows, LAMBDA r : r.verdict \in Verdicts)

CellOf(row)  == <<row.task, row.trace>>
Cells(rows)  == {CellOf(rows[i]) : i \in 1..Len(rows)}

Votes(rows, cell, v) == Where(rows, LAMBDA r : CellOf(r) = cell /\ r.verdict = v)

\* compute_consensus.
Majority(passes, fails) ==
    CASE passes > fails -> "pass" [] fails > passes -> "fail" [] OTHER -> "tie"

Consensus(rows) == [cell \in Cells(rows) |-> Majority(Votes(rows, cell, "pass"), Votes(rows, cell, "fail"))]

-----------------------------------------------------------------------------
(* The scorer's verdicts.                                                  *)

\* _tier1_verdict: of a judged run, the checks the judge was asked about are
\* of tier 2 and no longer count.
TierOne(ev) ==
    Verdict(ev.clean /\ \A i \in 1..Len(ev.checks) : ev.checks[i].tier = 1 => ev.checks[i].passed)

TierTwo(ev) ==
    IF ev.judged \/ \E i \in 1..Len(ev.checks) : ev.checks[i].tier = 2 THEN Verdict(ev.passed) ELSE NONE

\* index_evals: the last result of a cell counts.
Indexed(evals) ==
    [cell \in {evals[i].cell : i \in 1..Len(evals)} |->
        Last(SelectSeq(evals, LAMBDA e : e.cell = cell))]

OneOf(last) == [cell \in DOMAIN last |-> TierOne(last[cell])]
TwoOf(last) == [cell \in {c \in DOMAIN last : TierTwo(last[c]) # NONE} |-> TierTwo(last[cell])]

TierOneVerdicts(evals) == OneOf(Indexed(evals))
TierTwoVerdicts(evals) == TwoOf(Indexed(evals))

-----------------------------------------------------------------------------
(* The statistics.                                                         *)

\* cohen_kappa over pairs <<scorer, human>>, `luck` being the agreement of chance.
Luck(n, a, b) == a * b + (n - a) * (n - b)

Kappa(n, agree, luck) == IF n = 0 \/ luck = n * n THEN NONE ELSE <<agree * n - luck, n * n - luck>>

CohenKappa(pairs) ==
    Kappa(Len(pairs), Where(pairs, LAMBDA p : p[1] = p[2]),
          Luck(Len(pairs), Where(pairs, LAMBDA p : p[1] = "pass"), Where(pairs, LAMBDA p : p[2] = "pass")))

\* krippendorff_alpha_binary: of cells with two ratings or more; `grid` maps a
\* cell to its ratings, missing ones left out.  The observed disagreement is
\* the share of ordered pairs of ratings of a cell that differ.
Tally(grid) ==
    [c \in {c \in DOMAIN grid : Len(grid[c]) >= 2} |->
        [pass |-> Where(grid[c], LAMBDA v : v = "pass"), fail |-> Where(grid[c], LAMBDA v : v = "fail")]]

Over(tally) ==
    FoldSet(LAMBDA c, sum : [pass   |-> sum.pass + tally[c].pass,
                             fail   |-> sum.fail + tally[c].fail,
                             differ |-> sum.differ + 2 * tally[c].pass * tally[c].fail,
                             pairs  |-> sum.pairs + (tally[c].pass + tally[c].fail)
                                                    * (tally[c].pass + tally[c].fail - 1)],
            [pass |-> 0, fail |-> 0, differ |-> 0, pairs |-> 0], DOMAIN tally)

Alpha(all, total) ==
    IF all.pass = 0 \/ all.fail = 0 THEN NONE
    ELSE <<all.pairs * 2 * all.pass * all.fail - all.differ * total * (total - 1),
           all.pairs * 2 * all.pass * all.fail>>

AlphaOf(all) == Alpha(all, all.pass + all.fail)

KrippendorffAlpha(grid) == AlphaOf(Over(Tally(grid)))

\* compute_krippendorff_with_scorers: a tier is one more rater of the cells
\* that people rated; `two` is NONE where no result was judged.
VerdictOn(cell, verdicts) ==
    IF verdicts = NONE \/ cell \notin DOMAIN verdicts THEN <<>> ELSE <<verdicts[cell]>>

Ratings(rows) == [i \in 1..Len(rows) |-> rows[i].verdict]

WithScorers(rows, one, two) ==
    [cell \in Cells(rows) |->
        Ratings(SelectSeq(rows, LAMBDA r : CellOf(r) = cell)) \o VerdictOn(cell, one) \o VerdictOn(cell, two)]

\* compute_tier_agreement: over the cells with a majority and a verdict, with
\* counts for the rates.
Counted(pairs) ==
    [n |-> Len(pairs), kappa |-> CohenKappa(pairs),
     agree |-> Where(pairs, LAMBDA p : p[1] = p[2]),
     falseFail |-> Where(pairs, LAMBDA p : p = <<"fail", "pass">>),
     falsePass |-> Where(pairs, LAMBDA p : p = <<"pass", "fail">>)]

PairsOn(cells, verdicts, consensus) == [i \in 1..Len(cells) |-> <<verdicts[cells[i]], consensus[cells[i]]>>]

TierAgreement(consensus, verdicts) ==
    Counted(PairsOn(SetToSeq({c \in DOMAIN consensus \cap DOMAIN verdicts : consensus[c] \in Verdicts}),
                    verdicts, consensus))

\* compute_replay_determinism.
Flips(common, flips) ==
    [n |-> common, flips |-> flips, meets |-> common = 0 \/ flips * 100 < 5 * common]

Replayed(a, b) ==
    Flips(Cardinality(DOMAIN a \cap DOMAIN b), Cardinality({c \in DOMAIN a \cap DOMAIN b : a[c] # b[c]}))

\* build_report; `again` are the results of a second run, and the second tier
\* is left out where no result was judged.
Report(rows, consensus, one, two, again) ==
    [cells |-> Cardinality(Cells(rows)),
     decisive |-> Cardinality({c \in DOMAIN consensus : consensus[c] \in Verdicts}),
     ties  |-> Cardinality({c \in DOMAIN consensus : consensus[c] = "tie"}),
     one   |-> TierAgreement(consensus, one),
     two   |-> IF two = NONE THEN NONE ELSE TierAgreement(consensus, two),
     alpha |-> KrippendorffAlpha(WithScorers(rows, one, two)),
     replay |-> Replayed(one, again)]

OrNone(verdicts) == IF DOMAIN verdicts = {} THEN NONE ELSE verdicts

AgreementReport(rows, evals, judged, again) ==
    Report(rows, Consensus(rows), TierOneVerdicts(evals), OrNone(TierTwoVerdicts(judged)), TierOneVerdicts(again))
=============================================================================
