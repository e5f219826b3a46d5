------------------------------ MODULE Planning ------------------------------
(***************************************************************************)
(* The benchmark advisor before a run (benchmark_advisor/planner.py,       *)
(* validator.py, v2_engine.py, v2_service.py): a request becomes a design, *)
(* designs over a grid of budgets are judged and scored, the best is       *)
(* returned, and an edited one is judged again.                            *)
(*                                                                         *)
(* Ratios are in percent and effects in hundredths of a point.  A request  *)
(* is [mode, budget, attempts, models, target, words, overrides]: `models` *)
(* counts the candidates, `target` may be NONE, `words` are the keyword    *)
(* tables its intent hits, and `overrides` the user's settings: sandbox,   *)
(* missing and baseline (or NONE), stateful and the mix of chain lengths   *)
(* (NONE for the planner's).  A design's `known` says that the rules its   *)
(* criteria cite are those of the guide.                                   *)
(***************************************************************************)
EXTENDS Naturals, Sequences, FiniteSets, SequencesExt, FiniteSetsExt

CONSTANTS
    Mde(_),         \* planned_mde_pp of a number of tasks, a decreasing function
    Required(_),    \* required_tasks_for_mde of an effect
    NONE

Issue(severity, code) == [severity |-> severity, code |-> code]
When(holds, severity, code) == IF holds THEN <<Issue(severity, code)>> ELSE <<>>

Comparison == {"pairwise", "leaderboard", "regression"}

Approved == [pairwise |-> 100, leaderboard |-> 150, regression |-> 60, diagnostic |-> 40]
Warned   == [pairwise |-> 60,  leaderboard |-> 80,  regression |-> 30, diagnostic |-> 20]
Stronger == [pairwise |-> {200, 500}, leaderboard |-> {300, 500, 800},
             regression |-> {120, 240, 500}, diagnostic |-> {100, 200}]
SearchCap == 5000

ScopeOf == [pairwise |-> "confirmatory_model_selection", leaderboard |-> "leaderboard_ranking",
            regression |-> "regression_non_inferiority", diagnostic |-> "diagnostic_slice"]
SelectionScopes == {"confirmatory_model_selection", "leaderboard_ranking"}

-----------------------------------------------------------------------------
(* planner.py.                                                             *)

\* What the planner answers by the intent alone, or NONE.
IntentIssue(request) ==
    CASE "final_answer" \in request.words -> Issue("critical", "unsupported_final_answer_claim")
      [] "final_answer" \notin request.words /\ "launch" \in request.words
           -> Issue("critical", "generation_launch_forbidden")
      [] request.words \cap {"final_answer", "launch"} = {} /\ request.mode \in Comparison /\ request.models = 0
           -> Issue("critical", "needs_clarification")
      [] OTHER -> NONE

Claims(words) ==
    LET claimed == (words \cap {"finance", "short_chain", "cross_server", "long_chain", "recovery",
                                "same_name", "near_miss", "hard_negative"})
                   \cup (IF "hard_negative" \in words THEN {"near_miss"} ELSE {})
    IN  IF claimed = {} THEN {"general"} ELSE claimed

Mix(words) ==
    CASE "long_chain" \in words -> <<20, 30, 50>>
      [] "long_chain" \notin words /\ "short_chain" \in words -> <<65, 25, 10>>
      [] OTHER -> <<30, 40, 30>>

Design(request) ==
    LET claims == Claims(request.words)
    IN  [mode |-> request.mode, models |-> request.models, budget |-> request.budget,
         attempts |-> request.attempts, target |-> request.target,
         scope |-> IF "smoke" \in request.words THEN "smoke_test_only" ELSE ScopeOf[request.mode],
         pass3 |-> "reliability" \in request.words /\ request.mode \in {"pairwise", "leaderboard"},
         mix |-> IF request.overrides.mix = NONE THEN Mix(request.words) ELSE request.overrides.mix,
         cross |-> IF "cross_server" \in claims THEN 35 ELSE 10,
         recovery |-> IF "recovery" \in claims THEN 15 ELSE 5,
         stateful |-> request.overrides.stateful,
         categories |-> claims,
         same |-> IF "same_name" \in claims THEN 40 ELSE 10,
         near |-> IF "hard_negative" \in claims THEN 35 ELSE IF "near_miss" \in claims THEN 30 ELSE 10,
         crossDomain |-> 0, random |-> 0, known |-> TRUE,
         slices |-> IF request.mode = "diagnostic" /\ "same_name" \in claims
                    THEN <<[ratio |-> 40, confirmatory |-> FALSE]>> ELSE <<>>]

\* An explicit override wins; otherwise stateful designs need a sandbox.
PlannedSandbox(request) ==
    IF request.overrides.sandbox # NONE THEN request.overrides.sandbox ELSE request.overrides.stateful > 0

-----------------------------------------------------------------------------
(* validator.py: issues of a structured design.                            *)

CoverageOf(design, marker) ==
    CASE marker = "cross_server" -> [value |-> design.cross, approved |-> 25, warned |-> 10]
      [] marker = "long_chain"   -> [value |-> design.mix[3], approved |-> 30, warned |-> 15]
      [] marker = "recovery"     -> [value |-> design.recovery, approved |-> 10, warned |-> 5]
      [] marker = "same_name"    -> [value |-> design.same, approved |-> 25, warned |-> 10]
      [] OTHER                   -> [value |-> design.near, approved |-> 25, warned |-> 10]

Markers == <<"cross_server", "long_chain", "recovery", "same_name", "near_miss", "hard_negative">>
Claimed(design) == SelectSeq(Markers, LAMBDA m : m \in design.categories)

WeakCode(marker) ==
    CASE marker = "cross_server" -> "insufficient_cross_server_coverage"
      [] marker = "long_chain"   -> "insufficient_long_chain_coverage"
      [] marker = "recovery"     -> "insufficient_recovery_coverage"
      [] OTHER                   -> "task_mix_bias"

AtLeastOne(n) == IF n = 0 THEN 1 ELSE n
Confirmatory(design) == Len(SelectSeq(design.slices, LAMBDA s : s.confirmatory))

Powerless(target, mde) == target # NONE /\ 4 * target < 3 * mde
Weak(target, mde)      == target # NONE /\ target < mde /\ ~Powerless(target, mde)

\* The coverage of claimed markers below what is required.
Gap(marker, cover) == When(cover.value < cover.warned, "critical", "cannot_support_claim")
Thin(marker, cover) ==
    When(cover.value >= cover.warned /\ cover.value < cover.approved, "warning", WeakCode(marker))

Gaps(design, claimed) ==
    FlattenSeq([i \in 1..Len(claimed) |-> Gap(claimed[i], CoverageOf(design, claimed[i]))])
Thins(design, claimed) ==
    FlattenSeq([i \in 1..Len(claimed) |-> Thin(claimed[i], CoverageOf(design, claimed[i]))])

TooMany(confirmatory, limit, selects) == selects /\ confirmatory > 2 * limit

Impossible(design, sandbox) ==
    When(design.mix[1] + design.mix[2] + design.mix[3] # 100, "critical", "invalid_distribution")
    \o When(design.same + design.near + design.crossDomain + design.random > 100,
            "critical", "invalid_distribution")
    \o When(design.stateful > 0 /\ sandbox # TRUE, "critical", "invalid_distribution")
    \o When(~design.known, "critical", "missing_required_design_field")
    \o When(design.mode = "diagnostic" /\ design.scope \in SelectionScopes, "critical", "cannot_support_claim")

Unsupported(design) ==
    When(design.pass3 /\ design.attempts < 2 /\ design.scope \in SelectionScopes,
         "critical", "cannot_support_claim")
    \o Gaps(design, Claimed(design))
    \o When(TooMany(Confirmatory(design), AtLeastOne(design.budget \div 40), design.scope \in SelectionScopes),
            "critical", "cannot_support_claim")

Smoke(design) == design.scope = "smoke_test_only"

\* Mutant: the power check forgets the band in which it refuses.
Refusals_NoPower(design, sandbox) ==
    Impossible(design, sandbox)
    \o When(~Smoke(design) /\ design.budget < Warned[design.mode], "critical", "insufficient_budget")
    \o Unsupported(design)

Refusals(design, sandbox) ==
    Impossible(design, sandbox)
    \o When(~Smoke(design) /\ design.budget < Warned[design.mode], "critical", "insufficient_budget")
    \o When(~Smoke(design) /\ Powerless(design.target, Mde(design.budget)), "critical", "insufficient_budget")
    \o Unsupported(design)

Sliced(count, slices, limit, wide, selects) ==
    When(count > limit /\ ~TooMany(count, limit, selects), "warning", "too_many_secondary_slices")
    \o When(slices > wide, "warning", "too_many_secondary_slices")

Warnings(design) ==
    When(Smoke(design), "warning", "smoke_test_only")
    \o When(~Smoke(design) /\ design.budget >= Warned[design.mode] /\ design.budget < Approved[design.mode],
            "warning", "underpowered_design")
    \o When(~Smoke(design) /\ Weak(design.target, Mde(design.budget)), "warning", "underpowered_design")
    \o When(design.pass3 /\ (design.attempts = 2 \/ (design.attempts < 2 /\ design.scope \notin SelectionScopes)),
            "warning", "too_few_repeats")
    \o Thins(design, Claimed(design))
    \o Sliced(Confirmatory(design), Len(design.slices), AtLeastOne(design.budget \div 40),
              AtLeastOne(design.budget \div 25), design.scope \in SelectionScopes)

Unclear(design) == design.mode \in Comparison /\ design.models = 0

\* validate_design and _resolve: the first refusal speaks for all.
Verdict(refusals, warnings, unclear) ==
    [status |-> CASE refusals # <<>> -> "refused"
                  [] refusals = <<>> /\ unclear -> "needs_clarification"
                  [] OTHER -> IF warnings # <<>> THEN "warning" ELSE "approved",
     issues |-> warnings
                \o CASE refusals # <<>> -> <<refusals[1]>>
                     [] refusals = <<>> /\ unclear -> <<Issue("critical", "needs_clarification")>>
                     [] OTHER -> <<>>]

Validate(design, sandbox) == Verdict(Refusals(design, sandbox), Warnings(design), Unclear(design))

-----------------------------------------------------------------------------
(* v2_engine.py: the issues of the engine.                                 *)

MethodIssues(mode, models, target) ==
    When(mode = "pairwise" /\ models # 2, "critical", "unsupported_candidate_model_count")
    \o When(mode = "leaderboard" /\ models < 3, "critical", "unsupported_candidate_model_count")
    \o When(mode = "regression" /\ target = NONE, "critical", "missing_non_inferiority_margin")
    \o When(mode = "regression" /\ models \notin {0, 2}, "critical", "unsupported_candidate_model_count")

SliceIssue(confirmatory, diagnostic, count) ==
    When(confirmatory /\ count < 20, "critical", "insufficient_slice_coverage")
    \o When(confirmatory /\ count \in 20..39, "warning", "insufficient_slice_coverage")
    \o When(~confirmatory /\ diagnostic /\ count < 25, "warning", "insufficient_slice_coverage")

SliceIssues(design, slices) ==
    FlattenSeq([i \in 1..Len(slices) |->
        SliceIssue(slices[i].confirmatory, design.mode = "diagnostic",
                   AtLeastOne((design.budget * slices[i].ratio) \div 100))])

PressureIssue(cover) ==
    When(cover.value < 25, IF cover.value < 10 THEN "critical" ELSE "warning", "missing_diagnostic_pressure")

Pressure(design, markers) ==
    FlattenSeq([i \in 1..Len(markers) |->
        IF markers[i] \in design.categories THEN PressureIssue(CoverageOf(design, markers[i])) ELSE <<>>])

MissingnessIssues(request, design) ==
    LET rate   == request.overrides.missing
        strong == design.scope \in SelectionScopes \cup {"regression_non_inferiority"}
    IN  IF rate = NONE THEN <<>>
        ELSE When(rate > 20 /\ strong, "critical", "expected_missingness_too_high")
             \o When(rate >= 5 /\ (IF strong THEN rate <= 20 ELSE rate > 20), "warning", "expected_missingness_warning")

StatisticalIssues(request, design) ==
    When(design.mode = "leaderboard" /\ design.budget >= 80 /\ design.budget < 150,
         "warning", "rank_stability_uncertain")
    \o When(design.mode = "diagnostic" /\ "broad" \in request.words, "critical", "diagnostic_overclaim")
    \o (IF design.slices = <<>> THEN <<>>
        ELSE SliceIssues(design, design.slices) \o Pressure(design, <<"same_name", "near_miss", "hard_negative">>))
    \o MissingnessIssues(request, design)
    \o When(request.overrides.baseline # NONE /\ request.overrides.baseline \notin 10..90,
            "warning", "floor_ceiling_risk")

StatusOf(base, issues) ==
    CASE \E i \in 1..Len(issues) : issues[i].severity = "critical" -> "refused"
      [] (\A i \in 1..Len(issues) : issues[i].severity # "critical")
         /\ (\E i \in 1..Len(issues) : issues[i].severity = "warning") -> "warning"
      [] OTHER -> base

Structural == {"insufficient_budget", "underpowered_design", "rank_stability_uncertain",
               "insufficient_slice_coverage", "too_many_secondary_slices", "too_few_repeats", "task_mix_bias",
               "insufficient_cross_server_coverage", "insufficient_long_chain_coverage",
               "insufficient_recovery_coverage", "missing_diagnostic_pressure"}

\* The price of a candidate is 3000 less its score: status, issues and tasks.
Price(status, budget, issues) ==
    (CASE status = "approved" -> 0 [] status = "warning" -> 1000
       [] status = "needs_clarification" -> 2500 [] status = "refused" -> 3000)
    + 500 * Len(SelectSeq(issues, LAMBDA i : i.code \in Structural))
    + 25 * Len(SelectSeq(issues, LAMBDA i : i.severity = "warning"))
    + budget

Judged(design, status, issues) ==
    [design |-> design, status |-> status, issues |-> issues, price |-> Price(status, design.budget, issues)]

WithIssues(design, base, issues) == Judged(design, StatusOf(base, issues), issues)

Further(design, verdict, issues) == WithIssues(design, verdict.status, verdict.issues \o issues)

\* A design judged: `margin` is the effect the mode's own rules are given.
Judge(request, design, sandbox, margin) ==
    Further(design, Validate(design, sandbox),
            MethodIssues(design.mode, design.models, margin) \o StatisticalIssues(request, design))

-----------------------------------------------------------------------------
(* The search.                                                             *)

BudgetGrid(request) ==
    LET floor  == Approved[request.mode]
        values == {request.budget, Warned[request.mode], floor,
                   Max({floor, 2 * request.budget}), Max({floor + 20, (3 * floor) \div 2})}
                  \cup Stronger[request.mode]
                  \cup (IF request.target = NONE THEN {} ELSE {Required(request.target)})
    IN  {Max({1, Min({SearchCap, b})}) : b \in values}

AttemptsGrid(request) == {request.attempts} \cup (IF "pass@3" \in request.words THEN {3} ELSE {})

\* A candidate: its design aims at the request's effect or at what its budget can show.
Candidate(request, budget, attempts) ==
    Judge(request, Design([request EXCEPT !.budget = budget, !.attempts = attempts,
                                          !.target = IF @ = NONE THEN Mde(budget) ELSE @]),
          PlannedSandbox(request), request.target)

Candidates(request) ==
    {Candidate(request, g[1], g[2]) : g \in BudgetGrid(request) \X AttemptsGrid(request)}

\* _select_candidate: cheapest first, then fewer tasks, then more attempts.
Cheapest(candidates) ==
    CHOOSE c \in candidates : \A d \in candidates :
        \/ c.price < d.price
        \/ c.price = d.price /\ c.design.budget < d.design.budget
        \/ c.price = d.price /\ c.design.budget = d.design.budget /\ c.design.attempts >= d.design.attempts

Recommended(request) == Cheapest(Candidates(request))

\* _selected_reason.
Reason(candidate) ==
    CASE candidate.status = "approved" -> "cheapest_approved"
      [] candidate.status = "warning"  -> "best_warning"
      [] OTHER                         -> "none_but_refused"

-----------------------------------------------------------------------------
(* v2_service.py.                                                          *)

Exportable(status) == status \in {"approved", "warning"}

SandboxOf(request, design) ==
    IF request.overrides.sandbox # NONE THEN request.overrides.sandbox
    ELSE IF design.stateful > 0 THEN TRUE ELSE NONE

Advice(judged) ==
    [status |-> judged.status, plan |-> judged.design, issues |-> judged.issues,
     launchable |-> Exportable(judged.status)]

Rejected(issue) ==
    [status |-> IF issue.code = "needs_clarification" THEN "needs_clarification" ELSE "refused",
     plan |-> NONE, issues |-> <<issue>>, launchable |-> FALSE]

\* advisor_v2_design.
Answer(request, issue) == IF issue # NONE THEN Rejected(issue) ELSE Advice(Recommended(request))

AdviseDesign(request) == Answer(request, IntentIssue(request))

\* advisor_v2_validate, with the request that the design came from.
ValidatePlan(request, design) ==
    Advice(Judge(request, design, SandboxOf(request, design), design.target))
=============================================================================
