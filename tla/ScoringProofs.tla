--------------------------- MODULE ScoringProofs ---------------------------
(***************************************************************************)
(* Proofs about the two specifications built on the scorer.  Evaluation,   *)
(* for every set of specs, every trace and every answer of the judge: what *)
(* a passed run, a failed run and a judged run mean, and that further      *)
(* calls undo nothing.  Replay, for every reference, similarity and        *)
(* threshold: it refines Evaluation, its world is fixed and makes nothing  *)
(* up, and what the gate accepts can be achieved in it.                    *)
(***************************************************************************)
EXTENDS Replay, WellFoundedInduction, TLAPS

-----------------------------------------------------------------------------
(* Minima.                                                                 *)

\* The least element that FirstOf picks exists.
LEMMA MinOfNats ==
    ASSUME NEW S, S \subseteq Nat, S # {}
    PROVE  Min(S) \in S /\ \A y \in S : Min(S) <= y
<1> DEFINE Less == {ss \in Nat \X Nat : ss[1] < ss[2]}
<1>1. IsWellFoundedOn(Less, Nat)
    BY NatLessThanWellFounded DEF OpToRel
<1> HIDE DEF Less
<1>2. PICK x \in S : \A y \in S : ~ (<<y, x>> \in Less)
    BY <1>1, WFMin
<1>3. ASSUME NEW y \in S PROVE x <= y
  <2>1. x \in Nat /\ y \in Nat
      BY <1>2
  <2>2. ~ (y < x)
    <3>1. <<y, x>> \notin Less
        BY <1>2
    <3>2. y < x => <<y, x>> \in Less
        BY <2>1 DEF Less
    <3> QED BY <3>1, <3>2
  <2> QED BY <2>1, <2>2
<1> QED BY <1>2, <1>3 DEF Min

\* What only comes later does not change the least element.
LEMMA MinKept ==
    ASSUME NEW S, NEW T, NEW n \in Nat, S # {}, S \subseteq T, S \subseteq 1..n,
           T \subseteq S \cup {n + 1}
    PROVE  Min(T) = Min(S)
<1>1. S \subseteq Nat /\ T \subseteq Nat /\ T # {}
  <2>1. 1..n \subseteq Nat /\ n + 1 \in Nat
      OBVIOUS
  <2> QED BY <2>1
<1>2. Min(S) \in S /\ \A y \in S : Min(S) <= y
    BY <1>1, MinOfNats
<1>3. Min(T) \in T /\ \A y \in T : Min(T) <= y
    BY <1>1, MinOfNats
<1>4. Min(T) <= Min(S) /\ Min(S) <= n /\ Min(S) \in Nat /\ Min(T) \in Nat
  <2>1. Min(S) \in Nat /\ Min(T) \in Nat
      BY <1>1, <1>2, <1>3
  <2>2. Min(S) \in 1..n /\ Min(S) \in T
      BY <1>2
  <2> QED BY <1>3, <2>1, <2>2
<1>5. Min(T) # n + 1
    BY <1>4
<1>6. Min(S) <= Min(T)
    BY <1>2, <1>3, <1>5
<1> QED BY <1>4, <1>6

-----------------------------------------------------------------------------
(* Checkpoints, of any trace `st`.                                         *)

\* The calls of a trace that tier 1 accepts as evidence for a checkpoint.
EvidenceIn(cp, st) == CASE cp.kind = "tool_effect" -> EffectCalls(cp, st)
                        [] cp.kind = "value_produced" -> ValueCalls(cp, st)
                        [] OTHER -> {}

LEMMA KindOf ==
    ASSUME NEW cp \in Checkpoint
    PROVE  cp.kind \in {"tool_effect", "value_produced", "state_condition"}
    BY DEF Checkpoint, ToolEffect, ValueProduced

LEMMA EvidenceIsCalls ==
    ASSUME NEW st, NEW cp
    PROVE  EvidenceIn(cp, st) \subseteq AgentCalls(st) /\ AgentCalls(st) \subseteq 1..Len(st)
    BY DEF EvidenceIn, EffectCalls, ValueCalls, Succeeded, AgentCalls

LEMMA ResultFields ==
    ASSUME NEW n \in Nat, NEW kind, NEW passed \in BOOLEAN, NEW step \in 0..n
    PROVE  /\ Result(kind, passed, step) \in [kind : {kind}, passed : BOOLEAN, step : 0..n, tier : {1}]
           /\ Result(kind, passed, step).kind = kind
           /\ Result(kind, passed, step).passed = passed
           /\ Result(kind, passed, step).step = step
    BY DEF Result

\* The first call that matches is one that matches.
LEMMA FirstOfCalls ==
    ASSUME NEW n \in Nat, NEW calls, calls \subseteq 1..n, NEW kind
    PROVE  /\ FirstOf(kind, calls) \in [kind : {kind}, passed : BOOLEAN, step : 0..n, tier : {1}]
           /\ FirstOf(kind, calls).kind = kind
           /\ FirstOf(kind, calls).passed <=> calls # {}
           /\ FirstOf(kind, calls).step # NoStep => FirstOf(kind, calls).step \in calls
<1>1. CASE calls = {}
  <2>1. FirstOf(kind, calls) = Result(kind, FALSE, NoStep)
      BY <1>1 DEF FirstOf
  <2>2. NoStep \in 0..n
      BY DEF NoStep
  <2>3. /\ Result(kind, FALSE, NoStep) \in [kind : {kind}, passed : BOOLEAN, step : 0..n, tier : {1}]
        /\ Result(kind, FALSE, NoStep).kind = kind
        /\ ~Result(kind, FALSE, NoStep).passed
        /\ Result(kind, FALSE, NoStep).step = NoStep
      BY <2>2 DEF Result
  <2> QED BY <1>1, <2>1, <2>3
<1>2. CASE calls # {}
  <2>1. Min(calls) \in calls
    <3>1. 1..n \subseteq Nat
        OBVIOUS
    <3> QED BY <1>2, <3>1, MinOfNats
  <2>2. FirstOf(kind, calls) = Result(kind, TRUE, Min(calls))
      BY <1>2 DEF FirstOf
  <2>3. Min(calls) \in 0..n
    <3>1. Min(calls) \in 1..n
        BY <2>1
    <3> QED BY <3>1
  <2>4. /\ Result(kind, TRUE, Min(calls)) \in [kind : {kind}, passed : BOOLEAN, step : 0..n, tier : {1}]
        /\ Result(kind, TRUE, Min(calls)).kind = kind
        /\ Result(kind, TRUE, Min(calls)).passed
        /\ Result(kind, TRUE, Min(calls)).step = Min(calls)
      BY <2>3 DEF Result
  <2> QED BY <1>2, <2>1, <2>2, <2>4
<1> QED BY <1>1, <1>2

\* Passing takes a call that is evidence, or a final message after a success.
ResultSound(r, cp, st) ==
    /\ r \in [kind : {cp.kind}, passed : BOOLEAN, step : 0..Len(st), tier : {1}]
    /\ cp.kind = "tool_effect" => (r.passed <=> EffectCalls(cp, st) # {})
    /\ cp.kind = "value_produced" /\ r.passed => Succeeded(st) # {}
    /\ cp.kind = "state_condition" => ~r.passed
    /\ r.step # NoStep => r.step \in EvidenceIn(cp, st)

LEMMA CheckpointResults ==
    ASSUME NEW st, Len(st) \in Nat, NEW msg, NEW cp \in Checkpoint
    PROVE  ResultSound(EvalCheckpoint(cp, st, msg), cp, st)
<1> DEFINE r == EvalCheckpoint(cp, st, msg)
<1> SUFFICES ResultSound(r, cp, st)
    OBVIOUS
<1>1. EvidenceIn(cp, st) \subseteq 1..Len(st)
    BY EvidenceIsCalls
<1>2. CASE cp.kind = "tool_effect"
  <2>1. r = FirstOf(cp.kind, EffectCalls(cp, st)) /\ EvidenceIn(cp, st) = EffectCalls(cp, st)
      BY <1>2 DEF EvalCheckpoint, EvidenceIn
  <2> HIDE DEF r
  <2> QED BY <1>1, <1>2, <2>1, FirstOfCalls DEF ResultSound
<1>3. CASE cp.kind = "value_produced" /\ cp.scope # "final_assistant_message"
  <2>1. r = FirstOf(cp.kind, ValueCalls(cp, st)) /\ EvidenceIn(cp, st) = ValueCalls(cp, st)
      BY <1>3 DEF EvalCheckpoint, EvidenceIn
  <2>2. ValueCalls(cp, st) \subseteq Succeeded(st)
      BY DEF ValueCalls
  <2> HIDE DEF r
  <2> QED BY <1>1, <1>3, <2>1, <2>2, FirstOfCalls DEF ResultSound
<1>4. CASE cp.kind = "value_produced" /\ cp.scope = "final_assistant_message"
  <2> DEFINE shown == msg \in cp.texts /\ Succeeded(st) # {}
  <2>1. r = Result(cp.kind, shown, NoStep)
      BY <1>4 DEF EvalCheckpoint, FinalValue
  <2>2. shown \in BOOLEAN /\ NoStep \in 0..Len(st) /\ (shown => Succeeded(st) # {})
      BY DEF NoStep
  <2> HIDE DEF r, shown
  <2> QED BY <1>4, <2>1, <2>2, ResultFields DEF ResultSound
<1>5. CASE cp.kind = "state_condition"
  <2>1. r = Result(cp.kind, FALSE, NoStep)
      BY <1>5 DEF EvalCheckpoint
  <2>2. NoStep \in 0..Len(st)
      BY DEF NoStep
  <2>3. /\ r \in [kind : {cp.kind}, passed : BOOLEAN, step : 0..Len(st), tier : {1}]
        /\ ~r.passed /\ r.step = NoStep
      BY <2>1, <2>2 DEF Result
  <2> HIDE DEF r
  <2> QED BY <1>5, <2>3 DEF ResultSound
<1> QED BY <1>2, <1>3, <1>4, <1>5, KindOf

-----------------------------------------------------------------------------
(* Evaluations, of any spec `sp` and trace `st`.                           *)

Results(sp, st, msg) ==
    [i \in 1..Len(sp.checkpoints) |-> EvalCheckpoint(sp.checkpoints[i], st, msg)]
HitsOf(sp, st) == {i \in 1..Len(sp.minefields) : Tripped(sp.minefields[i], st)}

LEMMA SpecParts ==
    ASSUME NEW sp \in TaskSpec
    PROVE  /\ Len(sp.checkpoints) \in Nat /\ Len(sp.minefields) \in Nat
           /\ \A i \in 1..Len(sp.checkpoints) : sp.checkpoints[i] \in Checkpoint
           /\ sp.ordering \subseteq Nat \X Nat
<1>1. /\ sp.checkpoints \in Seq(Checkpoint) /\ sp.minefields \in Seq(Minefield)
      /\ sp.ordering \subseteq Nat \X Nat
    BY DEF TaskSpec
<1> QED BY <1>1

LEMMA ResultParts ==
    ASSUME NEW sp \in TaskSpec, NEW st, Len(st) \in Nat, NEW msg
    PROVE  /\ Len(Results(sp, st, msg)) = Len(sp.checkpoints)
           /\ DOMAIN Results(sp, st, msg) = 1..Len(sp.checkpoints)
           /\ \A i \in 1..Len(sp.checkpoints) :
                /\ Results(sp, st, msg)[i] = EvalCheckpoint(sp.checkpoints[i], st, msg)
                /\ ResultSound(Results(sp, st, msg)[i], sp.checkpoints[i], st)
<1>1. Len(sp.checkpoints) \in Nat /\ \A i \in 1..Len(sp.checkpoints) : sp.checkpoints[i] \in Checkpoint
    BY SpecParts
<1>2. DOMAIN Results(sp, st, msg) = 1..Len(sp.checkpoints)
    BY DEF Results
<1>3. Len(Results(sp, st, msg)) = Len(sp.checkpoints)
    BY <1>1, <1>2
<1>4. ASSUME NEW i \in 1..Len(sp.checkpoints)
      PROVE  Results(sp, st, msg)[i] = EvalCheckpoint(sp.checkpoints[i], st, msg)
    BY DEF Results
<1>5. ASSUME NEW i \in 1..Len(sp.checkpoints)
      PROVE  ResultSound(Results(sp, st, msg)[i], sp.checkpoints[i], st)
    BY <1>1, <1>4, CheckpointResults
<1> QED BY <1>2, <1>3, <1>4, <1>5

LEMMA EvaluateParts ==
    ASSUME NEW sp, NEW st, NEW msg
    PROVE  /\ Evaluate(sp, st, msg).results = Results(sp, st, msg)
           /\ Evaluate(sp, st, msg).hits = HitsOf(sp, st)
           /\ Evaluate(sp, st, msg).orderingOk <=> EvalOrdering(sp.ordering, Results(sp, st, msg))
           /\ Evaluate(sp, st, msg).passed <=>
                Verdict(Results(sp, st, msg), HitsOf(sp, st), EvalOrdering(sp.ordering, Results(sp, st, msg)))
           /\ Evaluate(sp, st, msg).sae = DetectSae(sp, st)
           /\ Evaluate(sp, st, msg).errors =
                ClassifyErrors(sp, st, Results(sp, st, msg), EvalOrdering(sp.ordering, Results(sp, st, msg)))
    BY DEF Evaluate, Results, HitsOf

\* An order that holds is one of calls that are evidence, and of passed results.
LEMMA OrderIsOfCalls ==
    ASSUME NEW sp \in TaskSpec, NEW st, Len(st) \in Nat, NEW msg,
           EvalOrdering(sp.ordering, Results(sp, st, msg)), NEW oc \in sp.ordering
    PROVE  /\ oc[1] \in 1..Len(sp.checkpoints) /\ oc[2] \in 1..Len(sp.checkpoints)
           /\ Results(sp, st, msg)[oc[1]].step < Results(sp, st, msg)[oc[2]].step
           /\ \A k \in {oc[1], oc[2]} :
                 Results(sp, st, msg)[k].step \in EvidenceIn(sp.checkpoints[k], st)
<1> DEFINE rs == Results(sp, st, msg)
<1>1. /\ MatchedAt(rs, oc[1]) # NoStep /\ MatchedAt(rs, oc[2]) # NoStep
      /\ MatchedAt(rs, oc[1]) < MatchedAt(rs, oc[2])
    BY DEF EvalOrdering
<1>2. Len(rs) = Len(sp.checkpoints)
    BY ResultParts
<1> HIDE DEF rs
<1>3. /\ oc[1] \in 1..Len(sp.checkpoints) /\ oc[2] \in 1..Len(sp.checkpoints)
      /\ rs[oc[1]].step # NoStep /\ rs[oc[2]].step # NoStep
      /\ rs[oc[1]].step < rs[oc[2]].step
    BY <1>1, <1>2 DEF MatchedAt
<1>4. \A k \in 1..Len(sp.checkpoints) :
         rs[k].step # NoStep => rs[k].step \in EvidenceIn(sp.checkpoints[k], st)
    BY ResultParts DEF rs, ResultSound
<1> QED BY <1>3, <1>4 DEF rs

-----------------------------------------------------------------------------
(* Types.                                                                  *)

Codes == {"E1", "E3", "E4", "E5", "E6", "E7"}

LEMMA EffectErrorCode ==
    ASSUME NEW sp, NEW id, NEW st
    PROVE  EffectError(sp, id, st) \subseteq Codes /\ EffectError(sp, id, st) # {}
    BY DEF EffectError, Codes

LEMMA ErrorsTyped ==
    ASSUME NEW sp, NEW st, NEW rs, Len(rs) \in Nat, NEW orderingOk
    PROVE  ClassifyErrors(sp, st, rs, orderingOk) \subseteq Codes \X Nat
<1> DEFINE failed(kind) == {i \in 1..Len(rs) : ~rs[i].passed /\ rs[i].kind = kind}
           effects == UNION {EffectError(sp, i, st) \X {i} : i \in failed("tool_effect")}
           values  == {<<"E3", i>> : i \in failed("value_produced")}
           order   == IF orderingOk THEN {} ELSE {<<"E5", NoStep>>}
<1>1. ClassifyErrors(sp, st, rs, orderingOk) = effects \cup values \cup order
    BY DEF ClassifyErrors
<1>2. \A kind : failed(kind) \subseteq Nat
    OBVIOUS
<1> HIDE DEF failed
<1>3. effects \subseteq Codes \X Nat
    BY <1>2, EffectErrorCode
<1>4. values \subseteq Codes \X Nat
    BY <1>2 DEF Codes
<1>5. order \subseteq Codes \X Nat
    BY DEF Codes, NoStep
<1> QED BY <1>1, <1>3, <1>4, <1>5

LEMMA EvaluateTyped ==
    ASSUME NEW sp \in TaskSpec, NEW st, Len(st) \in Nat, Len(st) <= MaxSteps, NEW msg
    PROVE  Evaluate(sp, st, msg) \in Evaluations
<1> DEFINE rs == Results(sp, st, msg)
           e  == Evaluate(sp, st, msg)
<1>1. /\ Len(rs) = Len(sp.checkpoints) /\ DOMAIN rs = 1..Len(rs) /\ Len(rs) \in Nat
      /\ \A i \in 1..Len(rs) : ResultSound(rs[i], sp.checkpoints[i], st)
    BY SpecParts, ResultParts
<1>2. \A i \in 1..Len(rs) : rs[i] \in CheckpointResult
  <2> SUFFICES ASSUME NEW i \in 1..Len(rs) PROVE rs[i] \in CheckpointResult
      OBVIOUS
  <2>1. sp.checkpoints[i].kind \in {"tool_effect", "value_produced", "state_condition"}
      BY <1>1, SpecParts, KindOf
  <2>2. 0..Len(st) \subseteq 0..MaxSteps + 1
      BY SpecsAreSpecs
  <2>3. rs[i] \in [kind : {sp.checkpoints[i].kind}, passed : BOOLEAN, step : 0..Len(st), tier : {1}]
      BY <1>1 DEF ResultSound
  <2> HIDE DEF rs
  <2> QED BY <2>1, <2>2, <2>3 DEF CheckpointResult
<1>3. rs \in Seq(CheckpointResult)
  <2>1. rs = [i \in 1..Len(rs) |-> rs[i]]
      BY <1>1 DEF Results
  <2> HIDE DEF rs
  <2> QED BY <1>1, <1>2, <2>1
<1>4. HitsOf(sp, st) \subseteq Nat /\ DetectSae(sp, st) \subseteq Nat
    BY DEF HitsOf, DetectSae, Succeeded, AgentCalls
<1>5. ClassifyErrors(sp, st, rs, EvalOrdering(sp.ordering, rs)) \subseteq Codes \X Nat
    BY <1>1, ErrorsTyped
<1>6. e = [results |-> rs, hits |-> HitsOf(sp, st), orderingOk |-> EvalOrdering(sp.ordering, rs),
           passed |-> Verdict(rs, HitsOf(sp, st), EvalOrdering(sp.ordering, rs)),
           sae |-> DetectSae(sp, st),
           errors |-> ClassifyErrors(sp, st, rs, EvalOrdering(sp.ordering, rs))]
    BY DEF Evaluate, Results, HitsOf
<1>7. EvalOrdering(sp.ordering, rs) \in BOOLEAN
    BY DEF EvalOrdering
<1>8. Verdict(rs, HitsOf(sp, st), EvalOrdering(sp.ordering, rs)) \in BOOLEAN
    BY DEF Verdict
<1> HIDE DEF rs, e
<1> QED BY <1>3, <1>4, <1>5, <1>6, <1>7, <1>8 DEF Evaluations, Codes, e

-----------------------------------------------------------------------------
(* The invariant.                                                          *)

\* Tier 1 of the run as it stands, with the facts above.
LEMMA Tier1Parts ==
    ASSUME TypeOK
    PROVE  /\ spec \in TaskSpec /\ Len(steps) \in Nat /\ Len(spec.checkpoints) \in Nat
           /\ Tier1.results = Results(spec, steps, message)
           /\ Len(Tier1.results) = Len(spec.checkpoints)
           /\ \A i \in 1..Len(spec.checkpoints) :
                ResultSound(Tier1.results[i], spec.checkpoints[i], steps)
           /\ Tier1.hits = HitsOf(spec, steps)
           /\ Tier1.orderingOk <=> EvalOrdering(spec.ordering, Tier1.results)
           /\ Tier1.passed <=> Verdict(Tier1.results, Tier1.hits, Tier1.orderingOk)
           /\ Tier1.errors = ClassifyErrors(spec, steps, Tier1.results,
                                            EvalOrdering(spec.ordering, Tier1.results))
<1>1. spec \in TaskSpec /\ Len(steps) \in Nat
    BY SpecsAreSpecs DEF TypeOK
<1>2. Len(spec.checkpoints) \in Nat
    BY <1>1, SpecParts
<1>3. /\ Tier1.results = Results(spec, steps, message)
      /\ Tier1.hits = HitsOf(spec, steps)
      /\ Tier1.orderingOk <=> EvalOrdering(spec.ordering, Tier1.results)
      /\ Tier1.passed <=> Verdict(Tier1.results, Tier1.hits, EvalOrdering(spec.ordering, Tier1.results))
      /\ Tier1.errors = ClassifyErrors(spec, steps, Tier1.results,
                                       EvalOrdering(spec.ordering, Tier1.results))
    BY EvaluateParts DEF Tier1
<1>4. Tier1.passed <=> Verdict(Tier1.results, Tier1.hits, Tier1.orderingOk)
    BY <1>3 DEF Verdict
<1>5. /\ Len(Tier1.results) = Len(spec.checkpoints)
      /\ \A i \in 1..Len(spec.checkpoints) :
           ResultSound(Tier1.results[i], spec.checkpoints[i], steps)
    BY <1>1, <1>3, ResultParts
<1> QED BY <1>1, <1>2, <1>3, <1>4, <1>5

LEMMA InitInv == Init => IInv
<1> SUFFICES ASSUME Init PROVE IInv
    OBVIOUS
<1>1. TypeOK
    BY DEF Init, TypeOK
<1>2. Len(steps) <= MaxSteps
    BY SpecsAreSpecs DEF Init
<1> QED BY <1>1, <1>2 DEF Init, IInv

LEMMA RunInv ==
    ASSUME IInv, NEW step \in TraceStep, Call(step)
    PROVE  IInv'
<1>1. steps' \in Seq(TraceStep) /\ Len(steps') = Len(steps) + 1 /\ Len(steps) \in Nat
    BY DEF IInv, TypeOK, Call
<1>2. TypeOK'
    BY <1>1 DEF IInv, TypeOK, Call
<1>3. Len(steps') <= MaxSteps
    BY <1>1, SpecsAreSpecs DEF Call
<1> QED BY <1>2, <1>3 DEF IInv, Call

LEMMA EndRunInv ==
    ASSUME IInv, NEW text \in Texts \cup {NoText}, EndRun(text)
    PROVE  IInv'
<1>1. TypeOK'
    BY DEF IInv, TypeOK, EndRun
<1> QED BY <1>1 DEF IInv, EndRun

LEMMA ScoreInv ==
    ASSUME IInv, Score
    PROVE  IInv'
<1>1. ev' = Tier1 /\ Tier1' = Tier1
    BY DEF Score, Tier1
<1>2. Tier1 \in Evaluations
    BY Tier1Parts, EvaluateTyped DEF IInv, Tier1
<1>3. TypeOK'
    BY <1>1, <1>2 DEF IInv, TypeOK, Score
<1> QED BY <1>1, <1>3 DEF IInv, Score

LEMMA StartJudgeInv ==
    ASSUME IInv, StartJudge
    PROVE  IInv'
<1>1. Tier1' = Tier1 /\ upgraded' = <<>> /\ Len(spec.checkpoints) \in Nat
    BY Tier1Parts DEF StartJudge, Tier1, IInv
<1>2. TypeOK'
    BY DEF IInv, TypeOK, StartJudge
<1>3. JudgedSoFar'
    BY <1>1 DEF JudgedSoFar, StartJudge
<1> QED BY <1>1, <1>2, <1>3 DEF IInv, StartJudge

\* The judge goes on by one result, its own or, where it may, another.
LEMMA KeepInv ==
    ASSUME IInv, phase = "judging", HasPending, NEW r \in CheckpointResult, Keep(r),
           r = Pending \/ (Judgeable(Pending) /\ r.kind = "tool_effect")
    PROVE  IInv'
<1>1. /\ ev = Tier1 /\ JudgedSoFar /\ upgraded \in Seq(CheckpointResult)
      /\ Len(upgraded) \in Nat /\ Len(spec.checkpoints) \in Nat
      /\ Len(Tier1.results) = Len(spec.checkpoints)
    BY Tier1Parts DEF IInv, TypeOK
<1>2. /\ upgraded' \in Seq(CheckpointResult) /\ Len(upgraded') = Len(upgraded) + 1
      /\ \A i \in 1..Len(upgraded) : upgraded'[i] = upgraded[i]
      /\ upgraded'[Len(upgraded) + 1] = r
    BY <1>1 DEF Keep
<1>3. Tier1' = Tier1
    BY DEF Keep, Tier1
<1>4. TypeOK'
    BY <1>2 DEF IInv, TypeOK, Keep
<1>5. JudgedSoFar'
  <2>1. Len(upgraded') <= Len(spec.checkpoints)
      BY <1>1, <1>2 DEF HasPending
  <2>2. \A i \in 1..Len(upgraded') : i \in 1..Len(upgraded) \/ i = Len(upgraded) + 1
      BY <1>1, <1>2
  <2>3. Pending = Tier1.results[Len(upgraded) + 1]
      BY <1>1 DEF Pending
  <2> QED BY <1>1, <1>2, <1>3, <2>1, <2>2, <2>3 DEF JudgedSoFar, Keep
<1> QED BY <1>3, <1>4, <1>5 DEF IInv, Keep

LEMMA PendingTyped ==
    ASSUME IInv, phase = "judging", HasPending
    PROVE  Pending \in CheckpointResult
<1>1. ev.results \in Seq(CheckpointResult) /\ Len(upgraded) \in Nat
    BY DEF IInv, TypeOK, Evaluations
<1> QED BY <1>1 DEF Pending, HasPending

LEMMA JudgeInv ==
    ASSUME IInv, PassThrough \/ JudgeNo \/ \E claim \in Claims : JudgeYes(claim)
    PROVE  IInv'
<1>1. Pending \in CheckpointResult /\ phase = "judging" /\ HasPending
    BY PendingTyped DEF PassThrough, JudgeNo, JudgeYes
<1>2. CASE PassThrough
    BY <1>1, <1>2, KeepInv DEF PassThrough
<1>3. CASE JudgeNo
  <2>1. [Pending EXCEPT !.tier = 2] \in CheckpointResult
      BY <1>1 DEF CheckpointResult
  <2>2. [Pending EXCEPT !.tier = 2].kind = "tool_effect"
      BY <1>1, <1>3 DEF JudgeNo, Judgeable, CheckpointResult
  <2> QED BY <1>1, <1>3, <2>1, <2>2, KeepInv DEF JudgeNo
<1>4. ASSUME NEW claim \in Claims, JudgeYes(claim) PROVE IInv'
  <2> DEFINE r == [Pending EXCEPT !.passed = TRUE, !.tier = 2, !.step = ClaimedStep(claim)]
  <2>1. ClaimedStep(claim) \in 0..MaxSteps + 1
      BY SpecsAreSpecs DEF ClaimedStep, Claims, NoStep
  <2>2. r \in CheckpointResult
      BY <1>1, <2>1 DEF CheckpointResult
  <2>3. r.kind = "tool_effect"
      BY <1>1, <1>4 DEF JudgeYes, Judgeable, CheckpointResult
  <2>4. Keep(r) /\ Judgeable(Pending)
      BY <1>4 DEF JudgeYes
  <2> HIDE DEF r
  <2> QED BY <1>1, <2>2, <2>3, <2>4, KeepInv
<1> QED BY <1>2, <1>3, <1>4

LEMMA EndJudgeInv ==
    ASSUME IInv, EndJudge
    PROVE  IInv'
<1>1. /\ ev = Tier1 /\ JudgedSoFar /\ upgraded \in Seq(CheckpointResult)
      /\ Len(upgraded) \in Nat /\ Len(spec.checkpoints) \in Nat /\ ev \in Evaluations
      /\ Len(Tier1.results) = Len(spec.checkpoints)
    BY Tier1Parts DEF IInv, TypeOK, EndJudge
<1>2. Len(upgraded) = Len(spec.checkpoints)
    BY <1>1 DEF EndJudge, HasPending, JudgedSoFar
<1>3. Tier1' = Tier1
    BY DEF EndJudge, Tier1
<1>4. ev' = [ev EXCEPT !.results = upgraded, !.passed = Verdict(upgraded, ev.hits, ev.orderingOk)]
    BY DEF EndJudge, Rejudged
<1>5. Verdict(upgraded, ev.hits, ev.orderingOk) \in BOOLEAN
    BY DEF Verdict
<1>6. ev' \in Evaluations
    BY <1>1, <1>4, <1>5 DEF Evaluations
<1>7. TypeOK'
    BY <1>6 DEF IInv, TypeOK, EndJudge
<1>8. JudgedSoFar'
    BY <1>1, <1>3 DEF JudgedSoFar, EndJudge
<1>9. ev' = [Tier1' EXCEPT !.results = upgraded', !.passed = Verdict(upgraded', Tier1'.hits, Tier1'.orderingOk)]
    BY <1>1, <1>3, <1>4 DEF EndJudge
<1> QED BY <1>2, <1>7, <1>8, <1>9 DEF IInv, EndJudge

LEMMA NextInv ==
    ASSUME IInv, [Next]_vars
    PROVE  IInv'
<1>1. CASE UNCHANGED vars
  <2>1. Tier1' = Tier1 /\ TypeOK' /\ (JudgedSoFar => JudgedSoFar')
      BY <1>1 DEF vars, Tier1, TypeOK, JudgedSoFar, IInv
  <2> QED BY <1>1, <2>1 DEF IInv, vars
<1> QED BY <1>1, RunInv, EndRunInv, ScoreInv, StartJudgeInv, JudgeInv, EndJudgeInv DEF Next

\* Throughout a run, its evaluation and its judging the invariant holds.
THEOREM Invariance == Spec => []IInv
<1>1. Init => IInv
    BY InitInv
<1>2. IInv /\ [Next]_vars => IInv'
    BY NextInv
<1> QED BY <1>1, <1>2, PTL DEF Spec

-----------------------------------------------------------------------------
(* What the verdict means.                                                 *)

\* The results of an evaluation are those of tier 1 but for what the judge may
\* replace, and its verdict keeps tier 1's hits and order.
LEMMA EvaluationNow ==
    ASSUME IInv, Scored
    PROVE  /\ Len(ev.results) = Len(spec.checkpoints)
           /\ \A i \in 1..Len(spec.checkpoints) :
                \/ ev.results[i] = Tier1.results[i]
                \/ Judgeable(Tier1.results[i]) /\ ev.results[i].kind = "tool_effect"
           /\ ev.passed <=> Verdict(ev.results, Tier1.hits, Tier1.orderingOk)
<1>1. CASE phase \in {"scored", "judging"}
    BY <1>1, Tier1Parts DEF IInv
<1>2. CASE phase = "judged"
  <2>1. /\ ev = [Tier1 EXCEPT !.results = upgraded,
                             !.passed = Verdict(upgraded, Tier1.hits, Tier1.orderingOk)]
        /\ JudgedSoFar /\ Len(upgraded) = Len(spec.checkpoints)
      BY <1>2 DEF IInv
  <2>2. Tier1 \in Evaluations
      BY Tier1Parts, EvaluateTyped DEF IInv, Tier1
  <2>3. ev.results = upgraded /\ ev.passed = Verdict(upgraded, Tier1.hits, Tier1.orderingOk)
      BY <2>1, <2>2 DEF Evaluations
  <2> QED BY <2>1, <2>3 DEF JudgedSoFar
<1> QED BY <1>1, <1>2 DEF Scored

LEMMA OrderReal ==
    ASSUME IInv
    PROVE  PassedOrderIsReal
<1> SUFFICES ASSUME Scored, ev.passed, NEW oc \in spec.ordering
             PROVE  \E i \in Evidence(spec.checkpoints[oc[1]]),
                       j \in Evidence(spec.checkpoints[oc[2]]) : i < j
    BY DEF PassedOrderIsReal
<1>1. Tier1.orderingOk
    BY EvaluationNow DEF Verdict
<1>2. EvalOrdering(spec.ordering, Results(spec, steps, message)) /\ spec \in TaskSpec /\ Len(steps) \in Nat
    BY <1>1, Tier1Parts DEF IInv
<1>3. \E i \in EvidenceIn(spec.checkpoints[oc[1]], steps),
         j \in EvidenceIn(spec.checkpoints[oc[2]], steps) : i < j
    BY <1>2, OrderIsOfCalls
<1> QED BY <1>3 DEF Evidence, EvidenceIn

LEMMA ValuesGrounded ==
    ASSUME IInv
    PROVE  ValuesAreGrounded
<1> SUFFICES ASSUME Scored, NEW i \in 1..Len(ev.results),
                    ev.results[i].kind = "value_produced", ev.results[i].passed
             PROVE  Succeeded(steps) # {}
    BY DEF ValuesAreGrounded
<1>1. i \in 1..Len(spec.checkpoints) /\ ev.results[i] = Tier1.results[i]
    BY EvaluationNow
<1>2. ResultSound(Tier1.results[i], spec.checkpoints[i], steps)
    BY <1>1, Tier1Parts DEF IInv
<1> QED BY <1>1, <1>2 DEF ResultSound

LEMMA FlipsEffectsOnly ==
    ASSUME IInv
    PROVE  JudgeOnlyFlipsEffects
<1> SUFFICES ASSUME phase = "judged"
             PROVE  /\ Tier1.passed => ev.passed
                    /\ \A i \in Ids : ev.results[i] # Tier1.results[i] =>
                         /\ spec.checkpoints[i].kind = "tool_effect"
                         /\ ~Tier1.results[i].passed
    BY DEF JudgeOnlyFlipsEffects, Tier1
<1>1. /\ Len(ev.results) = Len(spec.checkpoints)
      /\ \A i \in 1..Len(spec.checkpoints) :
           ev.results[i] = Tier1.results[i] \/ Judgeable(Tier1.results[i])
      /\ ev.passed <=> Verdict(ev.results, Tier1.hits, Tier1.orderingOk)
    BY EvaluationNow DEF Scored
<1>2. /\ Len(Tier1.results) = Len(spec.checkpoints)
      /\ Tier1.passed <=> Verdict(Tier1.results, Tier1.hits, Tier1.orderingOk)
      /\ \A i \in 1..Len(spec.checkpoints) :
           ResultSound(Tier1.results[i], spec.checkpoints[i], steps)
    BY Tier1Parts DEF IInv
<1>3. Tier1.passed => ev.passed
    BY <1>1, <1>2 DEF Verdict, Judgeable
<1>4. ASSUME NEW i \in Ids, ev.results[i] # Tier1.results[i]
      PROVE  spec.checkpoints[i].kind = "tool_effect" /\ ~Tier1.results[i].passed
  <2>1. Judgeable(Tier1.results[i]) /\ ResultSound(Tier1.results[i], spec.checkpoints[i], steps)
      BY <1>1, <1>2, <1>4 DEF Ids
  <2>2. Tier1.results[i].kind = spec.checkpoints[i].kind
      BY <2>1 DEF ResultSound
  <2> QED BY <2>1, <2>2 DEF Judgeable
<1> QED BY <1>3, <1>4

\* An error is counted if a result of a kind that can pass failed, or the order.
LEMMA ErrorsCounted ==
    ASSUME NEW sp, NEW st, NEW rs, NEW orderingOk
    PROVE  ClassifyErrors(sp, st, rs, orderingOk) # {} <=>
              \/ \E i \in 1..Len(rs) : ~rs[i].passed /\ rs[i].kind \in {"tool_effect", "value_produced"}
              \/ ~orderingOk
<1> DEFINE failed(kind) == {i \in 1..Len(rs) : ~rs[i].passed /\ rs[i].kind = kind}
           effects == UNION {EffectError(sp, i, st) \X {i} : i \in failed("tool_effect")}
           values  == {<<"E3", i>> : i \in failed("value_produced")}
           order   == IF orderingOk THEN {} ELSE {<<"E5", NoStep>>}
<1>1. ClassifyErrors(sp, st, rs, orderingOk) = effects \cup values \cup order
    BY DEF ClassifyErrors
<1>2. effects # {} <=> failed("tool_effect") # {}
  <2>1. ASSUME NEW i \in failed("tool_effect") PROVE effects # {}
    <3>1. PICK code \in EffectError(sp, i, st) : TRUE
        BY EffectErrorCode
    <3>2. <<code, i>> \in effects
        BY <3>1
    <3> QED BY <3>2
  <2>2. failed("tool_effect") = {} => effects = {}
      OBVIOUS
  <2> QED BY <2>1, <2>2
<1>3. values # {} <=> failed("value_produced") # {}
    OBVIOUS
<1>4. order # {} <=> ~orderingOk
    OBVIOUS
<1>5. ClassifyErrors(sp, st, rs, orderingOk) # {} <=>
         failed("tool_effect") # {} \/ failed("value_produced") # {} \/ ~orderingOk
    BY <1>1, <1>2, <1>3, <1>4
<1> HIDE DEF effects, values, order
<1> QED BY <1>5

LEMMA FailureExplained ==
    ASSUME IInv
    PROVE  FailureIsExplained
<1> SUFFICES ASSUME phase = "scored"
             PROVE  ~Tier1.passed <=> Tier1.errors # {} \/ Tier1.hits # {} \/ Unobservable
    BY DEF FailureIsExplained, IInv
<1> DEFINE rs == Tier1.results
<1>1. /\ Len(rs) = Len(spec.checkpoints)
      /\ Tier1.passed <=> Verdict(rs, Tier1.hits, Tier1.orderingOk)
      /\ Tier1.orderingOk <=> EvalOrdering(spec.ordering, rs)
      /\ Tier1.errors = ClassifyErrors(spec, steps, rs, EvalOrdering(spec.ordering, rs))
    BY Tier1Parts DEF IInv
<1>2. ASSUME NEW i \in Ids
      PROVE  /\ rs[i].kind = spec.checkpoints[i].kind
             /\ rs[i].kind \in {"tool_effect", "value_produced", "state_condition"}
             /\ rs[i].kind = "state_condition" => ~rs[i].passed
  <2>1. ResultSound(rs[i], spec.checkpoints[i], steps) /\ spec \in TaskSpec
      BY Tier1Parts DEF IInv, Ids
  <2>2. spec.checkpoints[i] \in Checkpoint
      BY <2>1, SpecParts DEF Ids
  <2>3. rs[i].kind = spec.checkpoints[i].kind
      BY <2>1 DEF ResultSound
  <2> QED BY <2>1, <2>2, <2>3, KindOf DEF ResultSound
<1>3. Tier1.errors # {} <=>
         \/ \E i \in Ids : ~rs[i].passed /\ rs[i].kind \in {"tool_effect", "value_produced"}
         \/ ~Tier1.orderingOk
    BY <1>1, ErrorsCounted DEF Ids
<1>4. Unobservable <=> \E i \in Ids : rs[i].kind = "state_condition"
    BY <1>2 DEF Unobservable
<1>5. ~Tier1.passed <=> (\E i \in Ids : ~rs[i].passed) \/ Tier1.hits # {} \/ ~Tier1.orderingOk
    BY <1>1 DEF Verdict, Ids
<1> HIDE DEF rs
<1>6. (\E i \in Ids : ~rs[i].passed) <=>
         \/ \E i \in Ids : ~rs[i].passed /\ rs[i].kind \in {"tool_effect", "value_produced"}
         \/ \E i \in Ids : rs[i].kind = "state_condition"
    BY <1>2
<1> QED BY <1>3, <1>4, <1>5, <1>6

\* A run that passed did its steps in the spec's order, a value was earned by a
\* call that succeeded, and every failure has its reason, whatever the specs,
\* the agent and the judge (evaluator.py:244-254, 396-444; cli.py:2187-2191).
THEOREM VerdictIsSound == Spec => []VerdictSound
<1>1. IInv => VerdictSound
    BY OrderReal, ValuesGrounded, FailureExplained DEF VerdictSound, IInv
<1> QED BY <1>1, Invariance, PTL

\* No answers of the judge fail what tier 1 passed, nor change a result that is
\* not a failed tool_effect (judge.py:8-12).
THEOREM JudgeFlipsEffectsOnly == Spec => []JudgeOnlyFlipsEffects
<1>1. IInv => JudgeOnlyFlipsEffects
    BY FlipsEffectsOnly
<1> QED BY <1>1, Invariance, PTL

-----------------------------------------------------------------------------
(* The self-consistency checks nest.                                       *)

\* The set `tool_absent` flags is within the one `gold_unsatisfied` flags, of any
\* spec and trace.
LEMMA AbsentIsUnsatisfied ==
    ASSUME NEW sp, NEW st
    PROVE  ToolAbsent(sp, st) \subseteq GoldUnsatisfied(sp, st)
<1> SUFFICES ASSUME NEW i \in ToolAbsent(sp, st) PROVE i \in GoldUnsatisfied(sp, st)
    OBVIOUS
<1> DEFINE cp == sp.checkpoints[i]
<1>1. i \in ToolEffectIds(sp) /\ cp.equivalence \cap GoldToolSet(st) = {}
    BY DEF ToolAbsent
<1>2. ASSUME NEW k \in EffectCalls(cp, st) PROVE FALSE
  <2>1. k \in AgentCalls(st) /\ st[k].ref \in cp.equivalence
      BY <1>2 DEF EffectCalls
  <2>2. st[k].ref \in GoldToolSet(st)
      BY <2>1 DEF GoldToolSet
  <2> QED BY <1>1, <2>1, <2>2
<1> QED BY <1>1, <1>2 DEF GoldUnsatisfied

\* The gate flags what tier 1 fails and can observe.
LEMMA GateIsFailures ==
    ASSUME IInv
    PROVE  LET gate == ReferenceUnsatisfied(spec, steps, message) IN
           /\ gate = {i \in Ids : spec.checkpoints[i].kind # "state_condition" /\ ~Tier1.results[i].passed}
           /\ GoldUnsatisfied(spec, steps) \subseteq gate
<1> DEFINE gate == ReferenceUnsatisfied(spec, steps, message)
<1>1. spec \in TaskSpec /\ Len(steps) \in Nat
    BY Tier1Parts DEF IInv
<1>2. \A i \in Ids : Tier1.results[i] = EvalCheckpoint(spec.checkpoints[i], steps, message)
    BY <1>1, Tier1Parts, ResultParts DEF Ids, IInv
<1>3. gate = {i \in Ids : spec.checkpoints[i].kind # "state_condition" /\ ~Tier1.results[i].passed}
    BY <1>2 DEF ReferenceUnsatisfied, Ids
<1>4. ASSUME NEW i \in GoldUnsatisfied(spec, steps) PROVE i \in gate
  <2>1. /\ i \in Ids /\ spec.checkpoints[i].kind = "tool_effect"
        /\ EffectCalls(spec.checkpoints[i], steps) = {}
      BY DEF GoldUnsatisfied, ToolEffectIds, Ids
  <2>2. ResultSound(Tier1.results[i], spec.checkpoints[i], steps)
      BY <2>1, Tier1Parts DEF IInv, Ids
  <2>3. ~Tier1.results[i].passed
      BY <2>1, <2>2 DEF ResultSound
  <2> QED BY <1>3, <2>1, <2>3
<1> QED BY <1>3, <1>4

LEMMA Nesting ==
    ASSUME IInv
    PROVE  GatesNest
<1> DEFINE gate == ReferenceUnsatisfied(spec, steps, message)
<1> SUFFICES ASSUME phase = "scored"
             PROVE  /\ ToolAbsent(spec, steps) \subseteq GoldUnsatisfied(spec, steps)
                    /\ GoldUnsatisfied(spec, steps) \subseteq gate
                    /\ ev.passed <=> /\ gate = {} /\ ~Unobservable
                                     /\ ev.orderingOk /\ ev.hits = {}
    BY DEF GatesNest
<1>1. ev = Tier1
    BY DEF IInv
<1>2. /\ Len(Tier1.results) = Len(spec.checkpoints)
      /\ Tier1.passed <=> Verdict(Tier1.results, Tier1.hits, Tier1.orderingOk)
      /\ \A i \in 1..Len(spec.checkpoints) :
           ResultSound(Tier1.results[i], spec.checkpoints[i], steps)
    BY Tier1Parts DEF IInv
<1>3. /\ gate = {i \in Ids : spec.checkpoints[i].kind # "state_condition" /\ ~Tier1.results[i].passed}
      /\ GoldUnsatisfied(spec, steps) \subseteq gate
    BY GateIsFailures
<1> HIDE DEF gate
<1>4. (\A i \in Ids : Tier1.results[i].passed) <=> gate = {} /\ ~Unobservable
  <2>1. \A i \in Ids : spec.checkpoints[i].kind = "state_condition" => ~Tier1.results[i].passed
      BY <1>2 DEF ResultSound, Ids
  <2> QED BY <1>3, <2>1 DEF Unobservable
<1>5. Tier1.passed <=> /\ gate = {} /\ ~Unobservable
                      /\ Tier1.orderingOk /\ Tier1.hits = {}
    BY <1>2, <1>4 DEF Verdict, Ids
<1> QED BY <1>1, <1>3, <1>5, AbsentIsUnsatisfied

\* For any spec and reference the three checks nest, and the gate decides the
\* tier-1 verdict but for order, minefields and the unobservable
\* (evaluator.py:586-637).
THEOREM ChecksNest == Spec => []GatesNest
<1>1. IInv => GatesNest
    BY Nesting
<1> QED BY <1>1, Invariance, PTL

-----------------------------------------------------------------------------
(* Further calls.                                                          *)

\* One more call adds at most itself to what was called, succeeded or matched.
LEMMA OneMoreCall ==
    ASSUME NEW st \in Seq(TraceStep), NEW step \in TraceStep, NEW cp
    PROVE  LET more == Append(st, step) new == {Len(st) + 1} IN
           /\ AgentCalls(st) \subseteq AgentCalls(more)
           /\ AgentCalls(more) \subseteq AgentCalls(st) \cup new
           /\ Succeeded(st) \subseteq Succeeded(more)
           /\ Succeeded(more) \subseteq Succeeded(st) \cup new
           /\ EffectCalls(cp, st) \subseteq EffectCalls(cp, more)
           /\ EffectCalls(cp, more) \subseteq EffectCalls(cp, st) \cup new
           /\ ValueCalls(cp, st) \subseteq ValueCalls(cp, more)
           /\ ValueCalls(cp, more) \subseteq ValueCalls(cp, st) \cup new
<1> DEFINE more == Append(st, step)
           new  == {Len(st) + 1}
<1>1. /\ Len(st) \in Nat /\ Len(more) = Len(st) + 1
      /\ \A i \in 1..Len(st) : more[i] = st[i]
    OBVIOUS
<1>2. 1..Len(more) = 1..Len(st) \cup new /\ 1..Len(st) \cap new = {}
    BY <1>1
<1> HIDE DEF more, new
<1>3. AgentCalls(st) \subseteq AgentCalls(more) /\ AgentCalls(more) \subseteq AgentCalls(st) \cup new
    BY <1>1, <1>2 DEF AgentCalls
<1>4. \A i \in AgentCalls(st) : i \in 1..Len(st) /\ more[i] = st[i]
    BY <1>1 DEF AgentCalls
<1>5. Succeeded(st) \subseteq Succeeded(more) /\ Succeeded(more) \subseteq Succeeded(st) \cup new
    BY <1>3, <1>4 DEF Succeeded
<1>6. Succeeded(st) \subseteq AgentCalls(st)
    BY DEF Succeeded
<1>7. EffectCalls(cp, st) \subseteq EffectCalls(cp, more) /\ EffectCalls(cp, more) \subseteq EffectCalls(cp, st) \cup new
    BY <1>3, <1>4 DEF EffectCalls
<1>8. ValueCalls(cp, st) \subseteq ValueCalls(cp, more) /\ ValueCalls(cp, more) \subseteq ValueCalls(cp, st) \cup new
    BY <1>4, <1>5, <1>6 DEF ValueCalls
<1> QED BY <1>3, <1>5, <1>7, <1>8 DEF more, new

\* A match that was first stays first.
LEMMA FirstStays ==
    ASSUME NEW kind, NEW n \in Nat, NEW S, NEW T, S # {}, S \subseteq T, S \subseteq 1..n,
           T \subseteq S \cup {n + 1}
    PROVE  FirstOf(kind, T) = FirstOf(kind, S)
<1>1. Min(T) = Min(S) /\ T # {}
    BY MinKept
<1>2. FirstOf(kind, S) = Result(kind, TRUE, Min(S))
    BY DEF FirstOf
<1>3. FirstOf(kind, T) = Result(kind, TRUE, Min(T))
    BY <1>1 DEF FirstOf
<1> QED BY <1>1, <1>2, <1>3

\* A checkpoint that has passed is not looked at differently after one more call.
LEMMA PassedStays ==
    ASSUME NEW st \in Seq(TraceStep), NEW step \in TraceStep, NEW cp \in Checkpoint,
           EvalCheckpoint(cp, st, NoText).passed
    PROVE  EvalCheckpoint(cp, Append(st, step), NoText) = EvalCheckpoint(cp, st, NoText)
<1> DEFINE more == Append(st, step)
<1>1. /\ Succeeded(st) \subseteq Succeeded(more)
      /\ EffectCalls(cp, st) \subseteq EffectCalls(cp, more)
      /\ EffectCalls(cp, more) \subseteq EffectCalls(cp, st) \cup {Len(st) + 1}
      /\ ValueCalls(cp, st) \subseteq ValueCalls(cp, more)
      /\ ValueCalls(cp, more) \subseteq ValueCalls(cp, st) \cup {Len(st) + 1}
    BY OneMoreCall
<1>2. Len(st) \in Nat /\ EvidenceIn(cp, st) \subseteq 1..Len(st)
    BY EvidenceIsCalls
<1> HIDE DEF more
<1>3. CASE cp.kind = "tool_effect"
  <2>1. /\ EvalCheckpoint(cp, st, NoText) = FirstOf(cp.kind, EffectCalls(cp, st))
        /\ EvalCheckpoint(cp, more, NoText) = FirstOf(cp.kind, EffectCalls(cp, more))
        /\ EffectCalls(cp, st) \subseteq 1..Len(st)
      BY <1>2, <1>3 DEF EvalCheckpoint, EvidenceIn
  <2>2. EffectCalls(cp, st) # {}
      BY <1>2, <2>1, FirstOfCalls
  <2> QED BY <1>1, <1>2, <2>1, <2>2, FirstStays, ZenonT(60) DEF more
<1>4. CASE cp.kind = "value_produced" /\ cp.scope # "final_assistant_message"
  <2>1. /\ EvalCheckpoint(cp, st, NoText) = FirstOf(cp.kind, ValueCalls(cp, st))
        /\ EvalCheckpoint(cp, more, NoText) = FirstOf(cp.kind, ValueCalls(cp, more))
        /\ ValueCalls(cp, st) \subseteq 1..Len(st)
      BY <1>2, <1>4 DEF EvalCheckpoint, EvidenceIn
  <2>2. ValueCalls(cp, st) # {}
      BY <1>2, <2>1, FirstOfCalls
  <2> QED BY <1>1, <1>2, <2>1, <2>2, FirstStays, ZenonT(60) DEF more
<1>5. CASE cp.kind = "value_produced" /\ cp.scope = "final_assistant_message"
  <2>1. /\ EvalCheckpoint(cp, st, NoText) = FinalValue(cp, st, NoText)
        /\ EvalCheckpoint(cp, more, NoText) = FinalValue(cp, more, NoText)
      BY <1>5 DEF EvalCheckpoint
  <2>2. NoText \in cp.texts /\ Succeeded(st) # {}
    <3> DEFINE shown == NoText \in cp.texts /\ Succeeded(st) # {}
    <3>1. FinalValue(cp, st, NoText) = Result(cp.kind, shown, NoStep)
        BY DEF FinalValue
    <3>2. shown \in BOOLEAN /\ NoStep \in 0..Len(st)
        BY <1>2 DEF NoStep
    <3>3. Result(cp.kind, shown, NoStep).passed = shown
      <4> HIDE DEF shown
      <4> QED BY <1>2, <3>2, ResultFields
    <3> QED BY <2>1, <3>1, <3>3
  <2>3. Succeeded(more) # {}
      BY <1>1, <2>2
  <2> QED BY <2>1, <2>2, <2>3 DEF FinalValue, more
<1>6. CASE cp.kind = "state_condition"
    BY <1>2, <1>6, CheckpointResults DEF ResultSound
<1> QED BY <1>3, <1>4, <1>5, <1>6, KindOf

\* What names a call has passed.
LEMMA StepMeansPassed ==
    ASSUME NEW st, Len(st) \in Nat, NEW cp \in Checkpoint, NEW msg,
           EvalCheckpoint(cp, st, msg).step \in EvidenceIn(cp, st)
    PROVE  EvalCheckpoint(cp, st, msg).passed
<1>1. EvidenceIn(cp, st) \subseteq 1..Len(st) /\ EvidenceIn(cp, st) # {}
    BY EvidenceIsCalls
<1>2. CASE cp.kind = "tool_effect"
    BY <1>1, <1>2, CheckpointResults DEF ResultSound, EvidenceIn
<1>3. CASE cp.kind = "value_produced" /\ cp.scope # "final_assistant_message"
  <2>1. /\ EvalCheckpoint(cp, st, msg) = FirstOf(cp.kind, ValueCalls(cp, st))
        /\ EvidenceIn(cp, st) = ValueCalls(cp, st)
      BY <1>3 DEF EvalCheckpoint, EvidenceIn
  <2> QED BY <1>1, <2>1, FirstOfCalls
<1>4. CASE cp.kind = "value_produced" /\ cp.scope = "final_assistant_message"
  <2>1. EvalCheckpoint(cp, st, msg).step = NoStep
      BY <1>4 DEF EvalCheckpoint, FinalValue, Result
  <2> QED BY <1>1, <2>1 DEF NoStep
<1>5. CASE cp.kind = "state_condition"
    BY <1>1, <1>5 DEF EvidenceIn
<1> QED BY <1>2, <1>3, <1>4, <1>5, KindOf

LEMMA CallUndoesNothing ==
    ASSUME IInv, NEW step \in TraceStep, Call(step)
    PROVE  /\ \A i \in Ids : Now.results[i].passed => Now'.results[i] = Now.results[i]
           /\ Now.hits \subseteq Now'.hits
           /\ Now.orderingOk => Now'.orderingOk
<1>1. /\ spec \in TaskSpec /\ steps \in Seq(TraceStep) /\ steps' = Append(steps, step)
      /\ spec' = spec /\ steps' \in Seq(TraceStep) /\ Len(steps) \in Nat /\ Len(steps') \in Nat
    BY SpecsAreSpecs DEF IInv, TypeOK, Call
<1> DEFINE old == Results(spec, steps, NoText)
           new == Results(spec, steps', NoText)
<1>2. /\ Now.results = old /\ Now'.results = new
      /\ Now.hits = HitsOf(spec, steps) /\ Now'.hits = HitsOf(spec, steps')
      /\ Now.orderingOk <=> EvalOrdering(spec.ordering, old)
      /\ Now'.orderingOk <=> EvalOrdering(spec.ordering, new)
    BY <1>1, EvaluateParts DEF Now
<1>3. Len(old) = Len(spec.checkpoints) /\ Len(new) = Len(spec.checkpoints)
    BY <1>1, ResultParts
<1>4. ASSUME NEW i \in Ids, old[i].passed PROVE new[i] = old[i]
  <2>1. /\ old[i] = EvalCheckpoint(spec.checkpoints[i], steps, NoText)
        /\ new[i] = EvalCheckpoint(spec.checkpoints[i], steps', NoText)
        /\ spec.checkpoints[i] \in Checkpoint
      BY <1>1, ResultParts, SpecParts DEF Ids
  <2> HIDE DEF old, new
  <2> QED BY <1>1, <1>4, <2>1, PassedStays
<1>5. HitsOf(spec, steps) \subseteq HitsOf(spec, steps')
  <2>1. AgentCalls(steps) \subseteq AgentCalls(steps')
      BY <1>1, OneMoreCall
  <2>2. \A i \in AgentCalls(steps) : steps'[i] = steps[i]
      BY <1>1 DEF AgentCalls
  <2> QED BY <2>1, <2>2 DEF HitsOf, Tripped
<1>6. ASSUME EvalOrdering(spec.ordering, old) PROVE EvalOrdering(spec.ordering, new)
  <2> SUFFICES ASSUME NEW oc \in spec.ordering
               PROVE  MatchedAt(new, oc[1]) = MatchedAt(old, oc[1])
                      /\ MatchedAt(new, oc[2]) = MatchedAt(old, oc[2])
      BY <1>6 DEF EvalOrdering
  <2>1. \A k \in {oc[1], oc[2]} :
           k \in Ids /\ old[k].step \in EvidenceIn(spec.checkpoints[k], steps)
      BY <1>1, <1>6, OrderIsOfCalls DEF Ids
  <2>2. \A k \in {oc[1], oc[2]} : old[k].passed
    <3> SUFFICES ASSUME NEW k \in {oc[1], oc[2]} PROVE old[k].passed
        OBVIOUS
    <3>1. old[k] = EvalCheckpoint(spec.checkpoints[k], steps, NoText) /\ spec.checkpoints[k] \in Checkpoint
        BY <1>1, <2>1, ResultParts, SpecParts DEF Ids
    <3>2. old[k].step \in EvidenceIn(spec.checkpoints[k], steps)
        BY <2>1
    <3> HIDE DEF old
    <3> QED BY <1>1, <3>1, <3>2, StepMeansPassed
  <2> QED BY <1>3, <1>4, <2>1, <2>2 DEF MatchedAt
<1> QED BY <1>2, <1>4, <1>5, <1>6

\* Whatever the agent still does, for any spec: what is passed stays passed by
\* the same call, an order that holds holds, a mine that went off has gone off
\* (evaluator.py:204-221, 321-335, 348-368).
THEOREM CallsUndoNothing == Spec => FurtherCallsUndoNothing
<1> DEFINE Undone == phase = "running" =>
             /\ \A i \in Ids : Now.results[i].passed => Now'.results[i] = Now.results[i]
             /\ Now.hits \subseteq Now'.hits
             /\ Now.orderingOk => Now'.orderingOk
<1>1. ASSUME IInv, [Next]_vars PROVE Undone \/ UNCHANGED vars
  <2>1. ASSUME NEW step \in TraceStep, Call(step) PROVE Undone
      BY <1>1, <2>1, CallUndoesNothing
  <2>2. ASSUME NEW text \in Texts \cup {NoText}, EndRun(text) PROVE Undone
    <3>1. Now' = Now
        BY <2>2 DEF EndRun, Now
    <3> QED BY <3>1
  <2>3. CASE phase # "running"
      BY <2>3
  <2> HIDE DEF Undone
  <2>4. ASSUME Score \/ StartJudge \/ PassThrough \/ JudgeNo \/ EndJudge
        PROVE  phase # "running"
      BY <2>4 DEF Score, StartJudge, PassThrough, JudgeNo, EndJudge
  <2>5. ASSUME NEW claim \in Claims, JudgeYes(claim) PROVE phase # "running"
      BY <2>5 DEF JudgeYes
  <2> QED BY <1>1, <2>1, <2>2, <2>3, <2>4, <2>5 DEF Next
<1>2. IInv /\ [Next]_vars => [Undone]_vars
    BY <1>1
<1>3. [][Undone]_vars => FurtherCallsUndoNothing
    BY DEF FurtherCallsUndoNothing
<1> HIDE DEF Undone
<1> QED BY <1>2, <1>3, Invariance, PTL DEF Spec

-----------------------------------------------------------------------------
LEMMA SuccessesAreCalls ==
    ASSUME NEW st
    PROVE  Succeeded(st) \subseteq 1..Len(st)
BY DEF Succeeded, AgentCalls

\* A call is in a trace, and a call that succeeded is one with its ok set.
LEMMA LiveCalls ==
    ASSUME NEW st \in Seq(LiveCall)
    PROVE  /\ Len(st) \in Nat /\ AgentCalls(st) = 1..Len(st)
           /\ Succeeded(st) = {i \in 1..Len(st) : st[i].ok}
           /\ \A i \in 1..Len(st) :
                /\ st[i] \in [kind : {"call_tool_agent"}, ref : Refs, args : Args,
                             ok : BOOLEAN, text : Texts \cup {NoText}]
                /\ st[i].ok \/ st[i].text = NoText
<1>1. \A i \in 1..Len(st) : st[i] \in LiveCall
    OBVIOUS
<1> QED BY <1>1 DEF LiveCall, AgentCall, AgentCalls, Succeeded

-----------------------------------------------------------------------------
(* The cache holds the first success of every call.                        *)

LEMMA FirstIsCached ==
    ASSUME ReplayTypeOK, cache = FirstResults, NEW k \in Cacheable
    PROVE  \E i \in cache : /\ i <= k
                            /\ reference[i].ref = reference[k].ref
                            /\ reference[i].args = reference[k].args
<1> DEFINE same == {i \in Cacheable : SameKey(i, k)}
<1>1. Cacheable \subseteq Nat
    BY SuccessesAreCalls DEF Cacheable
<1>2. k \in same
    BY DEF SameKey
<1>3. Min(same) \in same /\ \A y \in same : Min(same) <= y
    BY <1>1, <1>2, MinOfNats
<1>4. PICK m \in same : \A y \in same : m <= y
    BY <1>3
<1>5. m \in FirstResults
    BY <1>1, <1>4 DEF FirstResults, SameKey
<1> QED BY <1>2, <1>4, <1>5 DEF SameKey

LEMMA CacheIsFirst ==
    ASSUME ReplayTypeOK, cache = FirstResults, NEW i \in cache, NEW k \in Cacheable,
           reference[i].ref = reference[k].ref, reference[i].args = reference[k].args
    PROVE  i \in Cacheable /\ i <= k
    BY SuccessesAreCalls DEF FirstResults, SameKey, Cacheable

\* The call of tier 2 is one that is near.
LEMMA ClosestIsNear ==
    ASSUME ReplayTypeOK, NEW ref, NEW args \in Args, Near(ref, args) # {}
    PROVE  Closest(ref, args) \in Near(ref, args)
<1> DEFINE near  == Near(ref, args)
           gap(i) == Full - Likeness(args, i)
           best   == {i \in near : \A j \in near : Likeness(args, j) <= Likeness(args, i)}
<1>1. near \subseteq cache /\ cache \subseteq 1..Len(reference) /\ reference \in Seq(LiveCall)
    BY SuccessesAreCalls DEF Near, ReplayTypeOK
<1>2. \A i \in near : reference[i].args \in Args
  <2>1. \A i \in 1..Len(reference) : reference[i].args \in Args
      BY <1>1, LiveCalls
  <2> QED BY <1>1, <2>1
<1>3. \A i \in near : Likeness(args, i) \in 0..Full /\ gap(i) \in Nat
    BY <1>2, Similarities DEF Likeness
<1>4. PICK i \in near : \A j \in near : gap(i) <= gap(j)
  <2> DEFINE gaps == {gap(i) : i \in near}
  <2>1. gaps \subseteq Nat /\ gaps # {}
      BY <1>3
  <2>2. Min(gaps) \in gaps /\ \A y \in gaps : Min(gaps) <= y
    <3> HIDE DEF gaps
    <3> QED BY <2>1, MinOfNats
  <2>3. PICK i \in near : gap(i) = Min(gaps)
      BY <2>2
  <2>4. \A j \in near : gap(j) \in gaps
      OBVIOUS
  <2> QED BY <2>2, <2>3, <2>4
<1>5. i \in best
  <2>1. ASSUME NEW j \in near
        PROVE  Likeness(args, j) <= Likeness(args, i)
    <3>1. /\ Likeness(args, j) \in 0..Full
          /\ Likeness(args, i) \in 0..Full
          /\ gap(i) <= gap(j)
        BY <1>3, <1>4
    <3> QED BY <3>1, Similarities
  <2> QED BY <2>1
<1>6. best \subseteq near /\ best # {}
    BY <1>5
<1>7. 1..Len(reference) \subseteq Nat
    OBVIOUS
<1> HIDE DEF near, best
<1>8. Min(best) \in best
    BY <1>1, <1>6, <1>7, MinOfNats
<1>9. Closest(ref, args) = Min(best)
    BY DEF Closest, Min, best, near
<1> QED BY <1>6, <1>8, <1>9 DEF near

-----------------------------------------------------------------------------
(* Every step of a replay is a step of the evaluation it is part of.       *)

LEMMA LiveIsTraceStep == LiveCall \subseteq TraceStep
    BY DEF LiveCall, TraceStep

\* However a call is served, one step is recorded, and the cache explains it.
LEMMA ServedCall ==
    ASSUME ReplayIInv, NEW ref \in Refs, NEW args \in Args,
           \/ ServeExact(ref, args)
           \/ ServeClosest(ref, args)
           \/ \E text \in Texts \cup {NoText} : Simulate(ref, args, text)
           \/ Miss(ref, args)
    PROVE  \E c \in LiveCall, tier \in 0..3 :
             /\ ~recording /\ Call(c) /\ tiers' = Append(tiers, tier) /\ UNCHANGED world
             /\ Answered(c, tier)
<1> DEFINE c(ok, text) == [kind |-> "call_tool_agent", ref |-> ref, args |-> args,
                           ok |-> ok, text |-> text]
           Served(step, tier) ==
             /\ ~recording /\ Call(step) /\ tiers' = Append(tiers, tier) /\ UNCHANGED world
             /\ Answered(step, tier)
<1>1. \A text \in Texts \cup {NoText} : c(TRUE, text) \in LiveCall
    BY DEF LiveCall, AgentCall
<1>2. c(FALSE, NoText) \in LiveCall
    BY DEF LiveCall, AgentCall
<1>3. \A k \in cache : reference[k].text \in Texts \cup {NoText}
  <2>1. ReplayTypeOK /\ cache \subseteq 1..Len(reference) /\ reference \in Seq(LiveCall)
      BY SuccessesAreCalls DEF ReplayIInv, ReplayTypeOK
  <2> QED BY <2>1, LiveCalls
<1>4. ASSUME ServeExact(ref, args) PROVE \E step \in LiveCall, tier \in 0..3 : Served(step, tier)
  <2>1. PICK k \in Exact(ref, args) :
           /\ Call(c(TRUE, reference[k].text)) /\ tiers' = Append(tiers, 1)
           /\ ~recording /\ UNCHANGED world
      BY <1>4 DEF ServeExact, Answer
  <2>2. reference[k].text \in Texts \cup {NoText}
      BY <1>3 DEF Exact
  <2>3. Answered(c(TRUE, reference[k].text), 1)
      BY DEF Answered
  <2>4. c(TRUE, reference[k].text) \in LiveCall /\ 1 \in 0..3
      BY <1>1, <2>2
  <2>5. Served(c(TRUE, reference[k].text), 1)
      BY <2>1, <2>3
  <2> HIDE DEF Served, c
  <2> QED BY <2>4, <2>5
<1>5. ASSUME ServeClosest(ref, args) PROVE \E step \in LiveCall, tier \in 0..3 : Served(step, tier)
  <2> DEFINE text == reference[Closest(ref, args)].text
  <2>1. /\ Call(c(TRUE, text)) /\ tiers' = Append(tiers, 2)
        /\ ~recording /\ UNCHANGED world
        /\ Exact(ref, args) = {} /\ Near(ref, args) # {}
      BY <1>5 DEF ServeClosest, Answer
  <2>2. Closest(ref, args) \in Near(ref, args)
      BY <2>1, ClosestIsNear DEF ReplayIInv
  <2>3. text \in Texts \cup {NoText}
      BY <1>3, <2>2 DEF Near
  <2>4. Answered(c(TRUE, text), 2)
      BY <2>1 DEF Answered
  <2>5. c(TRUE, text) \in LiveCall /\ 2 \in 0..3
      BY <1>1, <2>3
  <2>6. Served(c(TRUE, text), 2)
      BY <2>1, <2>4
  <2> HIDE DEF text, c, Served
  <2> QED BY <2>5, <2>6
<1>6. ASSUME NEW text \in Texts \cup {NoText}, Simulate(ref, args, text)
      PROVE  \E step \in LiveCall, tier \in 0..3 : Served(step, tier)
  <2>1. /\ Call(c(TRUE, text)) /\ tiers' = Append(tiers, 3)
        /\ ~recording /\ UNCHANGED world
        /\ Exact(ref, args) = {} /\ Near(ref, args) = {} /\ simulator
      BY <1>6 DEF Simulate, Answer, Uncached
  <2>2. Answered(c(TRUE, text), 3)
      BY <2>1 DEF Answered
  <2>3. c(TRUE, text) \in LiveCall /\ 3 \in 0..3
      BY <1>1
  <2>4. Served(c(TRUE, text), 3)
      BY <2>1, <2>2
  <2> HIDE DEF c, Served
  <2> QED BY <2>3, <2>4
<1>7. ASSUME Miss(ref, args) PROVE \E step \in LiveCall, tier \in 0..3 : Served(step, tier)
  <2>1. /\ Call(c(FALSE, NoText)) /\ tiers' = Append(tiers, 0)
        /\ ~recording /\ UNCHANGED world
        /\ Exact(ref, args) = {} /\ Near(ref, args) = {} /\ ~simulator
      BY <1>7 DEF Miss, Answer, Uncached
  <2>2. Answered(c(FALSE, NoText), 0)
      BY <2>1 DEF Answered
  <2>3. c(FALSE, NoText) \in LiveCall /\ 0 \in 0..3
      BY <1>2
  <2>4. Served(c(FALSE, NoText), 0)
      BY <2>1, <2>2
  <2> HIDE DEF c, Served
  <2> QED BY <2>3, <2>4
<1> QED BY <1>4, <1>5, <1>6, <1>7

LEMMA StepEvaluates ==
    ASSUME ReplayIInv, [ReplayNext]_replayVars
    PROVE  [Next]_vars
<1>1. CASE \/ \E step \in LiveCall : LiveStep(step)
           \/ Open
           \/ UNCHANGED replayVars
    BY <1>1 DEF LiveStep, Open, replayVars
<1>2. CASE FinishRun
    BY <1>2 DEF FinishRun, Next
<1>3. ASSUME NEW c \in LiveCall, Call(c) PROVE Next
    BY <1>3, LiveIsTraceStep DEF Next
<1>4. ASSUME NEW ref \in Refs, NEW args \in Args,
             \/ ServeExact(ref, args)
             \/ ServeClosest(ref, args)
             \/ \E text \in Texts \cup {NoText} : Simulate(ref, args, text)
             \/ Miss(ref, args)
      PROVE  Next
    BY <1>3, <1>4, ServedCall
<1> QED BY <1>1, <1>2, <1>4 DEF ReplayNext

-----------------------------------------------------------------------------
(* The invariant of Replay.                                                *)

LEMMA RecordingInv ==
    ASSUME ReplayIInv, IInv', (\E step \in LiveCall : LiveStep(step)) \/ Open
    PROVE  ReplayIInv'
<1>1. /\ ReplayTypeOK /\ TypeOK' /\ recording /\ steps = <<>> /\ steps' = <<>> /\ tiers' = tiers
      /\ phase' = "running" /\ UNCHANGED simulator
    BY DEF ReplayIInv, IInv, LiveStep, Open, vars
<1>2. reference' \in Seq(LiveCall) /\ recording' \in BOOLEAN /\ bare' \subseteq 1..Len(reference')
  <2>1. reference \in Seq(LiveCall) /\ bare \subseteq 1..Len(reference)
      BY <1>1 DEF ReplayTypeOK
  <2>2. CASE Open
      BY <2>1, <2>2 DEF Open
  <2>3. ASSUME NEW step \in LiveCall, LiveStep(step)
        PROVE  reference' \in Seq(LiveCall) /\ recording' \in BOOLEAN /\ bare' \subseteq 1..Len(reference')
    <3>1. /\ reference' = Append(reference, step) /\ recording' \in BOOLEAN
          /\ bare' \subseteq bare \cup {Len(reference) + 1}
        BY <1>1, <2>3 DEF LiveStep
    <3>2. reference' \in Seq(LiveCall) /\ Len(reference') = Len(reference) + 1 /\ Len(reference) \in Nat
        BY <2>1, <3>1
    <3> QED BY <2>1, <3>1, <3>2
  <2> QED BY <2>2, <2>3
<1>3. CASE Open
  <2>1. cache' = FirstResults /\ UNCHANGED <<reference, bare>> /\ ~recording'
      BY <1>3 DEF Open
  <2>2. FirstResults' = FirstResults
      BY <2>1 DEF FirstResults, Cacheable, SameKey
  <2>3. cache' \subseteq Succeeded(reference')
      BY <2>1 DEF FirstResults, Cacheable
  <2>4. ReplayTypeOK'
      BY <1>1, <1>2, <2>3 DEF ReplayTypeOK
  <2> QED BY <1>1, <2>1, <2>2, <2>4 DEF ReplayIInv, Calls
<1>4. CASE \E step \in LiveCall : LiveStep(step)
  <2>1. cache' = {} /\ recording'
      BY <1>4 DEF LiveStep, ReplayIInv
  <2>2. ReplayTypeOK'
      BY <1>1, <1>2, <2>1 DEF ReplayTypeOK
  <2> QED BY <1>1, <2>1, <2>2 DEF ReplayIInv, Calls
<1> QED BY <1>3, <1>4

\* What explains an answer stays as long as the cache does.
LEMMA StaysAnswered ==
    ASSUME UNCHANGED <<simulator, reference, cache>>, NEW i, NEW x, NEW t, Answered(x, t),
           steps'[i] = x, tiers'[i] = t
    PROVE  Answered(steps[i], tiers[i])'
<1>1. Exact(steps[i].ref, steps[i].args)' = Exact(x.ref, x.args)
    BY DEF Exact
<1>2. Near(steps[i].ref, steps[i].args)' = Near(x.ref, x.args)
    BY DEF Near, Likeness
<1>3. Closest(steps[i].ref, steps[i].args)' = Closest(x.ref, x.args)
    BY <1>2 DEF Closest, Likeness
<1> QED BY <1>1, <1>2, <1>3 DEF Answered

LEMMA AnswerInv ==
    ASSUME ReplayIInv, IInv', NEW c \in LiveCall, NEW tier \in 0..3, Answered(c, tier),
           ~recording, steps' = Append(steps, c), tiers' = Append(tiers, tier),
           UNCHANGED world
    PROVE  ReplayIInv'
<1>1. UNCHANGED <<recording, simulator, reference, bare, cache>> /\ TypeOK'
    BY DEF world, IInv
<1>2. /\ steps \in Seq(LiveCall) /\ tiers \in Seq(0..3) /\ Len(tiers) = Len(steps) /\ Len(steps) \in Nat
    BY DEF ReplayIInv, ReplayTypeOK
<1>3. /\ steps' \in Seq(LiveCall) /\ tiers' \in Seq(0..3)
      /\ Len(steps') = Len(steps) + 1 /\ Len(tiers') = Len(steps) + 1
      /\ \A i \in 1..Len(steps) : steps'[i] = steps[i] /\ tiers'[i] = tiers[i]
      /\ steps'[Len(steps) + 1] = c /\ tiers'[Len(steps) + 1] = tier
    BY <1>2
<1>4. ReplayTypeOK'
    BY <1>1, <1>3 DEF ReplayIInv, ReplayTypeOK
<1>5. ASSUME NEW i \in 1..Len(steps') PROVE Answered(steps[i], tiers[i])'
  <2>1. CASE i \in 1..Len(steps)
    <3>1. Answered(steps[i], tiers[i])
        BY <2>1 DEF ReplayIInv, Calls
    <3> QED BY <1>1, <1>3, <2>1, <3>1, StaysAnswered
  <2>2. CASE i = Len(steps) + 1
      BY <1>1, <1>3, <2>2, StaysAnswered
  <2> QED BY <1>2, <1>3, <2>1, <2>2
<1>6. cache' = FirstResults'
    BY <1>1 DEF ReplayIInv, FirstResults, Cacheable, SameKey
<1> QED BY <1>1, <1>4, <1>5, <1>6 DEF ReplayIInv, Calls

\* The world and the calls stay as they are once the candidate is done.
LEMMA FinishInv ==
    ASSUME ReplayIInv, IInv', UNCHANGED <<steps, tiers, world>>, recording => phase' = phase
    PROVE  ReplayIInv'
<1>1. UNCHANGED <<recording, simulator, reference, bare, cache, steps, tiers>> /\ TypeOK'
    BY DEF world, IInv
<1>2. ReplayTypeOK' /\ FirstResults' = FirstResults
    BY <1>1 DEF ReplayIInv, ReplayTypeOK, FirstResults, Cacheable, SameKey
<1>3. ASSUME NEW i \in 1..Len(steps') PROVE Answered(steps[i], tiers[i])'
    BY <1>1, StaysAnswered DEF ReplayIInv, Calls
<1> QED BY <1>1, <1>2, <1>3 DEF ReplayIInv, Calls

LEMMA ReplayStepInv ==
    ASSUME ReplayIInv, [ReplayNext]_replayVars
    PROVE  ReplayIInv'
<1>1. IInv'
    BY StepEvaluates, NextInv DEF ReplayIInv
<1>2. CASE FinishRun
    BY <1>1, <1>2, FinishInv DEF FinishRun, EndRun, Score
<1>3. CASE UNCHANGED replayVars
    BY <1>1, <1>3, FinishInv DEF replayVars, vars
<1>4. ASSUME NEW c \in LiveCall, NEW tier \in 0..3, ~recording, Call(c),
             tiers' = Append(tiers, tier), UNCHANGED world, Answered(c, tier)
      PROVE  ReplayIInv'
    BY <1>1, <1>4, AnswerInv DEF Call
<1>5. ASSUME NEW ref \in Refs, NEW args \in Args,
             \/ ServeExact(ref, args)
             \/ ServeClosest(ref, args)
             \/ \E text \in Texts \cup {NoText} : Simulate(ref, args, text)
             \/ Miss(ref, args)
      PROVE  ReplayIInv'
    BY <1>4, <1>5, ServedCall
<1> QED BY <1>1, <1>2, <1>3, <1>5, RecordingInv DEF ReplayNext

LEMMA ReplayInitInv == ReplayInit => ReplayIInv
<1> SUFFICES ASSUME ReplayInit PROVE ReplayIInv
    OBVIOUS
<1>1. IInv /\ TypeOK
    BY InitInv DEF ReplayInit, IInv
<1> QED BY <1>1 DEF ReplayInit, Init, ReplayIInv, ReplayTypeOK, Calls

\* Throughout a replay every answer is explained by the cache.
THEOREM ReplayInvariance == ReplaySpec => []ReplayIInv
<1>1. ReplayInit => ReplayIInv
    BY ReplayInitInv
<1>2. ReplayIInv /\ [ReplayNext]_replayVars => ReplayIInv'
    BY ReplayStepInv
<1> QED BY <1>1, <1>2, PTL DEF ReplaySpec

\* A candidate that faces the recorded world is evaluated as any other: replay
\* refines Evaluation, whose judge never acts here (dmcp/replay.py:8-12).
THEOREM ReplayIsEvaluation == ReplaySpec => Spec
<1>1. ReplayInit => Init
    BY DEF ReplayInit
<1>2. ReplayIInv /\ [ReplayNext]_replayVars => [Next]_vars
    BY StepEvaluates
<1> QED BY <1>1, <1>2, ReplayInvariance, PTL DEF ReplaySpec, Spec

\* So the verdict on a replayed run means what the recorded calls did, too.
THEOREM ReplayVerdictIsSound == ReplaySpec => []VerdictSound
    BY ReplayIsEvaluation, VerdictIsSound, PTL

-----------------------------------------------------------------------------
(* What the candidate sees.                                                *)

\* Where the steps come from, call by call.
LEMMA CallsAnswered ==
    ASSUME ReplayIInv, NEW i \in 1..Len(steps)
    PROVE  /\ ReplayTypeOK /\ cache = FirstResults /\ tiers[i] \in 0..3
           /\ Answered(steps[i], tiers[i])
           /\ steps[i] \in [kind : {"call_tool_agent"}, ref : Refs, args : Args,
                           ok : BOOLEAN, text : Texts \cup {NoText}]
<1>1. ReplayTypeOK /\ steps \in Seq(LiveCall) /\ tiers \in Seq(0..3) /\ Len(tiers) = Len(steps)
    BY DEF ReplayIInv, ReplayTypeOK
<1>2. steps # <<>>
    BY <1>1
<1>3. cache = FirstResults
    BY <1>1, <1>2 DEF ReplayIInv, ReplayTypeOK
<1> QED BY <1>1, <1>3, LiveCalls DEF ReplayIInv, Calls

\* A key has one entry, the first success with it.
LEMMA OneEntry ==
    ASSUME ReplayTypeOK, cache = FirstResults, NEW ref, NEW args,
           NEW k \in Exact(ref, args), NEW m \in Exact(ref, args)
    PROVE  k = m
<1>1. /\ k \in cache /\ m \in cache /\ cache \subseteq Cacheable
      /\ reference[k].ref = reference[m].ref /\ reference[k].args = reference[m].args
    BY DEF Exact, FirstResults
<1>2. k <= m /\ m <= k
    BY <1>1, CacheIsFirst
<1>3. k \in Nat /\ m \in Nat
    BY <1>1, SuccessesAreCalls DEF Cacheable
<1> QED BY <1>2, <1>3

LEMMA AnswersFixed ==
    ASSUME ReplayIInv
    PROVE  SameCallSameAnswer
<1> SUFFICES ASSUME ~simulator, NEW i \in 1..Len(steps), NEW j \in 1..Len(steps),
                    steps[i].ref = steps[j].ref, steps[i].args = steps[j].args
             PROVE  steps[i] = steps[j] /\ tiers[i] = tiers[j]
    BY DEF SameCallSameAnswer, Calls, SameCall
<1> DEFINE exact == Exact(steps[i].ref, steps[i].args)
           near  == Near(steps[i].ref, steps[i].args)
           text  == reference[Closest(steps[i].ref, steps[i].args)].text
<1>1. ASSUME NEW k \in {i, j}
      PROVE  /\ tiers[k] \in {0, 1, 2}
             /\ tiers[k] = 1 => steps[k].ok /\ \E m \in exact : steps[k].text = reference[m].text
             /\ tiers[k] # 1 => exact = {}
             /\ tiers[k] = 2 => near # {} /\ steps[k].ok /\ steps[k].text = text
             /\ tiers[k] = 0 => near = {} /\ ~steps[k].ok /\ steps[k].text = NoText
             /\ steps[k] \in [kind : {"call_tool_agent"}, ref : Refs, args : Args,
                             ok : BOOLEAN, text : Texts \cup {NoText}]
  <2>1. Answered(steps[k], tiers[k]) /\ tiers[k] \in 0..3
      BY CallsAnswered
  <2>2. steps[k].ref = steps[i].ref /\ steps[k].args = steps[i].args
      OBVIOUS
  <2> QED BY <2>1, <2>2, CallsAnswered DEF Answered
<1>2. \A k, m \in exact : k = m
    BY CallsAnswered, OneEntry
<1> HIDE DEF exact, near, text
<1>3. tiers[i] = tiers[j]
    BY <1>1
<1>4. steps[i].ok = steps[j].ok /\ steps[i].text = steps[j].text
  <2>1. CASE tiers[i] = 1
      BY <1>1, <1>2, <1>3, <2>1
  <2>2. CASE tiers[i] = 2
      BY <1>1, <1>3, <2>2
  <2>3. CASE tiers[i] = 0
      BY <1>1, <1>3, <2>3
  <2> QED BY <1>1, <2>1, <2>2, <2>3
<1>5. steps[i] = steps[j]
    BY <1>1, <1>4
<1> QED BY <1>3, <1>5

\* What tier 2 answers is a result of the same tool.
LEMMA SimilarAnswer ==
    ASSUME ReplayIInv, NEW i \in 1..Len(steps), tiers[i] = 2
    PROVE  \E k \in Succeeded(reference) :
              reference[k].ref = steps[i].ref /\ reference[k].text = steps[i].text
<1> DEFINE k == Closest(steps[i].ref, steps[i].args)
<1>1. /\ ReplayTypeOK /\ Answered(steps[i], tiers[i])
      /\ steps[i].args \in Args /\ cache \subseteq Succeeded(reference)
    BY CallsAnswered, SuccessesAreCalls DEF ReplayTypeOK
<1>2. Near(steps[i].ref, steps[i].args) # {} /\ steps[i].text = reference[k].text
    BY <1>1 DEF Answered
<1>3. k \in Near(steps[i].ref, steps[i].args)
    BY <1>1, <1>2, ClosestIsNear
<1> HIDE DEF k
<1>4. k \in Succeeded(reference) /\ reference[k].ref = steps[i].ref
    BY <1>1, <1>3 DEF Near
<1> QED BY <1>2, <1>4

LEMMA AnswersRecorded ==
    ASSUME ReplayIInv
    PROVE  AnswersAreRecorded
<1> SUFFICES ASSUME NEW i \in Calls
             PROVE  LET same == {k \in Cacheable : SameCall(reference[k], steps[i])} IN
                    /\ same # {} => /\ tiers[i] = 1
                                    /\ steps[i].text = reference[Min(same)].text
                    /\ tiers[i] = 2 => \E k \in Succeeded(reference) :
                                         /\ reference[k].ref = steps[i].ref
                                         /\ reference[k].text = steps[i].text
    BY Zenon DEF AnswersAreRecorded
<1> DEFINE same == {k \in Cacheable : SameCall(reference[k], steps[i])}
<1>0. /\ i \in 1..Len(steps) /\ Succeeded(reference) = Succeeded(reference)
      /\ Min(same) = Min(same)
    BY SuccessesAreCalls DEF Calls
<1>1. /\ ReplayTypeOK /\ cache = FirstResults /\ Answered(steps[i], tiers[i])
      /\ steps[i].args \in Args /\ cache \subseteq Succeeded(reference)
    BY <1>0, CallsAnswered, SuccessesAreCalls DEF ReplayTypeOK
<1>2. ASSUME same # {} PROVE tiers[i] = 1 /\ steps[i].text = reference[Min(same)].text
  <2>1. Min(same) \in same /\ \A y \in same : Min(same) <= y
    <3>1. same \subseteq Nat
        BY SuccessesAreCalls DEF Cacheable
    <3> HIDE DEF same
    <3> QED BY <1>2, <3>1, MinOfNats
  <2>2. PICK m \in same : \A y \in same : m <= y
      BY <2>1
  <2>3. PICK k \in cache : /\ k <= m
                           /\ reference[k].ref = reference[m].ref
                           /\ reference[k].args = reference[m].args
      BY <1>1, <2>2, FirstIsCached
  <2>4. k \in Exact(steps[i].ref, steps[i].args)
      BY <2>2, <2>3 DEF Exact, SameCall
  <2>5. tiers[i] = 1
      BY <1>1, <2>4 DEF Answered
  <2>6. PICK x \in Exact(steps[i].ref, steps[i].args) : steps[i].text = reference[x].text
      BY <1>1, <2>5 DEF Answered
  <2>7. x \in same
      BY <1>1, <2>6 DEF Exact, SameCall, FirstResults
  <2>8. x <= Min(same)
    <3>1. /\ x \in cache /\ Min(same) \in Cacheable
          /\ reference[x].ref = reference[Min(same)].ref
          /\ reference[x].args = reference[Min(same)].args
        BY <2>1, <2>6 DEF Exact, SameCall
    <3> HIDE DEF same
    <3> QED BY <1>1, <3>1, CacheIsFirst
  <2>9. x \in Nat /\ Min(same) \in Nat
    <3>1. same \subseteq 1..Len(reference) /\ 1..Len(reference) \subseteq Nat
        BY SuccessesAreCalls DEF Cacheable
    <3> HIDE DEF same
    <3> QED BY <2>1, <2>7, <3>1
  <2>10. x = Min(same)
    <3> HIDE DEF same
    <3> QED BY <2>1, <2>7, <2>8, <2>9
  <2> HIDE DEF same
  <2> QED BY <2>5, <2>6, <2>10
<1>3. ASSUME tiers[i] = 2
      PROVE  \E k \in Succeeded(reference) :
                reference[k].ref = steps[i].ref /\ reference[k].text = steps[i].text
    BY <1>0, <1>3, SimilarAnswer
<1> HIDE DEF same
<1> QED BY <1>0, <1>2, <1>3 DEF same

-----------------------------------------------------------------------------
(* What a candidate can achieve.                                           *)

LEMMA EffectPasses ==
    ASSUME NEW st, Len(st) \in Nat, NEW cp, cp.kind = "tool_effect"
    PROVE  EvalCheckpoint(cp, st, NoText).passed <=> EffectCalls(cp, st) # {}
<1>1. EvalCheckpoint(cp, st, NoText) = FirstOf(cp.kind, EffectCalls(cp, st))
    BY DEF EvalCheckpoint
<1>2. EffectCalls(cp, st) \subseteq 1..Len(st)
    BY DEF EffectCalls, AgentCalls
<1> QED BY <1>1, <1>2, FirstOfCalls

LEMMA ValuePasses ==
    ASSUME NEW st, Len(st) \in Nat, NEW cp, cp.kind = "value_produced"
    PROVE  EvalCheckpoint(cp, st, NoText).passed <=>
              IF cp.scope = "final_assistant_message"
              THEN NoText \in cp.texts /\ Succeeded(st) # {}
              ELSE ValueCalls(cp, st) # {}
<1>1. CASE cp.scope # "final_assistant_message"
  <2>1. EvalCheckpoint(cp, st, NoText) = FirstOf(cp.kind, ValueCalls(cp, st))
      BY <1>1 DEF EvalCheckpoint
  <2>2. ValueCalls(cp, st) \subseteq 1..Len(st)
      BY SuccessesAreCalls DEF ValueCalls
  <2> QED BY <1>1, <2>1, <2>2, FirstOfCalls
<1>2. CASE cp.scope = "final_assistant_message"
  <2> DEFINE shown == NoText \in cp.texts /\ Succeeded(st) # {}
  <2>1. EvalCheckpoint(cp, st, NoText) = Result(cp.kind, shown, NoStep)
      BY <1>2 DEF EvalCheckpoint, FinalValue
  <2>2. shown \in BOOLEAN /\ NoStep \in 0..Len(st)
      BY DEF NoStep
  <2>3. Result(cp.kind, shown, NoStep).passed = shown
    <3> HIDE DEF shown
    <3> QED BY <2>2, ResultFields
  <2> QED BY <1>2, <2>1, <2>3
<1> QED BY <1>1, <1>2

\* A call answered from the cache has a success of its tool behind it, with its
\* text, and with its arguments if the match was exact.
LEMMA BehindAnswers ==
    ASSUME ReplayIInv, NEW i \in Succeeded(steps), tiers[i] # 3
    PROVE  \E k \in Succeeded(reference) :
              /\ reference[k].ref = steps[i].ref /\ reference[k].text = steps[i].text
              /\ tiers[i] \in {0, 1} => reference[k].args = steps[i].args
<1>1. i \in 1..Len(steps) /\ steps[i].ok
    BY SuccessesAreCalls DEF Succeeded
<1>2. /\ ReplayTypeOK /\ tiers[i] \in 0..3 /\ Answered(steps[i], tiers[i])
      /\ cache \subseteq Succeeded(reference)
    BY <1>1, CallsAnswered, SuccessesAreCalls DEF ReplayTypeOK
<1>3. tiers[i] \in {1, 2}
    BY <1>1, <1>2 DEF Answered
<1>4. CASE tiers[i] = 1
  <2>1. PICK k \in Exact(steps[i].ref, steps[i].args) : steps[i].text = reference[k].text
      BY <1>2, <1>4 DEF Answered
  <2> QED BY <1>2, <2>1 DEF Exact
<1>5. CASE tiers[i] = 2
    BY <1>1, <1>5, SimilarAnswer
<1> QED BY <1>3, <1>4, <1>5

LEMMA NothingMadeUp ==
    ASSUME ReplayIInv
    PROVE  NothingIsMadeUp
<1>1. Len(steps) \in Nat /\ Len(reference) \in Nat /\ reference \in Seq(LiveCall)
    BY LiveCalls DEF ReplayIInv, ReplayTypeOK
<1>2. ASSUME ~simulator, NEW cp \in CheckpointsOf("value_produced"), InReplay(cp)
      PROVE  InReference(cp)
  <2>1. cp.kind = "value_produced"
      BY DEF CheckpointsOf
  <2>2. IF cp.scope = "final_assistant_message"
        THEN NoText \in cp.texts /\ Succeeded(steps) # {}
        ELSE ValueCalls(cp, steps) # {}
      BY <1>1, <1>2, <2>1, ValuePasses DEF InReplay
  <2>3. ASSUME NEW i \in Succeeded(steps)
        PROVE  \E k \in Succeeded(reference) : reference[k].text = steps[i].text
    <3>1. tiers[i] # 3
        BY <1>2, SuccessesAreCalls, CallsAnswered DEF Answered
    <3> QED BY <3>1, BehindAnswers
  <2>4. IF cp.scope = "final_assistant_message"
        THEN NoText \in cp.texts /\ Succeeded(reference) # {}
        ELSE ValueCalls(cp, reference) # {}
      BY <2>2, <2>3 DEF ValueCalls
  <2> QED BY <1>1, <2>1, <2>4, ValuePasses DEF InReference
<1>3. ASSUME \A i \in 1..Len(steps) : tiers[i] \in {0, 1}, NEW cp \in Effects, InReplay(cp)
      PROVE  InReference(cp)
  <2>1. cp.kind = "tool_effect" /\ cp.mustSucceed
      BY DEF Effects, CheckpointsOf
  <2>2. PICK i \in EffectCalls(cp, steps) : TRUE
      BY <1>1, <1>3, <2>1, EffectPasses DEF InReplay
  <2>3. i \in Succeeded(steps) /\ steps[i].ref \in cp.equivalence /\ steps[i].args \in cp.args
      BY <2>1, <2>2 DEF EffectCalls, Succeeded
  <2>4. i \in 1..Len(steps) /\ tiers[i] \in {0, 1}
      BY <1>3, <2>3, SuccessesAreCalls
  <2>5. PICK k \in Succeeded(reference) :
           reference[k].ref = steps[i].ref /\ reference[k].args = steps[i].args
      BY <2>3, <2>4, BehindAnswers
  <2>6. k \in EffectCalls(cp, reference)
      BY <2>3, <2>5 DEF EffectCalls, Succeeded
  <2> QED BY <1>1, <2>1, <2>6, EffectPasses DEF InReference
<1> QED BY <1>2, <1>3 DEF NothingIsMadeUp, Calls

LEMMA EffectsReachable ==
    ASSUME ReplayIInv
    PROVE  GatedEffectsAreReachable
<1> SUFFICES ASSUME bare = {},
                    \A k \in Succeeded(reference) :
                       \E i \in 1..Len(steps) : SameCall(steps[i], reference[k]),
                    NEW cp \in Effects, InReference(cp)
             PROVE  InReplay(cp)
    BY SuccessesAreCalls DEF GatedEffectsAreReachable, Calls
<1>1. Len(steps) \in Nat /\ Len(reference) \in Nat /\ steps \in Seq(LiveCall)
    BY LiveCalls DEF ReplayIInv, ReplayTypeOK
<1>2. cp.kind = "tool_effect" /\ cp.mustSucceed
    BY DEF Effects, CheckpointsOf
<1>3. PICK k \in EffectCalls(cp, reference) : TRUE
    BY <1>1, <1>2, EffectPasses DEF InReference
<1>4. k \in Succeeded(reference) /\ reference[k].ref \in cp.equivalence /\ reference[k].args \in cp.args
    BY <1>2, <1>3 DEF EffectCalls, Succeeded
<1>5. PICK i \in 1..Len(steps) : SameCall(steps[i], reference[k])
    BY <1>4
<1>6. steps[i].ok
  <2>1. ReplayTypeOK /\ cache = FirstResults /\ Answered(steps[i], tiers[i])
      BY CallsAnswered
  <2>2. PICK m \in cache : /\ reference[m].ref = reference[k].ref
                           /\ reference[m].args = reference[k].args
      BY <1>4, <2>1, FirstIsCached DEF Cacheable
  <2>3. Exact(steps[i].ref, steps[i].args) # {}
      BY <1>5, <2>2 DEF Exact, SameCall
  <2> QED BY <2>1, <2>3 DEF Answered
<1>7. i \in EffectCalls(cp, steps)
  <2>1. i \in AgentCalls(steps)
      BY <1>1, LiveCalls
  <2> QED BY <1>4, <1>5, <1>6, <2>1 DEF EffectCalls, SameCall
<1> QED BY <1>1, <1>2, <1>7, EffectPasses DEF InReplay

\* For any reference, similarity and threshold: the same call is answered the
\* same way, from the reference, and replay earns nothing the reference did not
\* (replay.py:8-12, 170, 207-213).
THEOREM ReplayFaithful == ReplaySpec => []ReplayIsFaithful
<1>1. ReplayIInv => ReplayIsFaithful
    BY AnswersFixed, AnswersRecorded, NothingMadeUp DEF ReplayIsFaithful, ReplayIInv
<1> QED BY <1>1, ReplayInvariance, PTL

\* Whatever reference the gate accepts, if its successful calls have results, a
\* candidate that repeats them, in any order and among others, has its effects
\* (cli.py:1805-1811).
THEOREM GatedEffectsReachable == ReplaySpec => []GatedEffectsAreReachable
<1>1. ReplayIInv => GatedEffectsAreReachable
    BY EffectsReachable
<1> QED BY <1>1, ReplayInvariance, PTL
=============================================================================
