------------------------------- MODULE Replay -------------------------------
(***************************************************************************)
(* `TraceReplayRecorder` of dmcp/replay.py around one candidate run of     *)
(* module Evaluation: the reference run of a task is recorded against live *)
(* servers; then the candidate's calls are answered from it - exactly      *)
(* (tier 1), by the most similar call of the same tool (tier 2), by an LLM *)
(* if there is a simulator (tier 3), or with an error - and its trace is   *)
(* scored.  What the judge may do after that is in Evaluation; it reads    *)
(* nothing of the replay.                                                  *)
(*                                                                         *)
(* Args stand for canonical arguments.  The text of a call that failed is  *)
(* left out: neither the cache nor the scorer reads it.  Results have text *)
(* content, so that the tags replay adds to them are not rendered.         *)
(***************************************************************************)
EXTENDS Evaluation

CONSTANTS
    MaxReference,       \* bound: calls of the reference run
    Full,               \* a similarity of 1.0
    Similarity,         \* _tier2_score of two arguments, scaled to 0..Full
    Threshold           \* tier2_threshold

ASSUME Similarities == /\ Full \in Nat /\ Threshold \in 0..Full
                       /\ Similarity \in [Args \X Args -> 0..Full]

VARIABLES
    recording,  \* whether the reference is still being recorded
    simulator,  \* whether there is a simulator_llm
    reference,  \* the steps of the reference trace
    bare,       \* those that are successful and have no result
    cache,      \* _cache: the reference steps whose results it holds
    tiers       \* the replay_tier of each step, 0 for a replay_cache_miss

world      == <<recording, simulator, reference, bare, cache>>
replayVars == <<vars, world, tiers>>

\* What a live server may do; a call that fails has no text here.
LiveCall == {c \in AgentCall : c.ok \/ c.text = NoText}

ReplayTypeOK == /\ TypeOK
                /\ recording \in BOOLEAN /\ simulator \in BOOLEAN
                /\ {reference, steps} \subseteq Seq(LiveCall)
                /\ bare \subseteq 1..Len(reference)
                /\ cache \subseteq Succeeded(reference)
                /\ tiers \in Seq(0..3)
                /\ Len(tiers) = Len(steps)

ReplayInit == /\ Init
              /\ recording = TRUE
              /\ simulator \in BOOLEAN
              /\ reference = <<>> /\ bare = {} /\ cache = {}
              /\ tiers = <<>>

\* A success without a result is what a call leaves that was cancelled; the
\* references are read from a file, where any step may be one.
LiveStep(step) ==
    /\ recording
    /\ Len(reference) < MaxReference
    /\ reference' = Append(reference, step)
    /\ \/ bare' = bare
       \/ step.ok /\ step.text = NoText /\ bare' = bare \cup {Len(reference) + 1}
    /\ UNCHANGED <<vars, recording, simulator, cache, tiers>>

-----------------------------------------------------------------------------
(* The cache.                                                              *)

\* Mutant: the arguments are not part of the key.
SameKey_ToolOnly(i, j) == reference[i].ref = reference[j].ref

SameKey(i, j) == /\ reference[i].ref = reference[j].ref
                 /\ reference[i].args = reference[j].args

Cacheable == Succeeded(reference) \ bare

\* Mutant: a later result of the same call replaces the earlier one.
FirstResults_Last == {i \in Cacheable : \A j \in Cacheable : SameKey(i, j) => j <= i}

\* Of the successful calls with one key, the first is kept.
FirstResults == {i \in Cacheable : \A j \in Cacheable : SameKey(i, j) => i <= j}

Open == /\ recording
        /\ recording' = FALSE
        /\ cache' = FirstResults
        /\ UNCHANGED <<vars, simulator, reference, bare, tiers>>

-----------------------------------------------------------------------------
(* The candidate calls a tool.                                             *)

\* _cache.get(key)
Exact(ref, args) ==
    {i \in cache : reference[i].ref = ref /\ reference[i].args = args}

\* How similar arguments are to those of a reference call.
Likeness(args, i) == Similarity[<<args, reference[i].args>>]

\* The cached calls of the tool that reach the threshold; tier 2 is off if it
\* is 1.0 ...
Near(ref, args) ==
    {i \in cache : /\ Threshold < Full
                   /\ reference[i].ref = ref
                   /\ Likeness(args, i) >= Threshold
                   /\ Likeness(args, i) > 0}

\* ... and the first of the most similar ones.
Closest(ref, args) ==
    Min({i \in Near(ref, args) :
           \A j \in Near(ref, args) : Likeness(args, j) <= Likeness(args, i)})

Answer(ref, args, ok, text, tier) ==
    /\ ~recording
    /\ Call([kind |-> "call_tool_agent", ref |-> ref, args |-> args,
             ok |-> ok, text |-> text])
    /\ tiers' = Append(tiers, tier)
    /\ UNCHANGED world

ServeExact(ref, args) ==
    \E i \in Exact(ref, args) :
        /\ Answer(ref, args, TRUE, reference[i].text, 1)

ServeClosest(ref, args) ==
    /\ Exact(ref, args) = {}
    /\ Near(ref, args) # {}
    /\ Answer(ref, args, TRUE, reference[Closest(ref, args)].text, 2)

Uncached(ref, args) == Exact(ref, args) = {} /\ Near(ref, args) = {}

Simulate(ref, args, text) ==
    /\ Uncached(ref, args)
    /\ simulator
    /\ Answer(ref, args, TRUE, text, 3)

Miss(ref, args) ==
    /\ Uncached(ref, args)
    /\ ~simulator
    /\ Answer(ref, args, FALSE, NoText, 0)

\* The candidate is done, and its trace is scored like any other.
FinishRun == /\ ~recording
             /\ \/ \E text \in Texts \cup {NoText} : EndRun(text)
                \/ Score
             /\ UNCHANGED <<world, tiers>>

ReplayNext ==
    \/ \E step \in LiveCall : LiveStep(step)
    \/ Open
    \/ \E ref \in Refs, args \in Args :
         \/ ServeExact(ref, args)
         \/ ServeClosest(ref, args)
         \/ \E text \in Texts \cup {NoText} : Simulate(ref, args, text)
         \/ Miss(ref, args)
    \/ FinishRun

ReplaySpec == ReplayInit /\ [][ReplayNext]_replayVars

-----------------------------------------------------------------------------
(* Properties.                                                             *)

Calls         == 1..Len(steps)
SameCall(a, b) == a.ref = b.ref /\ a.args = b.args

\* "Every candidate agent ... must face the same world" (replay.py:8-12):
\* without a simulator a call is answered the same way however often and
\* whenever it is made.
SameCallSameAnswer ==
    ~simulator => \A i, j \in Calls :
                     SameCall(steps[i], steps[j]) =>
                         steps[i] = steps[j] /\ tiers[i] = tiers[j]

\* A call that succeeded in the reference with a result gets the first one,
\* "verbatim" (replay.py:170, 207-213), and what tier 2 answers is a result the
\* same tool gave in the reference.
AnswersAreRecorded ==
    \A i \in Calls :
        LET same == {k \in Cacheable : SameCall(reference[k], steps[i])} IN
        /\ same # {} => /\ tiers[i] = 1
                        /\ steps[i].text = reference[Min(same)].text
        /\ tiers[i] = 2 => \E k \in Succeeded(reference) :
                             /\ reference[k].ref = steps[i].ref
                             /\ reference[k].text = steps[i].text

\* The evaluations of the reference and of the candidate, checkpoint by
\* checkpoint; the final messages are left out.
InReference(cp) == EvalCheckpoint(cp, reference, NoText).passed
InReplay(cp)    == EvalCheckpoint(cp, steps, NoText).passed
CheckpointsOf(kind) ==
    {cp \in {spec.checkpoints[i] : i \in 1..Len(spec.checkpoints)} : cp.kind = kind}
Effects == {cp \in CheckpointsOf("tool_effect") : cp.mustSucceed}

\* Replay makes nothing up.  Without a simulator a value that the reference
\* never showed is not shown to any candidate, and a candidate that only made
\* recorded calls has no effect that the reference did not have.
NothingIsMadeUp ==
    /\ ~simulator =>
         \A cp \in CheckpointsOf("value_produced") : InReplay(cp) => InReference(cp)
    /\ (\A i \in Calls : tiers[i] \in {0, 1}) =>
         \A cp \in Effects : InReplay(cp) => InReference(cp)

\* What the reference-validation gate lets through can be done: a candidate
\* that has made every successful call of the reference, in any order and among
\* others, has every required effect (cli.py:1805-1811, evaluator.py:627-637) -
\* provided that those calls have results, which the gate does not look at.
GatedEffectsAreReachable ==
    /\ bare = {}
    /\ \A k \in Succeeded(reference) : \E i \in Calls : SameCall(steps[i], reference[k])
    => \A cp \in Effects : InReference(cp) => InReplay(cp)

\* The replayed world is that of the reference: fixed whenever it is asked, with
\* no other answers and no effect or value of its own.
ReplayIsFaithful == ReplayTypeOK /\ SameCallSameAnswer /\ AnswersAreRecorded /\ NothingIsMadeUp

-----------------------------------------------------------------------------
(* The inductive invariant behind ReplayIsFaithful and                     *)
(* GatedEffectsAreReachable.                                               *)

\* How a call was answered is decided by the cache alone.
Answered(c, tier) ==
    /\ tier = 1 => c.ok /\ \E k \in Exact(c.ref, c.args) : c.text = reference[k].text
    /\ tier # 1 => Exact(c.ref, c.args) = {}
    /\ tier = 2 => /\ Near(c.ref, c.args) # {}
                   /\ c.ok /\ c.text = reference[Closest(c.ref, c.args)].text
    /\ tier \in {0, 3} => Near(c.ref, c.args) = {}
    /\ tier = 3 => simulator
    /\ tier = 0 => ~simulator /\ ~c.ok /\ c.text = NoText

ReplayIInv == /\ IInv
              /\ ReplayTypeOK
              /\ recording => phase = "running" /\ steps = <<>> /\ cache = {}
              /\ ~recording => cache = FirstResults
              /\ \A i \in Calls : Answered(steps[i], tiers[i])
=============================================================================
