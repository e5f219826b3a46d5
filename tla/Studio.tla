------------------------------- MODULE Studio -------------------------------
(***************************************************************************)
(* DMCP Studio: one visitor's browser (frontend/src/store) against the     *)
(* demo's backend (backend/app.py, live.py, dmcp_adapter.py).              *)
(*                                                                         *)
(* The browser keeps a walkthrough - goal, exploration, distilled spec,    *)
(* scored candidate - that the visitor may leave and re-enter at any       *)
(* point.  Explorations and scorings arrive as streams of frames, of which *)
(* at most one is open; goals, specs and candidates as answers of requests *)
(* that nobody can withdraw.  Frames and answers interleave with clicks.   *)
(* A live exploration that fails is replaced by the recorded one, frame by *)
(* frame, on the same stream.                                              *)
(*                                                                         *)
(* Scoring is always that of the recorded spec, whatever spec is on        *)
(* display; the tools that are on reach it by their names.                 *)
(*                                                                         *)
(* Wording, personas, labels, the choice of servers and the Effect/Answer  *)
(* switch are display only.  Explorations and resets are numbered (epoch)  *)
(* to tell their traces apart; the number is bounded by MaxEpoch.          *)
(***************************************************************************)
EXTENDS Naturals, Sequences

CONSTANTS
    Tools,          \* names of tools
    Recorded,       \* the editable equivalence sets of the recorded spec, in order
    LiveSets,       \* what those of a spec that is distilled live may be
    Candidates,     \* the recorded candidates, in order
    FixtureCalls,   \* calls of the recorded exploration
    CandidateCalls, \* calls of a recorded candidate
    MaxCalls,       \* bound: calls of a live exploration
    MaxEpoch,       \* bound: explorations started and changes of mode
    NONE

Views   == {"design", "collect", "explore", "distill", "score"}
Modes   == {"replay", "live"}
Fixture == 0        \* the recorded trace; live traces are numbered from 1
Traces  == 0..MaxEpoch
LiveTraces == Traces \ {Fixture}
EquivSets  == {Recorded} \cup LiveSets
Members(sets) == UNION {sets[i] : i \in DOMAIN sets}
Known   == {Candidates[i] : i \in 1..Len(Candidates)}

\* What a candidate was scored under - the members of each recorded set that
\* were accepted; the streams; the requests.
Verdicts == [candidate : Known, accepted : [DOMAIN Recorded -> SUBSET Tools]]
Streams  == [kind : {"explore"}, from : {"live", "fixture", "cache"}, sent : Nat]
            \cup [kind : {"score"}, from : Verdicts, sent : Nat]
Requests == [what : {"goal", "distill", "candidates"}, mode : Modes, epoch : Traces, of : LiveTraces \cup {NONE}]

ASSUME StudioAssumption ==
    /\ EquivSets \subseteq Seq((SUBSET Tools) \ {{}})
    \* a tool of the recorded spec is in one of its sets
    /\ \A i, j \in DOMAIN Recorded : i # j => Recorded[i] \cap Recorded[j] = {}
    /\ Len(Candidates) \in Nat \ {0}
    /\ {FixtureCalls, CandidateCalls, MaxCalls, MaxEpoch} \subseteq Nat
    /\ NONE \notin Nat \cup Known \cup Verdicts \cup Streams

VARIABLES
    mode, view,
    ui,         \* the rest of StudioState
    asked,      \* the refs goalLoaded, candsLoaded, distillStarted
    stream,     \* the open EventSource with its generator, or NONE
    reqs,       \* requests without an answer
    cached,     \* backend: the most recent of _LIVE_TRACES, or NONE
    epoch,      \* explorations and resets so far
    shown,      \* history: the trace whose calls were streamed, or NONE
    left,       \* history: a click has closed the stream that set exploring or scoring
    spoiled     \* history: the last scoring was interrupted, or a spec arrived in its middle

vars == <<mode, view, ui, asked, stream, reqs, cached, epoch, shown, left, spoiled>>

\* The rest of StudioState.
UIs == [goal : BOOLEAN, refCalls : Seq({"live", "fixture"}), exploring : BOOLEAN, explored : BOOLEAN,
        spec : Traces \cup {NONE}, equivSets : EquivSets \cup {<<>>}, equivOn : SUBSET Tools, distilled : BOOLEAN,
        candidate : Known \cup {NONE}, candCalls : Nat, scoring : BOOLEAN, ran : BOOLEAN,
        lastDone : Verdicts \cup {NONE}]

TypeOK ==
    /\ mode \in Modes /\ view \in Views /\ epoch \in Traces
    /\ ui \in UIs /\ stream \in Streams \cup {NONE} /\ reqs \subseteq Requests
    /\ shown \in Traces \cup {NONE} /\ cached \in LiveTraces \cup {NONE}
    /\ left \in BOOLEAN /\ spoiled \in BOOLEAN

\* initialState.  `equivOn` holds the enabled tools.
InitialUI == [goal |-> FALSE, refCalls |-> <<>>, exploring |-> FALSE, explored |-> FALSE,
              spec |-> NONE, equivSets |-> <<>>, equivOn |-> {}, distilled |-> FALSE,
              candidate |-> NONE, candCalls |-> 0, scoring |-> FALSE, ran |-> FALSE, lastDone |-> NONE]

NothingAsked == [goal |-> FALSE, distill |-> FALSE, candidates |-> FALSE]

Init == /\ mode = "replay" /\ view = "design" /\ ui = InitialUI
        /\ asked = NothingAsked
        /\ stream = NONE /\ reqs = {} /\ cached = NONE /\ epoch = 0
        /\ shown = NONE /\ left = FALSE /\ spoiled = FALSE

-----------------------------------------------------------------------------
(* Clicks that move between the stages.                                    *)

\* The buttons of the navigation.
Enabled(v) == CASE v = "distill" -> ui.explored
                [] v = "score"   -> ui.distilled
                [] OTHER         -> TRUE

Wanted(v) == CASE v = "explore" -> "goal"
               [] v = "distill" -> "distill"
               [] v = "score"   -> "candidates"
               [] OTHER         -> NONE

\* Entering a stage asks once for what it shows.  No request names a trace:
\* get_cached_trace(None) takes the most recent of the cache when the request
\* arrives; the answer is what may be late.
Enter(v) ==
    LET what == Wanted(v)
    IN  IF v = view \/ what = NONE \/ asked[what] THEN UNCHANGED <<asked, reqs>>
        ELSE /\ asked' = [asked EXCEPT ![what] = TRUE]
             /\ reqs' = reqs \cup {[what |-> what, mode |-> mode, epoch |-> epoch,
                                    of |-> IF mode = "live" THEN cached ELSE NONE]}

\* Leaving a stage closes its stream, and leaves `exploring` and `scoring` alone.
Abandon == left' = (left \/ stream # NONE) /\ stream' = NONE

Go(v) == /\ Enabled(v)
         /\ view' = v
         /\ Abandon
         /\ Enter(v)
         /\ UNCHANGED <<mode, ui, cached, epoch, shown, spoiled>>

\* The advisor's design is carried to the Collect stage.
CarryAdvisorDesign ==
    /\ view = "design"
    /\ view' = "collect"
    /\ Abandon
    /\ UNCHANGED <<mode, ui, asked, reqs, cached, epoch, shown, spoiled>>

\* setMode: everything is reset, and the requests under way are not.
SetMode(m) ==
    /\ m # mode /\ epoch < MaxEpoch
    /\ mode' = m /\ view' = "collect" /\ ui' = InitialUI
    /\ asked' = NothingAsked
    /\ stream' = NONE
    /\ epoch' = epoch + 1
    /\ shown' = NONE /\ left' = FALSE /\ spoiled' = FALSE
    /\ UNCHANGED <<reqs, cached>>

-----------------------------------------------------------------------------
(* Explore.                                                                *)

\* Mutant: the calls of the exploration before stay listed.
ExploreStart_KeepsCalls == [InitialUI EXCEPT !.goal = ui.goal, !.candidate = ui.candidate,
                                             !.refCalls = ui.refCalls, !.exploring = TRUE]

\* "A fresh trace invalidates the distilled spec and any prior score."
ExploreStart == [InitialUI EXCEPT !.goal = ui.goal, !.candidate = ui.candidate, !.exploring = TRUE]

\* The button is disabled without a goal and while it spins.
RunExplore ==
    /\ view = "explore" /\ ui.goal /\ ~ui.exploring /\ epoch < MaxEpoch
    /\ ui' = ExploreStart
    /\ asked' = [asked EXCEPT !.distill = FALSE]
    /\ stream' = [kind |-> "explore", from |-> IF mode = "live" THEN "live" ELSE "fixture", sent |-> 0]
    /\ epoch' = epoch + 1
    /\ shown' = NONE /\ left' = FALSE /\ spoiled' = FALSE
    /\ UNCHANGED <<mode, view, reqs, cached>>

Exploring(from) == stream # NONE /\ stream.kind = "explore" /\ stream.from = from

ShowCall(tag) == ui' = [ui EXCEPT !.refCalls = Append(@, tag)]

\* StreamingRecorder: a call that returned is one frame; one that raised is none.
LiveCall ==
    /\ Exploring("live") /\ stream.sent < MaxCalls
    /\ stream' = [stream EXCEPT !.sent = @ + 1]
    /\ ShowCall("live")
    /\ UNCHANGED <<mode, view, asked, reqs, cached, epoch, shown, left, spoiled>>

\* Mutant: the first trace of the cache is the one that is served.
LiveEnds_ServesFirst ==
    /\ Exploring("live")
    /\ cached' = IF cached = NONE THEN epoch ELSE cached
    /\ stream' = [stream EXCEPT !.from = "cache"]
    /\ UNCHANGED <<mode, view, ui, asked, reqs, epoch, shown, left, spoiled>>

\* The exploration has returned; its trace is cached, then announced.
LiveEnds ==
    /\ Exploring("live")
    /\ cached' = epoch
    /\ stream' = [stream EXCEPT !.from = "cache"]
    /\ UNCHANGED <<mode, view, ui, asked, reqs, epoch, shown, left, spoiled>>

\* Mutant: a stage that times out ends the generator without a word.
LiveFails_Silent ==
    /\ Exploring("live")
    /\ stream' = [stream EXCEPT !.from = "nowhere"]
    /\ UNCHANGED <<mode, view, ui, asked, reqs, cached, epoch, shown, left, spoiled>>

\* The servers, the LLM or the 90 s for the next event fail: the task is
\* cancelled, and the recorded exploration is sent from its start.
LiveFails ==
    /\ Exploring("live")
    /\ stream' = [stream EXCEPT !.from = "fixture", !.sent = 0]
    /\ UNCHANGED <<mode, view, ui, asked, reqs, cached, epoch, shown, left, spoiled>>

FixtureCall ==
    /\ Exploring("fixture") /\ stream.sent < FixtureCalls
    /\ stream' = [stream EXCEPT !.sent = @ + 1]
    /\ ShowCall("fixture")
    /\ UNCHANGED <<mode, view, asked, reqs, cached, epoch, shown, left, spoiled>>

ExploreDone ==
    /\ Exploring("cache") \/ (Exploring("fixture") /\ stream.sent = FixtureCalls)
    /\ shown' = IF Exploring("cache") THEN epoch ELSE Fixture
    /\ ui' = [ui EXCEPT !.exploring = FALSE, !.explored = TRUE]
    /\ stream' = NONE
    /\ UNCHANGED <<mode, view, asked, reqs, cached, epoch, left, spoiled>>

-----------------------------------------------------------------------------
(* Distill: the equivalence sets of the spec can be edited.                *)

Distilled(trace, sets) == [ui EXCEPT !.spec = trace, !.equivSets = sets, !.equivOn = Members(sets),
                                     !.distilled = TRUE, !.candCalls = 0, !.scoring = FALSE,
                                     !.ran = FALSE, !.lastDone = NONE]

CandidatesLoaded == [ui EXCEPT !.candidate = IF @ = NONE THEN Candidates[1] ELSE @]

\* An answer lands whatever the visitor has done since.
Answer(q) ==
    /\ q \in reqs
    /\ reqs' = reqs \ {q}
    /\ \/ q.what = "goal" /\ ui' = [ui EXCEPT !.goal = TRUE] /\ UNCHANGED spoiled
       \/ q.what = "candidates" /\ ui' = CandidatesLoaded /\ UNCHANGED spoiled
       \/ /\ q.what = "distill"
          \* live: the spec of the trace; without one, or when it fails, the recorded spec
          /\ \/ q.of # NONE /\ \E sets \in LiveSets : ui' = Distilled(q.of, sets)
             \/ ui' = Distilled(Fixture, Recorded)
          /\ spoiled' = (spoiled \/ (stream # NONE /\ stream.kind = "score"))
    /\ UNCHANGED <<mode, view, asked, stream, cached, epoch, shown, left>>

\* The request itself fails: the stage may ask again.
Unanswered(q) ==
    /\ q \in reqs
    /\ reqs' = reqs \ {q}
    /\ asked' = [asked EXCEPT ![q.what] = FALSE]
    /\ UNCHANGED <<mode, view, ui, stream, cached, epoch, shown, left, spoiled>>

-----------------------------------------------------------------------------
(* Score.                                                                  *)

\* equivOverrides: the names that are sent, when the tools that are on are a
\* strict subset of those on display; none otherwise.
Override(on) == IF on = Members(ui.equivSets) THEN {} ELSE on

\* _apply_equiv_overrides: what the scorer accepts of each set of the recorded
\* spec.  A set no member of which is among the names stays whole.
Accepted(names) ==
    [i \in DOMAIN Recorded |-> IF Recorded[i] \cap names = {} THEN Recorded[i]
                                                            ELSE Recorded[i] \cap names]

VerdictOn(on) == [candidate |-> ui.candidate, accepted |-> Accepted(Override(on))]

\* runCandidate, with the tools that are on.
StartScoring(on) ==
    /\ ui' = [ui EXCEPT !.equivOn = on, !.candCalls = 0, !.scoring = TRUE]
    /\ stream' = [kind |-> "score", from |-> VerdictOn(on), sent |-> 0]
    /\ left' = (left /\ ui.exploring)
    /\ spoiled' = FALSE

RunCandidate ==
    /\ view = "score" /\ ~ui.scoring /\ ui.candidate # NONE
    /\ StartScoring(ui.equivOn)
    /\ UNCHANGED <<mode, view, asked, reqs, cached, epoch, shown>>

\* The first set on display with the tool keeps a tool that is on.
MayToggle(t) ==
    \E i \in DOMAIN ui.equivSets :
        /\ t \in ui.equivSets[i] /\ \A j \in 1..i - 1 : t \notin ui.equivSets[j]
        /\ t \in ui.equivOn => ui.equivSets[i] \cap (ui.equivOn \ {t}) # {}

\* A candidate that has been scored is scored again.
ToggleEquiv(t) ==
    /\ (view = "distill" /\ ui.spec # NONE) \/ (view = "score" /\ ui.lastDone # NONE)
    /\ MayToggle(t)
    /\ LET on == IF t \in ui.equivOn THEN ui.equivOn \ {t} ELSE ui.equivOn \cup {t}
       IN  IF ui.ran /\ ui.candidate # NONE THEN StartScoring(on)
           ELSE ui' = [ui EXCEPT !.equivOn = on] /\ UNCHANGED <<stream, left, spoiled>>
    /\ UNCHANGED <<mode, view, asked, reqs, cached, epoch, shown>>

\* Mutant: the stream of the candidate before stays open.
SetCandidate_KeepsStream(c) ==
    /\ view = "score"
    /\ ui' = [ui EXCEPT !.candidate = c, !.ran = FALSE, !.lastDone = NONE, !.candCalls = 0]
    /\ UNCHANGED <<mode, view, asked, stream, reqs, cached, epoch, shown, left, spoiled>>

SetCandidate(c) ==
    /\ view = "score"
    /\ ui' = [ui EXCEPT !.candidate = c, !.ran = FALSE, !.lastDone = NONE, !.candCalls = 0]
    /\ Abandon
    /\ UNCHANGED <<mode, view, asked, reqs, cached, epoch, shown, spoiled>>

Scoring == stream # NONE /\ stream.kind = "score"

ScoreCall ==
    /\ Scoring /\ stream.sent < CandidateCalls
    /\ stream' = [stream EXCEPT !.sent = @ + 1]
    /\ ui' = [ui EXCEPT !.candCalls = @ + 1]
    /\ UNCHANGED <<mode, view, asked, reqs, cached, epoch, shown, left, spoiled>>

ScoreDone ==
    /\ Scoring /\ stream.sent = CandidateCalls
    /\ ui' = [ui EXCEPT !.scoring = FALSE, !.ran = TRUE, !.lastDone = stream.from]
    /\ stream' = NONE
    /\ UNCHANGED <<mode, view, asked, reqs, cached, epoch, shown, left, spoiled>>

\* Mutant: an interrupted stream is only reported.
Interrupted_StillBusy ==
    /\ stream # NONE
    /\ spoiled' = (spoiled \/ Scoring)
    /\ stream' = NONE
    /\ UNCHANGED <<mode, view, ui, asked, reqs, cached, epoch, shown, left>>

\* The connection breaks: onerror closes the stream and reports.
Interrupted ==
    /\ stream # NONE
    /\ ui' = IF Scoring THEN [ui EXCEPT !.scoring = FALSE] ELSE [ui EXCEPT !.exploring = FALSE]
    /\ spoiled' = (spoiled \/ Scoring)
    /\ stream' = NONE
    /\ UNCHANGED <<mode, view, asked, reqs, cached, epoch, shown, left>>

-----------------------------------------------------------------------------
Frame == LiveCall \/ LiveEnds \/ LiveFails \/ FixtureCall \/ ExploreDone \/ ScoreCall \/ ScoreDone

Next == \/ \E v \in Views : Go(v)
        \/ CarryAdvisorDesign
        \/ \E m \in Modes : SetMode(m)
        \/ RunExplore
        \/ Frame
        \/ \E q \in reqs : Answer(q) \/ Unanswered(q)
        \/ RunCandidate
        \/ \E t \in Tools : ToggleEquiv(t)
        \/ \E i \in 1..Len(Candidates) : SetCandidate(Candidates[i])
        \/ Interrupted

\* The backend goes on: every wait of its generators ends, at the latest when
\* the time for a stage is up.
Spec == Init /\ [][Next]_vars /\ WF_vars(Frame)

-----------------------------------------------------------------------------
(* Properties.                                                             *)

\* A verdict on display is that of the selected candidate, scored by the recorded
\* spec under the tools that are on, as far as that spec knows them - unless a
\* spec arrived while it was being scored.  If the recorded spec is on display,
\* each of its sets counts with the tools that are on, and with one at least
\* (StudioProvider.tsx:34-38, 161-170; reducer.ts:191-221; dmcp_adapter.py:124-136).
VerdictIsCurrent ==
    (ui.ran /\ ~ui.scoring /\ ~spoiled) =>
        /\ ui.lastDone = VerdictOn(ui.equivOn)
        /\ ui.spec = Fixture =>
              \A i \in DOMAIN Recorded :
                  ui.lastDone.accepted[i] = Recorded[i] \cap ui.equivOn /\ ui.lastDone.accepted[i] # {}

FromFixture == {i \in 1..Len(ui.refCalls) : ui.refCalls[i] = "fixture"}

\* An exploration that is reported as done shows the calls of one trace: those
\* of the live run alone, or at the end the whole of the recorded one, whatever
\* part of a failed live run precedes it (app.py:130-141).
TraceIsShownWhole ==
    /\ TypeOK
    /\ ui.explored =>
          IF shown = Fixture
          THEN FromFixture = (Len(ui.refCalls) - FixtureCalls + 1)..Len(ui.refCalls)
          ELSE FromFixture = {} /\ Len(ui.refCalls) <= MaxCalls

\* A stage spins only while its stream is open, or because a click closed that
\* stream: neither a failure nor an end of the backend leaves it spinning.
SpinsOnlyWhileStreaming ==
    /\ (ui.exploring /\ ~left) => stream # NONE /\ stream.kind = "explore"
    /\ (ui.scoring /\ ~left)   => Scoring

\* The distillation names no trace.  Asked for after a live exploration and
\* answered before the next one, it is of that exploration's trace or the
\* recorded spec, never of an older one (live.py:213-218).
DistillsTheLastTrace ==
    [][\A q \in reqs :
          (Answer(q) /\ q.what = "distill" /\ q.mode = "live" /\ q.epoch = epoch /\ shown = epoch)
              => ui'.spec \in {epoch, Fixture}]_vars

\* Every exploration's stream ends: completed with the live or the recorded
\* trace, interrupted, or left (live.py:236-264, app.py:129-141).
ExplorationsEnd ==
    LET Open == stream # NONE /\ stream.kind = "explore" IN Open ~> ~Open

-----------------------------------------------------------------------------
(* The inductive invariant.                                                *)

\* A stage's stream is open only where the visitor can see it, and what it
\* will complete is not complete yet.
InPlace ==
    /\ stream # NONE /\ stream.kind = "explore" => view = "explore" /\ ~ui.explored /\ epoch > 0
    /\ Scoring => view \in {"distill", "score"} /\ ui.distilled /\ ui.candidate # NONE
    /\ view = "score" => ui.distilled
    /\ ui.explored <=> shown # NONE

\* What an open exploration has listed so far.
Listed ==
    LET n == Len(ui.refCalls)
    IN  /\ Exploring("live")    => FromFixture = {} /\ n = stream.sent /\ n <= MaxCalls
        /\ Exploring("cache")   => FromFixture = {} /\ n <= MaxCalls /\ cached = epoch
        /\ Exploring("fixture") => FromFixture = (n - stream.sent + 1)..n

\* A verdict has its candidate and its spec, and the one under way is of what
\* is selected, unless a spec arrived in its middle.
Judging ==
    /\ ui.ran <=> ui.lastDone # NONE
    /\ ui.ran => ui.distilled /\ ui.candidate # NONE
    /\ ui.distilled <=> ui.spec # NONE
    /\ ui.equivOn \subseteq Members(ui.equivSets)
    /\ ui.spec = Fixture =>
          ui.equivSets = Recorded /\ \A i \in DOMAIN Recorded : Recorded[i] \cap ui.equivOn # {}
    /\ Scoring /\ ~spoiled =>
          /\ stream.from = VerdictOn(ui.equivOn)
          /\ ui.ran \/ view = "score"

\* A distillation asked for since the last exploration began was asked for
\* after it ended, with its trace at hand.
Asking ==
    /\ ui.explored => epoch > 0 /\ (shown = epoch => cached = epoch)
    /\ \A q \in reqs :
          /\ q.epoch <= epoch
          /\ q.what = "distill" /\ q.epoch = epoch =>
                ui.explored /\ (q.mode = "live" /\ shown = epoch => q.of = epoch)

IInv == /\ TraceIsShownWhole /\ VerdictIsCurrent /\ SpinsOnlyWhileStreaming
        /\ InPlace /\ Listed /\ Judging /\ Asking
=============================================================================
