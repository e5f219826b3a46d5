---------------------------- MODULE StudioProofs ----------------------------
(***************************************************************************)
(* Proofs about Studio, for every set of tools, list of candidates and     *)
(* length of the recorded traces: however clicks, frames and late answers  *)
(* interleave, an exploration on display is of one trace, a verdict is of  *)
(* what is selected, no stage is left spinning, and a distillation is of   *)
(* the last trace.                                                         *)
(***************************************************************************)
EXTENDS Studio, TLAPS

-----------------------------------------------------------------------------
(* Typing facts.                                                           *)

LEMMA StreamShape ==
    ASSUME NEW s \in Streams
    PROVE  /\ s # NONE /\ s.sent \in Nat
           /\ \/ s.kind = "explore" /\ s.from \in {"live", "fixture", "cache"}
              \/ s.kind = "score" /\ s.from \in Verdicts
           /\ s = [kind |-> s.kind, from |-> s.from, sent |-> s.sent]
    BY StudioAssumption DEF Streams

LEMMA StreamGoesOn ==
    ASSUME NEW s \in Streams
    PROVE  /\ [s EXCEPT !.sent = @ + 1] \in Streams
           /\ [s EXCEPT !.sent = @ + 1].kind = s.kind
           /\ [s EXCEPT !.sent = @ + 1].from = s.from
           /\ [s EXCEPT !.sent = @ + 1].sent = s.sent + 1
<1>1. s.sent + 1 \in Nat
    BY StreamShape
<1>2. [s EXCEPT !.sent = @ + 1] = [kind |-> s.kind, from |-> s.from, sent |-> s.sent + 1]
    BY StreamShape
<1> QED BY <1>1, <1>2, StreamShape DEF Streams

LEMMA ExplorationTurns ==
    ASSUME NEW s \in Streams, s.kind = "explore"
    PROVE  /\ [s EXCEPT !.from = "cache"] \in Streams
           /\ [s EXCEPT !.from = "cache"].kind = "explore"
           /\ [s EXCEPT !.from = "cache"].from = "cache"
           /\ [s EXCEPT !.from = "fixture", !.sent = 0] \in Streams
           /\ [s EXCEPT !.from = "fixture", !.sent = 0].kind = "explore"
           /\ [s EXCEPT !.from = "fixture", !.sent = 0].from = "fixture"
           /\ [s EXCEPT !.from = "fixture", !.sent = 0].sent = 0
<1> DEFINE E == [kind : {"explore"}, from : {"live", "fixture", "cache"}, sent : Nat]
<1>1. s \in E /\ E \subseteq Streams
    BY StreamShape DEF Streams, Verdicts
<1>2. /\ [s EXCEPT !.from = "cache"] \in E
      /\ [s EXCEPT !.from = "cache"].from = "cache"
    BY <1>1
<1>3. \A f \in {"live", "fixture", "cache"}, k \in Nat :
          /\ [s EXCEPT !.from = f, !.sent = k] \in E
          /\ [s EXCEPT !.from = f, !.sent = k].from = f
          /\ [s EXCEPT !.from = f, !.sent = k].sent = k
    BY <1>1
<1>4. 0 \in Nat /\ \A t \in E : t.kind = "explore"
    OBVIOUS
<1> HIDE DEF E
<1> QED BY <1>1, <1>2, <1>3, <1>4

LEMMA AppendCall ==
    ASSUME NEW u \in UIs, NEW tag \in {"live", "fixture"}
    PROVE  /\ [u EXCEPT !.refCalls = Append(@, tag)] \in UIs
           /\ [u EXCEPT !.refCalls = Append(@, tag)].refCalls = Append(u.refCalls, tag)
<1>1. Append(u.refCalls, tag) \in Seq({"live", "fixture"})
    BY DEF UIs
<1> DEFINE q == Append(u.refCalls, tag)
<1>2. q \in Seq({"live", "fixture"})
    BY <1>1
<1> HIDE DEF q
<1>3. [u EXCEPT !.refCalls = q] \in UIs /\ [u EXCEPT !.refCalls = q].refCalls = q
    BY <1>2 DEF UIs
<1> QED BY <1>3 DEF q

LEMMA UIShape ==
    ASSUME ui \in UIs
    PROVE  /\ ui.refCalls \in Seq({"live", "fixture"})
           /\ {ui.goal, ui.exploring, ui.explored, ui.distilled, ui.scoring, ui.ran} \subseteq BOOLEAN
           /\ ui.spec \in Traces \cup {NONE} /\ ui.equivOn \in SUBSET Tools
           /\ ui.equivSets \in EquivSets \cup {<<>>}
           /\ ui.candidate \in Known \cup {NONE} /\ ui.candCalls \in Nat
           /\ ui.lastDone \in Verdicts \cup {NONE}
    BY DEF UIs

LEMMA Constants ==
    /\ MaxEpoch \in Nat /\ MaxCalls \in Nat /\ FixtureCalls \in Nat /\ CandidateCalls \in Nat
    /\ NONE \notin Traces /\ NONE \notin Known /\ NONE \notin Verdicts /\ NONE \notin Streams
    /\ Fixture \in Traces /\ NONE # Fixture /\ LiveTraces = {t \in Nat : 0 < t /\ t <= MaxEpoch}
    /\ Candidates[1] \in Known
    BY StudioAssumption DEF Traces, LiveTraces, Known, Fixture

\* Of the sets of equivalent tools.
LEMMA SetsOfTools ==
    ASSUME NEW sets \in EquivSets \cup {<<>>}
    PROVE  /\ Members(sets) \subseteq Tools
           /\ \A i \in DOMAIN sets : sets[i] \subseteq Members(sets) /\ sets[i] # {}
<1> DEFINE Inhabited == (SUBSET Tools) \ {{}}
<1>1. EquivSets \subseteq Seq(Inhabited) /\ <<>> \in Seq(Inhabited)
    BY StudioAssumption
<1> HIDE DEF Inhabited
<1>2. \A i \in DOMAIN sets : sets[i] \in Inhabited
    BY <1>1
<1> USE DEF Inhabited
<1> QED BY <1>2 DEF Members

\* What the scorer accepts is of its type, whatever names are sent.
LEMMA VerdictType ==
    ASSUME ui.candidate \in Known, NEW on
    PROVE  VerdictOn(on) \in Verdicts
<1>1. \A i \in DOMAIN Recorded : Recorded[i] \subseteq Tools
    BY SetsOfTools DEF EquivSets, Members
<1> QED BY <1>1 DEF VerdictOn, Accepted, Override, Verdicts

\* A verdict depends on the candidate and the sets on display only.
LEMMA SameVerdict ==
    ASSUME ui'.candidate = ui.candidate, ui'.equivSets = ui.equivSets, ui'.equivOn = ui.equivOn
    PROVE  VerdictOn(ui.equivOn)' = VerdictOn(ui.equivOn)
    BY DEF VerdictOn, Override

\* With the recorded spec on display the scorer accepts what is on.
LEMMA OnIsAccepted ==
    ASSUME ui.equivSets = Recorded, NEW on,
           \A i \in DOMAIN Recorded : Recorded[i] \cap on # {}
    PROVE  \A i \in DOMAIN Recorded : VerdictOn(on).accepted[i] = Recorded[i] \cap on
<1> SUFFICES ASSUME NEW i \in DOMAIN Recorded
             PROVE  Accepted(Override(on))[i] = Recorded[i] \cap on
    BY DEF VerdictOn
<1>1. CASE on = Members(Recorded)
    BY <1>1, SetsOfTools DEF Override, Accepted, EquivSets
<1>2. CASE on # Members(Recorded)
    BY <1>2 DEF Override, Accepted
<1> QED BY <1>1, <1>2

LEMMA InitialFits ==
    /\ InitialUI \in UIs
    /\ ui \in UIs => ExploreStart \in UIs
<1>1. <<>> \in Seq({"live", "fixture"}) /\ <<>> \in EquivSets \cup {<<>>} /\ {} \in SUBSET Tools /\ 0 \in Nat
    OBVIOUS
<1>2. InitialUI \in UIs
    BY <1>1 DEF InitialUI, UIs
<1>3. ASSUME ui \in UIs PROVE ui.goal \in BOOLEAN /\ ui.candidate \in Known \cup {NONE}
    BY <1>3 DEF UIs
<1>4. ASSUME ui \in UIs PROVE ExploreStart \in UIs
    BY <1>2, <1>3, <1>4 DEF ExploreStart, UIs
<1> QED BY <1>2, <1>4

-----------------------------------------------------------------------------
(* The invariant holds initially.                                          *)

LEMMA InitInv == Init => IInv
<1> SUFFICES ASSUME Init PROVE IInv
    OBVIOUS
<1> USE DEF Init
<1>1. TypeOK
  <2>1. ui \in UIs
      BY InitialFits
  <2>2. epoch \in Traces
      BY Constants DEF Traces
  <2> QED BY <2>1, <2>2 DEF TypeOK, Modes, Views
<1>2. ~ui.explored /\ ~ui.ran /\ ~ui.exploring /\ ~ui.scoring /\ ~ui.distilled
      /\ ui.lastDone = NONE /\ ui.spec = NONE /\ ui.equivOn = {}
    BY DEF InitialUI
<1> QED BY <1>1, <1>2, Constants DEF IInv, TraceIsShownWhole, VerdictIsCurrent, SpinsOnlyWhileStreaming,
                          InPlace, Listed, Judging, Asking, Exploring, Scoring

-----------------------------------------------------------------------------
(* Moving between the stages.                                              *)

LEMMA EnterKeepsAsking ==
    ASSUME IInv, NEW v \in Views, Enabled(v), Enter(v)
    PROVE  /\ reqs' \subseteq Requests
           /\ \A q \in reqs' :
                /\ q.epoch <= epoch
                /\ q.what = "distill" /\ q.epoch = epoch =>
                      ui.explored /\ (q.mode = "live" /\ shown = epoch => q.of = epoch)
<1> DEFINE new == [what |-> Wanted(v), mode |-> mode, epoch |-> epoch,
                   of |-> IF mode = "live" THEN cached ELSE NONE]
<1>1. TypeOK /\ Asking
    BY DEF IInv, TraceIsShownWhole
<1>2. CASE reqs' = reqs
    BY <1>1, <1>2 DEF TypeOK, Asking
<1>3. CASE reqs' = reqs \cup {new} /\ Wanted(v) # NONE
  <2>1. Wanted(v) \in {"goal", "distill", "candidates"}
      BY <1>3 DEF Wanted, Views
  <2>2. new \in Requests
      BY <1>1, <2>1 DEF TypeOK, Requests
  <2>3. epoch <= epoch
      BY <1>1 DEF TypeOK, Traces
  <2>4. Wanted(v) = "distill" => v = "distill" \/ Wanted(v) = NONE
      BY DEF Wanted, Views
  <2>5. Wanted(v) = "distill" => ui.explored
      BY <1>3, <2>4 DEF Enabled
  <2>6. ui.explored /\ shown = epoch => cached = epoch
      BY <1>1 DEF Asking
  <2> QED BY <1>1, <1>3, <2>2, <2>3, <2>5, <2>6 DEF TypeOK, Asking
<1> QED BY <1>2, <1>3 DEF Enter

\* Closing a stream leaves nothing to say of it.
LEMMA ClosedStream ==
    ASSUME stream' = NONE
    PROVE  ~Scoring' /\ \A from : ~Exploring(from)'
    BY DEF Scoring, Exploring

LEMMA GoInv ==
    ASSUME IInv, NEW v \in Views, Go(v)
    PROVE  IInv'
<1> USE DEF Go, Abandon
<1>1. TypeOK /\ TraceIsShownWhole /\ InPlace /\ SpinsOnlyWhileStreaming /\ VerdictIsCurrent /\ Judging /\ Asking
    BY DEF IInv, TraceIsShownWhole
<1>2. TypeOK'
    BY <1>1, EnterKeepsAsking DEF TypeOK
<1>3. TraceIsShownWhole'
    BY <1>1, <1>2 DEF TraceIsShownWhole, FromFixture
<1>4. SpinsOnlyWhileStreaming'
    BY <1>1 DEF SpinsOnlyWhileStreaming, Scoring
<1>5. VerdictIsCurrent' /\ Judging'
    BY <1>1, ClosedStream, SameVerdict DEF VerdictIsCurrent, Judging
<1>6. InPlace'
    BY <1>1, ClosedStream DEF InPlace, Enabled
<1>7. Listed'
    BY ClosedStream DEF Listed
<1>8. Asking'
    BY <1>1, EnterKeepsAsking DEF Asking
<1> QED BY <1>3, <1>4, <1>5, <1>6, <1>7, <1>8 DEF IInv

LEMMA CarryInv ==
    ASSUME IInv, CarryAdvisorDesign
    PROVE  IInv'
<1> USE DEF CarryAdvisorDesign, Abandon
<1>1. TypeOK /\ TraceIsShownWhole /\ InPlace /\ SpinsOnlyWhileStreaming /\ VerdictIsCurrent /\ Judging /\ Asking
    BY DEF IInv, TraceIsShownWhole
<1>2. TraceIsShownWhole'
    BY <1>1 DEF TypeOK, Views, TraceIsShownWhole, FromFixture
<1>3. SpinsOnlyWhileStreaming'
    BY <1>1 DEF SpinsOnlyWhileStreaming, Scoring
<1>4. VerdictIsCurrent' /\ Judging' /\ Listed'
    BY <1>1, ClosedStream, SameVerdict DEF VerdictIsCurrent, Judging, Listed
<1>5. InPlace' /\ Asking'
    BY <1>1, ClosedStream DEF InPlace, Asking
<1> QED BY <1>2, <1>3, <1>4, <1>5 DEF IInv

\* A new epoch: what is still under way was asked for before it.
LEMMA NewEpoch ==
    ASSUME TypeOK, Asking, epoch < MaxEpoch, epoch' = epoch + 1, reqs' = reqs, ~ui'.explored
    PROVE  Asking' /\ epoch' \in Traces /\ epoch' > 0
<1>1. epoch \in Nat /\ epoch' \in Traces /\ epoch' > 0
    BY Constants DEF TypeOK, Traces
<1>2. \A q \in reqs : q.epoch \in Nat /\ q.epoch <= epoch
    BY DEF TypeOK, Asking, Requests, Traces
<1>3. \A q \in reqs : q.epoch <= epoch + 1 /\ q.epoch # epoch + 1
    BY <1>1, <1>2
<1> QED BY <1>1, <1>3 DEF Asking

LEMMA SetModeInv ==
    ASSUME IInv, NEW m \in Modes, SetMode(m)
    PROVE  IInv'
<1> USE DEF SetMode
<1>1. TypeOK /\ Asking
    BY DEF IInv, TraceIsShownWhole
<1>2. ~ui'.explored /\ ~ui'.ran /\ ~ui'.exploring /\ ~ui'.scoring /\ ~ui'.distilled
      /\ ui'.lastDone = NONE /\ ui'.spec = NONE /\ ui'.equivOn = {}
    BY DEF InitialUI
<1>3. Asking' /\ epoch' \in Traces
    BY <1>1, <1>2, NewEpoch
<1>4. TypeOK'
    BY <1>1, <1>3, InitialFits DEF TypeOK, Views
<1> QED BY <1>2, <1>3, <1>4, ClosedStream, Constants
        DEF IInv, TraceIsShownWhole, VerdictIsCurrent, SpinsOnlyWhileStreaming, InPlace, Listed, Judging

-----------------------------------------------------------------------------
(* Exploring.                                                              *)

LEMMA RunExploreInv ==
    ASSUME IInv, RunExplore
    PROVE  IInv'
<1> USE DEF RunExplore
<1>1. TypeOK /\ Asking
    BY DEF IInv, TraceIsShownWhole
<1>2. /\ ui'.explored = FALSE /\ ui'.ran = FALSE /\ ui'.exploring = TRUE /\ ui'.scoring = FALSE
      /\ ui'.distilled = FALSE /\ ui'.lastDone = NONE /\ ui'.spec = NONE /\ ui'.refCalls = <<>> /\ ui'.equivOn = {}
    BY DEF InitialUI, ExploreStart
<1>3. Asking' /\ epoch' \in Traces /\ epoch' > 0
    BY <1>1, <1>2, NewEpoch
<1>4. /\ stream' \in Streams /\ stream'.kind = "explore" /\ stream'.sent = 0
      /\ stream'.from \in {"live", "fixture"} /\ stream' # NONE
    BY Constants DEF Streams
<1>5. TypeOK'
    BY <1>1, <1>3, <1>4, InitialFits DEF TypeOK
<1>6. TraceIsShownWhole' /\ VerdictIsCurrent' /\ SpinsOnlyWhileStreaming'
    BY <1>2, <1>4, <1>5, SameVerdict DEF TraceIsShownWhole, VerdictIsCurrent, SpinsOnlyWhileStreaming
<1>7. InPlace' /\ Judging'
    BY <1>2, <1>3, <1>4, Constants DEF InPlace, Judging, Scoring
<1>8. Listed'
    BY <1>2, <1>4, Constants DEF Listed, Exploring, FromFixture
<1> QED BY <1>3, <1>6, <1>7, <1>8 DEF IInv

\* What an open exploration says of the rest.
LEMMA WhileExploring ==
    ASSUME IInv, NEW from, Exploring(from)
    PROVE  /\ stream \in Streams /\ stream # NONE /\ stream.kind = "explore" /\ stream.from = from
           /\ stream.sent \in Nat /\ ui \in UIs /\ ui.refCalls \in Seq({"live", "fixture"})
           /\ Len(ui.refCalls) \in Nat /\ epoch \in Nat
           /\ ~Scoring /\ ~ui.explored /\ view = "explore" /\ epoch > 0
<1>1. TypeOK /\ InPlace /\ Judging
    BY DEF IInv, TraceIsShownWhole
<1>2. stream \in Streams /\ stream.kind = "explore" /\ stream.from = from
    BY <1>1 DEF TypeOK, Exploring
<1>3. epoch \in Nat /\ ui.refCalls \in Seq({"live", "fixture"})
    BY <1>1, UIShape, Constants DEF TypeOK, Traces
<1> QED BY <1>1, <1>2, <1>3, StreamShape DEF TypeOK, InPlace, Judging, Scoring

LEMMA LiveCallInv ==
    ASSUME IInv, LiveCall
    PROVE  IInv'
<1> USE DEF LiveCall
<1> DEFINE n == Len(ui.refCalls)
<1>0. TypeOK /\ VerdictIsCurrent /\ SpinsOnlyWhileStreaming /\ InPlace /\ Judging /\ Asking
    BY DEF IInv, TraceIsShownWhole
<1>1. /\ stream \in Streams /\ stream # NONE /\ stream.kind = "explore" /\ stream.from = "live"
      /\ stream.sent \in Nat /\ ui \in UIs /\ ui.refCalls \in Seq({"live", "fixture"})
      /\ n \in Nat /\ ~Scoring /\ ~ui.explored
    BY WhileExploring
<1>2. FromFixture = {} /\ n = stream.sent
    BY DEF IInv, Listed
<1>3. /\ stream' \in Streams /\ stream' # NONE /\ stream'.kind = "explore" /\ stream'.from = "live"
      /\ stream'.sent = stream.sent + 1
    BY <1>1, StreamGoesOn, Constants
<1>4. /\ ui' \in UIs /\ ui'.refCalls = Append(ui.refCalls, "live")
      /\ ui'.explored = ui.explored /\ ui'.exploring = ui.exploring /\ ui'.scoring = ui.scoring
      /\ ui'.ran = ui.ran /\ ui'.lastDone = ui.lastDone /\ ui'.candidate = ui.candidate
      /\ ui'.equivOn = ui.equivOn /\ ui'.equivSets = ui.equivSets /\ ui'.distilled = ui.distilled /\ ui'.spec = ui.spec
    BY <1>1, AppendCall DEF ShowCall, UIs
<1>5. Len(ui'.refCalls) = n + 1 /\ FromFixture' = {}
    BY <1>1, <1>2, <1>4 DEF FromFixture
<1>6. TypeOK'
    BY <1>0, <1>3, <1>4 DEF TypeOK
<1>7. TraceIsShownWhole' /\ VerdictIsCurrent' /\ SpinsOnlyWhileStreaming'
    BY <1>0, <1>1, <1>3, <1>4, <1>6, SameVerdict DEF TraceIsShownWhole, VerdictIsCurrent, SpinsOnlyWhileStreaming, Scoring
<1>8. InPlace' /\ Judging' /\ Asking'
    BY <1>0, <1>1, <1>3, <1>4, SameVerdict DEF InPlace, Judging, Asking, Scoring
<1>9. Listed'
    BY <1>1, <1>2, <1>3, <1>5, Constants DEF Listed, Exploring
<1> QED BY <1>7, <1>8, <1>9 DEF IInv

LEMMA LiveEndsInv ==
    ASSUME IInv, LiveEnds
    PROVE  IInv'
<1> USE DEF LiveEnds
<1>0. TypeOK /\ VerdictIsCurrent /\ SpinsOnlyWhileStreaming /\ InPlace /\ Listed /\ Judging /\ Asking
    BY DEF IInv, TraceIsShownWhole
<1>1. /\ stream \in Streams /\ stream # NONE /\ stream.kind = "explore"
      /\ stream.sent \in Nat /\ ~Scoring /\ ~ui.explored /\ epoch > 0
    BY WhileExploring
<1>2. /\ stream' \in Streams /\ stream' # NONE /\ stream'.kind = "explore" /\ stream'.from = "cache"
    BY <1>1, ExplorationTurns, Constants
<1>3. TypeOK'
  <2>1. epoch \in LiveTraces
      BY <1>0, <1>1 DEF TypeOK, LiveTraces, Fixture, Traces
  <2> QED BY <1>0, <1>2, <2>1 DEF TypeOK
<1>4. TraceIsShownWhole' /\ VerdictIsCurrent' /\ SpinsOnlyWhileStreaming'
    BY <1>0, <1>1, <1>2, <1>3, SameVerdict DEF TraceIsShownWhole, VerdictIsCurrent, SpinsOnlyWhileStreaming, Scoring
<1>5. InPlace' /\ Judging' /\ Asking'
    BY <1>0, <1>1, <1>2, SameVerdict DEF InPlace, Judging, Asking, Scoring
<1>6. Listed'
    BY <1>0, <1>2 DEF Listed, Exploring, FromFixture
<1> QED BY <1>4, <1>5, <1>6 DEF IInv

LEMMA LiveFailsInv ==
    ASSUME IInv, LiveFails
    PROVE  IInv'
<1> USE DEF LiveFails
<1>0. TypeOK /\ VerdictIsCurrent /\ SpinsOnlyWhileStreaming /\ InPlace /\ Listed /\ Judging /\ Asking
    BY DEF IInv, TraceIsShownWhole
<1>1. /\ stream \in Streams /\ stream # NONE /\ stream.kind = "explore"
      /\ stream.sent \in Nat /\ ~Scoring /\ ~ui.explored /\ Len(ui.refCalls) \in Nat
    BY WhileExploring
<1>2. /\ stream' \in Streams /\ stream' # NONE /\ stream'.kind = "explore" /\ stream'.from = "fixture"
      /\ stream'.sent = 0
    BY <1>1, ExplorationTurns, Constants
<1>3. TypeOK'
    BY <1>0, <1>2 DEF TypeOK
<1>4. TraceIsShownWhole' /\ VerdictIsCurrent' /\ SpinsOnlyWhileStreaming'
    BY <1>0, <1>1, <1>2, <1>3, SameVerdict DEF TraceIsShownWhole, VerdictIsCurrent, SpinsOnlyWhileStreaming, Scoring
<1>5. InPlace' /\ Judging' /\ Asking'
    BY <1>0, <1>1, <1>2, SameVerdict DEF InPlace, Judging, Asking, Scoring
<1>6. Listed'
  <2>1. FromFixture' = {}
      BY <1>0 DEF Listed, FromFixture
  <2>2. (Len(ui.refCalls) - 0 + 1)..Len(ui.refCalls) = {}
      BY <1>1
  <2> QED BY <1>2, <2>1, <2>2 DEF Listed, Exploring
<1> QED BY <1>4, <1>5, <1>6 DEF IInv

LEMMA FixtureCallInv ==
    ASSUME IInv, FixtureCall
    PROVE  IInv'
<1> USE DEF FixtureCall
<1> DEFINE n == Len(ui.refCalls)
<1>0. TypeOK /\ VerdictIsCurrent /\ SpinsOnlyWhileStreaming /\ InPlace /\ Judging /\ Asking
    BY DEF IInv, TraceIsShownWhole
<1>1. /\ stream \in Streams /\ stream # NONE /\ stream.kind = "explore"
      /\ stream.sent \in Nat /\ ui \in UIs /\ ui.refCalls \in Seq({"live", "fixture"})
      /\ n \in Nat /\ ~Scoring /\ ~ui.explored
    BY WhileExploring
<1>2. FromFixture = (n - stream.sent + 1)..n
    BY DEF IInv, Listed
<1>3. /\ stream' \in Streams /\ stream' # NONE /\ stream'.kind = "explore" /\ stream'.from = "fixture"
      /\ stream'.sent = stream.sent + 1
    BY <1>1, StreamGoesOn, Constants DEF Exploring
<1>4. /\ ui' \in UIs /\ ui'.refCalls = Append(ui.refCalls, "fixture")
      /\ ui'.explored = ui.explored /\ ui'.exploring = ui.exploring /\ ui'.scoring = ui.scoring
      /\ ui'.ran = ui.ran /\ ui'.lastDone = ui.lastDone /\ ui'.candidate = ui.candidate
      /\ ui'.equivOn = ui.equivOn /\ ui'.equivSets = ui.equivSets /\ ui'.distilled = ui.distilled /\ ui'.spec = ui.spec
    BY <1>1, AppendCall DEF ShowCall, UIs
<1>5. Len(ui'.refCalls) = n + 1 /\ FromFixture' = FromFixture \cup {n + 1}
    BY <1>1, <1>4 DEF FromFixture
<1>6. TypeOK'
    BY <1>0, <1>3, <1>4 DEF TypeOK
<1>7. TraceIsShownWhole' /\ VerdictIsCurrent' /\ SpinsOnlyWhileStreaming'
    BY <1>0, <1>1, <1>3, <1>4, <1>6, SameVerdict DEF TraceIsShownWhole, VerdictIsCurrent, SpinsOnlyWhileStreaming, Scoring
<1>8. InPlace' /\ Judging' /\ Asking'
    BY <1>0, <1>1, <1>3, <1>4, SameVerdict DEF InPlace, Judging, Asking, Scoring
<1>9. Listed'
  <2>1. (n - stream.sent + 1)..n \cup {n + 1} = ((n + 1) - (stream.sent + 1) + 1)..(n + 1)
      BY <1>1, SMTT(30)
  <2> QED BY <1>2, <1>3, <1>5, <2>1 DEF Listed, Exploring
<1> QED BY <1>7, <1>8, <1>9 DEF IInv

LEMMA ExploreDoneInv ==
    ASSUME IInv, ExploreDone
    PROVE  IInv'
<1> USE DEF ExploreDone
<1>0. TypeOK /\ VerdictIsCurrent /\ SpinsOnlyWhileStreaming /\ InPlace /\ Listed /\ Judging /\ Asking
    BY DEF IInv, TraceIsShownWhole
<1>1. /\ stream # NONE /\ stream.kind = "explore" /\ ui \in UIs /\ epoch \in Nat
      /\ ~Scoring /\ ~ui.explored /\ epoch > 0
      /\ ui.refCalls \in Seq({"live", "fixture"})
    BY WhileExploring
<1>2. /\ ui' \in UIs /\ ui'.refCalls = ui.refCalls /\ ui'.explored = TRUE /\ ui'.exploring = FALSE
      /\ ui'.scoring = ui.scoring
      /\ ui'.ran = ui.ran /\ ui'.lastDone = ui.lastDone /\ ui'.candidate = ui.candidate
      /\ ui'.equivOn = ui.equivOn /\ ui'.equivSets = ui.equivSets /\ ui'.distilled = ui.distilled /\ ui'.spec = ui.spec
    BY <1>1 DEF UIs
<1>3. shown' \in Traces /\ shown' # NONE /\ (shown' = Fixture \/ (shown' = epoch /\ Exploring("cache")))
    BY <1>0, Constants DEF TypeOK
<1>4. shown' = Fixture => Exploring("fixture") /\ stream.sent = FixtureCalls
    BY <1>1 DEF Fixture
<1>5. TypeOK'
    BY <1>0, <1>2, <1>3 DEF TypeOK
<1>6. TraceIsShownWhole'
  <2>1. FromFixture' = FromFixture
      BY <1>2 DEF FromFixture
  <2>2. CASE shown' = Fixture
      BY <1>0, <1>2, <1>4, <1>5, <2>1, <2>2 DEF TraceIsShownWhole, Listed
  <2>3. CASE shown' # Fixture
      BY <1>0, <1>2, <1>3, <1>5, <2>1, <2>3 DEF TraceIsShownWhole, Listed
  <2> QED BY <2>2, <2>3
<1>7. VerdictIsCurrent' /\ SpinsOnlyWhileStreaming'
    BY <1>0, <1>1, <1>2, SameVerdict DEF VerdictIsCurrent, SpinsOnlyWhileStreaming, Scoring
<1>8. InPlace' /\ Judging' /\ Listed'
    BY <1>0, <1>2, <1>3, ClosedStream, SameVerdict DEF InPlace, Judging, Listed
<1>9. Asking'
  <2>1. shown' = epoch => cached = epoch
      BY <1>0, <1>1, <1>3 DEF Listed, Fixture
  <2> QED BY <1>0, <1>1, <2>1 DEF Asking
<1> QED BY <1>6, <1>7, <1>8, <1>9 DEF IInv

-----------------------------------------------------------------------------
(* Answers.                                                                *)

\* Requests are dropped and nothing else of Asking moves.
LEMMA FewerRequests ==
    ASSUME TypeOK, Asking, reqs' \subseteq reqs, UNCHANGED <<cached, epoch, shown>>,
           ui'.explored = ui.explored
    PROVE  Asking' /\ reqs' \subseteq Requests
    BY DEF TypeOK, Asking

LEMMA UnansweredInv ==
    ASSUME IInv, NEW q \in reqs, Unanswered(q)
    PROVE  IInv'
<1> USE DEF Unanswered
<1>0. TypeOK /\ TraceIsShownWhole /\ VerdictIsCurrent /\ SpinsOnlyWhileStreaming /\ InPlace /\ Listed
      /\ Judging /\ Asking
    BY DEF IInv, TraceIsShownWhole
<1>1. Asking' /\ reqs' \subseteq Requests
    BY <1>0, FewerRequests
<1>2. TypeOK'
    BY <1>0, <1>1 DEF TypeOK
<1>3. TraceIsShownWhole' /\ Listed'
    BY <1>0, <1>2 DEF TraceIsShownWhole, Listed, FromFixture, Exploring
<1>4. VerdictIsCurrent' /\ SpinsOnlyWhileStreaming' /\ InPlace' /\ Judging'
    BY <1>0, SameVerdict DEF VerdictIsCurrent, SpinsOnlyWhileStreaming, InPlace, Judging, Scoring, Exploring
<1> QED BY <1>1, <1>3, <1>4 DEF IInv

\* The answers that no trace depends on.
LEMMA PlainAnswerInv ==
    ASSUME IInv, NEW q \in reqs, Answer(q), UNCHANGED spoiled,
           ui' = [ui EXCEPT !.goal = TRUE] \/ ui' = CandidatesLoaded
    PROVE  IInv'
<1> USE DEF Answer
<1>0. TypeOK /\ TraceIsShownWhole /\ VerdictIsCurrent /\ SpinsOnlyWhileStreaming /\ InPlace /\ Listed
      /\ Judging /\ Asking
    BY DEF IInv, TraceIsShownWhole
<1>1. ui \in UIs
    BY <1>0 DEF TypeOK
<1>2. /\ ui' \in UIs /\ ui'.refCalls = ui.refCalls /\ ui'.explored = ui.explored
      /\ ui'.exploring = ui.exploring /\ ui'.scoring = ui.scoring
      /\ ui'.ran = ui.ran /\ ui'.lastDone = ui.lastDone
      /\ ui'.equivOn = ui.equivOn /\ ui'.equivSets = ui.equivSets /\ ui'.distilled = ui.distilled /\ ui'.spec = ui.spec
      /\ (ui.candidate # NONE => ui'.candidate = ui.candidate)
  <2>1. CASE ui' = [ui EXCEPT !.goal = TRUE]
      BY <1>1, <2>1 DEF UIs
  <2>2. CASE ui' = CandidatesLoaded
    <3>1. PICK c \in Known : /\ ui' = [ui EXCEPT !.candidate = c]
                             /\ ui.candidate # NONE => c = ui.candidate
        BY <1>1, <2>2, UIShape, Constants DEF CandidatesLoaded
    <3> QED BY <1>1, <3>1 DEF UIs
  <2> QED BY <2>1, <2>2
<1>3. Asking' /\ reqs' \subseteq Requests
    BY <1>0, <1>2, FewerRequests
<1>4. TypeOK'
    BY <1>0, <1>2, <1>3 DEF TypeOK
<1>5. TraceIsShownWhole' /\ Listed'
    BY <1>0, <1>2, <1>4 DEF TraceIsShownWhole, Listed, FromFixture, Exploring
<1>6. VerdictIsCurrent' /\ SpinsOnlyWhileStreaming'
    BY <1>0, <1>2, SameVerdict DEF VerdictIsCurrent, SpinsOnlyWhileStreaming, Judging, Scoring
<1>7. InPlace' /\ Judging'
    BY <1>0, <1>2, SameVerdict DEF InPlace, Judging, Scoring
<1> QED BY <1>3, <1>5, <1>6, <1>7 DEF IInv

LEMMA SpecArrivesInv ==
    ASSUME IInv, NEW q \in reqs, Answer(q), NEW trace \in Traces,
           NEW sets \in EquivSets, trace = Fixture => sets = Recorded, ui' = Distilled(trace, sets),
           spoiled' = (spoiled \/ Scoring)
    PROVE  IInv'
<1> USE DEF Answer
<1>0. TypeOK /\ TraceIsShownWhole /\ SpinsOnlyWhileStreaming /\ InPlace /\ Listed /\ Judging /\ Asking
    BY DEF IInv, TraceIsShownWhole
<1>1. ui \in UIs
    BY <1>0 DEF TypeOK
<1>2. /\ ui' \in UIs /\ ui'.refCalls = ui.refCalls /\ ui'.explored = ui.explored
      /\ ui'.exploring = ui.exploring /\ ui'.scoring = FALSE
      /\ ui'.ran = FALSE /\ ui'.lastDone = NONE /\ ui'.candidate = ui.candidate
      /\ ui'.equivSets = sets /\ ui'.equivOn = Members(sets)
      /\ ui'.distilled = TRUE /\ ui'.spec = trace
  <2>1. Members(sets) \in SUBSET Tools
      BY SetsOfTools
  <2> QED BY <1>1, <2>1 DEF Distilled, UIs
<1>3. Asking' /\ reqs' \subseteq Requests
    BY <1>0, <1>2, FewerRequests
<1>4. TypeOK'
    BY <1>0, <1>2, <1>3 DEF TypeOK
<1>5. TraceIsShownWhole' /\ Listed'
    BY <1>0, <1>2, <1>4 DEF TraceIsShownWhole, Listed, FromFixture, Exploring
<1>6. VerdictIsCurrent' /\ SpinsOnlyWhileStreaming' /\ InPlace'
    BY <1>0, <1>2, SameVerdict DEF VerdictIsCurrent, SpinsOnlyWhileStreaming, InPlace, Scoring
<1>7. Judging'
  <2>1. \A i \in DOMAIN sets : sets[i] \cap Members(sets) # {}
      BY SetsOfTools
  <2> QED BY <1>0, <1>2, <2>1, Constants, SameVerdict DEF Judging, Scoring
<1> QED BY <1>3, <1>5, <1>6, <1>7 DEF IInv

LEMMA AnswerInv ==
    ASSUME IInv, NEW q \in reqs, Answer(q)
    PROVE  IInv'
<1>1. q.of \in LiveTraces \cup {NONE} /\ LiveTraces \subseteq Traces \ {Fixture}
    BY DEF IInv, TraceIsShownWhole, TypeOK, Requests, LiveTraces
<1>2. CASE ui' = [ui EXCEPT !.goal = TRUE] /\ UNCHANGED spoiled
    BY <1>2, PlainAnswerInv
<1>3. CASE ui' = CandidatesLoaded /\ UNCHANGED spoiled
    BY <1>3, PlainAnswerInv
<1>4. ASSUME NEW sets \in LiveSets, q.of # NONE, ui' = Distilled(q.of, sets),
             spoiled' = (spoiled \/ Scoring)
      PROVE  IInv'
    BY <1>1, <1>4, SpecArrivesInv DEF EquivSets
<1>5. CASE ui' = Distilled(Fixture, Recorded) /\ spoiled' = (spoiled \/ Scoring)
    BY <1>5, SpecArrivesInv, Constants DEF EquivSets
<1> QED BY <1>2, <1>3, <1>4, <1>5 DEF Answer, Scoring

-----------------------------------------------------------------------------
(* Scoring.                                                                *)

LEMMA StartScoringInv ==
    ASSUME IInv, NEW on \in SUBSET Tools, on \subseteq Members(ui.equivSets),
           ui.spec = Fixture => \A i \in DOMAIN Recorded : Recorded[i] \cap on # {},
           StartScoring(on),
           view \in {"distill", "score"}, ui.distilled, ui.candidate # NONE,
           ui.ran \/ view = "score",
           UNCHANGED <<mode, view, asked, reqs, cached, epoch, shown>>
    PROVE  IInv'
<1> USE DEF StartScoring
<1>0. TypeOK /\ TraceIsShownWhole /\ SpinsOnlyWhileStreaming /\ InPlace /\ Judging /\ Asking
    BY DEF IInv, TraceIsShownWhole
<1>1. ui \in UIs
    BY <1>0 DEF TypeOK
<1>2. /\ ui' \in UIs /\ ui'.refCalls = ui.refCalls /\ ui'.explored = ui.explored
      /\ ui'.exploring = ui.exploring /\ ui'.scoring = TRUE
      /\ ui'.ran = ui.ran /\ ui'.lastDone = ui.lastDone /\ ui'.candidate = ui.candidate
      /\ ui'.equivOn = on /\ ui'.equivSets = ui.equivSets /\ ui'.distilled = ui.distilled /\ ui'.spec = ui.spec
    BY <1>1 DEF UIs
<1>3. VerdictOn(on) \in Verdicts /\ VerdictOn(ui.equivOn)' = VerdictOn(on)
  <2>1. ui.candidate \in Known
      BY <1>1, UIShape
  <2> QED BY <1>2, <2>1, VerdictType DEF VerdictOn, Override
<1>4. /\ stream' \in Streams /\ stream' # NONE /\ stream'.kind = "score"
      /\ stream'.from = VerdictOn(on)
    BY <1>3, Constants DEF Streams
<1>5. TypeOK'
    BY <1>0, <1>2, <1>4 DEF TypeOK
<1>6. TraceIsShownWhole' /\ Listed'
    BY <1>0, <1>2, <1>4, <1>5 DEF TraceIsShownWhole, Listed, FromFixture, Exploring
<1>7. VerdictIsCurrent' /\ SpinsOnlyWhileStreaming'
    BY <1>0, <1>2, <1>4 DEF VerdictIsCurrent, SpinsOnlyWhileStreaming, InPlace, Scoring
<1>8. InPlace'
    BY <1>0, <1>2, <1>4 DEF InPlace, Scoring
<1>9. Judging'
    BY <1>0, <1>2, <1>3, <1>4 DEF Judging
<1>10. Asking'
    BY <1>0, <1>2 DEF Asking
<1> QED BY <1>6, <1>7, <1>8, <1>9, <1>10 DEF IInv

LEMMA RunCandidateInv ==
    ASSUME IInv, RunCandidate
    PROVE  IInv'
<1>1. /\ view = "score" /\ ui.distilled /\ ui.equivOn \in SUBSET Tools
      /\ ui.equivOn \subseteq Members(ui.equivSets)
      /\ ui.spec = Fixture => \A i \in DOMAIN Recorded : Recorded[i] \cap ui.equivOn # {}
    BY UIShape DEF RunCandidate, IInv, TraceIsShownWhole, TypeOK, InPlace, Judging
<1> QED BY <1>1, StartScoringInv DEF RunCandidate

LEMMA ToggleInv ==
    ASSUME IInv, NEW t \in Tools, ToggleEquiv(t)
    PROVE  IInv'
<1> DEFINE on == IF t \in ui.equivOn THEN ui.equivOn \ {t} ELSE ui.equivOn \cup {t}
<1>0. TypeOK /\ TraceIsShownWhole /\ SpinsOnlyWhileStreaming /\ InPlace /\ Listed /\ Judging /\ Asking
    BY DEF IInv, TraceIsShownWhole
<1>1. ui \in UIs /\ ui.equivOn \in SUBSET Tools /\ ui.equivSets \in EquivSets \cup {<<>>}
    BY <1>0, UIShape DEF TypeOK
<1>2. on \in SUBSET Tools
    BY <1>1
<1>3. PICK i \in DOMAIN ui.equivSets :
          t \in ui.equivSets[i] /\ (t \in ui.equivOn => ui.equivSets[i] \cap (ui.equivOn \ {t}) # {})
    BY DEF ToggleEquiv, MayToggle
<1>4. on \subseteq Members(ui.equivSets)
    BY <1>0, <1>1, <1>3, SetsOfTools DEF Judging
<1>5. ASSUME ui.spec = Fixture, NEW k \in DOMAIN Recorded PROVE Recorded[k] \cap on # {}
  <2>1. ui.equivSets = Recorded /\ Recorded[k] \cap ui.equivOn # {}
      BY <1>0, <1>5 DEF Judging
  <2>2. CASE k = i
      BY <1>3, <2>1, <2>2
  <2>3. CASE k # i
    <3>1. t \notin Recorded[k]
        BY <1>3, <2>1, <2>3, StudioAssumption
    <3> QED BY <2>1, <3>1
  <2> QED BY <2>2, <2>3
<1>6. /\ view \in {"distill", "score"} /\ ui.distilled
      /\ view = "score" => ui.ran
      /\ UNCHANGED <<mode, view, asked, reqs, cached, epoch, shown>>
    BY <1>0 DEF ToggleEquiv, InPlace, Judging
<1>7. \/ ui.ran /\ ui.candidate # NONE /\ StartScoring(on)
      \/ ~ui.ran /\ ui' = [ui EXCEPT !.equivOn = on] /\ UNCHANGED <<stream, left, spoiled>>
    BY <1>0 DEF ToggleEquiv, Judging
<1> HIDE DEF on
<1>8. CASE ui.ran /\ ui.candidate # NONE /\ StartScoring(on)
    BY <1>2, <1>4, <1>5, <1>6, <1>8, StartScoringInv
<1>9. CASE ~ui.ran /\ ui' = [ui EXCEPT !.equivOn = on] /\ UNCHANGED <<stream, left, spoiled>>
  <2> USE <1>6, <1>9
  <2>1. /\ ui' \in UIs /\ ui'.refCalls = ui.refCalls /\ ui'.explored = ui.explored
        /\ ui'.exploring = ui.exploring /\ ui'.scoring = ui.scoring
        /\ ui'.ran = ui.ran /\ ui'.lastDone = ui.lastDone /\ ui'.candidate = ui.candidate
        /\ ui'.equivOn = on /\ ui'.equivSets = ui.equivSets
        /\ ui'.distilled = ui.distilled /\ ui'.spec = ui.spec
      BY <1>1, <1>2 DEF UIs
  <2>2. TypeOK'
      BY <1>0, <2>1 DEF TypeOK
  <2>3. TraceIsShownWhole' /\ Listed'
      BY <1>0, <2>1, <2>2 DEF TraceIsShownWhole, Listed, FromFixture, Exploring
  <2>4. VerdictIsCurrent' /\ SpinsOnlyWhileStreaming' /\ InPlace'
      BY <1>0, <2>1 DEF VerdictIsCurrent, SpinsOnlyWhileStreaming, InPlace, Scoring
  <2>5. Judging'
      BY <1>0, <1>4, <1>5, <2>1 DEF Judging, Scoring, InPlace
  <2>6. Asking'
      BY <1>0, <2>1 DEF Asking
  <2> QED BY <2>3, <2>4, <2>5, <2>6 DEF IInv
<1> QED BY <1>7, <1>8, <1>9

LEMMA SetCandidateInv ==
    ASSUME IInv, NEW c \in Known, SetCandidate(c)
    PROVE  IInv'
<1> USE DEF SetCandidate, Abandon
<1>0. TypeOK /\ TraceIsShownWhole /\ SpinsOnlyWhileStreaming /\ InPlace /\ Judging /\ Asking
    BY DEF IInv, TraceIsShownWhole
<1>1. ui \in UIs
    BY <1>0 DEF TypeOK
<1>2. /\ ui' \in UIs /\ ui'.refCalls = ui.refCalls /\ ui'.explored = ui.explored
      /\ ui'.exploring = ui.exploring /\ ui'.scoring = ui.scoring
      /\ ui'.ran = FALSE /\ ui'.lastDone = NONE
      /\ ui'.equivOn = ui.equivOn /\ ui'.equivSets = ui.equivSets /\ ui'.distilled = ui.distilled /\ ui'.spec = ui.spec
    BY <1>1 DEF UIs
<1>3. TypeOK'
    BY <1>0, <1>2 DEF TypeOK
<1>4. TraceIsShownWhole'
    BY <1>0, <1>2, <1>3 DEF TraceIsShownWhole, FromFixture
<1>5. VerdictIsCurrent' /\ SpinsOnlyWhileStreaming'
    BY <1>0, <1>2, SameVerdict DEF VerdictIsCurrent, SpinsOnlyWhileStreaming, Scoring
<1>6. InPlace' /\ Judging' /\ Listed' /\ Asking'
    BY <1>0, <1>2, ClosedStream, SameVerdict DEF InPlace, Judging, Listed, Asking
<1> QED BY <1>4, <1>5, <1>6 DEF IInv

LEMMA ScoreCallInv ==
    ASSUME IInv, ScoreCall
    PROVE  IInv'
<1> USE DEF ScoreCall
<1>0. TypeOK /\ TraceIsShownWhole /\ VerdictIsCurrent /\ SpinsOnlyWhileStreaming /\ InPlace /\ Judging /\ Asking
    BY DEF IInv, TraceIsShownWhole
<1>1. ui \in UIs /\ stream \in Streams /\ stream.kind = "score" /\ stream # NONE
    BY <1>0 DEF TypeOK, Scoring
<1>2. /\ ui' \in UIs /\ ui'.refCalls = ui.refCalls /\ ui'.explored = ui.explored
      /\ ui'.exploring = ui.exploring /\ ui'.scoring = ui.scoring
      /\ ui'.ran = ui.ran /\ ui'.lastDone = ui.lastDone /\ ui'.candidate = ui.candidate
      /\ ui'.equivOn = ui.equivOn /\ ui'.equivSets = ui.equivSets /\ ui'.distilled = ui.distilled /\ ui'.spec = ui.spec
    BY <1>1 DEF UIs
<1>3. stream' \in Streams /\ stream'.kind = "score" /\ stream'.from = stream.from /\ stream' # NONE
    BY <1>1, StreamGoesOn, Constants
<1>4. TypeOK'
    BY <1>0, <1>2, <1>3 DEF TypeOK
<1>5. TraceIsShownWhole' /\ Listed'
    BY <1>0, <1>2, <1>3, <1>4 DEF TraceIsShownWhole, Listed, FromFixture, Exploring
<1>6. VerdictIsCurrent' /\ SpinsOnlyWhileStreaming' /\ InPlace'
    BY <1>0, <1>1, <1>2, <1>3, SameVerdict DEF VerdictIsCurrent, SpinsOnlyWhileStreaming, InPlace, Scoring
<1>7. Judging' /\ Asking'
    BY <1>0, <1>2, <1>3, SameVerdict DEF Judging, Scoring, Asking
<1> QED BY <1>5, <1>6, <1>7 DEF IInv

LEMMA ScoreDoneInv ==
    ASSUME IInv, ScoreDone
    PROVE  IInv'
<1> USE DEF ScoreDone
<1>0. TypeOK /\ TraceIsShownWhole /\ SpinsOnlyWhileStreaming /\ InPlace /\ Judging /\ Asking
    BY DEF IInv, TraceIsShownWhole
<1>1. ui \in UIs /\ stream \in Streams /\ stream.kind = "score" /\ stream.from \in Verdicts
    BY <1>0, StreamShape DEF TypeOK, Scoring
<1>2. /\ ui' \in UIs /\ ui'.refCalls = ui.refCalls /\ ui'.explored = ui.explored
      /\ ui'.exploring = ui.exploring /\ ui'.scoring = FALSE
      /\ ui'.ran = TRUE /\ ui'.lastDone = stream.from /\ ui'.candidate = ui.candidate
      /\ ui'.equivOn = ui.equivOn /\ ui'.equivSets = ui.equivSets /\ ui'.distilled = ui.distilled /\ ui'.spec = ui.spec
    BY <1>1 DEF UIs
<1>3. stream.from # NONE
    BY <1>1, Constants
<1>4. TypeOK'
    BY <1>0, <1>2 DEF TypeOK
<1>5. TraceIsShownWhole'
    BY <1>0, <1>2, <1>4 DEF TraceIsShownWhole, FromFixture
<1>6. VerdictIsCurrent'
  <2> SUFFICES ASSUME ~spoiled
               PROVE  /\ ui'.lastDone = VerdictOn(ui.equivOn)'
                      /\ ui'.spec = Fixture =>
                            \A i \in DOMAIN Recorded :
                                /\ ui'.lastDone.accepted[i] = Recorded[i] \cap ui'.equivOn
                                /\ ui'.lastDone.accepted[i] # {}
      BY DEF VerdictIsCurrent
  <2>1. ui'.lastDone = VerdictOn(ui.equivOn) /\ VerdictOn(ui.equivOn)' = VerdictOn(ui.equivOn)
      BY <1>0, <1>2, SameVerdict DEF Judging
  <2>2. ui.spec = Fixture =>
           /\ \A i \in DOMAIN Recorded : Recorded[i] \cap ui.equivOn # {}
           /\ \A i \in DOMAIN Recorded :
                  VerdictOn(ui.equivOn).accepted[i] = Recorded[i] \cap ui.equivOn
      BY <1>0, OnIsAccepted DEF Judging
  <2> QED BY <1>2, <2>1, <2>2
<1>7. SpinsOnlyWhileStreaming'
    BY <1>0, <1>1, <1>2 DEF SpinsOnlyWhileStreaming, Scoring
<1>8. InPlace' /\ Listed' /\ Asking'
    BY <1>0, <1>2, ClosedStream DEF InPlace, Listed, Asking
<1>9. Judging'
    BY <1>0, <1>2, <1>3, ClosedStream, SameVerdict DEF Judging, InPlace
<1> QED BY <1>5, <1>6, <1>7, <1>8, <1>9 DEF IInv

LEMMA InterruptedInv ==
    ASSUME IInv, Interrupted
    PROVE  IInv'
<1> USE DEF Interrupted
<1>0. TypeOK /\ TraceIsShownWhole /\ VerdictIsCurrent /\ SpinsOnlyWhileStreaming /\ InPlace /\ Judging /\ Asking
    BY DEF IInv, TraceIsShownWhole
<1>1. ui \in UIs /\ stream \in Streams /\ (Scoring \/ stream.kind = "explore")
    BY <1>0, StreamShape DEF TypeOK, Scoring
<1>2. /\ ui' \in UIs /\ ui'.refCalls = ui.refCalls /\ ui'.explored = ui.explored
      /\ ui'.ran = ui.ran /\ ui'.lastDone = ui.lastDone /\ ui'.candidate = ui.candidate
      /\ ui'.equivOn = ui.equivOn /\ ui'.equivSets = ui.equivSets /\ ui'.distilled = ui.distilled /\ ui'.spec = ui.spec
    BY <1>1 DEF UIs
<1>3. /\ Scoring => ui'.scoring = FALSE /\ ui'.exploring = ui.exploring
      /\ ~Scoring => ui'.exploring = FALSE /\ ui'.scoring = ui.scoring
    BY <1>1 DEF UIs
<1>4. TypeOK'
    BY <1>0, <1>2 DEF TypeOK
<1>5. TraceIsShownWhole'
    BY <1>0, <1>2, <1>4 DEF TraceIsShownWhole, FromFixture
<1>6. VerdictIsCurrent' /\ Judging'
  <2>1. VerdictOn(ui.equivOn)' = VerdictOn(ui.equivOn)
      BY <1>2, SameVerdict
  <2>2. VerdictIsCurrent'
    <3>1. CASE Scoring
        BY <1>3, <3>1 DEF VerdictIsCurrent
    <3>2. CASE ~Scoring
        BY <1>0, <1>2, <1>3, <2>1, <3>2 DEF VerdictIsCurrent
    <3> QED BY <3>1, <3>2
  <2>3. Judging'
      BY <1>0, <1>2, ClosedStream DEF Judging
  <2> QED BY <2>2, <2>3
<1>7. SpinsOnlyWhileStreaming'
    BY <1>0, <1>1, <1>3 DEF SpinsOnlyWhileStreaming, Scoring
<1>8. InPlace' /\ Listed' /\ Asking'
    BY <1>0, <1>2, ClosedStream DEF InPlace, Listed, Asking
<1> QED BY <1>5, <1>6, <1>7, <1>8 DEF IInv

-----------------------------------------------------------------------------
(* Every step.                                                             *)

LEMMA StutterInv ==
    ASSUME IInv, UNCHANGED vars
    PROVE  IInv'
<1> USE DEF vars
<1>1. VerdictOn(ui.equivOn)' = VerdictOn(ui.equivOn)
    BY SameVerdict
<1>2. VerdictIsCurrent' /\ Judging'
    BY <1>1 DEF IInv, VerdictIsCurrent, Judging, Scoring
<1> QED BY <1>2 DEF IInv, TypeOK, TraceIsShownWhole, SpinsOnlyWhileStreaming, InPlace,
                    Listed, Asking, FromFixture, Exploring, Scoring

LEMMA FrameInv ==
    ASSUME IInv, Frame
    PROVE  IInv'
    BY LiveCallInv, LiveEndsInv, LiveFailsInv, FixtureCallInv, ExploreDoneInv, ScoreCallInv, ScoreDoneInv
       DEF Frame

LEMMA StepInv == IInv /\ [Next]_vars => IInv'
<1> SUFFICES ASSUME IInv, [Next]_vars PROVE IInv'
    OBVIOUS
<1>1. ASSUME NEW v \in Views, Go(v) PROVE IInv'
    BY <1>1, GoInv
<1>2. CASE CarryAdvisorDesign
    BY <1>2, CarryInv
<1>3. ASSUME NEW m \in Modes, SetMode(m) PROVE IInv'
    BY <1>3, SetModeInv
<1>4. CASE RunExplore
    BY <1>4, RunExploreInv
<1>5. CASE Frame
    BY <1>5, FrameInv
<1>6. ASSUME NEW q \in reqs, Answer(q) \/ Unanswered(q) PROVE IInv'
    BY <1>6, AnswerInv, UnansweredInv
<1>7. CASE RunCandidate
    BY <1>7, RunCandidateInv
<1>8. ASSUME NEW t \in Tools, ToggleEquiv(t) PROVE IInv'
    BY <1>8, ToggleInv
<1>9. ASSUME NEW i \in 1..Len(Candidates), SetCandidate(Candidates[i]) PROVE IInv'
    BY <1>9, SetCandidateInv DEF Known
<1>10. CASE Interrupted
    BY <1>10, InterruptedInv
<1>11. CASE UNCHANGED vars
    BY <1>11, StutterInv
<1> QED BY <1>1, <1>2, <1>3, <1>4, <1>5, <1>6, <1>7, <1>8, <1>9, <1>10, <1>11 DEF Next

-----------------------------------------------------------------------------
(* Theorems.                                                               *)

\* The inductive invariant holds in every state.
THEOREM Invariance == Spec => []IInv
    BY InitInv, StepInv, PTL DEF Spec

\* Every state is of its type, and an exploration that is reported as done
\* shows the calls of one trace, whole (app.py:130-141).
THEOREM ExplorationsAreShownWhole == Spec => []TraceIsShownWhole
<1>1. IInv => TraceIsShownWhole
    BY DEF IInv
<1> QED BY <1>1, Invariance, PTL

\* No click, frame or late answer leaves a verdict on display that is not of
\* the selected candidate and the tools that are on, as the recorded spec takes
\* them (reducer.ts:191-221, dmcp_adapter.py:124-136).
THEOREM VerdictsAreCurrent == Spec => []VerdictIsCurrent
<1>1. IInv => VerdictIsCurrent
    BY DEF IInv
<1> QED BY <1>1, Invariance, PTL

\* No stage is left spinning by the backend or by a broken connection
\* (StudioProvider.tsx:34-38).
THEOREM NothingSpinsUnfed == Spec => []SpinsOnlyWhileStreaming
<1>1. IInv => SpinsOnlyWhileStreaming
    BY DEF IInv
<1> QED BY <1>1, Invariance, PTL

\* A distillation that names no trace is of the exploration it followed
\* (live.py:213-218).
THEOREM DistillationsAreOfTheLastTrace == Spec => DistillsTheLastTrace
<1> DEFINE OfTheLast ==
        \A q \in reqs :
            (Answer(q) /\ q.what = "distill" /\ q.mode = "live" /\ q.epoch = epoch /\ shown = epoch)
                => ui'.spec \in {epoch, Fixture}
<1>1. IInv /\ [Next]_vars => [OfTheLast]_vars
  <2> SUFFICES ASSUME IInv, NEW q \in reqs, Answer(q), q.what = "distill", q.mode = "live",
                      q.epoch = epoch, shown = epoch
               PROVE  ui'.spec \in {epoch, Fixture}
      OBVIOUS
  <2>1. q.of = epoch
      BY DEF IInv, Asking
  <2>2. ui \in UIs
      BY DEF IInv, TraceIsShownWhole, TypeOK
  <2>3. \E trace \in {q.of, Fixture}, sets \in EquivSets : ui' = Distilled(trace, sets)
      BY DEF Answer, EquivSets
  <2> QED BY <2>1, <2>2, <2>3 DEF Distilled, UIs
<1> QED BY <1>1, Invariance, PTL DEF Spec, DistillsTheLastTrace
=============================================================================
