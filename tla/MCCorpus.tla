------------------------------ MODULE MCCorpus ------------------------------
(***************************************************************************)
(* Cases of what makes a corpus.  CorpusMath, ToolPool and GoalGen: a      *)
(* corpus planned, its goals written, and the tools offered for its tasks. *)
(* Exploration and Distill: a goal explored by a model, and its trace made *)
(* into a task spec.                                                       *)
(***************************************************************************)
EXTENDS MCServers

C == INSTANCE CorpusMath

-----------------------------------------------------------------------------
(* CorpusMath: shares that do not divide evenly, and rows of three depths. *)

Strategies == <<"cross_server_alt", "hard_neg", "random">>
Order      == [cross_server_alt |-> 1, hard_neg |-> 2, random |-> 3, hard |-> 4, medium |-> 5, simple |-> 6]

CorpusInputs ==
    [total : {0, 1, 2, 5, 7}, chains : {[simple |-> w[1], medium |-> w[2], hard |-> w[3]] :
                                w \in {<<20, 30, 50>>, <<65, 25, 10>>, <<0, 0, 0>>, <<0, 1, 1>>}},
     explicit : [{"cross_server_alt", "hard_neg"} -> {0, 35, 75}],
     defaults : SUBSET {"hard_neg", "random"},
     depths : {<<a, b>> : a \in {<<>>, <<3, 1, 2>>}, b \in {<<1, 1, 1>>, <<2, 3, 3>>}}, shards : 2..3]

\* A share is met when it is within one of the exact quotient.
Fair(count, total, weight, sum) ==
    /\ count * sum < total * weight + sum
    /\ total * weight < count * sum + sum

SharesMet(counts, total, weights) ==
    \A k \in DOMAIN weights :
        Fair(IF k \in DOMAIN counts THEN counts[k] ELSE 0, total, weights[k], SumFunction(weights))

PlanAddsUp(x, plan, weights) ==
    LET none == SumFunction(weights) = 0
        even == [c \in DOMAIN x.chains |-> IF SumFunction(x.chains) = 0 THEN 1 ELSE x.chains[c]]
    IN  /\ C!PlannedGoals(plan) = IF none THEN 0 ELSE x.total
        /\ none \/ SharesMet([c \in DOMAIN plan |-> SumFunction(plan[c])], x.total, even)
        /\ none \/ \A c \in DOMAIN plan : SharesMet(plan[c], SumFunction(plan[c]), weights)

ShardsPartition(x) ==
    LET goals  == [i \in 1..x.total |-> i]
        shards == C!ShardGoals(goals, x.shards)
    IN  /\ \A g \in 1..x.total :
              Cardinality({<<k, i>> \in (1..x.shards) \X (1..x.total) :
                              i <= Len(shards[k]) /\ shards[k][i] = g}) = 1
        /\ \A k, h \in 1..x.shards : k < h => Len(shards[k]) - Len(shards[h]) \in 0..1

DepthRows(kinds) == [i \in 1..Len(kinds) |-> [nr |-> i, depth |-> C!Depths[kinds[i]]]]

DepthsFilled(x, rows) ==
    LET taken == C!SelectByDepth(rows, x.total, [r \in ToSet(rows) |-> r.depth])
        size(s, d) == Len(SelectSeq(s, LAMBDA r : r.depth = C!Depths[d]))
    IN  /\ Len(taken) = Min({x.total, Len(rows)})
        /\ IsInjective(taken) /\ ToSet(taken) \subseteq ToSet(rows)
        /\ \A d \in 1..3 : size(taken, d) >= Min({size(rows, d), C!Desired(x.total)[d]})

\* However the shares round, a plan holds exactly the tasks asked for, every
\* complexity and strategy within one of its share; the shards of the goals
\* differ by at most one and lose none; and a selection by depth has the asked
\* size and fills each depth's quota as far as there are rows
\* (scripts/build_corpus.py allocate_counts, advisor_distribution_plan,
\* shard_goals; benchmark_advisor/v2_launch.py _select_by_depth).
CorpusAddsUp ==
    Case("corpus") =>
        LET x == case.of
        IN  /\ PlanAddsUp(x, C!DistributionPlan(x.total, x.chains, x.explicit, x.defaults, 100, Order),
                          C!StrategyWeights(x.explicit, x.defaults, 100))
            /\ ShardsPartition(x)
            /\ DepthsFilled(x, DepthRows(x.depths[1] \o x.depths[2]))

-----------------------------------------------------------------------------
(* ToolPool: six tools on three servers, two of them with the same name,   *)
(* two with names that nearly collide.                                     *)

ToolEntry(server, name, tags) == [server |-> server, name |-> name, tags |-> tags]

Catalog == <<ToolEntry("a", "get", {"files"}), ToolEntry("a", "list", {"files"}),
             ToolEntry("b", "get", {"web"}), ToolEntry("b", "gets", {}),
             ToolEntry("c", "run", {"web"}), ToolEntry("c", "stop", {})>>

Missing == ToolEntry("d", "get", {})

Alike(e, r) == IF e.name = r.name THEN 9 ELSE IF e.server = r.server THEN 4
               ELSE IF e.tags \cap r.tags # {} THEN 2 ELSE 0

P == INSTANCE ToolPool WITH
        Similarity <- Alike,
        Collides   <- LAMBDA n, m : {n, m} = {"get", "gets"},
        Drop       <- 9

\* The place of each key in the order of the catalog.
Rank == [k \in P!Keys(Catalog) |-> CHOOSE i \in 1..Len(Catalog) : P!Key(Catalog[i]) = k]

PoolInputs ==
    [sets : {<<<<Catalog[1]>>>>, <<<<Catalog[1], Catalog[3]>>, <<Catalog[1]>>>>, <<<<Catalog[5]>>, <<Missing>>>>, <<>>},
     surfaces : {<<Catalog>>, <<SubSeq(Catalog, 3, 6), SubSeq(Catalog, 1, 3)>>, <<SubSeq(Catalog, 1, 2)>>},
     mode : {"gold", "target", "full"}, tenths : {0, 3, 5}, size : {0, 1, 3}, seed : 0..2, embedded : BOOLEAN]

PoolExact(x) ==
    LET catalog  == P!FromTraces(x.surfaces, Rank)
        required == P!RequiredTools(x.sets)
        pool     == P!EvalPool(required, catalog, x.mode, x.tenths, x.size, x.seed, x.embedded)
        rest     == Len(P!Excluding(catalog, required))
        surface  == P!ToolSurface(pool, P!Keys(catalog))
        extra    == Len(pool) - Len(required)
    IN  /\ Cardinality(P!Keys(pool)) = Len(pool)
        /\ P!Keys(required) \subseteq P!Keys(pool)
        /\ P!Keys(SubSeq(pool, Len(required) + 1, Len(pool))) \subseteq P!Keys(catalog) \ P!Keys(required)
        /\ x.mode = "gold" => extra = 0
        /\ x.mode = "full" => extra = rest
        /\ x.mode = "target" => extra <= x.size /\ (~x.embedded => extra = Min({x.size, rest}))
        /\ DOMAIN surface = P!Keys(pool)
        /\ \A k \in DOMAIN surface : surface[k] = "permissive" <=> k \notin P!Keys(catalog)
        /\ \A s \in {"random", "hard_neg", "cross_domain", "same_name", "sibling", "stratified"} :
              LET one == P!StrategyPool(required, catalog, s, x.size, x.seed, x.embedded)
              IN  /\ Cardinality(P!Keys(one)) = Len(one)
                  /\ Len(one) <= Len(required) + x.size
                  /\ s \in {"random", "stratified"} => Len(one) = Len(required) + Min({x.size, rest})

\* Architecture: two or three groups, one of them without tools, a tool offered
\* twice with two descriptions; likeness by the name.
H == INSTANCE Architecture WITH
        Rewritten <- LAMBDA tool, level : IF level = "a" THEN "uniform" ELSE IF tool.name = "run" THEN "" ELSE "told",
        Cosine    <- LAMBDA tool : IF tool.name = "get" THEN 9 ELSE IF tool.name = "run" THEN 7 ELSE 4

Offered(name, text) == [name |-> name, text |-> text]
GroupOf(server, tools) == [server |-> server, tools |-> tools]

Surfaces ==
    {<<GroupOf("a", first), GroupOf("b", second), GroupOf("c", third)>> :
        first  \in {<<Offered("get", "x"), Offered("list", "y")>>, <<Offered("list", "x"), Offered("list", "y")>>},
        second \in {<<>>, <<Offered("run", "x")>>, <<Offered("get", "y")>>},
        third  \in {<<Offered("get", "x"), Offered("run", "y"), Offered("stop", "")>>, <<Offered("stop", "z")>>}}
    \cup {<<>>}

SurfaceInputs ==
    [surface : Surfaces, level : {NONE, "a", "b"}, name : {"flat", "rag", "hier"}, k : {1, 2, 3, 8}, embedded : BOOLEAN,
     answer : [json : {"no", "no_id", "list", "a", "c", "z"}, mentions : SUBSET {"a", "c"}]]

ToolCount(surface) == Len(H!Flat(surface))

SurfacePresented(x) ==
    LET shown == H!Presented(x.surface, x.level, x.name, x.k, x.embedded, x.answer)
        Names(flat) == {[server |-> flat[i].server, name |-> flat[i].tool.name] : i \in 1..Len(flat)}
        Text(server, name) == {flat.tool.text : flat \in {f \in ToSet(H!Flat(shown)) :
                                  f.server = server /\ f.tool.name = name}}
    IN  IF shown = NONE THEN x.name = "hier" /\ x.answer.json = "list"
        ELSE /\ Names(H!Flat(shown)) \subseteq Names(H!Flat(x.surface))
             /\ x.surface # <<>> => shown # <<>>
             /\ x.name = "flat" => ToolCount(shown) = ToolCount(x.surface)
             /\ x.name = "rag" /\ x.embedded => ToolCount(shown) = Min({x.k, ToolCount(x.surface)})
             /\ x.name = "hier" =>
                   /\ Len(shown) = Min({1, Len(x.surface)})
                   /\ x.answer.json \in H!Servers(x.surface) => shown[1].server = x.answer.json
                   /\ shown # <<>> => ToolCount(shown) = Len(H!Group(x.surface, shown[1].server))
             /\ x.level # NONE => \A n \in Names(H!Flat(shown)) : Cardinality(Text(n.server, n.name)) = 1

\* The pool of a task offers each tool once: all it requires, in front, and
\* distractors that are none of them; in number what was asked for, as far as
\* the catalog goes, whatever the strategies' overlaps (dmcp/pools.py
\* build_eval_pool, build_strategy_pool, dmcp/sampling.py sample_distractors).
\* What is then presented is part of it and not empty: every tool, the k likest
\* (all where none could be embedded) or those of one server, the one the router
\* names where there is one; and a tool has one description
\* (dmcp/normalize.py, dmcp/architecture.py).
PoolsAreExact ==
    /\ Case("pool") => PoolExact(case.of)
    /\ Case("surface") => SurfacePresented(case.of)

-----------------------------------------------------------------------------
(* GoalGen: three servers of which one may be broken or empty, and a model *)
(* that repeats names and makes up servers.                                *)

G == INSTANCE GoalGen WITH MALFORMED <- "malformed", ODD <- "odd"

Shaped(shape, id, servers) == [shape |-> shape, id |-> id, servers |-> servers, tags |-> {}]
Proposal(id, servers)      == Shaped("goal", id, servers)
NoObject                   == Shaped("odd", "x", <<>>)

GoalAnswers ==
    {NONE, <<>>, <<Proposal("x", <<>>), Proposal("x", <<>>)>>, <<Proposal("x", <<"nowhere">>), Proposal("x", <<"a", "b">>)>>,
     <<Shaped("malformed", "x", <<"b">>), Proposal("x", <<"b">>)>>}

\* A goal, and something that is no object after it.
Spoilt == <<Proposal("y", <<>>), NoObject>>

PairList == {<<"a", "b">>, <<"a", "c">>, <<"b", "c">>}

GoalInputs ==
    [boots : [{"a", "b", "c"} -> {NONE, {}, {"get"}}], a : GoalAnswers \cup {Spoilt}, b : GoalAnswers \ {NONE},
     ab : GoalAnswers \ {<<>>}, seeded : {NONE, Spoilt, <<Proposal("x", <<>>), Proposal("x", <<"nowhere", "b">>)>>},
     cross : {0, 2}, known : {{"a", "b"}, {"a", "b", "c"}}]

GoalsOf(x) ==
    G!GenerateGoals(<<"a", "b", "c">>, x.known, x.boots, [a |-> x.a, b |-> x.b, c |-> x.a],
                    [p \in PairList |-> IF p = <<"a", "b">> THEN x.ab ELSE x.b], x.cross)

Seeds == <<<<<<"a", "get">>>>, <<<<"a", "get">>, <<"b", "get">>>>>>

GoalsValid(x) ==
    LET live    == {s \in x.known : x.boots[s] = {"get"}}
        goals   == GoalsOf(x)
        seeded  == G!StrategyGoals("decoy", Seeds, <<x.seeded, x.ab>>, <<"a", "b">>, {"decoy"})
        within(seq, S) == \A i \in 1..Len(seq) : ToSet(seq[i].servers) \subseteq S
    IN  /\ goals = NONE <=> x.a = Spoilt /\ live \cap {"a", "c"} # {}
        /\ goals # NONE =>
              /\ G!ValidGoals(goals) /\ within(goals, live)
              /\ \A i \in 1..Len(goals) : ~({"single-server", "cross-server"} \subseteq goals[i].tags)
              /\ \A i \in 1..Len(goals) : "cross-server" \in goals[i].tags => Len(goals[i].servers) > 1
              /\ \A i \in 1..Len(goals) : "single-server" \in goals[i].tags => Len(goals[i].servers) = 1
        /\ seeded = NONE <=> x.seeded = Spoilt
        /\ seeded # NONE =>
              /\ G!ValidGoals(seeded) /\ within(seeded, {"a", "b"})
              /\ \A i \in 1..Len(seeded) : {"intra-server", "cross-server"} \cap seeded[i].tags # {}

\* Whatever the model proposes, with names it repeats, servers that do not
\* exist and entries that are no goals, and whichever servers fail, the goals
\* form a goals file that loads, unless an entry is no object, which leaves none:
\* identifiers are unique, every goal has a server, and only servers whose
\* tools were captured (dmcp/goal_gen.py generate_goals,
\* generate_strategy_goals, _ensure_unique; dmcp/goals.py Goals).
GoalsFileIsValid == Case("goals") => GoalsValid(case.of)

X == INSTANCE Exploration WITH Attempts <- 2

-----------------------------------------------------------------------------
(* Exploration: one server that booted and one that did not.               *)

Surface == (<<"db">> :> {<<"get">>}) @@ (<<"dead">> :> {<<"run">>})

ModelCall(id, name, result) == [id |-> id, name |-> name, result |-> result]

FirstCalls(id) ==
    {ModelCall(id, <<"db", "get">>, r) : r \in {"ok", "error", "raises"}}
    \cup {ModelCall(id, n, "ok") : n \in {<<"dead", "run">>, <<"db", "put">>, <<"get">>}}

CallLists == {<<>>} \cup {<<c>> : c \in FirstCalls(1)} \cup
             {<<c, d>> : c \in FirstCalls(1), d \in {e \in FirstCalls(2) : e.name # <<"get">>}}

ModelTurns(faults) == [faults : faults, text : {NONE, "text"}, tokens : {5}, calls : CallLists]

ExplorationInputs ==
    [first : ModelTurns({<<>>, <<"timeout">>, <<"timeout", "rate_limit">>, <<"bad_request">>}),
     second : {t \in ModelTurns({<<>>}) : Len(t.calls) < 2}, budget : 1..3, used : 0..1]

Explored(x) ==
    X!Explore(<<x.first, x.second, [x.second EXCEPT !.calls = <<>>]>>, x.budget, Surface, {<<"db">>},
              [calls |-> x.used, tokens |-> 7 * x.used, latencies |-> [i \in 1..x.used |-> 7]])

TurnsAnswered(x) ==
    LET run   == Explored(x)
        at    == run.messages
        said  == {i \in 1..Len(at) : at[i].role = "assistant"}
        tools == (1..Len(at)) \ said
    IN  /\ \A i \in said :
              /\ i + Len(at[i].ids) <= Len(at)
              /\ \A k \in 1..Len(at[i].ids) : at[i + k].role = "tool" /\ at[i + k].id = at[i].ids[k]
              /\ i + Len(at[i].ids) < Len(at) => at[i + Len(at[i].ids) + 1].role = "assistant"
        /\ run.count = Cardinality(tools)
        /\ run.successful = Cardinality({i \in tools : at[i].body = "ok"})
        /\ run.successful <= Len(run.recorded) /\ Len(run.recorded) <= run.count
        /\ ToSet(run.recorded) \subseteq {[server |-> <<"db">>, tool |-> <<"get">>]}
        /\ Cardinality(said) <= x.budget
        /\ run.usage.calls = Cardinality(said) /\ Len(run.usage.latencies) = run.usage.calls
        /\ CASE run.outcome = "budget_exhausted" -> run.final = NONE /\ Cardinality(said) = x.budget
             [] run.outcome = "llm_error"        -> run.final # NONE /\ Cardinality(said) < x.budget
             [] OTHER -> /\ run.outcome = "completed" <=> run.count > 0
                         /\ at # <<>> /\ Last(at).role = "assistant" /\ Last(at).ids = <<>>

\* Whatever the model calls and whatever fails, every call of a turn has its
\* one answer before the next turn; only calls of offered tools on servers that
\* booted are recorded; the tallies agree with the conversation, and a run out
\* of budget is credited with no answer (dmcp/explorer.py explore,
\* _resolve_final_message, dmcp/llm.py chat, UsageAccumulator.delta_since).
TurnsAreAnswered == Case("exploration") => TurnsAnswered(case.of)

-----------------------------------------------------------------------------
(* Distill.  Values are texts; the one that is too short is never looked   *)
(* for, and two texts share a six-digit window.                            *)

T == INSTANCE Distill WITH
        LongEnough <- LAMBDA v : v # "a",
        Windows    <- LAMBDA v : IF v \in {"id-123456", "123456"} THEN {"123456"} ELSE {},
        Family     <- LAMBDA m : IF m \in {"m1", "m2"} THEN "m" ELSE "n"

TraceStep(server, agent, ok) ==
    {[agent |-> agent, ok |-> ok, server |-> server, args |-> a, yields |-> y] :
        a \in {{"a"}, {"123456"}}, y \in {{"a"}, {"id-123456"}}}

TraceSteps == TraceStep("db", TRUE, TRUE) \cup TraceStep("db", TRUE, FALSE)
              \cup TraceStep("fs", TRUE, TRUE) \cup TraceStep("fs", FALSE, TRUE)

GoodAnswer ==
    [chat |-> NONE, called |-> TRUE, readable |-> TRUE, fields |-> {"prompt", "checkpoints"},
     checkpoints |-> <<[kind |-> "tool_effect", fields |-> T!EffectFields]>>, minefields |-> <<>>]

Mined(fields) ==
    [GoodAnswer EXCEPT !.fields = @ \cup {"minefields"}, !.minefields = <<[fields |-> fields]>>]

Answers ==
    {GoodAnswer, [GoodAnswer EXCEPT !.called = FALSE], [GoodAnswer EXCEPT !.readable = FALSE],
     Mined(T!MineFields), Mined({"description"}), [GoodAnswer EXCEPT !.fields = {"prompt"}], [GoodAnswer EXCEPT !.chat = "timeout"],
     [GoodAnswer EXCEPT !.checkpoints = <<[kind |-> "tool_effect", fields |-> {"description"}]>>]}

DistillInputs ==
    [steps : UNION {[1..n -> TraceSteps] : n \in 0..2}, answer : Answers,
     manifest : {NONE, [db |-> "stateful_write"], [db |-> "static", fs |-> "live_read"]}]
    \cup [steps : [1..3 -> {s \in TraceSteps : s.args = {"a"} /\ s.yields = {"a"}}],
          answer : {a \in Answers : a.chat = NONE /\ a.called},
          manifest : {[db |-> "stateful_write", fs |-> "live_read"]}]

TraceOf(x) == [id |-> "t", goal |-> "g", tools |-> {}, final |-> "f", steps |-> x.steps,
               model |-> "m1", goalgen |-> NONE]

SpecReflects(x) ==
    LET spec    == T!DistillTrace(TraceOf(x), x.manifest, x.answer, "n1", [explorer_model |-> "m2"])
        c       == spec.complexity
        shown   == T!View(TraceOf(x)).steps
        writers == IF x.manifest = NONE THEN {}
                   ELSE {s \in DOMAIN x.manifest : x.manifest[s] = "stateful_write"}
    IN  CASE T!Failure(TraceOf(x), x.answer) # NONE ->
               \/ \A i \in 1..Len(x.steps) : ~(x.steps[i].agent /\ x.steps[i].ok)
               \/ x.answer \notin {GoodAnswer, Mined(T!MineFields)}
          [] OTHER ->
               /\ x.answer \in {GoodAnswer, Mined(T!MineFields)}
               /\ spec.servers = {shown[i].server : i \in 1..Len(shown)} /\ spec.servers # {}
               /\ c.depth = Len(shown) /\ c.depth >= c.distinctServers
               /\ c.distinctServers = Cardinality(spec.servers)
               /\ c.crossServer <=> spec.servers = {"db", "fs"}
               /\ c.stateCoupling <=> spec.dynamism = "stateful_write"
               /\ spec.dynamism = "stateful_write" <=> spec.servers \cap writers # {}
               /\ c.runtimeBranching \/ c.recoveryRequired => Len(x.steps) > 1
               /\ c.recoveryRequired => Len(shown) < Len(x.steps)
               /\ spec.provenance["explorer_model"] = "m2" /\ spec.provenance["distiller_family"] = "n"
               /\ DOMAIN spec.provenance =
                     {"explorer_model", "explorer_family", "distiller_model", "distiller_family"}

\* A spec says of its reference trace what the trace shows: its servers are
\* those of the successful calls, the ones the model that wrote the checkpoints
\* was shown, its class of dynamism agrees with its coupling to state, and it
\* exists only for a trace with a successful call and a readable answer
\* (dmcp/distiller.py distill, _compute_complexity, derive_dynamism).
SpecReflectsTrace == Case("distill") => SpecReflects(case.of)
=============================================================================
