------------------------------ MODULE GoalGen ------------------------------
(***************************************************************************)
(* Goals written by a model from the tools of the servers (dmcp/goal_gen.py,*)
(* dmcp/personas.py) and the checks of a goals file (dmcp/goals.py).       *)
(*                                                                         *)
(* `boots` gives what a server's session comes to: a set of tool names,    *)
(* empty when it boots without tools, is too slow or dies, and NONE when   *)
(* capturing it raises.  A proposal of the model is [shape, id, servers,   *)
(* tags]; its shape is MALFORMED for an object that makes no GoalEntry and *)
(* ODD for what is no object.  An answer is a sequence of proposals, NONE  *)
(* when the chat raises, and empty when the tool is not called.  Goals so  *)
(* far are [seen, out], NONE after an error that nothing catches.          *)
(***************************************************************************)
EXTENDS Naturals, Sequences, FiniteSets, SequencesExt, FiniteSetsExt

CONSTANTS NONE, MALFORMED, ODD

\* _capture_surfaces: unknown, broken and empty servers are left out.
Surfaces(ids, manifest, boots) ==
    SelectSeq(ids, LAMBDA s : s \in manifest /\ boots[s] # NONE /\ boots[s] # {})

\* _extract_sandbox_resources: the values of resource flags and absolute paths.
\* An argument is [text, flag, path].
Resources(args) ==
    LET walk[i \in 1..Len(args) + 2] ==
            IF i > Len(args) THEN {}
            ELSE IF args[i].flag /\ i < Len(args) THEN {args[i + 1].text} \cup walk[i + 2]
            ELSE (IF args[i].path THEN {args[i].text} ELSE {}) \cup walk[i + 1]
    IN  walk[1]

\* _tool_view: the first tools, and a note for the rest.
Viewed(tools, most) == SubSeq(tools, 1, IF Len(tools) < most THEN Len(tools) ELSE most)

\* select_personas: the shuffled library, over again when it is too short.
SelectPersonas(n, shuffled) ==
    IF shuffled = <<>> THEN <<>> ELSE [i \in 1..n |-> shuffled[((i - 1) % Len(shuffled)) + 1]]

-----------------------------------------------------------------------------
(* Identifiers: _sanitize_goal_id prefixes the name, _ensure_unique counts *)
(* on from 2.  An identifier is [prefix, name, nr] with nr = 1 for none.   *)

Named(prefix, proposal) == [prefix |-> prefix, name |-> proposal.id, nr |-> 1]

EnsureUnique(id, seen) ==
    IF id \notin seen THEN id
    ELSE [id EXCEPT !.nr = Min({k \in 2..Cardinality(seen) + 2 : [id EXCEPT !.nr = k] \notin seen})]

\* Mutant: identifiers are not made unique.
Accept_SameId(state, proposal, prefix, asked, surfaces, labels) ==
    LET id      == Named(prefix, proposal)
        servers == SelectSeq(IF proposal.servers = <<>> THEN asked ELSE proposal.servers,
                             LAMBDA s : s \in ToSet(surfaces))
    IN  IF state = NONE \/ proposal.shape = ODD THEN NONE
        ELSE [seen |-> state.seen \cup {id},
              out  |-> IF servers = <<>> \/ proposal.shape = MALFORMED THEN state.out
                       ELSE Append(state.out, [id |-> id, servers |-> servers,
                                               tags |-> proposal.tags \cup labels[Len(servers) > 1]])]

\* One proposal: its servers are cut to those that were captured, and without
\* any it is dropped, as is a malformed one, though its identifier stays taken.
\* Of what is no object the fields cannot be read, and nothing catches that.
Accept(state, proposal, prefix, asked, surfaces, labels) ==
    LET id      == EnsureUnique(Named(prefix, proposal), state.seen)
        servers == SelectSeq(IF proposal.servers = <<>> THEN asked ELSE proposal.servers,
                             LAMBDA s : s \in ToSet(surfaces))
    IN  IF state = NONE \/ proposal.shape = ODD THEN NONE
        ELSE [seen |-> state.seen \cup {id},
              out  |-> IF servers = <<>> \/ proposal.shape = MALFORMED THEN state.out
                       ELSE Append(state.out, [id |-> id, servers |-> servers,
                                               tags |-> proposal.tags \cup labels[Len(servers) > 1]])]

\* An answer that raises or says nothing costs its own goals only.
AcceptAll(state, answer, prefix, asked, surfaces, labels) ==
    IF answer = NONE THEN state
    ELSE FoldLeft(LAMBDA s, p : Accept(s, p, prefix, asked, surfaces, labels), state, answer)

\* The goals, or NONE: what was accepted before the error is lost with it.
Out(state) == IF state = NONE THEN NONE ELSE state.out

\* Labels added by the number of servers left: [more than one -> tags].
SingleLabels == [several \in BOOLEAN |-> IF several THEN {} ELSE {"single-server"}]
CrossLabels  == [several \in BOOLEAN |-> IF several THEN {"cross-server"} ELSE {}]

\* generate_goals: a chat per server, then one per pair.
Pairs(surfaces) ==
    FlattenSeq([i \in 1..Len(surfaces) |->
        [k \in 1..Len(surfaces) - i |-> <<surfaces[i], surfaces[i + k]>>]])

GenerateGoals(ids, manifest, boots, answers, pairAnswers, crossPairs) ==
    LET surfaces == Surfaces(ids, manifest, boots)
        singles  == FoldLeft(LAMBDA st, s : AcceptAll(st, answers[s], <<s>>, <<s>>, surfaces, SingleLabels),
                             [seen |-> {}, out |-> <<>>], surfaces)
        pairs    == SubSeq(Pairs(surfaces), 1, IF crossPairs < Len(Pairs(surfaces)) THEN crossPairs
                                               ELSE Len(Pairs(surfaces)))
    IN  Out(FoldLeft(LAMBDA st, p : AcceptAll(st, pairAnswers[p], p, p, surfaces, CrossLabels), singles, pairs))

-----------------------------------------------------------------------------
(* generate_strategy_goals.                                                *)

Corner == [long_similar_chain   |-> [base |-> "hard_neg",     size |-> 6],
           homonym_trap         |-> [base |-> "same_name",    size |-> 3],
           decoy                |-> [base |-> "hard_neg",     size |-> 3],
           prerequisite_strict  |-> [base |-> "hard_neg",     size |-> 4],
           recovery_required    |-> [base |-> "cross_domain", size |-> 4],
           destructive_adjacent |-> [base |-> "sibling",      size |-> 4],
           ambiguous_intent     |-> [base |-> "hard_neg",     size |-> 3]]

ComplexitySize == [simple |-> 2, medium |-> 4, hard |-> 6]

\* The relationship and the size of a seed set; special strategies have none.
SeedShape(strategy, size, complexity) ==
    LET shape == CASE strategy \in DOMAIN Corner -> Corner[strategy]
                   [] strategy \in {"cross_server_alt", "complementary"} -> [base |-> NONE, size |-> 4]
                   [] OTHER -> [base |-> strategy, size |-> size]
    IN  IF complexity \in DOMAIN ComplexitySize THEN [shape EXCEPT !.size = ComplexitySize[complexity]] ELSE shape

\* _special_seed_sets: groups of alternatives that two captured servers share,
\* cut to four tools, or the edges of the tool graph, each once.
SpecialSets(strategy, have, groups, edges) ==
    IF strategy = "cross_server_alt"
    THEN {SubSeq(m, 1, IF Len(m) < 4 THEN Len(m) ELSE 4) :
             m \in {m \in {SelectSeq(g, LAMBDA t : t \in have) : g \in groups} :
                        Cardinality({m[i][1] : i \in 1..Len(m)}) >= 2}}
    ELSE {SetToSeq(e) : e \in {{a, b} : <<a, b>> \in edges} }

\* The goals of one strategy: a seed set and an answer for each goal asked.
\* A goal that names no captured server gets the servers of the seed.
SeedServers(seed) == SetToSeq({seed[i][1] : i \in 1..Len(seed)})

AcceptSeeded(state, proposal, strategy, seed, surfaces, tags) ==
    LET named == SelectSeq(proposal.servers, LAMBDA s : s \in ToSet(surfaces))
        scope == IF Len(SeedServers(seed)) = 1 THEN "intra-server" ELSE "cross-server"
    IN  Accept(state, [proposal EXCEPT !.servers = IF named = <<>> THEN SeedServers(seed) ELSE named,
                                       !.tags = @ \cup tags \cup {scope}],
               <<strategy>>, SeedServers(seed), surfaces, [several \in BOOLEAN |-> {}])

StrategyGoals(strategy, seeds, answers, surfaces, tags) ==
    Out(FoldLeft(LAMBDA st, i :
                     IF answers[i] = NONE THEN st
                     ELSE FoldLeft(LAMBDA s, p : AcceptSeeded(s, p, strategy, seeds[i], surfaces, tags), st, answers[i]),
                 [seen |-> {}, out |-> <<>>],
                 [i \in 1..Len(seeds) |-> i]))

-----------------------------------------------------------------------------
\* GoalEntry and Goals: the checks of a goals file.
ValidGoals(entries) ==
    /\ \A i \in 1..Len(entries) : entries[i].servers # <<>>
    /\ \A i, h \in 1..Len(entries) : entries[i].id = entries[h].id => i = h
=============================================================================
