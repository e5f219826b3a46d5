------------------------------ MODULE ToolPool ------------------------------
(***************************************************************************)
(* The tools a candidate is offered (dmcp/sampling.py, dmcp/pools.py): the *)
(* required ones and distractors, by the six sampling strategies and the   *)
(* three pool modes.                                                       *)
(*                                                                         *)
(* A tool is a record [server, name, tags]; the catalog is a sequence of   *)
(* tools in the order of their keys.  Similarity(a, b) is the likeness of  *)
(* two tools and Collides(n, m) says that two names nearly collide; `drop` *)
(* is the likeness from which an embedding index takes a tool for a copy.  *)
(* A shuffle is one of a few permutations, named by the seed.              *)
(***************************************************************************)
EXTENDS Naturals, Sequences, FiniteSets, SequencesExt, FiniteSetsExt

CONSTANTS Similarity(_, _), Collides(_, _), Drop

Key(tool)  == <<tool.server, tool.name>>
Keys(pool) == {Key(pool[i]) : i \in 1..Len(pool)}

Shuffle(seq, seed) ==
    CASE seed = 0 -> seq
      [] seed = 1 -> Reverse(seq)
      [] OTHER    -> [i \in 1..Len(seq) |-> seq[(i % Len(seq)) + 1]]

Take(seq, n) == SubSeq(seq, 1, IF n < Len(seq) THEN n ELSE Len(seq))

-----------------------------------------------------------------------------
(* ToolCatalog.                                                            *)

\* from_traces: one entry per tool seen, the first of them, in the order of the
\* keys, of which rank gives the places.
FromTraces(surfaces, rank) ==
    LET seen  == FlattenSeq(surfaces)
        first == SelectSeq([i \in 1..Len(seen) |-> i],
                           LAMBDA i : \A h \in 1..i - 1 : Key(seen[h]) # Key(seen[i]))
    IN  SortSeq([i \in 1..Len(first) |-> seen[first[i]]], LAMBDA a, b : rank[Key(a)] < rank[Key(b)])

Excluding(catalog, required) == SelectSeq(catalog, LAMBDA e : Key(e) \notin Keys(required))

\* _required_entries: a required tool that the catalog lacks has no tags.
RequiredEntries(required, catalog) ==
    [i \in 1..Len(required) |->
        IF Key(required[i]) \in Keys(catalog)
        THEN SelectSeq(catalog, LAMBDA e : Key(e) = Key(required[i]))[1]
        ELSE [server |-> required[i].server, name |-> required[i].name, tags |-> {}]]

-----------------------------------------------------------------------------
(* The strategies: `n` tools of the candidates.                            *)

Likeness(e, required) == Max({0} \cup {Similarity(e, required[i]) : i \in 1..Len(required)})

\* Highest likeness first, ties in the order of the catalog.
Ranked(pool, required) ==
    LET above(i, h) == \/ Likeness(pool[i], required) > Likeness(pool[h], required)
                       \/ Likeness(pool[i], required) = Likeness(pool[h], required) /\ i < h
    IN  [r \in 1..Len(pool) |->
            pool[CHOOSE i \in 1..Len(pool) : Cardinality({h \in 1..Len(pool) : above(h, i)}) = r - 1]]

HardNeg(candidates, required, n, seed, embedded) ==
    LET kept == SelectSeq(candidates, LAMBDA e : ~(embedded /\ Likeness(e, required) >= Drop))
        near == SelectSeq(kept, LAMBDA e : Likeness(e, required) > 0)
        far  == SelectSeq(kept, LAMBDA e : Likeness(e, required) = 0)
    IN  Take(Ranked(near, required) \o Shuffle(far, seed), n)

CrossDomain(candidates, required, n, seed, embedded) ==
    LET tags    == UNION {required[i].tags : i \in 1..Len(required)}
        servers == {required[i].server : i \in 1..Len(required)}
        other   == SelectSeq(candidates, LAMBDA e :
                       IF tags # {} THEN e.tags \cap tags = {} ELSE e.server \notin servers)
    IN  Take(IF embedded THEN Ranked(other, required) ELSE Shuffle(other, seed), n)

\* Alternatives: the same name elsewhere, then names that nearly collide.
SameName(candidates, required, n, seed) ==
    LET names == {required[i].name : i \in 1..Len(required)}
        exact == SelectSeq(candidates, LAMBDA e : e.name \in names)
        near  == SelectSeq(candidates, LAMBDA e : e.name \notin names /\ \E m \in names : Collides(e.name, m))
    IN  Take(Shuffle(exact, seed) \o near, n)

Sibling(candidates, required, n, seed) ==
    LET servers == {required[i].server : i \in 1..Len(required)}
    IN  Take(Shuffle(SelectSeq(candidates, LAMBDA e : e.server \in servers), seed), n)

Sample(strategy, candidates, required, n, seed, embedded) ==
    CASE strategy = "random"       -> Take(Shuffle(candidates, seed), n)
      [] strategy = "hard_neg"     -> HardNeg(candidates, required, n, seed, embedded)
      [] strategy = "cross_domain" -> CrossDomain(candidates, required, n, seed, embedded)
      [] strategy = "same_name"    -> SameName(candidates, required, n, seed)
      [] strategy = "sibling"      -> Sibling(candidates, required, n, seed)

\* Round robin over the strategies.  `left` are their queues: a strategy's turn
\* takes its first tool not picked yet, and drops the ones before it.
SubOrder == <<"hard_neg", "same_name", "sibling", "cross_domain", "random">>

Draw(round, s, n) ==
    LET fresh == {i \in 1..Len(round.left[s]) : Key(round.left[s][i]) \notin Keys(round.picked)}
    IN  IF Len(round.picked) >= n THEN round
        ELSE IF fresh = {} THEN [round EXCEPT !.left[s] = <<>>]
        ELSE [picked |-> Append(round.picked, round.left[s][Min(fresh)]),
              left   |-> [round.left EXCEPT ![s] = SubSeq(@, Min(fresh) + 1, Len(@))]]

Stratified(candidates, required, n, seed, embedded) ==
    LET start == [picked |-> <<>>,
                  left |-> [s \in 1..5 |-> Sample(SubOrder[s], candidates, required, n, seed, embedded)]]
        after[k \in 0..n] ==
            IF k = 0 THEN start ELSE FoldLeft(LAMBDA r, s : Draw(r, s, n), after[k - 1], <<1, 2, 3, 4, 5>>)
    IN  after[n].picked

SampleDistractors(strategy, required, catalog, n, seed, embedded) ==
    LET candidates == Excluding(catalog, required)
        entries    == RequiredEntries(required, catalog)
    IN  IF strategy = "stratified" THEN Stratified(candidates, entries, n, seed, embedded)
        ELSE Sample(strategy, candidates, entries, n, seed, embedded)

-----------------------------------------------------------------------------
(* pools.py.                                                               *)

\* required_tool_refs: the equivalence sets of the effect checkpoints, each
\* tool once.
RequiredTools(sets) ==
    LET all   == FlattenSeq(sets)
        first == SelectSeq([i \in 1..Len(all) |-> i], LAMBDA i : \A h \in 1..i - 1 : Key(all[h]) # Key(all[i]))
    IN  [i \in 1..Len(first) |-> all[first[i]]]

\* Python's round of tenths/10, halves to even.
Round(tenths) ==
    LET whole == tenths \div 10
    IN  CASE tenths % 10 < 5 -> whole
          [] tenths % 10 > 5 -> whole + 1
          [] OTHER           -> whole + (whole % 2)

\* Mutant: near misses are not checked against the alternatives.
EvalPool_Repeats(required, catalog, mode, tenths, size, seed, embedded) ==
    LET alts   == SampleDistractors("same_name", required, catalog, Round(tenths * size), seed, embedded)
        others == SampleDistractors("hard_neg", required, catalog, size + Len(alts), seed, embedded)
    IN  RequiredEntries(required, catalog)
        \o CASE mode = "gold"   -> <<>>
             [] mode = "full"   -> Excluding(catalog, required)
             [] mode = "target" -> alts \o Take(others, size - Len(alts))

\* build_eval_pool; `tenths` is p_alt.
EvalPool(required, catalog, mode, tenths, size, seed, embedded) ==
    LET alts   == SampleDistractors("same_name", required, catalog, Round(tenths * size), seed, embedded)
        misses == SampleDistractors("hard_neg", required, catalog, size + Len(alts), seed, embedded)
        others == SelectSeq(misses, LAMBDA e : Key(e) \notin Keys(alts))
    IN  RequiredEntries(required, catalog)
        \o CASE mode = "gold"   -> <<>>
             [] mode = "full"   -> Excluding(catalog, required)
             [] mode = "target" -> alts \o Take(others, size - Len(alts))

StrategyPool(required, catalog, strategy, size, seed, embedded) ==
    RequiredEntries(required, catalog) \o SampleDistractors(strategy, required, catalog, size, seed, embedded)

\* pool_to_tool_surface: each tool once; those of the reference with their
\* schema, the others with one that allows anything.
ToolSurface(pool, reference) ==
    [k \in Keys(pool) |-> IF k \in reference THEN "schema" ELSE "permissive"]
=============================================================================
