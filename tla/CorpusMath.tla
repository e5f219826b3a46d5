----------------------------- MODULE CorpusMath -----------------------------
(***************************************************************************)
(* The arithmetic of a corpus: how a number of tasks is split over         *)
(* complexities, generation strategies, models and shards                  *)
(* (scripts/build_corpus.py, dmcp/families.py), and how a launch picks     *)
(* `target` specs by depth (benchmark_advisor/v2_launch.py).               *)
(*                                                                         *)
(* Fractions are natural weights over a common denominator, so that what   *)
(* the code computes in floating point is exact here.                      *)
(***************************************************************************)
EXTENDS Naturals, Sequences, FiniteSets, FiniteSetsExt, Functions

\* Values a dict sums up to.
Total(f) == SumFunction(f)

-----------------------------------------------------------------------------
(* allocate_counts: largest remainders.  `order` lists the keys in the     *)
(* order of the code's `sorted`, ties going to the later key.              *)

Positive(weights) == {k \in DOMAIN weights : weights[k] > 0}

Quotas(total, weights, sum) == [k \in Positive(weights) |-> (total * weights[k]) \div sum]
Excess(total, weights, sum) == [k \in Positive(weights) |-> (total * weights[k]) % sum]

\* The left-over slots go to the keys with the largest excess.
Ahead(excess, order, k) ==
    {j \in DOMAIN excess : \/ excess[j] > excess[k]
                           \/ excess[j] = excess[k] /\ order[j] > order[k]}

ToppedUp(quotas, excess, order, remaining) ==
    [k \in DOMAIN quotas |->
        IF Cardinality(Ahead(excess, order, k)) < remaining THEN quotas[k] + 1 ELSE quotas[k]]

NonZero(counts) == Restrict(counts, {k \in DOMAIN counts : counts[k] > 0})

\* Mutant: the left-over slots are dropped.
AllocateCounts_Floor(total, weights, order) ==
    IF total = 0 THEN [k \in DOMAIN weights |-> 0] ELSE NonZero(Quotas(total, weights, Total(weights)))

AllocateCounts(total, weights, order) ==
    IF total = 0 THEN [k \in DOMAIN weights |-> 0]
    ELSE LET sum    == Total(weights)
             quotas == Quotas(total, weights, sum)
         IN  NonZero(ToppedUp(quotas, Excess(total, weights, sum), order, total - Total(quotas)))

\* The fractions of the explicit strategies are completed to one by the
\* defaults, in equal parts; with nothing at all the defaults take everything.
\* Weights are in parts of `whole`, scaled by the number of defaults.
StrategyWeights(explicit, defaults, whole) ==
    LET n     == Cardinality(defaults)
        sum   == Total(explicit)
        rest  == IF sum < whole THEN whole - sum ELSE 0
        share == IF defaults = {} THEN 0 ELSE rest
        scale == IF defaults = {} THEN 1 ELSE n
    IN  [s \in DOMAIN explicit \cup defaults |->
            (IF s \in DOMAIN explicit THEN scale * explicit[s] ELSE 0)
            + (IF s \in defaults THEN share ELSE 0)]

\* advisor_distribution_plan: complexities first, strategies within each.
Levels(total, chains, order) ==
    AllocateCounts(total, IF Positive(chains) = {} THEN [c \in DOMAIN chains |-> 1] ELSE chains, order)

DistributionPlan(total, chains, explicit, defaults, whole, order) ==
    LET levels  == Levels(total, chains, order)
        weights == StrategyWeights(explicit, defaults, whole)
    IN  [c \in DOMAIN levels |-> AllocateCounts(levels[c], weights, order)]

PlannedGoals(plan) == Total([c \in DOMAIN plan |-> Total(plan[c])])

-----------------------------------------------------------------------------
(* shard_goals and assign_shards.                                          *)

\* The entries at positions k, k + n, k + 2n, ...
ShardGoals(entries, n) ==
    [k \in 1..n |->
        [i \in 1..((Len(entries) + n - k) \div n) |-> entries[k + (i - 1) * n]]]

-----------------------------------------------------------------------------
(* _select_by_depth: a fifth short, three tenths medium, half long chains. *)

Depths == <<"short_chain", "medium_chain", "long_chain">>
Tenths == <<2, 3, 5>>

\* `max` returns the first of the largest.
MostLacking(target, desired) ==
    CHOOSE d \in 1..3 :
        /\ \A e \in 1..3 : target * Tenths[e] + 10 * desired[d] <= target * Tenths[d] + 10 * desired[e]
        /\ \A e \in 1..d - 1 : target * Tenths[e] + 10 * desired[d] # target * Tenths[d] + 10 * desired[e]

Desired(target) ==
    LET floors  == [d \in 1..3 |-> (target * Tenths[d]) \div 10]
        missing == target - (floors[1] + floors[2] + floors[3])
        filled[n \in 0..missing] ==
            IF n = 0 THEN floors
            ELSE LET d == MostLacking(target, filled[n - 1])
                 IN  [filled[n - 1] EXCEPT ![d] = @ + 1]
    IN  filled[missing]

UpTo(seq, n) == SubSeq(seq, 1, IF n < Len(seq) THEN n ELSE Len(seq))

\* The elements of `seq` in `S`, in order.
Filter(seq, S) ==
    LET kept[n \in 0..Len(seq)] ==
            IF n = 0 THEN <<>>
            ELSE IF seq[n] \in S THEN Append(kept[n - 1], seq[n]) ELSE kept[n - 1]
    IN  kept[Len(seq)]

\* Rows in groups by depth (depthOf, a function of rows), and then the rows that were left out, in order.
SelectByDepth(rows, target, depthOf) ==
    IF Len(rows) <= target THEN rows
    ELSE LET desired  == Desired(target)
             Group(d) == UpTo(Filter(rows, {r \in Range(rows) : depthOf[r] = Depths[d]}), desired[d])
             grouped  == Group(1) \o Group(2) \o Group(3)
             others   == Filter(rows, Range(rows) \ Range(grouped))
         IN  UpTo(grouped \o others, target)
=============================================================================
