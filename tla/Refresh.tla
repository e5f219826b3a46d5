------------------------------ MODULE Refresh ------------------------------
(***************************************************************************)
(* Refresh and decay (dmcp/refresh.py, preflight.py, attribution.py): the  *)
(* successful calls of a reference trace are made again against the live   *)
(* servers, every call is classified, and the reports of many specs are    *)
(* added up per server.                                                    *)
(*                                                                         *)
(* A reference call is a record                                            *)
(*   [server, tool, args, needs, attempts]                                 *)
(* with `args` a function from the names of the arguments to their JSON    *)
(* types, `needs` the paths and relations that the arguments name, and     *)
(* `attempts` what the live server answers to the first, second, ... try:  *)
(*   "same", "differs" (texts), "transient" (raised or returned),          *)
(*   "missing" (the record is gone), "refused" (any other error).          *)
(* A server is [known, writes, env, boots, tools, relations]; `tools` maps *)
(* names to schemas, `relations` is what its listing tool reports, NONE    *)
(* when it has none.  `present` is the set of environment variables, paths *)
(* and writable paths of the machine.                                      *)
(***************************************************************************)
EXTENDS Naturals, Sequences, FiniteSets, FiniteSetsExt, Functions

CONSTANTS NONE

-----------------------------------------------------------------------------
(* attribution.py: whose fault is a failed call?                           *)

\* A schema: [required, declared], the latter a function from names to types.
TypeMatches(type, declared) ==
    \/ declared = type
    \/ declared = "number" /\ type = "integer"
    \/ declared \notin {"string", "integer", "number", "boolean", "array", "object"}

SchemaIncompatibility(schema, args) ==
    \/ schema.required \ DOMAIN args # {}
    \/ /\ DOMAIN schema.declared # {}
       /\ \/ DOMAIN args \ DOMAIN schema.declared # {}
          \/ \E k \in DOMAIN args : ~TypeMatches(args[k], schema.declared[k])

\* Mutant: a server that discovery cannot reach is taken to have lost the tool.
AttributeFailure_Unreachable(call, answer, tools) ==
    CASE tools = NONE                                             -> "schema_drift"
      [] tools # NONE /\ call.tool \notin DOMAIN tools            -> "schema_drift"
      [] tools # NONE /\ call.tool \in DOMAIN tools /\
         SchemaIncompatibility(tools[call.tool], call.args)       -> "schema_drift"
      [] OTHER -> IF answer = "missing" THEN "state_decay" ELSE "unresolved"

AttributeFailure(call, answer, tools) ==
    IF tools = NONE THEN "unresolved"
    ELSE IF call.tool \notin DOMAIN tools \/ SchemaIncompatibility(tools[call.tool], call.args)
    THEN "schema_drift"
    ELSE IF answer = "missing" THEN "state_decay" ELSE "unresolved"

-----------------------------------------------------------------------------
(* preflight.py: what the environment must hold.                           *)

Requirement(kind, server, target) == [kind |-> kind, server |-> server, target |-> target]

\* Servers that the manifest does not know are not vouched for.  A need is
\* [kind, target], "path" for an absolute path and "relation" for a table
\* named by an argument or by SQL.
DeriveRequirements(calls, servers) ==
    UNION {LET c == calls[i] s == servers[c.server]
           IN  IF ~s.known THEN {}
               ELSE {Requirement("credential", c.server, v) : v \in s.env}
                    \cup {Requirement(CASE n.kind = "relation" -> "table"
                                        [] n.kind = "path" -> IF s.writes THEN "writable" ELSE "file",
                                      c.server, n.target) : n \in c.needs}
           : i \in 1..Len(calls)}

\* Servers that list their tools, offer a listing of relations and answer it.
DiscoverTables(asked, servers) ==
    [s \in {s \in asked : servers[s].boots /\ servers[s].relations \notin {NONE, {}}} |-> servers[s].relations]

CheckOne(req, present, inventory) ==
    IF req.kind # "table"
    THEN IF <<req.kind, req.target>> \in present THEN "satisfied" ELSE "unmet"
    ELSE IF req.server \notin DOMAIN inventory THEN "unknown"
    ELSE IF req.target \in inventory[req.server] THEN "satisfied" ELSE "unmet"

CheckRequirements(reqs, present, inventory) == [r \in reqs |-> CheckOne(r, present, inventory)]

\* "`unknown` never quarantines"
PreflightOk(findings) == \A r \in DOMAIN findings : findings[r] # "unmet"

-----------------------------------------------------------------------------
(* refresh.py: one reference trace.                                        *)

\* _call_with_backoff: a transient failure is tried again, nothing else is.
CallWithBackoff(attempts, retries) ==
    LET final == {i \in 1..retries + 1 : attempts[i] # "transient"}
        last  == IF final = {} THEN retries + 1 ELSE Min(final)
    IN  [answer |-> attempts[last], retries |-> last - 1]

\* A server that did not boot has no session: its calls are refused and its
\* discovery fails.
Answered(call, server, retries) ==
    IF server.boots THEN CallWithBackoff(call.attempts, retries)
    ELSE [answer |-> "refused", retries |-> 0]

Classify(call, server, answer) ==
    CASE answer = "same"      -> "identical"
      [] answer = "differs"   -> "drifted"
      [] answer = "transient" -> "unresolved"
      [] OTHER -> AttributeFailure(call, answer, IF server.boots THEN server.tools ELSE NONE)

Outcome(step, call, class, retries) ==
    [step |-> step, server |-> call.server, class |-> class, retries |-> retries]

Attributable == {"schema_drift", "state_decay"}
Classes      == {"identical", "drifted", "unresolved", "skipped", "quarantined"} \cup Attributable

Skipped(call, servers, refreshStateful) ==
    ~servers[call.server].known \/ (servers[call.server].writes /\ ~refreshStateful)

\* "Replace everything, including the pre-recorded `skipped` outcomes"
Quarantine(calls, skipped) == {Outcome(i, calls[i], "quarantined", 0) : i \in 1..Len(calls)}

Count(outcomes, class) == Cardinality({o \in outcomes : o.class = class})

Report(outcomes, quarantined) ==
    LET counts == [c \in Classes |-> Count(outcomes, c)]
    IN  [outcomes |-> outcomes, quarantined |-> quarantined,
         counts |-> counts, total |-> Cardinality(outcomes),
         likelyStale |-> \E c \in Attributable : counts[c] > 0]

\* refresh_one.  With servers to run, preflight may probe them for relations;
\* an unmet requirement, of a skipped server too, quarantines the whole task.
RefreshOne(calls, servers, present, options) ==
    LET skipped   == {i \in 1..Len(calls) : Skipped(calls[i], servers, options.refreshStateful)}
        run       == {calls[i].server : i \in (1..Len(calls)) \ skipped}
        reqs      == IF options.preflight THEN DeriveRequirements(calls, servers) ELSE {}
        findings  == CheckRequirements(reqs, present, DiscoverTables(run, servers))
        Driven(i) == LET a == Answered(calls[i], servers[calls[i].server], options.retries)
                     IN  Outcome(i, calls[i], Classify(calls[i], servers[calls[i].server], a.answer), a.retries)
    IN  IF ~PreflightOk(findings) THEN Report(Quarantine(calls, skipped), TRUE)
        ELSE Report({Outcome(i, calls[i], "skipped", 0) : i \in skipped}
                    \cup {Driven(i) : i \in (1..Len(calls)) \ skipped}, FALSE)

-----------------------------------------------------------------------------
(* Aggregates over the reports of a window.                                *)

\* `dmcp refresh`: a spec whose reference trace is not in the file is skipped.
RefreshAll(specs, references, servers, present, options) ==
    LET found == SelectSeq(specs, LAMBDA s : s \in DOMAIN references)
    IN  [k \in 1..Len(found) |-> RefreshOne(references[found[k]], servers, present, options)]

Refreshed(reports) == {k \in 1..Len(reports) : ~reports[k].quarantined}

Sum(S, f(_)) == FoldSet(LAMBDA x, n : f(x) + n, 0, S)

DecaySummary(reports) ==
    [specs_refreshed   |-> Cardinality(Refreshed(reports)),
     specs_quarantined |-> Len(reports) - Cardinality(Refreshed(reports)),
     specs_stale       |-> Cardinality({k \in Refreshed(reports) : reports[k].likelyStale}),
     call_outcomes     |-> [c \in Classes |-> Sum(Refreshed(reports), LAMBDA k : reports[k].counts[c])],
     total             |-> Sum(Refreshed(reports), LAMBDA k : reports[k].total)]

\* The outcomes of the reports that are not quarantined.
Evidence(reports) ==
    {<<k, o>> \in Refreshed(reports) \X UNION {reports[h].outcomes : h \in 1..Len(reports)} :
        o \in reports[k].outcomes}

\* Rates are taken over `live`, the unresolved one over `attempted`.
PerServerDecay(reports) ==
    LET all == Evidence(reports)
        Of(s, class) == Cardinality({x \in all : x[2].server = s /\ x[2].class = class})
    IN  [s \in {x[2].server : x \in all} |->
            LET failed == Of(s, "schema_drift") + Of(s, "state_decay")
                live   == Of(s, "identical") + Of(s, "drifted") + failed
            IN  [refreshes |-> Cardinality({x[1] : x \in {y \in all : y[2].server = s}}),
                 total |-> Cardinality({x \in all : x[2].server = s}),
                 live |-> live, failed |-> failed, attempted |-> live + Of(s, "unresolved"),
                 counts |-> [c \in Classes |-> Of(s, c)]]]
=============================================================================
