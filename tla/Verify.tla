------------------------------- MODULE Verify -------------------------------
(***************************************************************************)
(* Deep verification of a server (dmcp/verify.py, `dmcp verify`): every    *)
(* tool is called once with made-up arguments, and those that fail once    *)
(* more with values harvested from the successful ones.                    *)
(*                                                                         *)
(* A tool is a record [name, destructive, first, second, yields, uses]:    *)
(* `first` and `second` are what its two calls come to - "ok", "error",    *)
(* "timeout", or "signal" for a failure reported as a successful content - *)
(* `yields` the id-like values of its successful result, `uses` the values *)
(* that the model puts in the arguments of the retry.                      *)
(***************************************************************************)
EXTENDS Naturals, Sequences, FiniteSets, SequencesExt

\* _call_and_classify: a content signal counts as an error only when strict.
Classified(answer, strict) ==
    IF answer = "signal" THEN (IF strict THEN "error" ELSE "ok") ELSE answer

Skipped(tool, sandbox) == tool.destructive /\ ~sandbox

Harvest(tool) == {[source |-> tool.name, value |-> v] : v \in tool.yields}

\* Pass 1: what the first calls come to, and the values they leave.
FirstPass(tools, options) ==
    [status |-> [i \in 1..Len(tools) |->
                    IF Skipped(tools[i], options.sandbox) THEN "skipped"
                    ELSE Classified(tools[i].first, options.strict)],
     pool |-> UNION {Harvest(tools[i]) : i \in
                 {i \in 1..Len(tools) : /\ ~Skipped(tools[i], options.sandbox)
                                        /\ Classified(tools[i].first, options.strict) = "ok"}},
     edges |-> {}]

\* Mutant: the values of a retry are harvested before its edges are drawn.
Retry_HarvestFirst(pass, tools, i, options) ==
    LET status == Classified(tools[i].second, options.strict)
        pool   == pass.pool \cup Harvest(tools[i])
    IN  IF pass.status[i] # "error" \/ status # "ok" THEN pass
        ELSE [status |-> [pass.status EXCEPT ![i] = "ok"],
              pool   |-> pool,
              edges  |-> pass.edges \cup {<<h.source, tools[i].name>> :
                            h \in {h \in pool : h.value \in tools[i].uses}}]

\* One retry of pass 2; hangs are not run again.  A success with a value of
\* another tool is an edge from the tool that gave the value.
Retry(pass, tools, i, options) ==
    LET status == Classified(tools[i].second, options.strict)
    IN  IF pass.status[i] # "error" \/ status # "ok" THEN pass
        ELSE [status |-> [pass.status EXCEPT ![i] = "ok"],
              pool   |-> pass.pool \cup Harvest(tools[i]),
              edges  |-> pass.edges \cup {<<h.source, tools[i].name>> :
                            h \in {h \in pass.pool : h.value \in tools[i].uses /\ h.source # tools[i].name}}]

SecondPass(tools, options) ==
    IF ~options.llm THEN FirstPass(tools, options)
    ELSE FoldLeft(LAMBDA pass, i : Retry(pass, tools, i, options),
                  FirstPass(tools, options), [i \in 1..Len(tools) |-> i])

\* The gate.  `rate` is the minimal pass rate in tenths.
Gate(pass, options) ==
    LET exercised == {i \in DOMAIN pass.status : pass.status[i] # "skipped"}
        ok        == {i \in exercised : pass.status[i] = "ok"}
    IN  IF options.requireAll THEN exercised # {} /\ ok = exercised
        ELSE /\ DOMAIN pass.status # {}
             /\ exercised = {} \/ 10 * Cardinality(ok) >= options.rate * Cardinality(exercised)

\* verify_server.  A session that breaks ends in a report without a verdict on
\* the tools, and so does the time limit of the command for one server.
VerifyServer(tools, breaks, options) ==
    IF breaks THEN [ok |-> FALSE, status |-> <<>>, edges |-> {}]
    ELSE LET pass == SecondPass(tools, options)
         IN  [ok |-> Gate(pass, options), status |-> pass.status, edges |-> pass.edges]

\* gate_credentials: servers without their keys are not verified at all.
Runnable(servers, present) == {s \in DOMAIN servers : servers[s].env \subseteq present}

\* `dmcp verify`: a failure of one server is a report, never the end of the run.
VerifyAll(servers, present, options) ==
    [s \in Runnable(servers, present) |->
        VerifyServer(servers[s].tools, servers[s].breaks, [options EXCEPT !.sandbox = servers[s].sandbox])]
=============================================================================
