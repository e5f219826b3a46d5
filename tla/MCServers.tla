----------------------------- MODULE MCServers -----------------------------
(***************************************************************************)
(* The pure parts of the system are checked against the properties their   *)
(* callers rely on, one small input per step: from the start a step takes  *)
(* any case of one kind, and there the behaviour ends.                     *)
(*                                                                         *)
(* The cases here are those of Refresh, Verify and Discovery: what the     *)
(* commands that talk to many servers conclude about them.                 *)
(***************************************************************************)
EXTENDS Naturals, Sequences, FiniteSets, SequencesExt, FiniteSetsExt

CONSTANTS NONE, Kinds

VARIABLE case

Start(kind) == [kind |-> "start", of |-> kind]

Init == case \in {Start(kind) : kind \in Kinds}

Try(kind, inputs) == case = Start(kind) /\ \E x \in inputs : case' = [kind |-> kind, of |-> x]

Case(kind) == case.kind = kind

R == INSTANCE Refresh

-----------------------------------------------------------------------------
(* Refresh: a database with one table, a server that does not boot and one *)
(* that only reads; calls that answer, drift, fail and fail for a while.   *)

Schema == [required |-> {"q"}, declared |-> [q |-> "string"]]

RefreshServers(tables) ==
    [db    |-> [known |-> TRUE, writes |-> FALSE, env |-> {"KEY"}, boots |-> TRUE,
                tools |-> [query |-> Schema], relations |-> tables],
     dead  |-> [known |-> TRUE, writes |-> TRUE, env |-> {}, boots |-> FALSE,
                tools |-> [query |-> Schema], relations |-> NONE],
     other |-> [known |-> FALSE, writes |-> FALSE, env |-> {"TOKEN"}, boots |-> TRUE,
                tools |-> [query |-> Schema], relations |-> NONE]]

RefreshCall(server, tool, type, attempts) ==
    [server |-> server, tool |-> tool, args |-> [q |-> type],
     needs |-> {[kind |-> "relation", target |-> "t"]}, attempts |-> attempts]

RefreshCalls ==
    {RefreshCall("db", "query", "string", a) :
        a \in {<<"same", "same">>, <<"transient", "differs">>, <<"transient", "transient">>,
               <<"missing", "same">>, <<"refused", "same">>}}
    \cup {RefreshCall("db", "gone", "string", <<"refused", "refused">>),
          RefreshCall("db", "query", "integer", <<"refused", "refused">>),
          RefreshCall("dead", "query", "string", <<"same", "same">>),
          RefreshCall("other", "query", "string", <<"same", "same">>)}

RefreshTraces == {<<>>} \cup {<<c>> : c \in RefreshCalls} \cup (RefreshCalls \X RefreshCalls)

RefreshInputs ==
    [first : RefreshTraces, second : {<<>>} \cup {<<c>> : c \in RefreshCalls},
     tables : {{"t"}, {"u"}}, keys : {{}, {<<"credential", "KEY">>}},
     stateful : BOOLEAN, preflight : BOOLEAN, retries : 0..1]

RefreshReports(x) ==
    R!RefreshAll(<<1, 2, 3>>, (1 :> x.first @@ 2 :> x.second), RefreshServers(x.tables), x.keys,
                 [refreshStateful |-> x.stateful, preflight |-> x.preflight, retries |-> x.retries])

\* What a call of the trace shows of its server: nothing when there is no
\* session or when no try was answered for good.
Shows(c, retries) ==
    c.server # "dead" /\ \E i \in 1..retries + 1 : c.attempts[i] # "transient"

RefreshAccounted(x) ==
    LET traces  == <<x.first, x.second>>
        reports == RefreshReports(x)
        decay   == R!PerServerDecay(reports)
        summary == R!DecaySummary(reports)
    IN  /\ Len(reports) = 2
        /\ \A k \in 1..2 :
              LET r == reports[k]
              IN  /\ {o.step : o \in r.outcomes} = 1..Len(traces[k])
                  /\ r.total = Len(traces[k])
                  /\ SumFunction(r.counts) = r.total
                  /\ r.quarantined => r.counts["quarantined"] = r.total /\ ~r.likelyStale
                  /\ \A o \in r.outcomes :
                        /\ o.retries <= x.retries
                        /\ o.class \in R!Attributable => Shows(traces[k][o.step], x.retries)
                        /\ o.class = "skipped" => traces[k][o.step].server # "db"
        /\ summary.specs_refreshed + summary.specs_quarantined = 2
        /\ summary.specs_stale <= summary.specs_refreshed
        /\ summary.total = SumFunction([s \in DOMAIN decay |-> decay[s].total])
        /\ \A c \in R!Classes :
              summary.call_outcomes[c] = SumFunction([s \in DOMAIN decay |-> decay[s].counts[c]])
        /\ \A s \in DOMAIN decay :
              /\ decay[s].failed <= decay[s].live /\ decay[s].live <= decay[s].attempted
              /\ decay[s].attempted + decay[s].counts["skipped"] = decay[s].total
              /\ decay[s].refreshes <= summary.specs_refreshed

\* Every call of a reference trace is counted once, in its report, in the
\* summary and in the decay of its server; and a server is said to have
\* changed only where it answered: not when it did not boot, stayed transient,
\* or the environment was not met (dmcp/refresh.py refresh_one, decay_summary,
\* per_server_decay, dmcp/attribution.py attribute_failure).
DecayIsAccounted == Case("refresh") => RefreshAccounted(case.of)

-----------------------------------------------------------------------------
(* Verify: three tools of one server, and a server whose session breaks.   *)

V == INSTANCE Verify

VerifyAnswers == {<<"ok", "ok">>, <<"error", "ok">>, <<"error", "error">>, <<"signal", "ok">>, <<"timeout", "ok">>}

VerifyTool(name, uses) ==
    {[name |-> name, destructive |-> d, first |-> a[1], second |-> a[2], yields |-> {name}, uses |-> uses] :
        d \in BOOLEAN, a \in VerifyAnswers}

VerifyInputs ==
    [tools : VerifyTool("list", {"list", "get"}) \X VerifyTool("get", {"list", "edit"}) \X
             {t \in VerifyTool("edit", {"list", "get"}) : t.second = "ok"},
     sandbox : BOOLEAN, strict : BOOLEAN, llm : BOOLEAN, all : BOOLEAN]

VerifyReports(x) ==
    LET server(tools, breaks) == [tools |-> tools, breaks |-> breaks, env |-> {}, sandbox |-> x.sandbox]
    IN  V!VerifyAll([s |-> server(x.tools, FALSE), b |-> server(x.tools, TRUE),
                     k |-> [server(x.tools, FALSE) EXCEPT !.env = {"KEY"}]], {},
                    [sandbox |-> FALSE, strict |-> x.strict, llm |-> x.llm, requireAll |-> x.all, rate |-> 5])

VerifySound(x) ==
    LET reports == VerifyReports(x)
        report  == reports["s"]
        at(n)   == CHOOSE i \in 1..3 : x.tools[i].name = n
        failed(i) == V!Classified(x.tools[i].first, x.strict) = "error"
    IN  /\ DOMAIN reports = {"s", "b"}
        /\ ~reports["b"].ok
        /\ \A e \in report.edges :
              LET from == at(e[1]) to == at(e[2])
              IN  /\ report.status[from] = "ok" /\ report.status[to] = "ok"
                  /\ failed(to)
                  /\ ~failed(from) \/ from < to
        /\ \A i \in 1..3 :
              /\ report.status[i] = "skipped" <=> (x.tools[i].destructive /\ ~x.sandbox)
              /\ x.tools[i].first = "timeout" => report.status[i] \in {"timeout", "skipped"}
        /\ x.all /\ report.ok =>
              /\ \E i \in 1..3 : report.status[i] = "ok"
              /\ \A i \in 1..3 : report.status[i] \in {"ok", "skipped"}

\* The dependencies between tools that verification reports are real ones: from
\* a tool that succeeded before to another one that failed without its value.
\* A hanging tool is not called again, a destructive one not without a sandbox,
\* and the strict gate passes no server without a successful call
\* (dmcp/verify.py verify_server, dmcp/cli.py verify).
ToolGraphIsEarned == Case("verify") => VerifySound(case.of)

-----------------------------------------------------------------------------
(* Discovery: three records on up to three pages.                          *)

IdOf(name) == IF name = "a.b" THEN "a_b" ELSE name

D == INSTANCE Discovery WITH
        WriteWords  <- {"write", "delete"},
        ReadWords   <- {"read", "search"},
        StaticWords <- {"convert"},
        ServerId    <- IdOf,
        MaxAttempts <- 2,
        PageCap     <- 3

Package(kind, id, needs, installs) ==
    [kind |-> kind, id |-> id, stdio |-> TRUE, needsEnv |-> needs, installs |-> installs]

PackageLists ==
    {<<>>, <<Package("pypi", "p", TRUE, "success")>>, <<Package("npm", "n", FALSE, "success")>>,
     <<Package("npm", "n", FALSE, "success"), Package("pypi", "q", FALSE, "success")>>,
     <<Package("pypi", "r", FALSE, "timeout")>>,
     <<Package("pypi", "p", FALSE, "success")>>}

ToolWords == {{}, {{"read"}}, {{"read", "x"}, {"search", "delete"}}, {{"convert"}}, {{"x"}}}

ServerRecord(name, packages, smoke, tools, latest) ==
    [name |-> name, latest |-> latest, active |-> TRUE, packages |-> packages, smoke |-> smoke, tools |-> tools]

DiscoveryInputs ==
    [first : {ServerRecord("a_b", p, "up", t, TRUE) : p \in PackageLists, t \in ToolWords},
     second : {ServerRecord(n, p, s, {{"write"}}, l) : n \in {"a.b", "c"}, p \in PackageLists,
                 s \in {"up", "fails", "hangs"}, l \in BOOLEAN},
     third : {ServerRecord("d", <<Package("npm", "m", FALSE, "success")>>, "up", {{"read"}}, TRUE)},
     failures : 0..2, limit : 1..3]

Pages(x) == <<[records |-> <<x.first, x.second>>, failures |-> 0],
              [records |-> <<>>, failures |-> x.failures],
              [records |-> <<x.third>>, failures |-> 0]>>

CrawlSound(x) ==
    LET entries == D!Crawl(Pages(x), x.limit)
        pool    == {x.first, x.second, x.third}
        vetted  == D!Discovered(Pages(x), x.limit)
    IN  IF entries = NONE
        THEN \/ x.failures >= 2 /\ Len(D!Discovered(SubSeq(Pages(x), 1, 1), x.limit)) < x.limit
             \/ Cardinality({IdOf(s.name) : s \in ToSet(vetted)}) < Len(vetted)
        ELSE /\ Len(entries) <= x.limit
             /\ \A i, h \in 1..Len(entries) : i # h =>
                   entries[i].id # entries[h].id
             /\ \A i \in 1..Len(entries) :
                   \E s \in pool :
                      /\ IdOf(s.name) = entries[i].id
                      /\ s.latest /\ s.smoke = "up" /\ s.tools # {}
                      /\ entries[i].package \in ToSet(s.packages)
                      /\ ~entries[i].package.needsEnv
                      /\ UNION s.tools \cap {"write", "delete"} # {} => entries[i].sandbox

\* A crawl ends with a manifest of servers that booted without credentials,
\* under identifiers of their own, those with a writing tool only in a sandbox; it ends
\* without one only if a page stayed unavailable or two servers' names come to
\* the same identifier (dmcp/cli.py crawl, dmcp/vet.py _vet_one,
\* _classify_dynamism, dmcp/discovery/registry.py iter_all).
CrawlIsSafeToRun == Case("discovery") => CrawlSound(case.of)
=============================================================================
