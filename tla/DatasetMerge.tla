---------------------------- MODULE DatasetMerge ----------------------------
(***************************************************************************)
(* The shared dataset (scripts/merge_to_hf.py, scripts/release_hf.py).     *)
(* Every contributor runs the same script: it uploads its own part, lists  *)
(* and downloads all parts, merges the specs that are valid and whose      *)
(* reference trace satisfies them, and pushes the merged files over those  *)
(* in the root, one call after the other and without a lock.  Runs overlap *)
(* and may die between any two calls.                                      *)
(*                                                                         *)
(* A spec is a record [task, trace, valid, fits]: `valid` is the verdict   *)
(* of the validator, `fits` says that its own trace satisfies its          *)
(* checkpoints (evaluator.reference_unsatisfied_checkpoints is empty).     *)
(***************************************************************************)
EXTENDS Naturals, FiniteSets, SequencesExt

CONSTANTS
    Contributors,   \* sorted names: a sequence without repetition
    Runs,           \* runs of the script
    NameOf,         \* the contributor of a run
    SpecsOf,        \* --specs of a run: a sequence of specs
    TracesOf,       \* --traces of a run: a set of traces
    NONE

ASSUME MergeAssumption ==
    /\ \A r \in Runs : NameOf[r] \in ToSet(Contributors)
    /\ Runs \subseteq DOMAIN SpecsOf /\ Runs \subseteq DOMAIN TracesOf

Names     == ToSet(Contributors)
RootFiles == <<"specs", "traces", "labels", "readme">>

VARIABLES
    at,         \* where a run stands
    listed,     \* the contributors a run found
    got,        \* what it has downloaded: their parts, by name
    push,       \* how many of the merged files it has pushed
    parts,      \* parts/<name>/specs.jsonl and traces.jsonl, or NONE
    root,       \* the merged files
    alone       \* history: since it listed, no other run has taken a step

vars == <<at, listed, got, push, parts, root, alone>>

\* _valid: only what the validator accepted is uploaded.
ValidSpecs(r) == SelectSeq(SpecsOf[r], LAMBDA s : s.valid)

Parts == [specs  : {NONE} \cup {ValidSpecs(r) : r \in Runs},
          traces : {NONE} \cup {TracesOf[r] : r \in Runs}]

TypeOK == /\ at \in [Runs -> {"start", "specs", "traces", "list", "download", "push", "done", "dead"}]
          /\ listed \in [Runs -> SUBSET Names]
          /\ DOMAIN got = Runs
          /\ \A r \in Runs : DOMAIN got[r] \subseteq listed[r] /\ got[r] \in [DOMAIN got[r] -> Parts]
          /\ push \in [Runs -> 0..4]
          /\ parts \in [Names -> Parts]
          /\ DOMAIN root = {"specs", "traces", "labels", "readme"}
          /\ alone \in [Runs -> BOOLEAN]

Init == /\ at = [r \in Runs |-> "start"]
        /\ listed = [r \in Runs |-> {}]
        /\ got = [r \in Runs |-> [n \in {} |-> NONE]]
        /\ push = [r \in Runs |-> 0]
        /\ parts = [n \in Names |-> [specs |-> NONE, traces |-> NONE]]
        /\ root = [specs |-> NONE, traces |-> NONE, labels |-> NONE, readme |-> NONE]
        /\ alone = [r \in Runs |-> FALSE]

\* Any step of a run ends the solitude of the others.
Disturb(r) == [q \in Runs |-> q = r /\ alone[q]]

\* A run ends early and its memory with it; what it built stays on record here
\* if it has pushed some of it.
Gone(r) ==
    /\ at' = [at EXCEPT ![r] = "dead"]
    /\ listed' = [listed EXCEPT ![r] = IF push[r] = 0 THEN {} ELSE @]
    /\ got' = [got EXCEPT ![r] = IF push[r] = 0 THEN [n \in {} |-> NONE] ELSE @]
    /\ alone' = [q \in Runs |-> FALSE]
    /\ UNCHANGED <<push, parts, root>>

Start(r) ==
    /\ at[r] = "start"
    /\ at' = [at EXCEPT ![r] = IF ValidSpecs(r) = <<>> THEN "dead" ELSE "specs"]
    /\ UNCHANGED <<listed, got, push, parts, root, alone>>

\* A part is replaced as a whole, first its specs and then its traces.
UploadSpecs(r) ==
    /\ at[r] = "specs"
    /\ parts' = [parts EXCEPT ![NameOf[r]] = [specs |-> ValidSpecs(r), traces |-> @.traces]]
    /\ at' = [at EXCEPT ![r] = "traces"]
    /\ alone' = Disturb(r)
    /\ UNCHANGED <<listed, got, push, root>>

Present == {n \in Names : parts[n].specs # NONE \/ parts[n].traces # NONE}

\* Mutant: the parts are listed before the own traces are uploaded.
UploadTraces_Unlisted(r) ==
    /\ at[r] = "traces"
    /\ parts' = [parts EXCEPT ![NameOf[r]] = [specs |-> @.specs, traces |-> TracesOf[r]]]
    /\ listed' = [listed EXCEPT ![r] = Present \ {NameOf[r]}]
    /\ at' = [at EXCEPT ![r] = "download"]
    /\ alone' = [Disturb(r) EXCEPT ![r] = TRUE]
    /\ UNCHANGED <<got, push, root>>

\* The second call of the upload.
UploadTraces(r) ==
    /\ at[r] = "traces"
    /\ parts' = [parts EXCEPT ![NameOf[r]] = [specs |-> @.specs, traces |-> TracesOf[r]]]
    /\ at' = [at EXCEPT ![r] = "list"]
    /\ alone' = Disturb(r)
    /\ UNCHANGED <<listed, got, push, root>>

List(r) ==
    /\ at[r] = "list"
    /\ listed' = [listed EXCEPT ![r] = Present]
    /\ at' = [at EXCEPT ![r] = "download"]
    /\ alone' = [Disturb(r) EXCEPT ![r] = TRUE]
    /\ UNCHANGED <<got, push, parts, root>>

\* Each part is fetched in two calls, its specs and then its traces.
Missing(r) == {n \in listed[r] : n \notin DOMAIN got[r] \/ got[r][n].traces = NONE}

\* The parts are fetched in the order of the names.
Place(n)  == CHOOSE i \in 1..Len(Contributors) : Contributors[i] = n
Due(r, n) == n \in Missing(r) /\ \A m \in Missing(r) : Place(n) <= Place(m)

DownloadSpecs(r, n) ==
    /\ at[r] = "download" /\ Due(r, n) /\ n \notin DOMAIN got[r]
    /\ parts[n].specs # NONE
    /\ got' = [got EXCEPT ![r] = [m \in DOMAIN got[r] \cup {n} |->
                  IF m = n THEN [specs |-> parts[n].specs, traces |-> NONE] ELSE got[r][m]]]
    /\ alone' = Disturb(r)
    /\ UNCHANGED <<at, listed, push, parts, root>>

DownloadTraces(r, n) ==
    /\ at[r] = "download" /\ Due(r, n) /\ n \in DOMAIN got[r]
    /\ parts[n].traces # NONE
    /\ got' = [got EXCEPT ![r] = [m \in DOMAIN got[r] |->
                  IF m = n THEN [specs |-> got[r][n].specs, traces |-> parts[n].traces] ELSE got[r][m]]]
    /\ alone' = Disturb(r)
    /\ UNCHANGED <<at, listed, push, parts, root>>

\* A contributor has specs and not yet, or never, traces: the download raises.
DownloadFails(r, n) ==
    /\ at[r] = "download" /\ Due(r, n)
    /\ IF n \in DOMAIN got[r] THEN parts[n].traces = NONE ELSE parts[n].specs = NONE
    /\ Gone(r)

-----------------------------------------------------------------------------
(* The merge: a pure function of the parts.                                *)

MergedTraces(from) == UNION {from[n].traces : n \in DOMAIN from}

\* Mutant: the self-consistency check is left to the contributors.
Admitted_Valid(s, traces) == s.valid

\* "defence in depth": valid, and consistent with its trace where there is one.
Admitted(s, traces) == s.valid /\ (s.trace \in traces => s.fits)

\* The specs of the parts, by contributor and place, in the order of the names.
Entries(from) ==
    UNION {{<<k, i>> : i \in 1..Len(from[Contributors[k]].specs)} :
           k \in {k \in 1..Len(Contributors) : Contributors[k] \in DOMAIN from}}
Entry(from, e) == from[Contributors[e[1]]].specs[e[2]]
Before(d, e)   == d[1] < e[1] \/ (d[1] = e[1] /\ d[2] < e[2])

\* The first admitted spec of each task.
MergedSpecs(from) ==
    LET traces  == MergedTraces(from)
        entries == Entries(from)
        ok      == {e \in entries : Admitted(Entry(from, e), traces)}
        first   == {e \in ok : \A d \in ok :
                       Before(d, e) => Entry(from, d).task # Entry(from, e).task}
    IN  {Entry(from, e) : e \in first}

\* release_hf.build: the counts of the card, and the specs without a trace.
Labels(from) == [n_specs |-> Cardinality(MergedSpecs(from)),
                 orphan_specs |-> {s \in MergedSpecs(from) : s.trace \notin MergedTraces(from)}]

Built(from) == [specs  |-> MergedSpecs(from),
                traces |-> MergedTraces(from),
                labels |-> Labels(from),
                readme |-> Labels(from).n_specs]

\* Build, which refuses an empty dataset, and push the first file.
StartPush(r) ==
    /\ at[r] = "download" /\ Missing(r) = {}
    /\ at' = [at EXCEPT ![r] = IF MergedSpecs(got[r]) = {} THEN "dead" ELSE "push"]
    /\ alone' = Disturb(r)
    /\ UNCHANGED <<listed, got, push, parts, root>>

Push(r) ==
    /\ at[r] = "push" /\ push[r] < 4
    /\ LET f == RootFiles[push[r] + 1] IN root' = [root EXCEPT ![f] = Built(got[r])[f]]
    /\ push' = [push EXCEPT ![r] = @ + 1]
    /\ at' = [at EXCEPT ![r] = IF push[r] = 3 THEN "done" ELSE "push"]
    /\ alone' = Disturb(r)
    /\ UNCHANGED <<listed, got, parts>>

\* A refused or lost call, or a killed process: the calls made stay made.
Die(r) ==
    /\ at[r] \in {"specs", "traces", "list", "download", "push"}
    /\ Gone(r)

Next == \E r \in Runs :
            \/ Start(r)
            \/ UploadSpecs(r)
            \/ UploadTraces(r)
            \/ List(r)
            \/ \E n \in Names : DownloadSpecs(r, n) \/ DownloadTraces(r, n) \/ DownloadFails(r, n)
            \/ StartPush(r)
            \/ Push(r)
            \/ Die(r)

Spec == Init /\ [][Next]_vars

-----------------------------------------------------------------------------
(* Properties.                                                             *)

Ended(r) == at[r] \in {"done", "dead"}

\* What an undisturbed run over the present parts would build.
Rebuilt == Built([n \in Present |-> parts[n]])

\* Whatever overlaps and dies, the root holds at most one spec of a task, only
\* valid ones, and none that a trace refutes which some run had at hand when it
\* built the file (merge_to_hf.py:125-142).
RootIsSound ==
    /\ TypeOK
    /\ root.specs # NONE =>
          /\ \A s \in root.specs : s.valid
          /\ \A s, t \in root.specs : s.task = t.task => s = t
          /\ \E r \in Runs : /\ Missing(r) = {}
                             /\ root.specs = MergedSpecs(got[r])
                             /\ \A s \in root.specs : s.trace \in MergedTraces(got[r]) => s.fits

\* A run that nobody disturbs since it listed the parts repairs the root,
\* whatever earlier runs left there: all four files are of one merge of all the
\* parts (merge_to_hf.py:11-12, 106-184).
UndisturbedRunRepairs ==
    [][\A r \in Runs : (alone[r] /\ push[r] = 3 /\ Push(r)) => root' = Rebuilt]_vars

\* "two contributors running concurrently converge to the same dataset"
\* (merge_to_hf.py:11-12): when all runs have succeeded the root is the merge.
RunsConverge == (\A r \in Runs : at[r] = "done") => root = Rebuilt

-----------------------------------------------------------------------------
(* The inductive invariant.                                                *)

\* The merged specs in the root stem from a run that has all it will have.
Sourced == root.specs # NONE =>
              \E r \in Runs : /\ push[r] > 0 /\ at[r] \in {"push", "done", "dead"} /\ Missing(r) = {}
                             /\ root.specs = MergedSpecs(got[r])

\* A run that was not disturbed has seen the parts as they are, and what it
\* has pushed is still there.
UpToDate == \A r \in Runs : alone[r] /\ at[r] \in {"download", "push"} =>
               /\ listed[r] = Present
               /\ \A n \in DOMAIN got[r] : \/ got[r][n] = parts[n]
                                           \/ got[r][n] = [specs |-> parts[n].specs, traces |-> NONE]
               /\ \A i \in 1..push[r] : root[RootFiles[i]] = Built(got[r])[RootFiles[i]]

\* Nothing is fetched before the listing and nothing pushed before the build.
InStages == \A r \in Runs :
    /\ at[r] \in {"start", "specs", "traces", "list"} => got[r] = [n \in {} |-> NONE]
    /\ at[r] \notin {"push", "done", "dead"} => push[r] = 0
    /\ at[r] = "push" => push[r] < 4 /\ Missing(r) = {}

IInv == TypeOK /\ Sourced /\ UpToDate /\ InStages
=============================================================================
