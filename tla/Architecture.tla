---------------------------- MODULE Architecture ----------------------------
(***************************************************************************)
(* How a pool of tools is presented to a candidate: descriptions rewritten *)
(* at a level (dmcp/normalize.py), then all the tools, the likest ones or  *)
(* those of one server (dmcp/architecture.py).                             *)
(*                                                                         *)
(* A surface is a sequence of groups [server, tools] in the order of the   *)
(* dictionary, a tool a record [name, text].  A router's answer is a       *)
(* record [json, mentions]: what json.loads makes of it ("no" JSON, a      *)
(* "list", a dictionary with "no_id", or a server it names) and the        *)
(* servers whose identifiers occur in it.                                  *)
(***************************************************************************)
EXTENDS Naturals, Sequences, FiniteSets, SequencesExt, FiniteSetsExt

CONSTANTS Rewritten(_, _),  \* a description at level "a" or as a model rewrites it, "" for no answer
          Cosine(_),        \* likeness of a tool to the prompt
          NONE

Servers(surface) == {g.server : g \in ToSet(surface)}
Group(surface, s) == (CHOOSE g \in ToSet(surface) : g.server = s).tools

-----------------------------------------------------------------------------
(* normalize.py: a tool is rewritten once for its server.                  *)

Described(tool, level) ==
    LET new == Rewritten(tool, level)
    IN  IF level = "b" /\ new = "" THEN tool.text ELSE new

Normalized(surface, level) ==
    LET First(g, name) == g.tools[Min({i \in 1..Len(g.tools) : g.tools[i].name = name})]
        New(g, tool)   == [tool EXCEPT !.text = Described(First(g, tool.name), level)]
    IN  [i \in 1..Len(surface) |->
            [surface[i] EXCEPT !.tools = [h \in 1..Len(@) |-> New(surface[i], @[h])]]]

-----------------------------------------------------------------------------
(* architecture.py.                                                        *)

\* Tools by likeness, in the order of the surface where it is equal.
Flat(surface) ==
    FlattenSeq([i \in 1..Len(surface) |->
        [h \in 1..Len(surface[i].tools) |-> [server |-> surface[i].server, tool |-> surface[i].tools[h]]]])

Best(flat, k) ==
    LET Above(i, h) == \/ Cosine(flat[i].tool) > Cosine(flat[h].tool)
                       \/ Cosine(flat[i].tool) = Cosine(flat[h].tool) /\ i < h
    IN  {i \in 1..Len(flat) : Cardinality({h \in 1..Len(flat) : Above(h, i)}) < k}

\* rag_surface; `embedded` says that vectors came back.
Rag(surface, k, embedded) ==
    LET flat == Flat(surface)
        kept == [i \in 1..Len(surface) |->
                    [server |-> surface[i].server,
                     places |-> SelectSeq([h \in 1..Len(flat) |-> h],
                                          LAMBDA h : h \in Best(flat, k) /\ flat[h].server = surface[i].server)]]
        left == SelectSeq(kept, LAMBDA g : g.places # <<>>)
    IN  IF flat = <<>> THEN <<>>
        ELSE IF k >= Len(flat) \/ ~embedded THEN surface
        ELSE [i \in 1..Len(left) |->
                 [server |-> left[i].server,
                  tools  |-> [h \in 1..Len(left[i].places) |-> flat[left[i].places[h]].tool]]]

\* make_openrouter_route_fn: the server of an answer; NONE where reading a list
\* as a dictionary raises.
Route(answer, surface) ==
    LET named == {i \in 1..Len(surface) : surface[i].server \in answer.mentions}
    IN  CASE answer.json = "list"            -> NONE
          [] answer.json \in {"no", "no_id"} -> surface[IF named = {} THEN 1 ELSE Min(named)].server
          [] OTHER                           -> answer.json

\* hier_surface; NONE where the router raised.
Hier(surface, answer) ==
    LET routed == Route(answer, surface)
        chosen == IF routed \in Servers(surface) THEN routed ELSE surface[1].server
    IN  IF surface = <<>> THEN <<>>
        ELSE IF routed = NONE THEN NONE
        ELSE <<[server |-> chosen, tools |-> Group(surface, chosen)]>>

\* The surface of a candidate: level NONE leaves the descriptions alone.
Presented(surface, level, name, k, embedded, answer) ==
    LET base == IF level = NONE THEN surface ELSE Normalized(surface, level)
    IN  CASE name = "flat" -> base
          [] name = "rag"  -> Rag(base, k, embedded)
          [] name = "hier" -> Hier(base, answer)
=============================================================================
