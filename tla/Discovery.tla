----------------------------- MODULE Discovery -----------------------------
(***************************************************************************)
(* `dmcp crawl`: the pages of the registry (dmcp/discovery/registry.py),   *)
(* the choice and installation of packages (dmcp/install.py), the smoke    *)
(* test (dmcp/vet.py) and the manifest of the servers that pass            *)
(* (dmcp/cli.py, dmcp/manifest.py).                                        *)
(*                                                                         *)
(* A server record is [name, latest, active, packages, smoke, tools]; a    *)
(* package is [kind, id, stdio, needsEnv, installs].  `smoke` is what the  *)
(* boot comes to, "up", "fails" or "hangs", and `tools` the words of the   *)
(* tools' names, one set per tool.  A page is [records, failures]:         *)
(* `failures` requests for it fail before one is answered.                 *)
(***************************************************************************)
EXTENDS Naturals, Sequences, FiniteSets, SequencesExt

CONSTANTS
    WriteWords, ReadWords, StaticWords,     \* the keyword sets of vet.py
    ServerId(_),                            \* _sanitize_server_id
    MaxAttempts, PageCap,
    NONE

-----------------------------------------------------------------------------
(* registry.py.                                                            *)

\* _get: a page is asked for MaxAttempts times; after that the crawl raises.
Fetched(page) == page.failures < MaxAttempts

\* iter_all: the latest active records of the pages, in order, up to the cap.
IterAll(pages) ==
    FlattenSeq([p \in 1..(IF Len(pages) < PageCap THEN Len(pages) ELSE PageCap) |->
        SelectSeq(pages[p].records, LAMBDA r : r.latest /\ r.active)])

-----------------------------------------------------------------------------
(* install.py: packages that run on stdio and ask for no credentials.      *)

NoCreds(server) ==
    SelectSeq(server.packages, LAMBDA p : p.kind \in {"pypi", "npm"} /\ p.stdio /\ ~p.needsEnv)

PickPackage(server) ==
    LET pypi == SelectSeq(NoCreds(server), LAMBDA p : p.kind = "pypi")
    IN  IF NoCreds(server) = <<>> THEN NONE
        ELSE IF pypi # <<>> THEN pypi[1] ELSE NoCreds(server)[1]

\* npm packages are only fetched when they are run.
InstallServer(server) ==
    LET p == PickPackage(server)
    IN  CASE p = NONE        -> "skip_no_candidate"
          [] p # NONE /\ p.kind = "pypi" -> p.installs      \* success, timeout, install_error
          [] OTHER           -> "success"

-----------------------------------------------------------------------------
(* vet.py.                                                                 *)

\* Mutant: reading words are looked for first.
ClassifyDynamism_ReadFirst(tools) ==
    LET words == UNION tools
    IN  CASE tools = {}                       -> "live_read"
          [] words \cap ReadWords # {}        -> "live_read"
          [] words \cap WriteWords # {}       -> "stateful_write"
          [] words \subseteq StaticWords      -> "static"
          [] OTHER                            -> "live_read"

ClassifyDynamism(tools) ==
    LET words == UNION tools
    IN  CASE tools = {}                       -> "live_read"
          [] tools # {} /\ words \cap WriteWords # {} -> "stateful_write"
          [] tools # {} /\ words \cap WriteWords = {} /\ words \cap ReadWords = {}
             /\ words \subseteq StaticWords   -> "static"
          [] OTHER                            -> "live_read"

\* vet_one: [status, entry].
VetOne(server) ==
    LET failed(status) == [status |-> status, entry |-> NONE]
        dynamism       == ClassifyDynamism(server.tools)
    IN  IF InstallServer(server) # "success" THEN failed("initialize_failed")
        ELSE CASE server.smoke = "hangs" -> failed("timeout")
               [] server.smoke = "fails" -> failed("no_tools")
               [] OTHER -> IF server.tools = {} THEN failed("no_tools")
                           ELSE [status |-> "success",
                                 entry  |-> [id |-> ServerId(server.name), dynamism |-> dynamism,
                                             sandbox |-> dynamism = "stateful_write",
                                             package |-> PickPackage(server)]]

-----------------------------------------------------------------------------
(* crawl.                                                                  *)

PackageKey(server) == LET p == NoCreds(server)[1] IN <<p.kind, p.id>>

\* The first `limit` records with a package that no earlier record has.
Discovered(pages, limit) ==
    LET all      == IterAll(pages)
        usable   == SelectSeq(all, LAMBDA r : NoCreds(r) # <<>>)
        fresh(i) == \A h \in 1..i - 1 : PackageKey(usable[h]) # PackageKey(usable[i])
        kept     == SelectSeq([i \in 1..Len(usable) |-> i], fresh)
    IN  [k \in 1..(IF Len(kept) < limit THEN Len(kept) ELSE limit) |-> usable[kept[k]]]

\* ServerEntry and Manifest: a manifest is rejected as a whole.
ValidEntry(e)      == e.dynamism = "stateful_write" => e.sandbox
ValidManifest(seq) == /\ \A i \in 1..Len(seq) : ValidEntry(seq[i])
                      /\ \A i, h \in 1..Len(seq) : seq[i].id = seq[h].id => i = h

Entries(servers) ==
    LET vetted == [i \in 1..Len(servers) |-> VetOne(servers[i]).entry]
    IN  SelectSeq(vetted, LAMBDA e : e # NONE)

\* Pages are fetched until the limit is reached.
Asked(pages, limit) ==
    {p \in 1..Len(pages) : p <= PageCap /\ Len(Discovered(SubSeq(pages, 1, p - 1), limit)) < limit}

\* NONE: the command raises and writes no manifest.
Crawl(pages, limit) ==
    LET servers == Discovered(pages, limit)
    IN  IF \E p \in Asked(pages, limit) : ~Fetched(pages[p]) THEN NONE
        ELSE IF ValidManifest(Entries(servers)) THEN Entries(servers) ELSE NONE
=============================================================================
