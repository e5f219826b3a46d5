------------------------- MODULE DatasetMergeProofs -------------------------
(***************************************************************************)
(* Proofs about DatasetMerge, for every set of contributors, runs and      *)
(* corpora: what the root files can hold, and that a run which nobody      *)
(* disturbs repairs them.                                                  *)
(***************************************************************************)
EXTENDS DatasetMerge, TLAPS

-----------------------------------------------------------------------------
(* The merge as a function of the parts.                                   *)

\* A merge holds only what is valid and not refuted by a trace at hand, and one
\* spec of a task: of two entries of a task one comes before the other, and an
\* earlier one that is admitted keeps the later one out.
LEMMA MergeIsSound ==
    ASSUME NEW from
    PROVE  /\ \A s \in MergedSpecs(from) : s.valid /\ (s.trace \in MergedTraces(from) => s.fits)
           /\ \A s, t \in MergedSpecs(from) : s.task = t.task => s = t
<1> DEFINE ok(e)   == e \in Entries(from) /\ Admitted(Entry(from, e), MergedTraces(from))
           kept(e) == /\ ok(e)
                      /\ \A d : ok(d) /\ Before(d, e) => Entry(from, d).task # Entry(from, e).task
<1>2. ASSUME NEW s \in MergedSpecs(from)
      PROVE  \E e : s = Entry(from, e) /\ kept(e)
    BY DEF MergedSpecs
<1>3. ASSUME NEW s \in MergedSpecs(from)
      PROVE  s.valid /\ (s.trace \in MergedTraces(from) => s.fits)
    BY <1>2, <1>3 DEF Admitted
<1>4. ASSUME NEW d \in Entries(from), NEW e \in Entries(from)
      PROVE  d = e \/ Before(d, e) \/ Before(e, d)
    BY <1>4 DEF Entries, Before
<1>5. ASSUME NEW s \in MergedSpecs(from), NEW t \in MergedSpecs(from), s.task = t.task
      PROVE  s = t
  <2>1. PICK d : s = Entry(from, d) /\ kept(d)
      BY <1>2
  <2>2. PICK e : t = Entry(from, e) /\ kept(e)
      BY <1>2
  <2>3. ~Before(d, e) /\ ~Before(e, d)
      BY <1>5, <2>1, <2>2
  <2> QED BY <1>4, <2>1, <2>2, <2>3
<1> QED BY <1>3, <1>5

-----------------------------------------------------------------------------
(* The invariant.                                                          *)

\* The four names of the root files.
LEMMA RootNames == /\ \A i \in 1..4 : RootFiles[i] \in {"specs", "traces", "labels", "readme"}
                   /\ \A f \in {"specs", "traces", "labels", "readme"} : \E i \in 1..4 : f = RootFiles[i]
                   /\ RootFiles[1] = "specs" /\ RootFiles[2] = "traces"
                   /\ RootFiles[3] = "labels" /\ RootFiles[4] = "readme"
<1>1. /\ RootFiles[1] = "specs" /\ RootFiles[2] = "traces"
      /\ RootFiles[3] = "labels" /\ RootFiles[4] = "readme"
    BY DEF RootFiles
<1>2. 1..4 = {1, 2, 3, 4}
    OBVIOUS
<1> QED BY <1>1, <1>2

LEMMA InitInv == Init => IInv
<1> SUFFICES ASSUME Init PROVE IInv
    OBVIOUS
<1>1. TypeOK
  <2>1. /\ at \in [Runs -> {"start", "specs", "traces", "list", "download", "push", "done", "dead"}]
        /\ listed \in [Runs -> SUBSET Names]
        /\ push \in [Runs -> 0..4]
        /\ alone \in [Runs -> BOOLEAN]
      BY DEF Init
  <2>2. DOMAIN got = Runs /\ \A r \in Runs : DOMAIN got[r] \subseteq listed[r]
      BY DEF Init
  <2>3. \A r \in Runs : got[r] \in [DOMAIN got[r] -> Parts]
      BY DEF Init
  <2>4. parts \in [Names -> Parts]
      BY DEF Init, Parts
  <2>5. DOMAIN root = {"specs", "traces", "labels", "readme"}
      BY DEF Init
  <2> QED BY <2>1, <2>2, <2>3, <2>4, <2>5 DEF TypeOK
<1>2. Sourced
    BY RootNames DEF Init, Sourced
<1>3. UpToDate /\ InStages
    BY DEF Init, UpToDate, InStages
<1> QED BY <1>1, <1>2, <1>3 DEF IInv

\* What is uploaded is a part, whichever half of it is new.
LEMMA UploadedIsPart ==
    ASSUME TypeOK, NEW r \in Runs
    PROVE  /\ NameOf[r] \in Names
           /\ [specs |-> ValidSpecs(r), traces |-> parts[NameOf[r]].traces] \in Parts
           /\ [specs |-> parts[NameOf[r]].specs, traces |-> TracesOf[r]] \in Parts
<1>1. NameOf[r] \in Names
    BY MergeAssumption DEF Names
<1>2. parts[NameOf[r]] \in Parts
    BY <1>1 DEF TypeOK
<1> QED BY <1>1, <1>2 DEF Parts

LEMMA UploadInv == ASSUME IInv, NEW r \in Runs, UploadSpecs(r) \/ UploadTraces(r) PROVE IInv'
<1> USE DEF IInv
<1>1. TypeOK'
  <2>1. parts' \in [Names -> Parts]
      BY UploadedIsPart DEF TypeOK, UploadSpecs, UploadTraces
  <2>2. /\ at' \in [Runs -> {"start", "specs", "traces", "list", "download", "push", "done", "dead"}]
        /\ alone' \in [Runs -> BOOLEAN]
      BY DEF TypeOK, UploadSpecs, UploadTraces, Disturb
  <2>3. UNCHANGED <<listed, got, push, root>>
      BY DEF UploadSpecs, UploadTraces
  <2> QED BY <2>1, <2>2, <2>3 DEF TypeOK
<1>2. Sourced' /\ InStages'
    BY DEF TypeOK, UploadSpecs, UploadTraces, Missing, Sourced, InStages
<1>3. UpToDate'
  <2>1. \A q \in Runs : alone'[q] => q = r
      BY DEF TypeOK, UploadSpecs, UploadTraces, Disturb
  <2>2. at'[r] \in {"traces", "list"}
      BY DEF TypeOK, UploadSpecs, UploadTraces
  <2> QED BY <2>1, <2>2 DEF UpToDate
<1> QED BY <1>1, <1>2, <1>3

LEMMA ListInv == ASSUME IInv, NEW r \in Runs, List(r) PROVE IInv'
<1> USE DEF IInv
<1>1. DOMAIN got[r] = {} /\ push[r] = 0
    BY DEF List, InStages
<1>2. TypeOK'
  <2>1. Present \in SUBSET Names
      BY DEF Present
  <2>2. listed' \in [Runs -> SUBSET Names]
      BY <2>1 DEF TypeOK, List
  <2>3. /\ at' \in [Runs -> {"start", "specs", "traces", "list", "download", "push", "done", "dead"}]
        /\ alone' \in [Runs -> BOOLEAN]
      BY DEF TypeOK, List, Disturb
  <2>4. \A q \in Runs : DOMAIN got[q] \subseteq listed'[q]
      BY <1>1 DEF TypeOK, List
  <2>5. UNCHANGED <<got, push, parts, root>>
      BY DEF List
  <2> QED BY <2>2, <2>3, <2>4, <2>5 DEF TypeOK
<1>3. Sourced' /\ InStages'
    BY DEF TypeOK, List, Missing, Sourced, InStages
<1>4. UpToDate'
  <2>0. Present' = Present /\ UNCHANGED <<got, push, parts, root>>
      BY DEF List, Present
  <2> SUFFICES ASSUME NEW q \in Runs, alone'[q], at'[q] \in {"download", "push"}
               PROVE  /\ listed'[q] = Present
                      /\ DOMAIN got[q] = {} /\ push[q] = 0
      BY <2>0 DEF UpToDate
  <2>1. q = r
      BY DEF TypeOK, List, Disturb
  <2>2. listed'[r] = Present /\ at'[r] = "download"
      BY DEF TypeOK, List
  <2> QED BY <1>1, <2>1, <2>2
<1> QED BY <1>2, <1>3, <1>4

\* One half of a part is fetched, and it is as the part is.
LEMMA DownloadInv ==
    ASSUME IInv, NEW r \in Runs, NEW n \in Names, DownloadSpecs(r, n) \/ DownloadTraces(r, n)
    PROVE  IInv'
<1> USE DEF IInv
<1> DEFINE half == [specs |-> IF n \in DOMAIN got[r] THEN got[r][n].specs ELSE parts[n].specs,
                    traces |-> IF n \in DOMAIN got[r] THEN parts[n].traces ELSE NONE]
<1>1. n \in listed[r] /\ at[r] = "download" /\ UNCHANGED <<at, listed, push, parts, root>>
    BY DEF DownloadSpecs, DownloadTraces, Due, Missing
<1>2. /\ DOMAIN got' = Runs /\ \A q \in Runs : q # r => got'[q] = got[q]
      /\ got'[r] = [m \in DOMAIN got[r] \cup {n} |-> IF m = n THEN half ELSE got[r][m]]
  <2>1. CASE DownloadSpecs(r, n)
      BY <2>1 DEF TypeOK, DownloadSpecs
  <2>2. CASE DownloadTraces(r, n)
    <3>1. DOMAIN got[r] \cup {n} = DOMAIN got[r] /\ n \in DOMAIN got[r]
        BY <2>2 DEF DownloadTraces
    <3> QED BY <2>2, <3>1 DEF TypeOK, DownloadTraces
  <2> QED BY <2>1, <2>2
<1>3. half \in Parts
  <2>1. parts[n] \in Parts /\ (n \in DOMAIN got[r] => got[r][n] \in Parts)
      BY DEF TypeOK
  <2> QED BY <2>1 DEF Parts
<1> HIDE DEF half
<1>4. TypeOK'
  <2>1. got'[r] \in [DOMAIN got'[r] -> Parts] /\ DOMAIN got'[r] \subseteq listed[r]
      BY <1>1, <1>2, <1>3 DEF TypeOK
  <2>2. alone' \in [Runs -> BOOLEAN]
      BY DEF TypeOK, DownloadSpecs, DownloadTraces, Disturb
  <2> QED BY <1>1, <1>2, <2>1, <2>2 DEF TypeOK
<1>5. Sourced' /\ InStages'
    BY <1>1, <1>2 DEF TypeOK, Missing, Sourced, InStages
<1>6. UpToDate'
  <2>0. Present' = Present
      BY <1>1 DEF Present
  <2> SUFFICES ASSUME NEW q \in Runs, alone'[q], at[q] \in {"download", "push"}
               PROVE  /\ listed[q] = Present
                      /\ \A m \in DOMAIN got'[q] :
                            \/ got'[q][m] = parts[m]
                            \/ got'[q][m] = [specs |-> parts[m].specs, traces |-> NONE]
                      /\ push[q] = 0
      BY <1>1, <2>0 DEF UpToDate
  <2>1. q = r /\ alone[r] /\ push[r] = 0
    <3>1. alone' = Disturb(r)
        BY DEF DownloadSpecs, DownloadTraces
    <3>2. push[r] = 0
        BY <1>1 DEF InStages
    <3> QED BY <3>1, <3>2 DEF Disturb
  <2>2. /\ listed[r] = Present
        /\ \A m \in DOMAIN got[r] : \/ got[r][m] = parts[m]
                                    \/ got[r][m] = [specs |-> parts[m].specs, traces |-> NONE]
      BY <1>1, <2>1 DEF UpToDate
  <2>3. half = parts[n] \/ half = [specs |-> parts[n].specs, traces |-> NONE]
    <3>1. parts[n] = [specs |-> parts[n].specs, traces |-> parts[n].traces]
        BY DEF TypeOK, Parts
    <3> QED BY <2>2, <3>1 DEF half
  <2> QED BY <1>1, <1>2, <2>1, <2>2, <2>3, ZenonT(60)
<1> QED BY <1>4, <1>5, <1>6

\* A run that starts or starts to push keeps all files and all it has.
LEMMA MoveInv == ASSUME IInv, NEW r \in Runs, Start(r) \/ StartPush(r) PROVE IInv'
<1> USE DEF IInv
<1>1. TypeOK'
  <2>1. UNCHANGED <<listed, got, push, parts, root>>
      BY DEF Start, StartPush
  <2>2. /\ at' \in [Runs -> {"start", "specs", "traces", "list", "download", "push", "done", "dead"}]
        /\ alone' \in [Runs -> BOOLEAN]
      BY DEF TypeOK, Start, StartPush, Disturb
  <2> QED BY <2>1, <2>2 DEF TypeOK
<1>2. CASE Start(r)
  <2>1. Sourced' /\ InStages'
      BY <1>2 DEF TypeOK, Start, Missing, Sourced, InStages
  <2>2. UpToDate'
      BY <1>2 DEF TypeOK, Start, UpToDate, Present
  <2> QED BY <1>1, <2>1, <2>2
<1>3. CASE StartPush(r)
  <2>1. Sourced' /\ InStages'
      BY <1>3 DEF TypeOK, StartPush, Missing, Sourced, InStages
  <2>2. UpToDate'
      BY <1>3 DEF TypeOK, StartPush, UpToDate, Present, Disturb
  <2> QED BY <1>1, <2>1, <2>2
<1> QED BY <1>2, <1>3

\* A run that ends early leaves the files as they are.
LEMMA GoneInv ==
    ASSUME IInv, NEW r \in Runs, Die(r) \/ \E n \in Names : DownloadFails(r, n)
    PROVE  IInv'
<1> USE DEF IInv
<1>1. Gone(r) /\ at[r] # "start"
    BY DEF Die, DownloadFails
<1>2. /\ \A q \in Runs : q # r => /\ at'[q] = at[q] /\ got'[q] = got[q]
                                  /\ listed'[q] = listed[q]
      /\ at'[r] = "dead"
      /\ push[r] = 0 => listed'[r] = {} /\ got'[r] = [n \in {} |-> NONE]
      /\ push[r] # 0 => listed'[r] = listed[r] /\ got'[r] = got[r]
      /\ UNCHANGED <<push, parts, root>>
    BY <1>1 DEF TypeOK, Gone
<1>3. TypeOK'
  <2>1. /\ at' \in [Runs -> {"start", "specs", "traces", "list", "download", "push", "done", "dead"}]
        /\ alone' \in [Runs -> BOOLEAN]
        /\ listed' \in [Runs -> SUBSET Names]
        /\ DOMAIN got' = Runs
      BY <1>1 DEF TypeOK, Gone
  <2>2. ASSUME NEW q \in Runs
        PROVE  DOMAIN got'[q] \subseteq listed'[q] /\ got'[q] \in [DOMAIN got'[q] -> Parts]
    <3>1. CASE q = r /\ push[r] = 0
        BY <1>2, <3>1
    <3>2. CASE q # r \/ push[r] # 0
      <4>1. got'[q] = got[q] /\ listed'[q] = listed[q]
          BY <1>2, <3>2
      <4> QED BY <4>1 DEF TypeOK
    <3> QED BY <3>1, <3>2
  <2> QED BY <1>2, <2>1, <2>2 DEF TypeOK
<1>4. Sourced'
  <2>1. \A q \in Runs : push[q] > 0 => got'[q] = got[q] /\ listed'[q] = listed[q]
      BY <1>2 DEF TypeOK
  <2> QED BY <1>2, <2>1 DEF Sourced, Missing
<1>5. InStages'
    BY <1>2 DEF InStages, Missing
<1>6. UpToDate'
    BY <1>1 DEF Gone, UpToDate
<1> QED BY <1>3, <1>4, <1>5, <1>6

\* What one push leaves in the root.
LEMMA PushedFile ==
    ASSUME TypeOK, NEW r \in Runs, Push(r)
    PROVE  /\ push[r] + 1 \in 1..4
           /\ root' = [root EXCEPT ![RootFiles[push[r] + 1]] = Built(got[r])[RootFiles[push[r] + 1]]]
           /\ root'[RootFiles[push[r] + 1]] = Built(got[r])[RootFiles[push[r] + 1]]
           /\ \A i \in 1..4 : i # push[r] + 1 => root'[RootFiles[i]] = root[RootFiles[i]]
<1>1. push[r] \in 0..3
    BY DEF TypeOK, Push
<1>2. root' = [root EXCEPT ![RootFiles[push[r] + 1]] = Built(got[r])[RootFiles[push[r] + 1]]]
    BY DEF Push
<1>3. \A i, j \in 1..4 : RootFiles[i] = RootFiles[j] => i = j
  <2>1. 1..4 = {1, 2, 3, 4}
      OBVIOUS
  <2> QED BY <2>1, RootNames
<1>4. \A i \in 1..4 : RootFiles[i] \in DOMAIN root
    BY RootNames DEF TypeOK
<1> QED BY <1>1, <1>2, <1>3, <1>4

LEMMA PushInv == ASSUME IInv, NEW r \in Runs, Push(r) PROVE IInv'
<1> USE DEF IInv
<1>1. TypeOK'
  <2>1. /\ at' \in [Runs -> {"start", "specs", "traces", "list", "download", "push", "done", "dead"}]
        /\ push' \in [Runs -> 0..4]
        /\ alone' \in [Runs -> BOOLEAN]
      BY DEF TypeOK, Push, Disturb
  <2>2. DOMAIN root' = DOMAIN root
      BY PushedFile
  <2>3. UNCHANGED <<listed, got, parts>>
      BY DEF Push
  <2> QED BY <2>1, <2>2, <2>3 DEF TypeOK
<1>2. Sourced'
  <2>1. /\ \A q \in Runs : push[q] > 0 \/ q = r => push'[q] > 0
        /\ at'[r] \in {"push", "done"} /\ \A q \in Runs : q # r => at'[q] = at[q]
        /\ \A q \in Runs : Missing(q)' = Missing(q) /\ got'[q] = got[q]
      BY DEF TypeOK, Push, Missing
  <2>2. CASE push[r] = 0
    <3>1. root'["specs"] = MergedSpecs(got[r])
      <4>1. root'["specs"] = Built(got[r])["specs"]
          BY <2>2, PushedFile, RootNames
      <4> QED BY <4>1 DEF Built
    <3>2. Missing(r) = {} /\ got'[r] = got[r]
        BY <2>1 DEF Push, InStages
    <3> QED BY <2>1, <3>1, <3>2 DEF Sourced
  <2>3. CASE push[r] # 0
    <3>1. root'["specs"] = root["specs"]
      <4>1. push[r] \in 0..4 /\ 1 # push[r] + 1
          BY <2>3 DEF TypeOK
      <4> QED BY <4>1, PushedFile, RootNames
    <3> SUFFICES ASSUME root["specs"] # NONE
                 PROVE  \E q \in Runs : /\ push'[q] > 0 /\ at'[q] \in {"push", "done", "dead"}
                                        /\ Missing(q)' = {} /\ root["specs"] = MergedSpecs(got'[q])
        BY <3>1 DEF Sourced
    <3>2. PICK q \in Runs : /\ push[q] > 0 /\ at[q] \in {"push", "done", "dead"}
                            /\ Missing(q) = {} /\ root["specs"] = MergedSpecs(got[q])
        BY DEF Sourced
    <3>3. push'[q] > 0 /\ at'[q] \in {"push", "done", "dead"} /\ Missing(q)' = {} /\ got'[q] = got[q]
        BY <2>1, <3>2
    <3> QED BY <3>2, <3>3
  <2> QED BY <2>2, <2>3
<1>3. InStages'
    BY DEF TypeOK, Push, Missing, InStages
<1>4. UpToDate'
  <2> SUFFICES ASSUME NEW q \in Runs, alone'[q], at'[q] \in {"download", "push"}
               PROVE  /\ listed[q] = Present
                      /\ \A m \in DOMAIN got[q] : \/ got[q][m] = parts[m]
                                                  \/ got[q][m] = [specs |-> parts[m].specs, traces |-> NONE]
                      /\ \A i \in 1..push'[q] : root'[RootFiles[i]] = Built(got[q])[RootFiles[i]]
      BY DEF UpToDate, Push, Present
  <2>1. q = r /\ alone[r] /\ at[r] = "push" /\ push'[r] = push[r] + 1
      BY DEF TypeOK, Push, Disturb
  <2>2. /\ listed[r] = Present
        /\ \A m \in DOMAIN got[r] : \/ got[r][m] = parts[m]
                                    \/ got[r][m] = [specs |-> parts[m].specs, traces |-> NONE]
        /\ \A i \in 1..push[r] : root[RootFiles[i]] = Built(got[r])[RootFiles[i]]
      BY <2>1 DEF UpToDate
  <2>3. \A i \in 1..push'[r] : i = push[r] + 1 \/ (i \in 1..push[r] /\ i \in 1..4 /\ i # push[r] + 1)
      BY <2>1, PushedFile DEF TypeOK
  <2>4. \A i \in 1..push'[r] : root'[RootFiles[i]] = Built(got[r])[RootFiles[i]]
      BY <2>2, <2>3, PushedFile
  <2> QED BY <2>1, <2>2, <2>4
<1> QED BY <1>1, <1>2, <1>3, <1>4

LEMMA StutterInv == IInv /\ UNCHANGED vars => IInv'
BY DEF IInv, vars, TypeOK, Sourced, UpToDate, InStages, Present, Missing

LEMMA StepInv == IInv /\ [Next]_vars => IInv'
<1> SUFFICES ASSUME IInv, Next PROVE IInv'
    BY StutterInv
<1>1. PICK r \in Runs :
          \/ Start(r) \/ UploadSpecs(r) \/ UploadTraces(r) \/ List(r)
          \/ \E n \in Names : DownloadSpecs(r, n) \/ DownloadTraces(r, n) \/ DownloadFails(r, n)
          \/ StartPush(r) \/ Push(r) \/ Die(r)
    BY DEF Next
<1> QED BY <1>1, UploadInv, ListInv, DownloadInv, MoveInv, GoneInv, PushInv

THEOREM Invariance == Spec => []IInv
<1> QED BY InitInv, StepInv, PTL DEF Spec

-----------------------------------------------------------------------------
(* What it is for.                                                         *)

\* Whatever overlaps and dies, the root holds valid specs only, one of a task
\* and none that a trace at hand refuted, for any number of runs
\* (merge_to_hf.py:125-142).
THEOREM RootStaysSound == Spec => []RootIsSound
<1>1. IInv => RootIsSound
    BY MergeIsSound DEF IInv, RootIsSound, Sourced
<1> QED BY <1>1, Invariance, PTL

\* A run that nobody disturbs since it listed the parts leaves the merge of all
\* of them in the root, whatever was there (merge_to_hf.py:11-12, 106-184).
THEOREM RunRepairs == Spec => UndisturbedRunRepairs
<1>1. ASSUME IInv, NEW r \in Runs, Push(r), push[r] = 3, alone[r]
      PROVE  root' = Rebuilt
  <2> USE <1>1
  <2>0. at[r] = "push" /\ listed[r] = Present /\ Missing(r) = {}
      BY DEF IInv, UpToDate, InStages, Push
  <2>1. /\ got[r] = [n \in Present |-> parts[n]]
        /\ \A i \in 1..3 : root[RootFiles[i]] = Built(got[r])[RootFiles[i]]
    <3>1. DOMAIN got[r] = Present
        BY <2>0 DEF IInv, TypeOK, Missing
    <3>2. \A n \in DOMAIN got[r] : got[r][n] = parts[n]
      <4>1. \A n \in DOMAIN got[r] : got[r][n].traces # NONE
          BY <2>0, <3>1 DEF Missing
      <4>2. \A n \in DOMAIN got[r] : got[r][n] = parts[n]
                                  \/ got[r][n] = [specs |-> parts[n].specs, traces |-> NONE]
          BY <2>0 DEF IInv, UpToDate
      <4> TAKE n \in DOMAIN got[r]
      <4>3. [specs |-> parts[n].specs, traces |-> NONE].traces = NONE
          OBVIOUS
      <4> QED BY <4>1, <4>2, <4>3
    <3>3. got[r] = [n \in DOMAIN got[r] |-> got[r][n]]
        BY DEF IInv, TypeOK
    <3>4. \A i \in 1..3 : root[RootFiles[i]] = Built(got[r])[RootFiles[i]]
        BY <2>0 DEF IInv, UpToDate
    <3> QED BY <3>1, <3>2, <3>3, <3>4
  <2>2. \A i \in 1..4 : root'[RootFiles[i]] = Built(got[r])[RootFiles[i]]
    <3>1. \A i \in 1..4 : i = push[r] + 1 \/ (i \in 1..3 /\ i # push[r] + 1)
        OBVIOUS
    <3> QED BY <2>1, <3>1, PushedFile DEF IInv
  <2>3. root' = [f \in {"specs", "traces", "labels", "readme"} |-> root'[f]]
      BY PushedFile DEF IInv, TypeOK
  <2>4. Built(got[r]) = [f \in {"specs", "traces", "labels", "readme"} |-> Built(got[r])[f]]
      BY DEF Built
  <2>5. root' = Built(got[r])
      BY <2>2, <2>3, <2>4, RootNames
  <2> QED BY <2>1, <2>5 DEF Rebuilt
<1>2. IInv /\ [Next]_vars =>
          [\A r \in Runs : (alone[r] /\ push[r] = 3 /\ Push(r)) => root' = Rebuilt]_vars
    BY <1>1
<1> QED BY <1>2, Invariance, PTL DEF Spec, UndisturbedRunRepairs
=============================================================================
