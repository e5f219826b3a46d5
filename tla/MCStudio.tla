------------------------------ MODULE MCStudio ------------------------------
(***************************************************************************)
(* Two candidates; the recorded spec's one editable set and those of two   *)
(* live specs, of which one shares a tool with it and one has none; and    *)
(* walkthroughs with at most MaxEpoch explorations and changes of mode.    *)
(***************************************************************************)
EXTENDS Studio

CONSTANTS good, bad, download, history, quotes

TwoCandidates == <<good, bad>>
RecordedSets  == <<{download, history}>>
OtherSets     == {<<>>, <<{history, quotes}>>}
=============================================================================
