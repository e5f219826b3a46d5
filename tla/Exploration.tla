---------------------------- MODULE Exploration ----------------------------
(***************************************************************************)
(* One exploration of a goal by a model: the retries of a chat completion, *)
(* the routing of qualified tool names and the usage tally (dmcp/llm.py),  *)
(* and the loop of turns with its final message (dmcp/explorer.py).        *)
(*                                                                         *)
(* A name is a sequence of the parts between "__"; a server's name has no  *)
(* empty tool part.  A turn is [faults, text, calls]: the faults met by    *)
(* the requests for it, in order, before one is answered; `text` is NONE   *)
(* for an empty content.  A call is [id, name, result] where the result    *)
(* is "ok", "error" (isError) or "raises".                                 *)
(***************************************************************************)
EXTENDS Naturals, Sequences, FiniteSets, SequencesExt

CONSTANTS Attempts, NONE

-----------------------------------------------------------------------------
(* llm.py.                                                                 *)

\* Faults that are asked again; others ("bad_request") raise at once.
Transient == {"malformed", "connection", "timeout", "rate_limit", "server_error",
              "wrapped_400", "no_choices"}

\* chat: answered, or the fault that raises out of it.
Chat(turn) ==
    LET fatal == {i \in 1..Len(turn.faults) : turn.faults[i] \notin Transient \/ i = Attempts}
    IN  IF fatal = {} THEN NONE ELSE turn.faults[CHOOSE i \in fatal : \A h \in fatal : i <= h]

Namespace(server, tool) == server \o tool

\* unnamespace_tool splits at the last separator; a name without one has no
\* server, which the caller sees as an empty one.
Unnamespace(name) ==
    IF Len(name) < 2 THEN [server |-> <<>>, tool |-> name]
    ELSE [server |-> SubSeq(name, 1, Len(name) - 1), tool |-> <<Last(name)>>]

\* The tools offered to the model, by the names it sees.
Qualified(surface) == UNION {{Namespace(s, t) : t \in surface[s]} : s \in DOMAIN surface}

\* UsageAccumulator: only answered requests count.
AddUsage(usage, tokens) ==
    [calls |-> usage.calls + 1, tokens |-> usage.tokens + tokens, latencies |-> Append(usage.latencies, tokens)]

Delta(before, after) ==
    [calls     |-> after.calls - before.calls,
     tokens    |-> after.tokens - before.tokens,
     latencies |-> SubSeq(after.latencies, Len(before.latencies) + 1, Len(after.latencies))]

-----------------------------------------------------------------------------
(* explorer.py.  The recorder is the set of servers that booted; a call to *)
(* another one raises before anything is recorded.                         *)

Assistant(turn) == [role |-> "assistant", text |-> turn.text, ids |-> [i \in 1..Len(turn.calls) |-> turn.calls[i].id]]
Tool(id, body)  == [role |-> "tool", id |-> id, body |-> body]

\* Mutant: the model is not told that it called a tool that does not exist.
CallTool_Unanswered(run, call, surface, booted) ==
    LET to == Unnamespace(call.name)
    IN  IF call.name \notin Qualified(surface) \/ to.server = <<>>
        THEN [run EXCEPT !.count = @ + 1]
        ELSE IF to.server \notin booted
        THEN [run EXCEPT !.count = @ + 1, !.messages = Append(@, Tool(call.id, "exception"))]
        ELSE [run EXCEPT !.count      = @ + 1,
                         !.recorded   = Append(@, to),
                         !.successful = IF call.result = "ok" THEN @ + 1 ELSE @,
                         !.messages   = Append(@, Tool(call.id, IF call.result = "raises" THEN "exception" ELSE call.result))]

\* One call of a turn: it is answered by one message, whatever becomes of it.
CallTool(run, call, surface, booted) ==
    LET to       == Unnamespace(call.name)
        known    == call.name \in Qualified(surface) /\ to.server # <<>>
        recorded == known /\ to.server \in booted
        body     == CASE ~known -> "unknown"
                      [] known /\ ~recorded -> "exception"
                      [] OTHER -> IF call.result = "raises" THEN "exception" ELSE call.result
    IN  [run EXCEPT !.count      = @ + 1,
                    !.recorded   = IF recorded THEN Append(@, to) ELSE @,
                    !.successful = IF body = "ok" THEN @ + 1 ELSE @,
                    !.messages   = Append(@, Tool(call.id, body))]

\* One turn; once the outcome is known nothing changes any more.
Turn(run, turn, surface, booted) ==
    IF run.outcome # "budget_exhausted" THEN run
    ELSE IF Chat(turn) # NONE
    THEN [run EXCEPT !.outcome = "llm_error", !.final = Chat(turn)]
    ELSE LET said == [run EXCEPT !.messages = Append(@, Assistant(turn)),
                                 !.usage    = AddUsage(@, turn.tokens)]
         IN  IF turn.calls = <<>>
             THEN [said EXCEPT !.outcome = IF run.count > 0 THEN "completed" ELSE "no_tools_called",
                               !.final   = turn.text]
             ELSE FoldLeft(LAMBDA r, c : CallTool(r, c, surface, booted), said, turn.calls)

\* _last_assistant_text.
LastText(messages) ==
    LET texts == SelectSeq(messages, LAMBDA m : m.role = "assistant" /\ m.text # NONE)
    IN  IF texts = <<>> THEN NONE ELSE Last(texts).text

\* _resolve_final_message: no answer when the budget ran out.
FinalMessage(run) ==
    CASE run.final # NONE -> run.final
      [] run.final = NONE /\ run.outcome = "budget_exhausted" -> NONE
      [] OTHER -> LastText(run.messages)

\* explore, with the model's turns up to the budget and the client's usage so far.
Explore(turns, budget, surface, booted, usage) ==
    LET start == [outcome |-> "budget_exhausted", final |-> NONE, count |-> 0, successful |-> 0,
                  recorded |-> <<>>, messages |-> <<>>, usage |-> usage]
        run   == FoldLeft(LAMBDA r, t : Turn(r, t, surface, booted), start,
                          SubSeq(turns, 1, IF budget < Len(turns) THEN budget ELSE Len(turns)))
    IN  [run EXCEPT !.final = FinalMessage(run), !.usage = Delta(usage, run.usage)]
=============================================================================
