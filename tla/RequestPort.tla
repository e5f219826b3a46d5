---------------------------- MODULE RequestPort ----------------------------
(***************************************************************************)
(* What a session actor promises to the callers of `request` (recorder.py, *)
(* `_SessionActor.request`), independently of tasks and queues.  A port is *)
(* opened once and closed once.  Each request has one future, which is     *)
(* resolved at most once: answered by the server, refused or failed with   *)
(* an error, or withdrawn by its own caller.  Closing the port fails every *)
(* outstanding request, except that at most one - the request the session  *)
(* was executing when it broke - may be left without any answer.           *)
(***************************************************************************)
CONSTANT Requests    \* the calls of `request`; each call makes one future

VARIABLES
    port,   \* "shut" before start(), "open", or "closed" when the task ended
    fut     \* what each request's future holds

vars == <<port, fut>>

Answers  == {"result", "error"}
Resolved == Answers \cup {"cancelled"}

Outstanding == {r \in Requests : fut[r] = "pending"}

TypeOK == /\ port \in {"shut", "open", "closed"}
          /\ fut \in [Requests -> {"unused", "pending"} \cup Resolved]

Init == /\ port = "shut"
        /\ fut = [r \in Requests |-> "unused"]

Open == /\ port = "shut"
        /\ port' = "open"
        /\ UNCHANGED fut

Submit(r) == /\ port = "open"
             /\ fut[r] = "unused"
             /\ fut' = [fut EXCEPT ![r] = "pending"]
             /\ UNCHANGED port

\* The session is shutting down or gone: request() raises at once.
Refuse(r) == /\ port # "shut"
             /\ fut[r] = "unused"
             /\ fut' = [fut EXCEPT ![r] = "error"]
             /\ UNCHANGED port

Answer(r) == /\ port = "open"
             /\ fut[r] = "pending"
             /\ \E a \in Answers : fut' = [fut EXCEPT ![r] = a]
             /\ UNCHANGED port

\* The caller of request() is cancelled, for instance by a timeout.
Withdraw(r) == /\ fut[r] = "pending"
               /\ fut' = [fut EXCEPT ![r] = "cancelled"]
               /\ UNCHANGED port

Close == /\ port = "open"
         /\ port' = "closed"
         /\ \E lost \in SUBSET Outstanding :
              /\ \A a, b \in lost : a = b
              /\ fut' = [r \in Requests |->
                           IF r \in Outstanding \ lost THEN "error" ELSE fut[r]]

Next == \/ Open
        \/ Close
        \/ \E r \in Requests : Submit(r) \/ Refuse(r) \/ Answer(r) \/ Withdraw(r)

Spec == Init /\ [][Next]_vars
=============================================================================
