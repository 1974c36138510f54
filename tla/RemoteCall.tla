------------------------------ MODULE RemoteCall ------------------------------
(***************************************************************************)
(* What Session promises to the code that calls a remote method: "method    *)
(* (object, method name, args) -> [result | exception]" (Session.h:49).     *)
(* Each call is executed at most once, and the caller gets the outcome of   *)
(* that very execution, or an exception because the call was refused, or    *)
(* gives up.  How messages travel does not appear here.                     *)
(***************************************************************************)
EXTENDS Naturals, Sequences

VARIABLES
  run,     \* run[c]: what became of call c at the callee
  answer   \* answer[c]: what its caller was told: [outcome, of]

callVars == <<run, answer>>

Outcome == {"result", "exception"}
Unanswered == [outcome |-> "none", of |-> 0]

Init == run = << >> /\ answer = << >>

Call ==
  /\ run' = Append(run, "sent")
  /\ answer' = Append(answer, Unanswered)

Execute(c) ==
  /\ run[c] = "sent"
  /\ run' = [run EXCEPT ![c] = "running"]
  /\ UNCHANGED answer

Refuse(c) ==
  /\ run[c] = "sent"
  /\ run' = [run EXCEPT ![c] = "exception"]
  /\ UNCHANGED answer

Complete(c) ==
  /\ run[c] = "running"
  /\ \E o \in Outcome : run' = [run EXCEPT ![c] = o]
  /\ UNCHANGED answer

Answer(c) ==
  /\ answer[c] = Unanswered
  /\ run[c] \in Outcome
  /\ answer' = [answer EXCEPT ![c] = [outcome |-> run[c], of |-> c]]
  /\ UNCHANGED run

GiveUp(c) ==
  /\ answer[c] = Unanswered
  /\ answer' = [answer EXCEPT ![c] = [outcome |-> "timeout", of |-> c]]
  /\ UNCHANGED run

Next ==
  \/ Call
  \/ \E c \in DOMAIN run :
       Execute(c) \/ Refuse(c) \/ Complete(c) \/ Answer(c) \/ GiveUp(c)

Safety == Init /\ [][Next]_callVars

\* A call that was sent is executed or refused, an execution comes to its end,
\* and an outcome reaches the caller.  Nobody has to give up.
Fairness ==
  /\ WF_callVars(\E c \in DOMAIN run : Execute(c) \/ Refuse(c))
  /\ WF_callVars(\E c \in DOMAIN run : Complete(c))
  /\ WF_callVars(\E c \in DOMAIN run : Answer(c))

Spec == Safety /\ Fairness
=============================================================================
