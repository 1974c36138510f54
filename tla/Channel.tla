------------------------------- MODULE Channel -------------------------------
(***************************************************************************)
(* What one direction of a bus connection promises to the Session above it: *)
(* every message handed to Send is dispatched at the other end exactly      *)
(* once, whole, in the order of sending, and with the serial number that    *)
(* Send returned for it.  The two ends never exchange that number: each     *)
(* counts messages, and the promise is that the counts agree.  Messages are *)
(* told apart by their place in the order of sending: 1, 2, 3, ...          *)
(***************************************************************************)
EXTENDS Naturals, Sequences

VARIABLES
  sent,       \* how many messages Send took; the k-th got serial k - 1
  delivered   \* what the other end dispatched: [serial, message] records

chanVars == <<sent, delivered>>

Init ==
  /\ sent = 0
  /\ delivered = << >>

\* The caller hands over one more message; nothing is dispatched by that.
Send ==
  /\ sent' = sent + 1
  /\ UNCHANGED delivered

\* The oldest message not yet dispatched is dispatched under its own serial.
Deliver ==
  /\ Len(delivered) < sent
  /\ delivered' = Append(delivered, [serial  |-> Len(delivered),
                                     message |-> Len(delivered) + 1])
  /\ UNCHANGED sent

Next == Send \/ Deliver

\* Nobody is obliged to send; what was sent is eventually dispatched.
Spec == Init /\ [][Next]_chanVars /\ WF_chanVars(Deliver)
==============================================================================
