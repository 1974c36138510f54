------------------------------ MODULE MCSession ------------------------------
(***************************************************************************)
(* Process networks for Session: who calls whom.                            *)
(***************************************************************************)
EXTENDS Session

CONSTANTS c1, c2, s1, s2   \* model values for processes

\* Every process has an executable of its own; or all clients share one.
OwnImages == [p \in Process |-> p]
SharedImage == [p \in Process |-> IF p \in Clients THEN c1 ELSE p]

\* Clients call a service that calls nobody.
StarPeers == [p \in Process |-> IF p \in Clients THEN Services ELSE {}]

\* Clients call a service whose methods call another one.
NestedPeers ==
  [p \in Process |-> IF p \in Clients THEN {s1} ELSE IF p = s1 THEN {s2} ELSE {}]

\* c1 calls s1, whose methods call s2, and c2 calls a method of c1 that calls s1.
LayeredPeers ==
  [p \in {c1, c2, s1, s2} |->
     CASE p = c1 -> {s1} [] p = c2 -> {c1} [] p = s1 -> {s2} [] p = s2 -> {}]

\* Two processes call each other.
MutualPeers == [p \in {c1, c2} |-> {c1, c2} \ {p}]
==============================================================================
