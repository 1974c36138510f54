--------------------------- MODULE RandomGenerator ---------------------------
(***************************************************************************)
(* The random generator service: its one method, and the range its IDL      *)
(* promises.                                                                *)
(***************************************************************************)
EXTENDS Naturals

CONSTANTS
  RandMax,     \* RAND_MAX
  MaxArgument  \* bound: the largest argument asked for

VARIABLES max, answer   \* the last call's argument and result

vars == <<max, answer>>

Init == max = 0 /\ answer = 0

\* floor(1.0 * rand() / RAND_MAX * max), for whatever rand returns.
getInteger(m) ==
  /\ max' = m
  /\ \E r \in 0 .. RandMax : answer' = (r * m) \div RandMax

Next == \E m \in 0 .. MaxArgument : getInteger(m)

Spec == Init /\ [][Next]_vars

\* "non-inclusive" (RandomGenerator.idl:2): the result is below the argument.
NonInclusive == max > 0 => answer < max
==============================================================================
