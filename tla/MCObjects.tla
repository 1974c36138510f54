------------------------------ MODULE MCObjects ------------------------------
(***************************************************************************)
(* The interfaces of src/src/idl for Objects, and classes for some of them. *)
(***************************************************************************)
EXTENDS Objects

IdlInterfaces == {"Object", "Disposable", "ServiceLease", "RandomGenerator", "ServiceManager"}
IdlBase ==
  [i \in IdlInterfaces |->
     CASE i = "ServiceLease" -> "Disposable"
       [] i = "Disposable"   -> "Object"
       [] OTHER              -> "CoreObject"]
IdlMethods ==
  [i \in IdlInterfaces |->
     CASE i = "Disposable"      -> {"dispose"}
       [] i = "RandomGenerator" -> {"getInteger"}
       [] i = "ServiceManager"  -> {"start"}
       [] OTHER                 -> {}]

\* Two classes of one interface, and one of another.
ServiceClasses ==
  [c \in {"Lease", "OtherLease", "Generator"} |->
     IF c = "Generator" THEN "RandomGenerator" ELSE "ServiceLease"]
==============================================================================
