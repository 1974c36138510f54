----------------------------- MODULE MCConnection -----------------------------
(***************************************************************************)
(* Instances of LocalBusConnection for TLC: two-byte prefixes, bodies of    *)
(* one or two bytes, and reads and socket buffers smaller than a frame, so  *)
(* that frames are split and joined at every point.                         *)
(***************************************************************************)
EXTENDS LocalBusConnection
==============================================================================
