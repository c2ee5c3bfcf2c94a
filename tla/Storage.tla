------------------------------- MODULE Storage -------------------------------
(***************************************************************************)
(* One storage object of Nakama as add_score.go and the three daily_rewards*)
(* files use it.  A read returns the objects found: {} or {value}.  A write*)
(* carries the version that was read, the hash of the value, for which the *)
(* value itself stands; an empty version writes whatever is there.         *)
(***************************************************************************)

\* objects[0].version, or "" when nothing was read.
Version(objects) == objects

Accepts(stored, version) == version = {} \/ version = stored
=============================================================================
