------------------------------ MODULE MCCodec -------------------------------
(***************************************************************************)
(* Codec for TLC: an event whose namespace does not fit and whose time is  *)
(* no full second.  The two callers are interchangeable.                   *)
(***************************************************************************)
EXTENDS Codec, TLC

OneEvent == {[namespace |-> 5, time |-> 3]}
TwoPublishers == {"producer", "replay"}
OneReplayer == {"replay"}
CallerSymmetry == Permutations(Callers)
=============================================================================
