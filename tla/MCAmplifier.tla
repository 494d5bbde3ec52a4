---------------------------- MODULE MCAmplifier -----------------------------
(***************************************************************************)
(* Amplifier for TLC: flags on both sides of every limit, with a second of *)
(* two nanoseconds.                                                        *)
(***************************************************************************)
EXTENDS Amplifier

SomeRates == {-1, 0, 1, 3}
SomeConcurrencies == {-1, 0, 1, 2}
=============================================================================
