---------------------------- MODULE MCCqlSession ----------------------------
(* Two queries over a pool that wants two connections. *)
EXTENDS CqlSession

OneStream == {1}
TwoStreams == {1, 2}
=============================================================================
