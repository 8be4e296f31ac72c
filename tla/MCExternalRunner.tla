-------------------------- MODULE MCExternalRunner --------------------------
(* Instances of ExternalRunner for TLC. *)
EXTENDS ExternalRunner

Hits == {<<1>>, <<2, 1>>, <<1, 2>>}
Users == {<<2>>, <<1, 2>>}
DurationsOrNone == {1, NoDuration}
=============================================================================
