---------------------------- MODULE MCSslClient ----------------------------
(* Small instances of SslClient for TLC. *)
EXTENDS SslClient

MCTimeouts == {0, 1, 2}
OneTimeout == {0, 1}
EveryStep  == BuildSteps

=============================================================================
