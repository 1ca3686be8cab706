----------------------------- MODULE MCEasyLog -----------------------------
(* Instances of EasyLog for TLC. *)
EXTENDS EasyLog
CONSTANTS t1, t2
OneThread == {t1}
TwoThreads == {t1, t2}
=============================================================================
