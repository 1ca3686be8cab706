---------------------------- MODULE MCUdpClient ----------------------------
(* A small instance of UdpClient for TLC. *)
EXTENDS UdpClient

CONSTANTS d1, d2  \* two datagrams

MCTimeouts  == {0, 1, 2, Inf}
MCDatagrams == {d1, d2}

=============================================================================
