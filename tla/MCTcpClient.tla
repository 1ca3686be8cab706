---------------------------- MODULE MCTcpClient ----------------------------
(* Small instances of TcpClient for TLC. *)
EXTENDS TcpClient

CONSTANT t1  \* a thread that calls abort()

MCTimeouts == {0, 1, 2}
OneTimeout == {0, 1}
NoAborters == {}
OneAborter == {t1}

=============================================================================
