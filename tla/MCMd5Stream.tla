---------------------------- MODULE MCMd5Stream -----------------------------
(* Small instances of Md5Stream for TLC. *)
EXTENDS Md5Stream

\* Every byte has its own value, except that 0 and 0x80, which padding is
\* made of, come up in the data too.
Counting(n) == [i \in 1 .. n |-> i]
Confusing(n) == [i \in 1 .. n |-> IF i % 3 = 0 THEN 0 ELSE 128]

\* With words of 5 bits the count of bits is full after 128 bytes.
MCSources == {Counting(21), Confusing(12), Counting(134)}
MCSizes == {0, 1, 2, 3, 5, 9, 30}
MCGarbage == {255}

=============================================================================
