-------------------------------- MODULE Queues --------------------------------
(* Operations on the lists of struct rl_buf (kernel/rlite-kernel.h: rb_list)    *)
(* that the PDU queues of the kernel are made of, as sequences of records with  *)
(* a field `seqnum`.                                                            *)
EXTENDS Integers, Sequences

\* The list without its first n elements.
PopFront(q, n) == SubSeq(q, n + 1, Len(q))

\* The list without its i-th element.
DropAt(q, i) == [j \in 1..(Len(q) - 1) |-> IF j < i THEN q[j] ELSE q[j + 1]]

\* Where a scan from the front stops at the first sequence number that is not below
\* k: the number of elements before it.
Below(q, k) ==
    CHOOSE n \in 0..Len(q) : /\ \A i \in 1..n : q[i].seqnum < k
                             /\ n < Len(q) => q[n + 1].seqnum >= k

\* The list with p before the first element whose sequence number is not below its
\* own.
InsertSorted(q, p) ==
    LET n == Below(q, p.seqnum) IN SubSeq(q, 1, n) \o <<p>> \o PopFront(q, n)
================================================================================
