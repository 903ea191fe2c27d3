----------------------------- MODULE MCTimerHeap -----------------------------
(* Small instances of TimerHeap for TLC.                                     *)
EXTENDS TimerHeap, TLC

CONSTANTS t1, t2, t3, t4, t5

TimerSymmetry == Permutations(Timer)

-----------------------------------------------------------------------------
(***************************************************************************)
(* The loops of push_heap and pop_heap, one exchange at a time, for heaps  *)
(* of numbers: TimerHeap says where they take each element.                *)
(***************************************************************************)
Size == 7
Heaps == Seq(1..Size)

Exchange(h, i, k) == [h EXCEPT ![i] = h[k], ![k] = h[i]]

PushLoop(time, ord, h, n) ==
    LET Up[g \in Heaps, i \in Nat] ==
            IF i > 1 /\ LessThan(time, ord, g[i \div 2], g[i])
            THEN Up[Exchange(g, i, i \div 2), i \div 2]
            ELSE g
    IN Up[h, n]

PopLoop(time, ord, h) ==
    LET m == Len(h) - 1
        Larger(g, i) ==
            IF 2 * i + 1 > m \/ LessThan(time, ord, g[2 * i + 1], g[2 * i])
            THEN 2 * i ELSE 2 * i + 1
        Down[g \in Heaps, i \in Nat] ==
            IF 2 * i > m
            THEN PushLoop(time, ord, [g EXCEPT ![i] = h[m + 1]], i)
            ELSE Down[[g EXCEPT ![i] = g[Larger(g, i)]], Larger(g, i)]
    IN IF m < 1 THEN h ELSE Append(SubSeq(Down[h, 1], 1, m), h[1])

\* Whatever the times, and whether or not the vector is a heap before.
ASSUME LoopsAssumption ==
    \A size \in 1..Size : \A time \in [1..size -> 1..3] :
        LET h == [i \in 1..size |-> i]
        IN /\ \A n \in 1..size : PushHeap(time, h, h, n) = PushLoop(time, h, h, n)
           /\ PopHeap(time, h, h) = PopLoop(time, h, h)

=============================================================================
