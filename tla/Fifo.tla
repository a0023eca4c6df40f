-------------------------------- MODULE Fifo --------------------------------
(* The promise of sbuf.c, "an empty, bounded, shared FIFO buffer with n     *)
(* slots": never more than n items are inside, and who takes one gets the   *)
(* oldest, which nobody else gets.                                          *)
EXTENDS Naturals, Sequences

CONSTANTS Threads, Items, NoItem, N

VARIABLES
    q,        \* the items inside, oldest first
    result    \* what each thread has taken and not yet returned with

Init == q = <<>> /\ result = [t \in Threads |-> NoItem]

Put(x) == Len(q) < N /\ q' = Append(q, x) /\ UNCHANGED result

Take(t) ==
    /\ q # <<>> /\ q' = Tail(q)
    /\ result[t] = NoItem
    /\ result' = [result EXCEPT ![t] = Head(q)]

Return(t) == result' = [result EXCEPT ![t] = NoItem] /\ UNCHANGED q

Next ==
    \/ \E x \in Items : Put(x)
    \/ \E t \in Threads : Take(t) \/ Return(t)

Spec == Init /\ [][Next]_<<q, result>>
=============================================================================
