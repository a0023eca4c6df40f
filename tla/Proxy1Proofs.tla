---------------------------- MODULE Proxy1Proofs ----------------------------
(***************************************************************************)
(* The bounded buffer, for any number of threads and slots: the semaphores *)
(* and the indices stay in balance, and every step of sbuf_insert and      *)
(* sbuf_remove is a step of the FIFO buffer that Fifo promises, or no step *)
(* of it at all.  The thread-pool proxy, for any number of workers, of     *)
(* descriptors and of slots: its threads keep to the protocol of the       *)
(* buffer, so the buffer keeps its promise, and every client's descriptor  *)
(* is in one place at a time.                                              *)
(***************************************************************************)
EXTENDS Proxy1, FiniteSetTheorems, SequenceTheorems, TLAPS

Labels == {"out"} \cup InsertSteps \cup RemoveSteps

\* Where a thread has a slot in its hands: the insertion before, at and
\* after the store, the removal before, at and after the load.
Reserved == {"lock_ins", "bump_rear"}
Storing  == {"store"}
Added    == {"unlock_ins", "post_item"}
Promised == {"lock_rem", "bump_front"}
Loading  == {"load"}
Taken    == {"unlock_rem", "post_slot"}

\* Where a thread has the lock.
Critical == {"bump_rear", "store", "unlock_ins", "bump_front", "load", "unlock_rem"}

(* How many threads are at some steps.                                      *)
Count(labels) == Cardinality(In(labels))

BufTypes ==
    /\ buf \in [0 .. N - 1 -> Items \cup {NoItem}]
    /\ front \in Nat /\ rear \in Nat
    /\ mutex \in Nat /\ slots \in Nat /\ items \in Nat
    /\ at \in [Threads -> Labels]
    /\ held \in [Threads -> Items \cup {NoItem}]
    /\ \A t \in Threads : at[t] \in InsertSteps => held[t] \in Items

(* Each slot is free, holds an announced item, or is in the hands of one    *)
(* thread.                                                                  *)
SlotsBalance ==
    slots + items + Count(Reserved) + Count(Storing) + Count(Added)
          + Count(Promised) + Count(Loading) + Count(Taken) = N

(* The indices are as far apart as the items announced, those not announced *)
(* yet, and those promised to a thread that has not counted front up.       *)
IndicesBalance ==
    rear = front + items + Count(Storing) + Count(Added) + Count(Promised)

(* One thread at most is between the lock and the unlock.                   *)
MutexBalance == mutex + Count(Critical) = 1

BufInv == BufTypes /\ SlotsBalance /\ IndicesBalance /\ MutexBalance

----------------------------------------------------------------------------
(* Counting. *)

(* The threads at some steps are finitely many.                             *)
LEMMA CountType ==
    ASSUME NEW labels
    PROVE  IsFiniteSet(In(labels)) /\ Count(labels) \in Nat
<1>1. In(labels) \in SUBSET Threads
  BY DEF In
<1>2. IsFiniteSet(In(labels))
  BY <1>1, SbufAssumption, FS_Subset
<1> QED
  BY <1>2, FS_CardinalityType DEF Count

(* Nobody is there exactly when the count is 0.                             *)
LEMMA CountZero ==
    ASSUME NEW labels
    PROVE  Count(labels) = 0 <=> In(labels) = {}
BY CountType, FS_EmptySet DEF Count

(* A thread that moves leaves some steps and comes to others.               *)
LEMMA MoveCount ==
    ASSUME NEW t \in Threads, NEW from, NEW to, NEW labels,
           at \in [Threads -> Labels], Move(t, from, to)
    PROVE  /\ from \in labels /\ to \notin labels =>
                  In(labels)' = In(labels) \ {t} /\ Count(labels)' = Count(labels) - 1
           /\ from \notin labels /\ to \in labels =>
                  In(labels)' = In(labels) \cup {t} /\ Count(labels)' = Count(labels) + 1
           /\ (from \in labels <=> to \in labels) =>
                  In(labels)' = In(labels) /\ Count(labels)' = Count(labels)
<1>1. at[t] = from /\ \A u \in Threads : at'[u] = IF u = t THEN to ELSE at[u]
  BY DEF Move
<1>2. CASE from \in labels /\ to \notin labels
  <2>1. In(labels)' = In(labels) \ {t} /\ t \in In(labels)
    BY <1>1, <1>2 DEF In
  <2> QED  BY <1>2, <2>1, CountType, FS_RemoveElement DEF Count
<1>3. CASE from \notin labels /\ to \in labels
  <2>1. In(labels)' = In(labels) \cup {t} /\ t \notin In(labels)
    BY <1>1, <1>3 DEF In
  <2> QED  BY <1>3, <2>1, CountType, FS_AddElement DEF Count
<1>4. CASE from \in labels <=> to \in labels
  <2>1. In(labels)' = In(labels)
    BY <1>1, <1>4 DEF In
  <2> QED  BY <1>4, <2>1 DEF Count
<1> QED
  BY <1>2, <1>3, <1>4

----------------------------------------------------------------------------
(* The invariant. *)

(* Every call and every step keeps the types.                               *)
LEMMA TypesKept ==
    ASSUME BufInv, NEW t \in Threads,
           \/ \E x \in Items : InsertCall(t, x)
           \/ RemoveCall(t)
           \/ sbuf_insert(t)
           \/ sbuf_remove(t)
    PROVE  BufTypes'
<1> USE DEF BufInv, BufTypes, Labels, InsertSteps, RemoveSteps, Move
<1>1. CASE \E x \in Items : InsertCall(t, x)
  BY <1>1 DEF InsertCall
<1>2. CASE RemoveCall(t)
  BY <1>2 DEF RemoveCall
<1>3. CASE WaitSlot(t)
  BY <1>3 DEF WaitSlot
<1>4. CASE Lock(t, "lock_ins", "bump_rear") \/ Lock(t, "lock_rem", "bump_front")
  BY <1>4 DEF Lock
<1>5. CASE BumpRear(t)
  BY <1>5 DEF BumpRear
<1>6. CASE Store(t)
  BY <1>6 DEF Store
<1>7. CASE Unlock(t, "unlock_ins", "post_item") \/ Unlock(t, "unlock_rem", "post_slot")
  BY <1>7 DEF Unlock
<1>8. CASE PostItem(t)
  BY <1>8 DEF PostItem
<1>9. CASE WaitItem(t)
  BY <1>9 DEF WaitItem
<1>10. CASE BumpFront(t)
  BY <1>10 DEF BumpFront
<1>11. CASE Load(t)
  <2>1. front % N \in 0 .. N - 1
    BY SbufAssumption
  <2>2. buf[front % N] \in Items \cup {NoItem}
    BY <2>1
  <2> QED  BY <1>11, <2>2 DEF Load
<1>12. CASE PostSlot(t)
  BY <1>12 DEF PostSlot
<1> QED
  BY <1>1, <1>2, <1>3, <1>4, <1>5, <1>6, <1>7, <1>8, <1>9, <1>10, <1>11, <1>12
  DEF sbuf_insert, sbuf_remove

(* Which steps belong where.                                                *)
LEMMA Groups ==
    /\ \A l : l \in Reserved <=> l \in {"lock_ins", "bump_rear"}
    /\ \A l : l \in Storing  <=> l = "store"
    /\ \A l : l \in Added    <=> l \in {"unlock_ins", "post_item"}
    /\ \A l : l \in Promised <=> l \in {"lock_rem", "bump_front"}
    /\ \A l : l \in Loading  <=> l = "load"
    /\ \A l : l \in Taken    <=> l \in {"unlock_rem", "post_slot"}
    /\ \A l : l \in Critical <=> l \in {"bump_rear", "store", "unlock_ins",
                                      "bump_front", "load", "unlock_rem"}
BY DEF Reserved, Storing, Added, Promised, Loading, Taken, Critical

(* Every call and every step keeps the balance.                             *)
LEMMA BalanceKept ==
    ASSUME BufInv, NEW t \in Threads,
           \/ \E x \in Items : InsertCall(t, x)
           \/ RemoveCall(t)
           \/ sbuf_insert(t)
           \/ sbuf_remove(t)
    PROVE  BufInv'
<1>1. \A labels : Count(labels) \in Nat
  BY CountType
<1>2. BufTypes'
  BY TypesKept
<1>3. /\ N \in Nat /\ slots \in Nat /\ items \in Nat /\ mutex \in Nat
      /\ front \in Nat /\ rear \in Nat /\ at \in [Threads -> Labels]
  BY SbufAssumption DEF BufInv, BufTypes
<1> DEFINE Same(labels) == Count(labels)' = Count(labels)
           Left(labels) == Count(labels)' = Count(labels) - 1
           Came(labels) == Count(labels)' = Count(labels) + 1
           Moved(from, to) ==
               \A labels : /\ from \in labels /\ to \notin labels => Left(labels)
                           /\ from \notin labels /\ to \in labels => Came(labels)
                           /\ (from \in labels <=> to \in labels) => Same(labels)
<1>0. ASSUME NEW from, NEW to, Move(t, from, to)
      PROVE  Moved(from, to)
  BY <1>0, <1>3, MoveCount
<1> HIDE DEF Same, Left, Came, Moved
<1>4. CASE \E x \in Items : InsertCall(t, x)
  <2>1. Moved("out", "wait_slot")
    BY <1>0, <1>4 DEF InsertCall
  <2>2. /\ Same(Reserved) /\ Same(Storing) /\ Same(Added) /\ Same(Promised)
        /\ Same(Loading) /\ Same(Taken) /\ Same(Critical)
    BY <2>1, Groups DEF Moved
  <2> QED  BY <1>4, <1>1, <1>2, <1>3, <2>2
           DEF InsertCall, BufInv, SlotsBalance, IndicesBalance, MutexBalance, Same, Left, Came
<1>5. CASE RemoveCall(t)
  <2>1. Moved("out", "wait_item")
    BY <1>0, <1>5 DEF RemoveCall
  <2>2. /\ Same(Reserved) /\ Same(Storing) /\ Same(Added) /\ Same(Promised)
        /\ Same(Loading) /\ Same(Taken) /\ Same(Critical)
    BY <2>1, Groups DEF Moved
  <2> QED  BY <1>5, <1>1, <1>2, <1>3, <2>2
           DEF RemoveCall, BufInv, SlotsBalance, IndicesBalance, MutexBalance, Same, Left, Came
<1>6. CASE WaitSlot(t)
  <2>1. Moved("wait_slot", "lock_ins")
    BY <1>0, <1>6 DEF WaitSlot
  <2>2. /\ Came(Reserved) /\ Same(Storing) /\ Same(Added) /\ Same(Promised)
        /\ Same(Loading) /\ Same(Taken) /\ Same(Critical)
    BY <2>1, Groups DEF Moved
  <2> QED  BY <1>6, <1>1, <1>2, <1>3, <2>2
           DEF WaitSlot, BufInv, SlotsBalance, IndicesBalance, MutexBalance, Same, Left, Came
<1>7. CASE Lock(t, "lock_ins", "bump_rear")
  <2>1. Moved("lock_ins", "bump_rear")
    BY <1>0, <1>7 DEF Lock
  <2>2. /\ Same(Reserved) /\ Same(Storing) /\ Same(Added) /\ Same(Promised)
        /\ Same(Loading) /\ Same(Taken) /\ Came(Critical)
    BY <2>1, Groups DEF Moved
  <2> QED  BY <1>7, <1>1, <1>2, <1>3, <2>2
           DEF Lock, BufInv, SlotsBalance, IndicesBalance, MutexBalance, Same, Left, Came
<1>8. CASE BumpRear(t)
  <2>1. Moved("bump_rear", "store")
    BY <1>0, <1>8 DEF BumpRear
  <2>2. /\ Left(Reserved) /\ Came(Storing) /\ Same(Added) /\ Same(Promised)
        /\ Same(Loading) /\ Same(Taken) /\ Same(Critical)
    BY <2>1, Groups DEF Moved
  <2> QED  BY <1>8, <1>1, <1>2, <1>3, <2>2
           DEF BumpRear, BufInv, SlotsBalance, IndicesBalance, MutexBalance, Same, Left, Came
<1>9. CASE Store(t)
  <2>1. Moved("store", "unlock_ins")
    BY <1>0, <1>9 DEF Store
  <2>2. /\ Same(Reserved) /\ Left(Storing) /\ Came(Added) /\ Same(Promised)
        /\ Same(Loading) /\ Same(Taken) /\ Same(Critical)
    BY <2>1, Groups DEF Moved
  <2> QED  BY <1>9, <1>1, <1>2, <1>3, <2>2
           DEF Store, BufInv, SlotsBalance, IndicesBalance, MutexBalance, Same, Left, Came
<1>10. CASE Unlock(t, "unlock_ins", "post_item")
  <2>1. Moved("unlock_ins", "post_item")
    BY <1>0, <1>10 DEF Unlock
  <2>2. /\ Same(Reserved) /\ Same(Storing) /\ Same(Added) /\ Same(Promised)
        /\ Same(Loading) /\ Same(Taken) /\ Left(Critical)
    BY <2>1, Groups DEF Moved
  <2> QED  BY <1>10, <1>1, <1>2, <1>3, <2>2
           DEF Unlock, BufInv, SlotsBalance, IndicesBalance, MutexBalance, Same, Left, Came
<1>11. CASE PostItem(t)
  <2>1. Moved("post_item", "out")
    BY <1>0, <1>11 DEF PostItem
  <2>2. /\ Same(Reserved) /\ Same(Storing) /\ Left(Added) /\ Same(Promised)
        /\ Same(Loading) /\ Same(Taken) /\ Same(Critical)
    BY <2>1, Groups DEF Moved
  <2> QED  BY <1>11, <1>1, <1>2, <1>3, <2>2
           DEF PostItem, BufInv, SlotsBalance, IndicesBalance, MutexBalance, Same, Left, Came
<1>12. CASE WaitItem(t)
  <2>1. Moved("wait_item", "lock_rem")
    BY <1>0, <1>12 DEF WaitItem
  <2>2. /\ Same(Reserved) /\ Same(Storing) /\ Same(Added) /\ Came(Promised)
        /\ Same(Loading) /\ Same(Taken) /\ Same(Critical)
    BY <2>1, Groups DEF Moved
  <2> QED  BY <1>12, <1>1, <1>2, <1>3, <2>2
           DEF WaitItem, BufInv, SlotsBalance, IndicesBalance, MutexBalance, Same, Left, Came
<1>13. CASE Lock(t, "lock_rem", "bump_front")
  <2>1. Moved("lock_rem", "bump_front")
    BY <1>0, <1>13 DEF Lock
  <2>2. /\ Same(Reserved) /\ Same(Storing) /\ Same(Added) /\ Same(Promised)
        /\ Same(Loading) /\ Same(Taken) /\ Came(Critical)
    BY <2>1, Groups DEF Moved
  <2> QED  BY <1>13, <1>1, <1>2, <1>3, <2>2
           DEF Lock, BufInv, SlotsBalance, IndicesBalance, MutexBalance, Same, Left, Came
<1>14. CASE BumpFront(t)
  <2>1. Moved("bump_front", "load")
    BY <1>0, <1>14 DEF BumpFront
  <2>2. /\ Same(Reserved) /\ Same(Storing) /\ Same(Added) /\ Left(Promised)
        /\ Came(Loading) /\ Same(Taken) /\ Same(Critical)
    BY <2>1, Groups DEF Moved
  <2> QED  BY <1>14, <1>1, <1>2, <1>3, <2>2
           DEF BumpFront, BufInv, SlotsBalance, IndicesBalance, MutexBalance, Same, Left, Came
<1>15. CASE Load(t)
  <2>1. Moved("load", "unlock_rem")
    BY <1>0, <1>15 DEF Load
  <2>2. /\ Same(Reserved) /\ Same(Storing) /\ Same(Added) /\ Same(Promised)
        /\ Left(Loading) /\ Came(Taken) /\ Same(Critical)
    BY <2>1, Groups DEF Moved
  <2> QED  BY <1>15, <1>1, <1>2, <1>3, <2>2
           DEF Load, BufInv, SlotsBalance, IndicesBalance, MutexBalance, Same, Left, Came
<1>16. CASE Unlock(t, "unlock_rem", "post_slot")
  <2>1. Moved("unlock_rem", "post_slot")
    BY <1>0, <1>16 DEF Unlock
  <2>2. /\ Same(Reserved) /\ Same(Storing) /\ Same(Added) /\ Same(Promised)
        /\ Same(Loading) /\ Same(Taken) /\ Left(Critical)
    BY <2>1, Groups DEF Moved
  <2> QED  BY <1>16, <1>1, <1>2, <1>3, <2>2
           DEF Unlock, BufInv, SlotsBalance, IndicesBalance, MutexBalance, Same, Left, Came
<1>17. CASE PostSlot(t)
  <2>1. Moved("post_slot", "out")
    BY <1>0, <1>17 DEF PostSlot
  <2>2. /\ Same(Reserved) /\ Same(Storing) /\ Same(Added) /\ Same(Promised)
        /\ Same(Loading) /\ Left(Taken) /\ Same(Critical)
    BY <2>1, Groups DEF Moved
  <2> QED  BY <1>17, <1>1, <1>2, <1>3, <2>2
           DEF PostSlot, BufInv, SlotsBalance, IndicesBalance, MutexBalance, Same, Left, Came
<1> QED
  BY <1>4, <1>5, <1>6, <1>7, <1>8, <1>9, <1>10, <1>11, <1>12,
     <1>13, <1>14, <1>15, <1>16, <1>17 DEF sbuf_insert, sbuf_remove

(* The invariant bounds the semaphores: a mutex, and no more slots or items *)
(* than the buffer has.                                                     *)
LEMMA BalanceBounds ==
    ASSUME BufInv
    PROVE  SbufTypeOK
<1>1. \A labels : Count(labels) \in Nat
  BY CountType
<1>2. N \in Nat
  BY SbufAssumption
<1>3. mutex \in {0, 1} /\ slots \in 0 .. N /\ items \in 0 .. N
  <2>1. mutex \in Nat /\ slots \in Nat /\ items \in Nat
    BY DEF BufInv, BufTypes
  <2>2. mutex \in {0, 1}
    BY <1>1, <2>1 DEF BufInv, MutexBalance
  <2>3. slots \in 0 .. N /\ items \in 0 .. N
    BY <1>1, <1>2, <2>1 DEF BufInv, SlotsBalance
  <2> QED  BY <2>2, <2>3
<1> QED
  BY <1>3 DEF BufInv, BufTypes, SbufTypeOK, Labels

(* The empty buffer.                                                        *)
LEMMA BalanceInit ==
    ASSUME sbuf_init
    PROVE  BufInv
<1>1. \A labels : "out" \notin labels => In(labels) = {}
  BY DEF sbuf_init, In
<1>2. \A labels : "out" \notin labels => Count(labels) = 0
  BY <1>1, CountZero
<1>3. BufTypes
  BY SbufAssumption DEF sbuf_init, BufTypes, Labels, InsertSteps
<1>4. /\ Count(Reserved) = 0 /\ Count(Storing) = 0 /\ Count(Added) = 0 /\ Count(Promised) = 0
      /\ Count(Loading) = 0 /\ Count(Taken) = 0 /\ Count(Critical) = 0
  BY <1>2 DEF Reserved, Storing, Added, Promised, Loading, Taken, Critical
<1> QED
  BY <1>3, <1>4, SbufAssumption
  DEF sbuf_init, BufInv, SlotsBalance, IndicesBalance, MutexBalance

(* A thread in the critical section is alone there.                         *)
LEMMA Alone ==
    ASSUME BufInv, NEW t \in Threads, at[t] \in Critical
    PROVE  mutex = 0 /\ In(Critical) = {t}
<1>1. t \in In(Critical)
  BY DEF In
<1>2. Count(Critical) \in Nat /\ Count(Critical) # 0
  BY <1>1, CountType, CountZero
<1>3. mutex \in Nat /\ mutex + Count(Critical) = 1
  BY DEF BufInv, BufTypes, MutexBalance
<1>4. mutex = 0 /\ Count(Critical) = 1
  BY <1>2, <1>3
<1>5. PICK u : In(Critical) = {u}
  BY <1>4, CountType, FS_Singleton DEF Count
<1> QED
  BY <1>1, <1>4, <1>5

----------------------------------------------------------------------------
(* The array. *)

(* Euclid's division.                                                       *)
LEMMA DivMod ==
    ASSUME NEW a \in Nat
    PROVE  /\ a % N \in 0 .. N - 1 /\ a \div N \in Int
           /\ a = N * (a \div N) + (a % N)
BY SbufAssumption

(* Positions less than N apart are different slots of the array.            *)
LEMMA SlotsDiffer ==
    ASSUME NEW a \in Nat, NEW b \in Nat, a < b, b - a < N
    PROVE  a % N # b % N
<1>1. N \in Nat /\ N > 0
  BY SbufAssumption
<1> DEFINE k == (b \div N) - (a \div N)
<1> SUFFICES ASSUME a % N = b % N PROVE FALSE
  OBVIOUS
<1>2. k \in Int /\ b - a = N * k
  BY <1>1, DivMod
<1> HIDE DEF k
<1>3. CASE k <= 0
  <2>1. N * k <= 0
    BY <1>1, <1>2, <1>3
  <2> QED  BY <2>1, <1>2
<1>4. CASE k >= 1
  <2>1. N * k >= N
    BY <1>1, <1>2, <1>4
  <2> QED  BY <2>1, <1>1, <1>2
<1> QED
  BY <1>2, <1>3, <1>4

(* Between the lock and the unlock one thread stores or loads, or none.     *)
LEMMA OneInside ==
    ASSUME BufInv
    PROVE  /\ Count(Storing) = IF In({"store"}) = {} THEN 0 ELSE 1
           /\ Count(Loading) = IF In({"load"}) = {} THEN 0 ELSE 1
<1>1. In(Storing) \in SUBSET In(Critical) /\ In(Loading) \in SUBSET In(Critical)
  BY Groups DEF In
<1>2. Count(Storing) <= Count(Critical) /\ Count(Loading) <= Count(Critical)
  BY <1>1, CountType, FS_Subset DEF Count
<1>3. Count(Critical) <= 1
  BY CountType DEF BufInv, BufTypes, MutexBalance
<1>4. /\ Count(Storing) = 0 <=> In({"store"}) = {}
      /\ Count(Loading) = 0 <=> In({"load"}) = {}
  BY CountZero DEF Storing, Loading
<1>5. Count(Storing) \in Nat /\ Count(Loading) \in Nat /\ Count(Critical) \in Nat
  BY CountType
<1>6. Count(Storing) \in {0, 1} /\ Count(Loading) \in {0, 1}
  BY <1>2, <1>3, <1>5
<1> QED
  BY <1>4, <1>6

(* The queue is as long as there are items announced, added and promised.   *)
LEMMA QueueLength ==
    ASSUME BufInv
    PROVE  /\ Oldest \in Nat /\ Newest \in Int
           /\ Queue \in Seq(Items \cup {NoItem})
           /\ Len(Queue) = Newest - Oldest + 1
           /\ Len(Queue) = items + Count(Added) + Count(Promised) + Count(Loading)
           /\ Len(Queue) + slots + Count(Reserved) + Count(Storing) + Count(Taken) = N
<1>1. \A labels : Count(labels) \in Nat
  BY CountType
<1>2. N \in Nat /\ slots \in Nat /\ items \in Nat /\ front \in Nat /\ rear \in Nat
  BY SbufAssumption DEF BufInv, BufTypes
<1>3. /\ Oldest \in Nat /\ Oldest = front + 1 - Count(Loading)
      /\ Newest \in Int /\ Newest = rear - Count(Storing)
  BY <1>2, OneInside DEF Oldest, Newest
<1> DEFINE n == Newest - Oldest + 1
<1>4. n = items + Count(Added) + Count(Promised) + Count(Loading)
  BY <1>1, <1>2, <1>3 DEF BufInv, IndicesBalance
<1>5. n + slots + Count(Reserved) + Count(Storing) + Count(Taken) = N
  BY <1>1, <1>2, <1>4 DEF BufInv, SlotsBalance
<1>6. n \in Nat
  BY <1>1, <1>2, <1>4
<1>7. ASSUME NEW i \in 1 .. n
      PROVE  buf[(Oldest + i - 1) % N] \in Items \cup {NoItem}
  <2>1. (Oldest + i - 1) % N \in 0 .. N - 1
    BY <1>3, DivMod
  <2> QED  BY <2>1 DEF BufInv, BufTypes
<1> HIDE DEF n
<1>8. Queue = [i \in 1 .. n |-> buf[(Oldest + i - 1) % N]]
  BY DEF Queue, n
<1>9. Queue \in Seq(Items \cup {NoItem}) /\ Len(Queue) = n
  BY <1>6, <1>7, <1>8
<1> QED
  BY <1>3, <1>4, <1>5, <1>9 DEF n

----------------------------------------------------------------------------
(* The refinement. *)

(* The queue changes at the store and the load only, ...                    *)
LEMMA QueueKept ==
    ASSUME BufInv, NEW t \in Threads, NEW from, NEW to, Move(t, from, to),
           {from, to} \cap {"store", "load"} = {}, UNCHANGED <<buf, front, rear>>
    PROVE  Queue' = Queue
<1>1. at \in [Threads -> Labels]
  BY DEF BufInv, BufTypes
<1>2. In(Storing)' = In(Storing) /\ In(Loading)' = In(Loading)
  BY <1>1 DEF Move, In, Storing, Loading
<1>3. Oldest' = Oldest /\ Newest' = Newest
  BY <1>2 DEF Oldest, Newest, Storing, Loading
<1> QED
  BY <1>3 DEF Queue

(* ... and the results between the load and the return.                     *)
LEMMA ResultKept ==
    ASSUME BufInv, NEW t \in Threads, NEW from, NEW to, Move(t, from, to),
           {from, to} \cap {"unlock_rem", "post_slot"} = {},
           \A u \in Threads \ {t} : held'[u] = held[u]
    PROVE  Result' = Result
<1>1. at[t] = from /\ \A u \in Threads : at'[u] = IF u = t THEN to ELSE at[u]
  BY DEF BufInv, BufTypes, Move
<1>2. \A u \in Threads : (IF at'[u] \in {"unlock_rem", "post_slot"} THEN held'[u] ELSE NoItem)
                        = (IF at[u] \in {"unlock_rem", "post_slot"} THEN held[u] ELSE NoItem)
  BY <1>1
<1> QED
  BY <1>2 DEF Result

(* Calling one of the functions is no step of the buffer.                   *)
LEMMA CallsStutter ==
    ASSUME BufInv, NEW t \in Threads,
           (\E x \in Items : InsertCall(t, x)) \/ RemoveCall(t)
    PROVE  UNCHANGED <<Queue, Result>>
<1>1. PICK to \in {"wait_slot", "wait_item"} : Move(t, "out", to)
  BY DEF InsertCall, RemoveCall
<1>2. UNCHANGED <<buf, front, rear>>
  BY DEF InsertCall, RemoveCall
<1>3. \A u \in Threads \ {t} : held'[u] = held[u]
  BY DEF InsertCall, RemoveCall, BufInv, BufTypes
<1> QED
  BY <1>1, <1>2, <1>3, QueueKept, ResultKept

(* The store puts the item in, behind all others, where there is room.      *)
LEMMA StorePuts ==
    ASSUME BufInv, NEW t \in Threads, Store(t)
    PROVE  Promise!Put(held[t]) /\ held[t] \in Items
<1>1. Move(t, "store", "unlock_ins") /\ at[t] = "store" /\ at \in [Threads -> Labels]
  BY DEF Store, Move, BufInv, BufTypes
<1>3. Result' = Result
  BY <1>1, ResultKept DEF Store
<1>4. In(Storing) # {} /\ In(Storing)' = {}
  <2>1. In(Critical) = {t}
    BY <1>1, Alone, Groups
  <2>2. In(Storing) = {t}
    BY <1>1, <2>1, Groups DEF In
  <2>3. In(Storing)' = In(Storing) \ {t}
    BY <1>1 DEF Move, In, Storing, Loading
  <2> QED  BY <2>2, <2>3
<1>5. In(Loading)' = In(Loading)
  BY <1>1 DEF Move, In, Storing, Loading
<1>6. Oldest' = Oldest /\ Newest = rear - 1 /\ Newest' = rear
  BY <1>4, <1>5 DEF Oldest, Newest, Store, Storing, Loading
<1> DEFINE n == Len(Queue)
<1>7. /\ Oldest \in Nat /\ rear \in Nat /\ N \in Nat
      /\ n = rear - Oldest /\ n \in Nat
      /\ Queue \in Seq(Items \cup {NoItem}) /\ DOMAIN Queue' = 1 .. n + 1
  <2>1. Oldest \in Nat /\ rear \in Nat /\ N \in Nat
    BY QueueLength, SbufAssumption DEF BufInv, BufTypes
  <2>2. n = rear - Oldest /\ n \in Nat /\ Queue \in Seq(Items \cup {NoItem})
    BY <1>6, <2>1, QueueLength
  <2>3. Newest' - Oldest' + 1 = n + 1
    BY <1>6, <2>1, <2>2 DEF Store
  <2> QED  BY <2>1, <2>2, <2>3 DEF Queue
<1>8. n < N
  <2>1. \A labels : Count(labels) \in Nat
    BY CountType
  <2>2. Count(Storing) # 0
    BY <1>4, CountZero
  <2>3. slots \in Nat
    BY DEF BufInv, BufTypes
  <2>4. n + slots + Count(Reserved) + Count(Storing) + Count(Taken) = N
    BY QueueLength
  <2> HIDE DEF n
  <2> QED  BY <1>7, <2>1, <2>2, <2>3, <2>4
<1>9. ASSUME NEW i \in 1 .. n
      PROVE  Queue'[i] = Queue[i]
  <2>1. Oldest + i - 1 \in Nat /\ Oldest + i - 1 < rear /\ rear - (Oldest + i - 1) < N
    BY <1>7, <1>8
  <2>2. (Oldest + i - 1) % N # rear % N
    BY <1>7, <2>1, SlotsDiffer
  <2>3. (Oldest + i - 1) % N \in 0 .. N - 1
    BY <2>1, DivMod
  <2>4. buf'[(Oldest + i - 1) % N] = buf[(Oldest + i - 1) % N]
    BY <2>2, <2>3 DEF Store, BufInv, BufTypes
  <2>5. i \in 1 .. Newest - Oldest + 1 /\ i \in 1 .. Newest' - Oldest' + 1
    BY <1>6, <1>7
  <2> QED  BY <1>6, <2>4, <2>5 DEF Queue
<1>10. Queue'[n + 1] = held[t]
  <2>1. rear % N \in 0 .. N - 1
    BY <1>7, DivMod
  <2>2. buf'[rear % N] = held[t]
    BY <2>1 DEF Store, BufInv, BufTypes
  <2>3. n + 1 \in 1 .. Newest' - Oldest' + 1 /\ Oldest' + (n + 1) - 1 = rear
    BY <1>6, <1>7
  <2> QED  BY <2>2, <2>3 DEF Queue
<1>11. held[t] \in Items
  BY <1>1 DEF BufInv, BufTypes, InsertSteps
<1>12. Queue' = Append(Queue, held[t])
  <2>1. Queue' = [i \in 1 .. n + 1 |-> Queue'[i]]
    BY <1>7 DEF Queue
  <2>2. Append(Queue, held[t]) = [i \in 1 .. n + 1 |-> IF i \in 1 .. n THEN Queue[i] ELSE held[t]]
    BY <1>7, <1>11
  <2>3. ASSUME NEW i \in 1 .. n + 1
        PROVE  Queue'[i] = IF i \in 1 .. n THEN Queue[i] ELSE held[t]
    <3>1. CASE i \in 1 .. n
      BY <1>9, <3>1
    <3>2. CASE i = n + 1
      BY <1>7, <1>10, <3>2
    <3> QED  BY <1>7, <3>1, <3>2
  <2> HIDE DEF n
  <2> QED  BY <2>1, <2>2, <2>3
<1> QED
  BY <1>3, <1>8, <1>11, <1>12 DEF Promise!Put

(* The load takes the oldest item out.                                      *)
LEMMA LoadTakes ==
    ASSUME BufInv, NEW t \in Threads, Load(t)
    PROVE  Promise!Take(t)
<1>1. Move(t, "load", "unlock_rem") /\ at[t] = "load" /\ at \in [Threads -> Labels]
  BY DEF Load, Move, BufInv, BufTypes
<1>3. In(Loading) # {} /\ In(Loading)' = {}
  <2>1. In(Critical) = {t}
    BY <1>1, Alone, Groups
  <2>2. In(Loading) = {t}
    BY <1>1, <2>1, Groups DEF In
  <2>3. In(Loading)' = In(Loading) \ {t}
    BY <1>1 DEF Move, In, Storing, Loading
  <2> QED  BY <2>2, <2>3
<1>4. In(Storing)' = In(Storing)
  BY <1>1 DEF Move, In, Storing, Loading
<1>5. Oldest = front /\ Oldest' = front + 1 /\ Newest' = Newest
  BY <1>3, <1>4 DEF Oldest, Newest, Load, Storing, Loading
<1> DEFINE n == Len(Queue)
<1>6. /\ front \in Nat /\ Newest \in Int
      /\ n = Newest - front + 1 /\ n \in Nat
      /\ Queue \in Seq(Items \cup {NoItem}) /\ DOMAIN Queue' = 1 .. n - 1
  <2>1. front \in Nat /\ Newest \in Int
    BY QueueLength DEF BufInv, BufTypes
  <2>2. n = Newest - front + 1 /\ n \in Nat /\ Queue \in Seq(Items \cup {NoItem})
    BY <1>5, <2>1, QueueLength
  <2>3. Newest' - Oldest' + 1 = n - 1
    BY <1>5, <2>1, <2>2
  <2> QED  BY <2>1, <2>2, <2>3 DEF Queue
<1>7. n >= 1
  <2>1. \A labels : Count(labels) \in Nat
    BY CountType
  <2>2. Count(Loading) # 0
    BY <1>3, CountZero
  <2>3. items \in Nat
    BY DEF BufInv, BufTypes
  <2> QED  BY <1>6, <2>1, <2>2, <2>3, QueueLength
<1>8. ASSUME NEW i \in 1 .. n - 1
      PROVE  Queue'[i] = Queue[i + 1]
  <2>1. i \in 1 .. Newest' - Oldest' + 1 /\ i + 1 \in 1 .. Newest - Oldest + 1
    BY <1>5, <1>6
  <2>2. Oldest' + i - 1 = Oldest + (i + 1) - 1
    BY <1>5, <1>6
  <2>3. buf' = buf
    BY DEF Load
  <2> QED  BY <2>1, <2>2, <2>3 DEF Queue
<1>9. Queue' = Tail(Queue) /\ Queue # <<>>
  <2>1. Queue' = [i \in 1 .. n - 1 |-> Queue'[i]]
    BY <1>6 DEF Queue
  <2>2. Queue # <<>>
    BY <1>7
  <2>3. Tail(Queue) = [i \in 1 .. n - 1 |-> Queue[i + 1]]
    <3>1. /\ Tail(Queue) \in Seq(Items \cup {NoItem}) /\ Len(Tail(Queue)) = n - 1
          /\ \A i \in 1 .. n - 1 : Tail(Queue)[i] = Queue[i + 1]
      BY <1>6, <2>2, HeadTailProperties
    <3>2. Tail(Queue) \in [1 .. n - 1 -> Items \cup {NoItem}]
      BY <3>1, LenProperties
    <3> QED  BY <3>1, <3>2
  <2>4. \A i \in 1 .. n - 1 : Queue'[i] = Queue[i + 1]
    BY <1>8
  <2> HIDE DEF n
  <2> QED  BY <2>1, <2>2, <2>3, <2>4
<1>10. Head(Queue) = buf[front % N]
  <2>1. 1 \in 1 .. Newest - Oldest + 1 /\ Oldest + 1 - 1 = front
    BY <1>5, <1>6, <1>7
  <2>2. Queue[1] = buf[front % N]
    BY <2>1 DEF Queue
  <2> QED  BY <1>6, <2>2
<1>11. Result[t] = NoItem
  BY <1>1 DEF Result
<1>12. Result' = [Result EXCEPT ![t] = Head(Queue)]
  <2>1. /\ \A u \in Threads : at'[u] = IF u = t THEN "unlock_rem" ELSE at[u]
        /\ \A u \in Threads : held'[u] = IF u = t THEN Head(Queue) ELSE held[u]
    BY <1>1, <1>10 DEF Load, Move, BufInv, BufTypes
  <2> QED  BY <2>1 DEF Result
<1> QED
  BY <1>9, <1>11, <1>12 DEF Promise!Take

(* What is taken is returned when the slot is given back.                   *)
LEMMA PostSlotReturns ==
    ASSUME BufInv, NEW t \in Threads, PostSlot(t)
    PROVE  Promise!Return(t)
<1>1. Move(t, "post_slot", "out") /\ UNCHANGED <<buf, front, rear, held>>
  BY DEF PostSlot
<1>2. Queue' = Queue
  BY <1>1, QueueKept
<1>3. \A u \in Threads : at'[u] = IF u = t THEN "out" ELSE at[u]
  BY <1>1 DEF Move, BufInv, BufTypes
<1>4. Result' = [Result EXCEPT ![t] = NoItem]
  BY <1>1, <1>3 DEF Result
<1> QED
  BY <1>2, <1>4 DEF Promise!Return

(* Every other step keeps the queue and the results.                        *)
LEMMA OthersStutter ==
    ASSUME BufInv, NEW t \in Threads,
           \/ WaitSlot(t) \/ Lock(t, "lock_ins", "bump_rear") \/ BumpRear(t)
           \/ Unlock(t, "unlock_ins", "post_item") \/ PostItem(t)
           \/ WaitItem(t) \/ Lock(t, "lock_rem", "bump_front") \/ BumpFront(t)
           \/ Unlock(t, "unlock_rem", "post_slot")
    PROVE  UNCHANGED <<Queue, Result>>
<1>1. CASE WaitSlot(t)
  BY <1>1, QueueKept, ResultKept DEF WaitSlot
<1>2. CASE Lock(t, "lock_ins", "bump_rear")
  BY <1>2, QueueKept, ResultKept DEF Lock
<1>3. CASE BumpRear(t)
  <2>1. at[t] = "bump_rear" /\ Move(t, "bump_rear", "store") /\ t \in Threads
    BY <1>3 DEF BumpRear, Move
  <2>2. In(Critical) = {t}
    BY <2>1, Alone, Groups
  <2>3. In(Storing) = {} /\ In(Storing)' = {t} /\ In(Loading)' = In(Loading)
    BY <2>1, <2>2, Groups DEF BufInv, BufTypes, In, Move, Storing, Loading
  <2>4. rear \in Nat /\ rear' = rear + 1 /\ UNCHANGED <<buf, front>>
    BY <1>3 DEF BumpRear, BufInv, BufTypes
  <2>5. Oldest' = Oldest /\ Newest' = Newest
    BY <2>3, <2>4 DEF Oldest, Newest, Storing, Loading
  <2>6. Queue' = Queue
    BY <2>4, <2>5 DEF Queue
  <2> QED  BY <1>3, <2>1, <2>6, ResultKept DEF BumpRear
<1>4. CASE Unlock(t, "unlock_ins", "post_item")
  BY <1>4, QueueKept, ResultKept DEF Unlock
<1>5. CASE PostItem(t)
  <2>1. \A u \in Threads \ {t} : held'[u] = held[u]
    BY <1>5 DEF PostItem, BufInv, BufTypes
  <2> QED  BY <1>5, <2>1, QueueKept, ResultKept DEF PostItem
<1>6. CASE WaitItem(t)
  BY <1>6, QueueKept, ResultKept DEF WaitItem
<1>7. CASE Lock(t, "lock_rem", "bump_front")
  BY <1>7, QueueKept, ResultKept DEF Lock
<1>8. CASE BumpFront(t)
  <2>1. at[t] = "bump_front" /\ Move(t, "bump_front", "load") /\ t \in Threads
    BY <1>8 DEF BumpFront, Move
  <2>2. In(Critical) = {t}
    BY <2>1, Alone, Groups
  <2>3. In(Loading) = {} /\ In(Loading)' = {t} /\ In(Storing)' = In(Storing)
    BY <2>1, <2>2, Groups DEF BufInv, BufTypes, In, Move, Storing, Loading
  <2>4. front \in Nat /\ front' = front + 1 /\ UNCHANGED <<buf, rear>>
    BY <1>8 DEF BumpFront, BufInv, BufTypes
  <2>5. Oldest' = Oldest /\ Newest' = Newest
    BY <2>3, <2>4 DEF Oldest, Newest, Storing, Loading
  <2>6. Queue' = Queue
    BY <2>4, <2>5 DEF Queue
  <2> QED  BY <1>8, <2>1, <2>6, ResultKept DEF BumpFront
<1>9. CASE Unlock(t, "unlock_rem", "post_slot")
  <2>1. Move(t, "unlock_rem", "post_slot") /\ UNCHANGED <<buf, front, rear, held>>
    BY <1>9 DEF Unlock
  <2>2. Queue' = Queue
    BY <2>1, QueueKept
  <2>3. at[t] = "unlock_rem" /\ \A u \in Threads : at'[u] = IF u = t THEN "post_slot" ELSE at[u]
    BY <2>1 DEF Move, BufInv, BufTypes
  <2>4. Result' = Result
    BY <2>1, <2>3 DEF Result
  <2> QED  BY <2>2, <2>4
<1> QED
  BY <1>1, <1>2, <1>3, <1>4, <1>5, <1>6, <1>7, <1>8, <1>9

(* A step of sbuf_insert or sbuf_remove is a step of the promised buffer.   *)
LEMMA StepImplements ==
    ASSUME BufInv, NEW t \in Threads, sbuf_insert(t) \/ sbuf_remove(t)
    PROVE  Promise!Next \/ UNCHANGED <<Queue, Result>>
<1>1. CASE Store(t)
  BY <1>1, StorePuts DEF Promise!Next
<1>2. CASE Load(t)
  BY <1>2, LoadTakes DEF Promise!Next
<1>3. CASE PostSlot(t)
  BY <1>3, PostSlotReturns DEF Promise!Next
<1> QED
  BY <1>1, <1>2, <1>3, OthersStutter DEF sbuf_insert, sbuf_remove

(* The new buffer is the promised one, empty.                               *)
LEMMA InitImplements ==
    ASSUME sbuf_init
    PROVE  Promise!Init
<1>1. In({"load"}) = {} /\ In({"store"}) = {}
  BY DEF sbuf_init, In
<1>2. Oldest = 1 /\ Newest = 0
  BY <1>1 DEF sbuf_init, Oldest, Newest
<1>3. Queue = <<>>
  BY <1>2 DEF Queue
<1>4. Result = [t \in Threads |-> NoItem]
  BY DEF sbuf_init, Result
<1> QED
  BY <1>3, <1>4 DEF Promise!Init

----------------------------------------------------------------------------
(* The proxy. *)

\* The calls that a thread is in, and the item it may hold.
Waiting == {"wait_item", "lock_rem", "bump_front", "load"}

Roles ==
    /\ at[Main] \in {"out"} \cup InsertSteps
    /\ at[Main] = "out" => held[Main] = NoItem
    /\ \A w \in Workers :
          /\ at[w] \in {"out"} \cup RemoveSteps
          /\ at[w] \in RemoveSteps => pc[w] = "request"
          /\ pc[w] = "loop" \/ at[w] \in Waiting => held[w] = NoItem

\* The server's descriptor of a worker is nobody else's, and no client's.
Servers ==
    /\ \A w \in Workers : pc[w] = "connect" => sfd[w] \in Fds
    /\ \A w \in Workers : sfd[w] \in Fds => fd[sfd[w]] = "server"
    /\ \A v, w \in Workers : v # w /\ sfd[v] \in Fds => sfd[v] # sfd[w]

ProxyTypes ==
    /\ up \in BOOLEAN
    /\ fd \in [Fds -> {"free", "client", "server"}]
    /\ pc \in [Workers -> {"loop", "request", "socket", "connect", "send",
                           "receive", "reply", "close"}]
    /\ sfd \in [Workers -> Fds \cup {NoItem}]
    /\ accepts \in 0 .. MaxAccepts

ProxyInv == BufInv /\ ProxyTypes /\ Roles /\ Servers
Inv == ProxyInv /\ OneHolder

----------------------------------------------------------------------------
(* The kernel's choice. *)

Less == {ss \in Nat \X Nat : ss[1] < ss[2]}

(* When a descriptor is free, the lowest free one exists.                   *)
LEMMA LowestFree ==
    ASSUME Free # {}
    PROVE  Lowest \in Fds /\ fd[Lowest] = "free"
<1>1. Free \subseteq Nat /\ Free \subseteq Fds
  BY Proxy1Assumption DEF Free
<1>2. IsWellFoundedOn(Less, Nat)
  BY NatLessThanWellFounded DEF OpToRel, Less
<1>3. PICK f \in Free : \A g \in Free : ~ (<<g, f>> \in Less)
  BY <1>1, <1>2, WFMin
<1>4. \A g \in Free : f <= g
  <2> SUFFICES ASSUME NEW g \in Free PROVE f <= g
    OBVIOUS
  <2>1. f \in Nat /\ g \in Nat /\ <<g, f>> \notin Less
    BY <1>1, <1>3
  <2>2. ~ (g < f)
    BY <2>1 DEF Less
  <2> QED  BY <2>1, <2>2
<1>5. Lowest \in Free
  BY <1>4 DEF Lowest
<1> QED
  BY <1>5 DEF Free

----------------------------------------------------------------------------
(* The invariant. *)

(* Between the calls of the buffer only the items in hand change.           *)
LEMMA BufInvUnused ==
    ASSUME BufInv, UNCHANGED <<buf, front, rear, mutex, slots, items, at>>,
           held' \in [Threads -> Items \cup {NoItem}],
           \A t \in Threads : at[t] \in InsertSteps => held'[t] = held[t]
    PROVE  BufInv'
<1>1. BufTypes'
  BY DEF BufInv, BufTypes
<1>2. \A labels : Count(labels)' = Count(labels)
  BY DEF Count, In
<1>3. SlotsBalance' /\ IndicesBalance' /\ MutexBalance'
  BY <1>2 DEF BufInv, SlotsBalance, IndicesBalance, MutexBalance
<1> QED
  BY <1>1, <1>3 DEF BufInv

(* A step of sbuf_insert keeps the item in hand until it returns.           *)
LEMMA InsertMoves ==
    ASSUME BufInv, NEW t \in Threads, sbuf_insert(t)
    PROVE  \E to \in InsertSteps \cup {"out"} :
               /\ at[t] \in InsertSteps
               /\ at' = [at EXCEPT ![t] = to]
               /\ \A u \in Threads \ {t} : held'[u] = held[u]
               /\ held'[t] = IF to = "out" THEN NoItem ELSE held[t]
<1>1. held \in [Threads -> Items \cup {NoItem}]
  BY DEF BufInv, BufTypes
<1>2. CASE PostItem(t)
  BY <1>1, <1>2 DEF PostItem, Move, InsertSteps
<1>3. CASE ~ PostItem(t)
  <2>1. held' = held
    BY <1>3 DEF sbuf_insert, WaitSlot, Lock, BumpRear, Store, Unlock
  <2>2. PICK to \in InsertSteps : at[t] \in InsertSteps /\ at' = [at EXCEPT ![t] = to]
    BY <1>3 DEF sbuf_insert, WaitSlot, Lock, BumpRear, Store, Unlock, Move, InsertSteps
  <2>3. to # "out"
    BY DEF InsertSteps
  <2> QED  BY <2>1, <2>2, <2>3
<1> QED
  BY <1>2, <1>3

(* A step of sbuf_remove keeps the hand empty up to the load, which fills it. *)
LEMMA RemoveMoves ==
    ASSUME BufInv, NEW t \in Threads, sbuf_remove(t)
    PROVE  \E to \in RemoveSteps \cup {"out"} :
               /\ at[t] \in RemoveSteps
               /\ at' = [at EXCEPT ![t] = to]
               /\ \A u \in Threads \ {t} : held'[u] = held[u]
               /\ Load(t) \/ held'[t] = held[t]
               /\ to \in Waiting => at[t] \in Waiting /\ held'[t] = held[t]
<1>1. held \in [Threads -> Items \cup {NoItem}]
  BY DEF BufInv, BufTypes
<1>2. CASE Load(t)
  BY <1>1, <1>2 DEF Load, Move, RemoveSteps, Waiting
<1>3. CASE ~ Load(t)
  <2>1. held' = held
    BY <1>3 DEF sbuf_remove, WaitItem, Lock, BumpFront, Unlock, PostSlot
  <2>2. PICK to \in RemoveSteps \cup {"out"} :
            /\ at[t] \in RemoveSteps /\ at' = [at EXCEPT ![t] = to]
            /\ to \in Waiting => at[t] \in Waiting
    BY <1>3 DEF sbuf_remove, WaitItem, Lock, BumpFront, Unlock, PostSlot, Move,
                RemoveSteps, Waiting
  <2> QED  BY <2>1, <2>2
<1> QED
  BY <1>2, <1>3

(* The program starts with the invariant.                                   *)
LEMMA ProxyInit ==
    ASSUME Init
    PROVE  ProxyInv
<1>1. BufInv
  BY BalanceInit DEF Init
<1>2. ProxyTypes
  BY Proxy1Assumption DEF Init, ProxyTypes
<1>3. Roles
  <2>1. \A t \in Threads : at[t] = "out" /\ held[t] = NoItem
    BY DEF Init, sbuf_init
  <2>2. "out" \notin RemoveSteps
    BY DEF RemoveSteps
  <2> QED  BY <2>1, <2>2, Proxy1Assumption DEF Roles
<1>4. Servers
  <2>1. NoItem \notin Fds
    BY SbufAssumption, Proxy1Assumption
  <2> QED  BY <2>1 DEF Init, Servers
<1> QED
  BY <1>1, <1>2, <1>3, <1>4 DEF ProxyInv

(* Every step keeps the types.                                              *)
LEMMA ProxyTypesKept ==
    ASSUME ProxyInv, Next
    PROVE  ProxyTypes'
<1> USE DEF ProxyInv, ProxyTypes
<1>1. CASE Accept
  <2>1. fd' \in [Fds -> {"free", "client", "server"}]
    BY <1>1 DEF Accept, Opened
  <2>2. accepts' \in 0 .. MaxAccepts
    BY <1>1, Proxy1Assumption DEF Accept
  <2> QED  BY <1>1, <2>1, <2>2 DEF Accept
<1>2. CASE Inserting \/ \E w \in Workers : Removing(w)
  BY <1>2 DEF Inserting, Removing, proxyVars
<1>3. ASSUME NEW w \in Workers, Remove(w) \/ Close(w)
      PROVE  ProxyTypes'
  BY <1>3 DEF Remove, Close, Goes, Closed
<1>4. ASSUME NEW w \in Workers, Socket(w)
      PROVE  ProxyTypes'
  BY <1>4, LowestFree DEF Socket, Goes, Opened
<1>5. ASSUME NEW w \in Workers,
             \/ GetRequest(w) \/ ConnectFails(w) \/ Connect(w) \/ SendRequest(w)
             \/ ReceiveResponse(w) \/ SendResponse(w) \/ Fails(w)
      PROVE  ProxyTypes'
  BY <1>5 DEF GetRequest, ConnectFails, Connect, SendRequest, ReceiveResponse, SendResponse,
              Fails, Goes, Closed
<1> QED
  BY <1>1, <1>2, <1>3, <1>4, <1>5 DEF Next, ThreadStep, PeerStep

(* Every step keeps the balance of the buffer.                              *)
LEMMA BufInvKept ==
    ASSUME ProxyInv, Next
    PROVE  BufInv'
<1> USE DEF ProxyInv
<1>1. CASE Accept
  <2>1. PICK x \in Items : InsertCall(Main, x)
    BY <1>1, LowestFree, Proxy1Assumption DEF Accept, Opened
  <2> QED  BY <2>1, BalanceKept, Proxy1Assumption
<1>2. CASE Inserting
  BY <1>2, BalanceKept, Proxy1Assumption DEF Inserting
<1>3. ASSUME NEW w \in Workers, Removing(w) \/ Remove(w)
      PROVE  BufInv'
  BY <1>3, BalanceKept, Proxy1Assumption DEF Removing, Remove
<1>4. ASSUME NEW w \in Workers, Close(w)
      PROVE  BufInv'
  <2>1. UNCHANGED <<buf, front, rear, mutex, slots, items, at>> /\ at[w] = "out"
    BY <1>4 DEF Close, Goes
  <2>2. held' \in [Threads -> Items \cup {NoItem}]
    BY <1>4 DEF Close, BufInv, BufTypes
  <2>3. \A t \in Threads \ {w} : held'[t] = held[t]
    BY <1>4 DEF Close, BufInv, BufTypes
  <2>4. at[w] \notin InsertSteps
    BY <2>1 DEF InsertSteps
  <2> QED  BY <2>1, <2>2, <2>3, <2>4, BufInvUnused
<1>5. ASSUME NEW w \in Workers, PeerStep(w)
      PROVE  BufInv'
  <2>1. UNCHANGED sbufVars
    BY <1>5 DEF PeerStep, GetRequest, Socket, ConnectFails, Connect, SendRequest,
                ReceiveResponse, SendResponse, Fails
  <2> QED  BY <2>1, BufInvUnused DEF sbufVars, BufInv, BufTypes
<1> QED
  BY <1>1, <1>2, <1>3, <1>4, <1>5 DEF Next, ThreadStep

(* Every step keeps the roles of the threads.                               *)
LEMMA RolesKept ==
    ASSUME ProxyInv, Next
    PROVE  Roles'
<1> USE Proxy1Assumption DEF ProxyInv
<1>1. /\ at \in [Threads -> Labels] /\ held \in [Threads -> Items \cup {NoItem}]
      /\ pc \in [Workers -> {"loop", "request", "socket", "connect", "send",
                             "receive", "reply", "close"}]
  BY DEF BufInv, BufTypes, ProxyTypes
<1>2. /\ "out" \notin InsertSteps /\ "out" \notin RemoveSteps
      /\ "wait_slot" \in InsertSteps /\ "wait_item" \in RemoveSteps
      /\ "out" \notin Waiting /\ "wait_item" \in Waiting
      /\ Waiting \subseteq RemoveSteps /\ InsertSteps \cap RemoveSteps = {}
  BY DEF InsertSteps, RemoveSteps, Waiting
<1>3. CASE Accept
  <2>1. /\ \A t \in Threads \ {Main} : at'[t] = at[t] /\ held'[t] = held[t]
        /\ at'[Main] = "wait_slot" /\ pc' = pc
    BY <1>1, <1>3 DEF Accept, InsertCall, Move
  <2> QED  BY <1>2, <2>1 DEF Roles
<1>4. CASE Inserting
  <2>1. PICK to \in InsertSteps \cup {"out"} :
            /\ at' = [at EXCEPT ![Main] = to]
            /\ \A u \in Threads \ {Main} : held'[u] = held[u]
            /\ held'[Main] = IF to = "out" THEN NoItem ELSE held[Main]
    BY <1>4, InsertMoves DEF Inserting
  <2>2. pc' = pc
    BY <1>4 DEF Inserting, proxyVars
  <2> QED  BY <1>1, <1>2, <2>1, <2>2 DEF Roles
<1>5. ASSUME NEW w \in Workers, Removing(w)
      PROVE  Roles'
  <2>1. PICK to \in RemoveSteps \cup {"out"} :
            /\ at[w] \in RemoveSteps
            /\ at' = [at EXCEPT ![w] = to]
            /\ \A u \in Threads \ {w} : held'[u] = held[u]
            /\ to \in Waiting => at[w] \in Waiting /\ held'[w] = held[w]
    BY <1>5, RemoveMoves DEF Removing
  <2>2. pc' = pc /\ pc[w] = "request" /\ w # Main
    BY <1>5, <2>1 DEF Removing, proxyVars, Roles
  <2> QED  BY <1>1, <1>2, <2>1, <2>2 DEF Roles
<1>6. ASSUME NEW w \in Workers, Remove(w)
      PROVE  Roles'
  <2>1. /\ at' = [at EXCEPT ![w] = "wait_item"] /\ held' = [held EXCEPT ![w] = NoItem]
        /\ pc' = [pc EXCEPT ![w] = "request"]
    BY <1>6 DEF Remove, RemoveCall, Goes, Move
  <2> QED  BY <1>1, <1>2, <2>1 DEF Roles
<1>7. ASSUME NEW w \in Workers, Close(w)
      PROVE  Roles'
  <2>1. /\ at' = at /\ held' = [held EXCEPT ![w] = NoItem] /\ at[w] = "out"
        /\ pc' = [pc EXCEPT ![w] = "loop"]
    BY <1>7 DEF Close, Goes
  <2> QED  BY <1>1, <1>2, <2>1 DEF Roles
<1>8. ASSUME NEW w \in Workers, PeerStep(w)
      PROVE  Roles'
  <2>1. at' = at /\ held' = held /\ at[w] = "out"
    BY <1>8 DEF PeerStep, GetRequest, Socket, ConnectFails, Connect, SendRequest,
                ReceiveResponse, SendResponse, Fails, Goes, sbufVars
  <2>2. PICK to \in {"request", "socket", "connect", "send", "receive", "reply", "close"} :
            pc' = pc \/ pc' = [pc EXCEPT ![w] = to]
    BY <1>8 DEF PeerStep, GetRequest, Socket, ConnectFails, Connect, SendRequest,
                ReceiveResponse, SendResponse, Fails, Goes
  <2>3. ASSUME NEW v \in Workers
        PROVE  pc'[v] = pc[v] \/ (v = w /\ pc'[v] = to)
    <3>1. CASE pc' = pc
      BY <3>1
    <3>2. CASE pc' = [pc EXCEPT ![w] = to]
      BY <1>1, <3>2
    <3> QED  BY <2>2, <3>1, <3>2
  <2> QED  BY <1>2, <2>1, <2>3 DEF Roles
<1> QED
  BY <1>3, <1>4, <1>5, <1>6, <1>7, <1>8 DEF Next, ThreadStep

----------------------------------------------------------------------------
(* The holders of a descriptor. *)

(* There are finitely many.                                                 *)
LEMMA HoldersFinite ==
    ASSUME ProxyInv, NEW f
    PROVE  /\ IsFiniteSet(Unstored(f)) /\ Cardinality(Unstored(f)) \in Nat
           /\ IsFiniteSet(Queued(f)) /\ Cardinality(Queued(f)) \in Nat
<1>1. IsFiniteSet(Unstored(f))
  <2>1. Unstored(f) \in SUBSET Threads
    BY DEF Unstored
  <2> QED  BY <2>1, SbufAssumption, FS_Subset
<1>2. IsFiniteSet(Queued(f))
  <2>1. Queued(f) \in SUBSET (1 .. Len(Queue)) /\ Len(Queue) \in Nat
    BY QueueLength, LenProperties DEF Queued, ProxyInv
  <2>2. IsFiniteSet(1 .. Len(Queue))
    BY <2>1, FS_Interval
  <2> QED  BY <2>1, <2>2, FS_Subset
<1> QED
  BY <1>1, <1>2, FS_CardinalityType

(* What a thread holds is a client's.                                       *)
LEMMA HeldIsClient ==
    ASSUME ProxyInv, OneHolder, NEW f \in Fds, NEW t \in Unstored(f)
    PROVE  fd[f] = "client"
<1>1. Cardinality(Unstored(f)) # 0
  BY HoldersFinite, FS_EmptySet
<1>2. Cardinality(Unstored(f)) \in Nat /\ Cardinality(Queued(f)) \in Nat
  BY HoldersFinite
<1>3. Cardinality(Unstored(f)) + Cardinality(Queued(f)) = IF fd[f] = "client" THEN 1 ELSE 0
  BY DEF OneHolder
<1> QED
  BY <1>1, <1>2, <1>3

(* Every step keeps the servers' descriptors apart from all others.         *)
LEMMA ServersKept ==
    ASSUME ProxyInv, OneHolder, Next
    PROVE  Servers'
<1> USE DEF ProxyInv
<1>1. /\ fd \in [Fds -> {"free", "client", "server"}]
      /\ sfd \in [Workers -> Fds \cup {NoItem}]
      /\ pc \in [Workers -> {"loop", "request", "socket", "connect", "send",
                             "receive", "reply", "close"}]
      /\ NoItem \notin Fds
  BY SbufAssumption, Proxy1Assumption DEF ProxyTypes
<1>2. CASE Accept
  <2>1. UNCHANGED <<pc, sfd>>
    BY <1>2 DEF Accept
  <2>2. \A f \in Fds : fd[f] = "server" => fd'[f] = "server"
    BY <1>1, <1>2, LowestFree DEF Accept, Opened
  <2> QED  BY <2>1, <2>2 DEF Servers
<1>3. CASE Inserting \/ \E w \in Workers : Removing(w)
  BY <1>3 DEF Inserting, Removing, proxyVars, Servers
<1>4. ASSUME NEW w \in Workers, Remove(w)
      PROVE  Servers'
  BY <1>1, <1>4 DEF Remove, Goes, Servers
<1>5. ASSUME NEW w \in Workers, Close(w)
      PROVE  Servers'
  <2>1. /\ fd' = [fd EXCEPT ![held[w]] = "free"] /\ sfd' = sfd /\ at[w] = "out"
        /\ pc' = [pc EXCEPT ![w] = "loop"]
    BY <1>5 DEF Close, Goes, Closed
  <2>2. ASSUME held[w] \in Fds
        PROVE  fd[held[w]] = "client"
    <3>1. w \in Unstored(held[w])
      BY <2>1, Proxy1Assumption DEF Unstored
    <3> QED  BY <2>2, <3>1, HeldIsClient
  <2>3. \A f \in Fds : fd[f] = "server" => fd'[f] = "server"
    BY <1>1, <2>1, <2>2
  <2> QED  BY <1>1, <2>1, <2>3 DEF Servers
<1>6. ASSUME NEW w \in Workers, Socket(w)
      PROVE  Servers'
  <2>1. /\ fd' = [fd EXCEPT ![Lowest] = "server"] /\ sfd' = [sfd EXCEPT ![w] = Lowest]
        /\ pc' = [pc EXCEPT ![w] = "connect"] /\ Lowest \in Fds /\ fd[Lowest] = "free"
    BY <1>6, LowestFree DEF Socket, Goes, Opened
  <2>2. \A v \in Workers : sfd[v] # Lowest
    BY <1>1, <2>1 DEF Servers
  <2> QED  BY <1>1, <2>1, <2>2 DEF Servers
<1>7. ASSUME NEW w \in Workers, ConnectFails(w)
      PROVE  Servers'
  <2>1. /\ fd' = [fd EXCEPT ![sfd[w]] = "free"] /\ sfd' = [sfd EXCEPT ![w] = NoItem]
        /\ pc' = [pc EXCEPT ![w] = "socket"] /\ sfd[w] \in Fds
    BY <1>7 DEF ConnectFails, Goes, Closed, Servers
  <2> QED  BY <1>1, <2>1 DEF Servers
<1>8. ASSUME NEW w \in Workers, SendResponse(w)
      PROVE  Servers'
  BY <1>1, <1>8 DEF SendResponse, Goes, Servers
<1>9. ASSUME NEW w \in Workers,
             GetRequest(w) \/ Connect(w) \/ SendRequest(w) \/ ReceiveResponse(w) \/ Fails(w)
      PROVE  Servers'
  <2>1. UNCHANGED <<fd, sfd>> /\ \A v \in Workers : pc'[v] = "connect" => pc[v] = "connect"
    BY <1>1, <1>9 DEF GetRequest, Connect, SendRequest, ReceiveResponse, Fails, Goes
  <2> QED  BY <2>1 DEF Servers
<1> QED
  BY <1>2, <1>3, <1>4, <1>5, <1>6, <1>7, <1>8, <1>9 DEF Next, ThreadStep, PeerStep

(* A step after which the same threads hold a descriptor, the queue is what *)
(* it was, and a client is a client, changes nothing about it.              *)
LEMMA HoldersKept ==
    ASSUME ProxyInv, NEW f \in Fds, Unstored(f)' = Unstored(f), Queue' = Queue,
           fd'[f] = "client" <=> fd[f] = "client", OneHolder
    PROVE  Cardinality(Unstored(f))' + Cardinality(Queued(f))' = IF fd'[f] = "client" THEN 1 ELSE 0
<1>1. Queued(f)' = Queued(f)
  BY DEF Queued
<1> QED
  BY <1>1 DEF OneHolder

(* An item that is put into the buffer is there once more.                  *)
LEMMA QueuedMore ==
    ASSUME ProxyInv, NEW f, NEW x \in Items, Queue' = Append(Queue, x)
    PROVE  Cardinality(Queued(f))' = Cardinality(Queued(f)) + (IF x = f THEN 1 ELSE 0)
<1> DEFINE n == Len(Queue)
<1>1. Queue \in Seq(Items \cup {NoItem}) /\ n \in Nat
  BY QueueLength, LenProperties DEF ProxyInv
<1>2. /\ DOMAIN Queue = 1 .. n /\ DOMAIN Queue' = 1 .. n + 1
      /\ \A i \in 1 .. n : Queue'[i] = Queue[i]
      /\ Queue'[n + 1] = x
  BY <1>1
<1> HIDE DEF n
<1>3. CASE x = f
  <2>1. Queued(f)' = Queued(f) \cup {n + 1} /\ n + 1 \notin Queued(f)
    BY <1>1, <1>2, <1>3 DEF Queued
  <2> QED  BY <1>3, <2>1, HoldersFinite, FS_AddElement
<1>4. CASE x # f
  <2>1. Queued(f)' = Queued(f)
    BY <1>1, <1>2, <1>4 DEF Queued
  <2>2. Cardinality(Queued(f)) \in Nat
    BY HoldersFinite
  <2> QED  BY <1>4, <2>1, <2>2
<1> QED
  BY <1>3, <1>4

(* An item that is taken out of the buffer is there once less.              *)
LEMMA QueuedLess ==
    ASSUME ProxyInv, NEW f, Queue # <<>>, Queue' = Tail(Queue)
    PROVE  /\ Cardinality(Queued(f))' \in Nat
           /\ Cardinality(Queued(f)) =
                  Cardinality(Queued(f))' + (IF Head(Queue) = f THEN 1 ELSE 0)
<1> DEFINE n == Len(Queue)
           Behind == Queued(f) \ {1}
           g == [i \in Behind |-> i - 1]
<1>1. Queue \in Seq(Items \cup {NoItem}) /\ n \in Nat /\ n >= 1
  BY QueueLength, LenProperties, EmptySeq DEF ProxyInv
<1>2. /\ Len(Queue') = n - 1 /\ Queue' \in Seq(Items \cup {NoItem})
      /\ \A i \in 1 .. n - 1 : Queue'[i] = Queue[i + 1]
  BY <1>1, HeadTailProperties
<1>3. DOMAIN Queue = 1 .. n /\ DOMAIN Queue' = 1 .. n - 1 /\ Head(Queue) = Queue[1]
  BY <1>1, <1>2, LenProperties
<1> HIDE DEF n
<1>4. g \in Bijection(Behind, Queued(f)')
  <2>1. \A i \in Behind : i \in 1 .. n /\ i # 1 /\ Queue[i] = f
    BY <1>3 DEF Queued
  <2>2. \A i \in Behind : i - 1 \in Queued(f)'
    BY <1>1, <1>2, <1>3, <2>1 DEF Queued
  <2>3. \A j \in Queued(f)' : j \in 1 .. n - 1 /\ Queue[j + 1] = f
    BY <1>2, <1>3 DEF Queued
  <2>4. \A j \in Queued(f)' : j + 1 \in Behind /\ g[j + 1] = j
    <3>1. \A j \in Queued(f)' : j + 1 \in Behind /\ (j + 1) - 1 = j
      BY <1>1, <1>3, <2>3 DEF Queued
    <3> QED  BY <3>1
  <2>5. \A i, k \in Behind : g[i] = g[k] => i = k
    BY <2>1
  <2> HIDE DEF Behind
  <2> QED  BY <2>2, <2>4, <2>5 DEF Bijection, Injection, Surjection, IsInjective
<1>5. IsFiniteSet(Behind) /\ Cardinality(Behind) =
          IF 1 \in Queued(f) THEN Cardinality(Queued(f)) - 1 ELSE Cardinality(Queued(f))
  BY HoldersFinite, FS_RemoveElement
<1>6. Cardinality(Queued(f))' = Cardinality(Behind)
  BY <1>4, <1>5, FS_Bijection DEF ExistsBijection
<1>7. 1 \in Queued(f) <=> Head(Queue) = f
  BY <1>1, <1>3 DEF Queued
<1>8. Cardinality(Behind) \in Nat /\ Cardinality(Queued(f)) \in Nat
  BY <1>5, HoldersFinite, FS_CardinalityType
<1> HIDE DEF Behind
<1> QED
  BY <1>5, <1>6, <1>7, <1>8

(* Every step keeps one holder, or one place in the buffer, of each client. *)
LEMMA OneHolderKept ==
    ASSUME ProxyInv, OneHolder, Next
    PROVE  OneHolder'
<1> USE Proxy1Assumption
<1> SUFFICES ASSUME NEW f \in Fds
             PROVE  Cardinality(Unstored(f))' + Cardinality(Queued(f))' =
                        IF fd'[f] = "client" THEN 1 ELSE 0
  BY DEF OneHolder
<1>1. /\ at \in [Threads -> Labels] /\ held \in [Threads -> Items \cup {NoItem}]
      /\ fd \in [Fds -> {"free", "client", "server"}]
  BY DEF ProxyInv, BufInv, BufTypes, ProxyTypes
<1>2. f # NoItem /\ f # Failed
  BY SbufAssumption
<1>3. /\ Cardinality(Unstored(f)) \in Nat /\ Cardinality(Queued(f)) \in Nat
      /\ IsFiniteSet(Unstored(f))
      /\ Cardinality(Unstored(f)) + Cardinality(Queued(f)) = IF fd[f] = "client" THEN 1 ELSE 0
  BY HoldersFinite DEF OneHolder
<1>4. BufInv
  BY DEF ProxyInv
<1>5. CASE Accept
  <2>1. PICK x \in Items :
            /\ InsertCall(Main, x)
            /\ IF x \in Fds THEN fd[x] = "free" /\ fd' = [fd EXCEPT ![x] = "client"]
                            ELSE fd' = fd
    BY <1>5, LowestFree DEF Accept, Opened
  <2>2. Queue' = Queue
    BY <1>4, <2>1, CallsStutter
  <2>3. Queued(f)' = Queued(f)
    BY <2>2 DEF Queued
  <2>4. /\ at[Main] = "out" /\ at' = [at EXCEPT ![Main] = "wait_slot"]
        /\ held[Main] = NoItem /\ held' = [held EXCEPT ![Main] = x]
    BY <2>1 DEF InsertCall, Move, ProxyInv, Roles
  <2>5. CASE x = f
    <3>1. Unstored(f)' = Unstored(f) \cup {Main} /\ Main \notin Unstored(f)
      BY <1>1, <1>2, <2>4, <2>5 DEF Unstored
    <3>2. Cardinality(Unstored(f))' = Cardinality(Unstored(f)) + 1
      BY <1>3, <3>1, FS_AddElement
    <3>3. fd[f] = "free" /\ fd'[f] = "client"
      BY <1>1, <2>1, <2>5
    <3> QED  BY <1>3, <2>3, <3>2, <3>3
  <2>6. CASE x # f
    <3>1. Unstored(f)' = Unstored(f)
      BY <1>1, <1>2, <2>4, <2>6 DEF Unstored
    <3>2. fd'[f] = fd[f]
      BY <1>1, <2>1, <2>6
    <3> QED  BY <2>2, <3>1, <3>2, HoldersKept
  <2> QED  BY <2>5, <2>6
<1>6. CASE Inserting /\ Store(Main)
  <2>1. Queue' = Append(Queue, held[Main]) /\ held[Main] \in Items
    BY <1>4, <1>6, StorePuts DEF Promise!Put
  <2>2. Cardinality(Queued(f))' = Cardinality(Queued(f)) + (IF held[Main] = f THEN 1 ELSE 0)
    BY <2>1, QueuedMore
  <2>3. /\ at[Main] = "store" /\ at' = [at EXCEPT ![Main] = "unlock_ins"]
        /\ held' = held /\ fd' = fd
    BY <1>6 DEF Inserting, proxyVars, Store, Move
  <2>4. CASE held[Main] = f
    <3>1. Unstored(f)' = Unstored(f) \ {Main} /\ Main \in Unstored(f)
      BY <1>1, <2>3, <2>4 DEF Unstored
    <3>2. Cardinality(Unstored(f))' = Cardinality(Unstored(f)) - 1
      BY <1>3, <3>1, FS_RemoveElement
    <3> QED  BY <1>3, <2>2, <2>3, <2>4, <3>2
  <2>5. CASE held[Main] # f
    <3>1. Unstored(f)' = Unstored(f)
      BY <1>1, <2>3, <2>5 DEF Unstored
    <3> QED  BY <1>3, <2>2, <2>3, <2>5, <3>1
  <2> QED  BY <2>4, <2>5
<1>7. CASE Inserting /\ ~ Store(Main)
  <2>1. Queue' = Queue /\ fd' = fd
    BY <1>4, <1>7, OthersStutter DEF Inserting, proxyVars, sbuf_insert
  <2>2. PICK to \in InsertSteps \cup {"out"} :
            /\ at[Main] \in InsertSteps
            /\ at' = [at EXCEPT ![Main] = to]
            /\ \A u \in Threads \ {Main} : held'[u] = held[u]
            /\ held'[Main] = IF to = "out" THEN NoItem ELSE held[Main]
    BY <1>4, <1>7, InsertMoves DEF Inserting
  <2>3. /\ to = "out" => at[Main] = "post_item"
        /\ at[Main] \in {"unlock_ins", "post_item"} => to \in {"out", "post_item"}
        /\ to \in {"unlock_ins", "post_item"} => at[Main] \in {"unlock_ins", "post_item"}
    BY <1>1, <1>7, <2>2 DEF Inserting, sbuf_insert, WaitSlot, Lock, BumpRear, Unlock, PostItem,
                            Move, InsertSteps
  <2>4. Main \in Unstored(f)' <=> Main \in Unstored(f)
    BY <1>1, <1>2, <2>2, <2>3 DEF Unstored
  <2>5. Unstored(f)' = Unstored(f)
    BY <1>1, <2>2, <2>4 DEF Unstored
  <2> QED  BY <2>1, <2>5, HoldersKept
<1>8. ASSUME NEW w \in Workers, Removing(w), Load(w)
      PROVE  Cardinality(Unstored(f))' + Cardinality(Queued(f))' =
                 IF fd'[f] = "client" THEN 1 ELSE 0
  <2>1. /\ Queue # <<>> /\ Queue' = Tail(Queue)
        /\ Result[w] = NoItem /\ Result' = [Result EXCEPT ![w] = Head(Queue)]
    BY <1>4, <1>8, LoadTakes DEF Promise!Take
  <2>2. /\ Cardinality(Queued(f))' \in Nat
        /\ Cardinality(Queued(f)) = Cardinality(Queued(f))' + (IF Head(Queue) = f THEN 1 ELSE 0)
    BY <2>1, QueuedLess
  <2>3. /\ at[w] = "load" /\ at' = [at EXCEPT ![w] = "unlock_rem"]
        /\ fd' = fd /\ held[w] = NoItem
        /\ \A u \in Threads \ {w} : held'[u] = held[u]
    BY <1>1, <1>8 DEF Removing, proxyVars, Load, Move, ProxyInv, Roles, Waiting
  <2>4. held'[w] = Head(Queue)
    <3>1. Result'[w] = held'[w]
      BY <1>1, <2>3 DEF Result
    <3>2. Result'[w] = Head(Queue)
      BY <2>1 DEF Result
    <3> QED  BY <3>1, <3>2
  <2>5. CASE Head(Queue) = f
    <3>1. Unstored(f)' = Unstored(f) \cup {w} /\ w \notin Unstored(f)
      BY <1>1, <1>2, <2>3, <2>4, <2>5 DEF Unstored
    <3>2. Cardinality(Unstored(f))' = Cardinality(Unstored(f)) + 1
      BY <1>3, <3>1, FS_AddElement
    <3>3. Cardinality(Queued(f))' = Cardinality(Queued(f)) - 1
      BY <1>3, <2>2, <2>5
    <3> QED  BY <1>3, <2>3, <3>2, <3>3
  <2>6. CASE Head(Queue) # f
    <3>1. Unstored(f)' = Unstored(f)
      BY <1>1, <1>2, <2>3, <2>4, <2>6 DEF Unstored
    <3> QED  BY <1>3, <2>2, <2>3, <2>6, <3>1
  <2> QED  BY <2>5, <2>6
<1>9. ASSUME NEW w \in Workers, Removing(w), ~ Load(w)
      PROVE  Cardinality(Unstored(f))' + Cardinality(Queued(f))' =
                 IF fd'[f] = "client" THEN 1 ELSE 0
  <2>1. fd' = fd /\ sbuf_remove(w)
    BY <1>9 DEF Removing, proxyVars
  <2>2. Queue' = Queue
    BY <1>4, <1>9, <2>1, OthersStutter, PostSlotReturns DEF sbuf_remove, Promise!Return
  <2>3. PICK to \in RemoveSteps \cup {"out"} :
            /\ at[w] \in RemoveSteps
            /\ at' = [at EXCEPT ![w] = to]
            /\ \A u \in Threads \ {w} : held'[u] = held[u]
            /\ held'[w] = held[w]
    BY <1>4, <1>9, <2>1, RemoveMoves
  <2>4. {to, at[w]} \cap {"unlock_ins", "post_item"} = {}
    BY <2>3 DEF RemoveSteps
  <2>5. Unstored(f)' = Unstored(f)
    BY <1>1, <2>3, <2>4 DEF Unstored
  <2> QED  BY <2>1, <2>2, <2>5, HoldersKept
<1>10. ASSUME NEW w \in Workers, Remove(w)
       PROVE  Cardinality(Unstored(f))' + Cardinality(Queued(f))' =
                  IF fd'[f] = "client" THEN 1 ELSE 0
  <2>1. Queue' = Queue
    BY <1>4, <1>10, CallsStutter DEF Remove
  <2>2. /\ at[w] = "out" /\ at' = [at EXCEPT ![w] = "wait_item"] /\ fd' = fd
        /\ held[w] = NoItem /\ held' = [held EXCEPT ![w] = NoItem]
    BY <1>10 DEF Remove, RemoveCall, Goes, Move, ProxyInv, Roles
  <2>3. Unstored(f)' = Unstored(f)
    BY <1>1, <2>2 DEF Unstored
  <2> QED  BY <2>1, <2>2, <2>3, HoldersKept
<1>11. ASSUME NEW w \in Workers, Close(w)
       PROVE  Cardinality(Unstored(f))' + Cardinality(Queued(f))' =
                  IF fd'[f] = "client" THEN 1 ELSE 0
  <2>1. /\ at[w] = "out" /\ UNCHANGED <<buf, front, rear, at>>
        /\ held' = [held EXCEPT ![w] = NoItem] /\ fd' = [fd EXCEPT ![held[w]] = "free"]
    BY <1>11 DEF Close, Goes, Closed
  <2>2. Queue' = Queue
    BY <2>1 DEF Queue, Oldest, Newest, In
  <2>3. CASE held[w] = f
    <3>1. Unstored(f)' = Unstored(f) \ {w} /\ w \in Unstored(f)
      BY <1>1, <1>2, <2>1, <2>3 DEF Unstored
    <3>2. Cardinality(Unstored(f))' = Cardinality(Unstored(f)) - 1
      BY <1>3, <3>1, FS_RemoveElement
    <3>3. fd[f] = "client" /\ fd'[f] = "free"
      BY <1>1, <2>1, <2>3, <3>1, HeldIsClient
    <3>4. Queued(f)' = Queued(f)
      BY <2>2 DEF Queued
    <3> QED  BY <1>3, <3>2, <3>3, <3>4
  <2>4. CASE held[w] # f
    <3>1. Unstored(f)' = Unstored(f)
      BY <1>1, <1>2, <2>1, <2>4 DEF Unstored
    <3>2. fd'[f] = fd[f]
      BY <1>1, <2>1, <2>4
    <3> QED  BY <2>2, <3>1, <3>2, HoldersKept
  <2> QED  BY <2>3, <2>4
<1>12. ASSUME NEW w \in Workers, PeerStep(w)
       PROVE  Cardinality(Unstored(f))' + Cardinality(Queued(f))' =
                  IF fd'[f] = "client" THEN 1 ELSE 0
  <2>1. UNCHANGED sbufVars
    BY <1>12 DEF PeerStep, GetRequest, Socket, ConnectFails, Connect, SendRequest,
                 ReceiveResponse, SendResponse, Fails
  <2>2. Queue' = Queue /\ Unstored(f)' = Unstored(f)
    BY <2>1 DEF sbufVars, Queue, Oldest, Newest, In, Unstored
  <2>3. fd'[f] = "client" <=> fd[f] = "client"
    <3>1. CASE Socket(w)
      BY <1>1, <3>1, LowestFree DEF Socket, Opened
    <3>2. CASE ConnectFails(w)
      <4>1. fd' = [fd EXCEPT ![sfd[w]] = "free"] /\ sfd[w] \in Fds /\ fd[sfd[w]] = "server"
        BY <3>2 DEF ConnectFails, Goes, Closed, ProxyInv, Servers
      <4> QED  BY <1>1, <4>1
    <3>3. CASE ~ Socket(w) /\ ~ ConnectFails(w)
      BY <1>12, <3>3 DEF PeerStep, GetRequest, Connect, SendRequest, ReceiveResponse,
                         SendResponse, Fails
    <3> QED  BY <3>1, <3>2, <3>3
  <2> QED  BY <2>2, <2>3, HoldersKept
<1> QED
  BY <1>5, <1>6, <1>7, <1>8, <1>9, <1>10, <1>11, <1>12 DEF Next, ThreadStep

----------------------------------------------------------------------------
(* The theorems. *)

(* The invariant holds at the start ...                                     *)
LEMMA InvInit ==
    ASSUME Init
    PROVE  Inv
<1>1. ProxyInv
  BY ProxyInit
<1>2. ASSUME NEW f \in Fds
      PROVE  Unstored(f) = {} /\ Queued(f) = {} /\ fd[f] = "free"
  <2>1. f # NoItem
    BY SbufAssumption, Proxy1Assumption
  <2>2. Queue = <<>>
    BY InitImplements DEF Init, Promise!Init
  <2> QED  BY <2>1, <2>2 DEF Init, sbuf_init, Unstored, Queued
<1>3. OneHolder
  BY <1>2, FS_EmptySet DEF OneHolder
<1> QED
  BY <1>1, <1>3 DEF Inv

(* ... and every step keeps it.                                             *)
LEMMA InvKept ==
    ASSUME Inv, [Next]_vars
    PROVE  Inv'
<1>1. CASE Next
  BY <1>1, BufInvKept, ProxyTypesKept, RolesKept, ServersKept, OneHolderKept DEF Inv, ProxyInv
<1>2. CASE UNCHANGED vars
  <2>1. BufInv'
    BY <1>2, BufInvUnused DEF vars, sbufVars, Inv, ProxyInv, BufInv, BufTypes
  <2>2. ProxyTypes' /\ Roles' /\ Servers'
    BY <1>2 DEF vars, sbufVars, proxyVars, Inv, ProxyInv, ProxyTypes, Roles, Servers
  <2>3. OneHolder'
    BY <1>2 DEF vars, sbufVars, proxyVars, Inv, OneHolder, Unstored, Queued, Queue, Oldest, Newest, In
  <2> QED  BY <2>1, <2>2, <2>3 DEF Inv, ProxyInv
<1> QED
  BY <1>1, <1>2

(* So it holds always, and with it everything that follows from it.         *)
THEOREM Invariance == Spec => []Inv
<1>1. Init => Inv
  BY InvInit
<1>2. Inv /\ [Next]_vars => Inv'
  BY InvKept
<1> QED
  BY <1>1, <1>2, PTL DEF Spec

(* Every variable of the proxy and of its buffer keeps its type: the        *)
(* semaphores of sbuf.c never exceed their capacity.                        *)
THEOREM TypeCorrect == Spec => []TypeOK
<1>1. Inv => TypeOK
  BY BalanceBounds DEF Inv, ProxyInv, ProxyTypes, TypeOK
<1> QED
  BY <1>1, Invariance, PTL

(* Each connection's descriptor is in one place at a time: with the         *)
(* accepting thread, in the buffer, or with one worker.                     *)
THEOREM OneHolderSafe == Spec => []OneHolder
<1>1. Inv => OneHolder
  BY DEF Inv
<1> QED
  BY <1>1, Invariance, PTL

(* Whatever the interleaving of the threads, sbuf.c is the first-in         *)
(* first-out buffer of N slots that Fifo promises.                          *)
THEOREM FifoImplemented == Spec => ImplementsFifo
<1>1. Init => Promise!Init
  BY InitImplements DEF Init
<1>2. Inv /\ [Next]_vars => [Promise!Next]_<<Queue, Result>>
  <2> SUFFICES ASSUME Inv, [Next]_vars
               PROVE  Promise!Next \/ UNCHANGED <<Queue, Result>>
    OBVIOUS
  <2> USE Proxy1Assumption
  <2>1. BufInv
    BY DEF Inv, ProxyInv
  <2>2. CASE Accept
    <3>1. PICK x \in Items : InsertCall(Main, x)
      BY <2>2, LowestFree DEF Accept, Opened
    <3> QED  BY <2>1, <3>1, CallsStutter
  <2>3. CASE Inserting
    BY <2>1, <2>3, StepImplements DEF Inserting
  <2>4. ASSUME NEW w \in Workers, Removing(w)
        PROVE  Promise!Next \/ UNCHANGED <<Queue, Result>>
    BY <2>1, <2>4, StepImplements DEF Removing
  <2>5. ASSUME NEW w \in Workers, Remove(w)
        PROVE  UNCHANGED <<Queue, Result>>
    BY <2>1, <2>5, CallsStutter DEF Remove
  <2>6. ASSUME NEW w \in Workers, Close(w)
        PROVE  UNCHANGED <<Queue, Result>>
    <3>1. /\ UNCHANGED <<buf, front, rear, at>> /\ at[w] = "out"
          /\ \A u \in Threads \ {w} : held'[u] = held[u]
      BY <2>1, <2>6 DEF Close, Goes, BufInv, BufTypes
    <3>2. Queue' = Queue
      BY <3>1 DEF Queue, Oldest, Newest, In
    <3>3. Result' = Result
      BY <3>1 DEF Result
    <3> QED  BY <3>2, <3>3
  <2>7. CASE UNCHANGED sbufVars
    BY <2>7 DEF sbufVars, Queue, Oldest, Newest, In, Result
  <2>8. ASSUME NEW w \in Workers, PeerStep(w)
        PROVE  UNCHANGED sbufVars
    BY <2>8 DEF PeerStep, GetRequest, Socket, ConnectFails, Connect, SendRequest,
                ReceiveResponse, SendResponse, Fails
  <2>9. UNCHANGED vars => UNCHANGED sbufVars
    BY DEF vars
  <2> QED
    BY <2>2, <2>3, <2>4, <2>5, <2>6, <2>7, <2>8, <2>9 DEF Next, ThreadStep
<1> QED
  BY <1>1, <1>2, Invariance, PTL DEF Spec, ImplementsFifo, Promise!Spec
=============================================================================
