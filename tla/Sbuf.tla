-------------------------------- MODULE Sbuf --------------------------------
(***************************************************************************)
(* The bounded buffer of sbuf.c (proxy-lab1 and hw6-concurrency have the   *)
(* same file), which hands connections from the accepting thread to the    *)
(* workers.  Every sem_wait, sem_post, increment of an index and access to *)
(* the array is a step, and the steps of the threads interleave.  A thread *)
(* is "out" when it is in neither sbuf_insert nor sbuf_remove.             *)
(***************************************************************************)
EXTENDS Integers, Sequences, FiniteSets

CONSTANTS
    Threads,
    Items,     \* what is passed: descriptors, and accept's -1
    NoItem,    \* no item in hand
    N          \* SBUFSIZE

ASSUME SbufAssumption ==
    /\ IsFiniteSet(Threads)
    /\ N \in Nat \ {0}
    /\ NoItem \notin Items

VARIABLES
    buf, front, rear,      \* sbuf_t: the array and its two indices
    mutex, slots, items,   \* sbuf_t: the counts of its three semaphores
    at,                    \* where each thread is in sbuf_insert or sbuf_remove
    held                   \* the item each thread inserts or has removed

sbufVars == <<buf, front, rear, mutex, slots, items, at, held>>

InsertSteps == {"wait_slot", "lock_ins", "bump_rear", "store", "unlock_ins", "post_item"}
RemoveSteps == {"wait_item", "lock_rem", "bump_front", "load", "unlock_rem", "post_slot"}

SbufTypeOK ==
    /\ buf \in [0 .. N - 1 -> Items \cup {NoItem}]
    /\ front \in Nat /\ rear \in Nat
    /\ mutex \in {0, 1} /\ slots \in 0 .. N /\ items \in 0 .. N
    /\ at \in [Threads -> {"out"} \cup InsertSteps \cup RemoveSteps]
    /\ held \in [Threads -> Items \cup {NoItem}]

sbuf_init ==
    /\ buf = [i \in 0 .. N - 1 |-> NoItem]
    /\ front = 0 /\ rear = 0
    /\ mutex = 1 /\ slots = N /\ items = 0
    /\ at = [t \in Threads |-> "out"]
    /\ held = [t \in Threads |-> NoItem]

----------------------------------------------------------------------------
Move(t, from, to) == at[t] = from /\ at' = [at EXCEPT ![t] = to]

InsertCall(t, x) ==
    /\ Move(t, "out", "wait_slot")
    /\ held' = [held EXCEPT ![t] = x]
    /\ UNCHANGED <<buf, front, rear, mutex, slots, items>>

RemoveCall(t) ==
    /\ Move(t, "out", "wait_item")
    /\ held' = [held EXCEPT ![t] = NoItem]
    /\ UNCHANGED <<buf, front, rear, mutex, slots, items>>

WaitSlot(t) ==
    /\ Move(t, "wait_slot", "lock_ins")
    /\ slots > 0 /\ slots' = slots - 1
    /\ UNCHANGED <<buf, front, rear, mutex, items, held>>

\* Mutant: the slot is not waited for.
WaitItem_Free(t) ==
    /\ Move(t, "wait_item", "lock_rem")
    /\ UNCHANGED <<buf, front, rear, mutex, slots, items, held>>

WaitItem(t) ==
    /\ Move(t, "wait_item", "lock_rem")
    /\ items > 0 /\ items' = items - 1
    /\ UNCHANGED <<buf, front, rear, mutex, slots, held>>

\* Mutant: the buffer is not locked.
Lock_Not(t, from, to) ==
    /\ Move(t, from, to)
    /\ UNCHANGED <<buf, front, rear, mutex, slots, items, held>>

Lock(t, from, to) ==
    /\ Move(t, from, to)
    /\ mutex > 0 /\ mutex' = mutex - 1
    /\ UNCHANGED <<buf, front, rear, slots, items, held>>

BumpRear(t) ==
    /\ Move(t, "bump_rear", "store")
    /\ rear' = rear + 1
    /\ UNCHANGED <<buf, front, mutex, slots, items, held>>

Store(t) ==
    /\ Move(t, "store", "unlock_ins")
    /\ buf' = [buf EXCEPT ![rear % N] = held[t]]
    /\ UNCHANGED <<front, rear, mutex, slots, items, held>>

BumpFront(t) ==
    /\ Move(t, "bump_front", "load")
    /\ front' = front + 1
    /\ UNCHANGED <<buf, rear, mutex, slots, items, held>>

Load(t) ==
    /\ Move(t, "load", "unlock_rem")
    /\ held' = [held EXCEPT ![t] = buf[front % N]]
    /\ UNCHANGED <<buf, front, rear, mutex, slots, items>>

Unlock(t, from, to) ==
    /\ Move(t, from, to)
    /\ mutex' = mutex + 1
    /\ UNCHANGED <<buf, front, rear, slots, items, held>>

\* Mutant: the inserted item is not announced.
PostItem_Not(t) ==
    /\ Move(t, "post_item", "out")
    /\ held' = [held EXCEPT ![t] = NoItem]
    /\ UNCHANGED <<buf, front, rear, mutex, slots, items>>

PostItem(t) ==
    /\ Move(t, "post_item", "out")
    /\ items' = items + 1
    /\ held' = [held EXCEPT ![t] = NoItem]
    /\ UNCHANGED <<buf, front, rear, mutex, slots>>

PostSlot(t) ==
    /\ Move(t, "post_slot", "out")
    /\ slots' = slots + 1
    /\ UNCHANGED <<buf, front, rear, mutex, items, held>>

sbuf_insert(t) ==
    \/ WaitSlot(t)
    \/ Lock(t, "lock_ins", "bump_rear")
    \/ BumpRear(t) \/ Store(t)
    \/ Unlock(t, "unlock_ins", "post_item")
    \/ PostItem(t)

sbuf_remove(t) ==
    \/ WaitItem(t)
    \/ Lock(t, "lock_rem", "bump_front")
    \/ BumpFront(t) \/ Load(t)
    \/ Unlock(t, "unlock_rem", "post_slot")
    \/ PostSlot(t)

----------------------------------------------------------------------------
(* Who is where. *)

In(labels) == {t \in Threads : at[t] \in labels}

(* The items in the buffer, oldest first.  Between the increment of rear    *)
(* and the store the newest is not in yet, and between the increment of     *)
(* front and the load the oldest is not out yet.                            *)
Oldest == IF In({"load"}) = {} THEN front + 1 ELSE front
Newest == IF In({"store"}) = {} THEN rear ELSE rear - 1
Queue  == [i \in 1 .. Newest - Oldest + 1 |-> buf[(Oldest + i - 1) % N]]


\* What a thread has removed and sbuf_remove has not returned yet.
Result == [t \in Threads |-> IF at[t] \in {"unlock_rem", "post_slot"} THEN held[t] ELSE NoItem]

Promise == INSTANCE Fifo WITH q <- Queue, result <- Result

(* Whatever the interleaving, sbuf_insert and sbuf_remove put and take at   *)
(* one instant each: the oldest item, which only one thread gets, and never *)
(* more than N are inside.                                                  *)
ImplementsFifo == Promise!Spec
=============================================================================
