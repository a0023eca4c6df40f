----------------------------- MODULE Mandelbrot -----------------------------
(***************************************************************************)
(* The parallel loop of mandelbrot.c (hw7-openmp): the rows are divided    *)
(* among the threads, i and j and what the inner block declares are        *)
(* private, but the point x, y, the iteration counter k and the offset are *)
(* shared by all.  A point is its column and row; the iterated value is    *)
(* abstracted to whether it has escaped, which is determined by the point  *)
(* as long as the thread has seen no other, and otherwise may be anything. *)
(* Every read of k is a step; the memcpy of a pixel is one.                *)
(***************************************************************************)
EXTENDS Integers, Sequences, FiniteSetsExt

CONSTANTS
    Jobs,           \* what to run: [nthreads, xres, yres]
    MaxIter,
    Escape(_, _)    \* the iterations after which column i of row j escapes

VARIABLES
    job,            \* one of them
    x, y, k, offset,    \* shared
    at, i, j,           \* each thread, and its counters
    todo,               \* the rows it still has to do
    iterated,           \* iterations of u and v
    mixed,              \* these have seen another point's x or y
    loaded,             \* the k it increments
    colour,             \* the bytes it has of its pixel
    pixels              \* the picture: the bytes of each pixel, << >> if not set

shared == <<x, y, k, offset>>
private == <<at, i, j, todo, iterated, mixed, loaded, colour>>
vars == <<job, shared, private, pixels>>

Threads == 1 .. Max({r.nthreads : r \in Jobs})
Rows == 0 .. job.yres - 1
Size == job.xres * job.yres

\* The static schedule of omp: consecutive rows, as many for each as possible.
Share(t) ==
    LET chunk == (job.yres + job.nthreads - 1) \div job.nthreads
    IN  {row \in Rows : row \div chunk = t - 1}

TypeOK ==
    /\ job \in Jobs
    /\ x \in 0 .. job.xres - 1 /\ y \in Rows /\ k \in Nat /\ offset \in 0 .. Size - 1
    /\ at \in [Threads -> {"row", "point", "start", "test", "body", "load", "store", "offset",
                           "compare", "colour", "write", "done"}]

Init ==
    /\ job \in Jobs
    /\ x = 0 /\ y = 0 /\ k = 1 /\ offset = 0
    /\ at = [t \in Threads |-> IF t <= job.nthreads THEN "row" ELSE "done"]
    /\ i = [t \in Threads |-> 0] /\ j = [t \in Threads |-> 0]
    /\ todo = [t \in Threads |-> Share(t)]
    /\ iterated = [t \in Threads |-> 0] /\ mixed = [t \in Threads |-> FALSE]
    /\ loaded = [t \in Threads |-> 0] /\ colour = [t \in Threads |-> << >>]
    /\ pixels = [p \in 0 .. Size - 1 |-> << >>]

Goes(t, next) == at' = [at EXCEPT ![t] = next]

\* y = ymax - j * dy
Row(t) ==
    /\ at[t] = "row" /\ todo[t] # {}
    /\ j' = [j EXCEPT ![t] = Min(todo[t])] /\ todo' = [todo EXCEPT ![t] = @ \ {Min(@)}]
    /\ i' = [i EXCEPT ![t] = 0] /\ y' = Min(todo[t]) /\ Goes(t, "point")
    /\ UNCHANGED <<job, x, k, offset, iterated, mixed, loaded, colour, pixels>>

RowsDone(t) ==
    /\ at[t] = "row" /\ todo[t] = {} /\ Goes(t, "done")
    /\ UNCHANGED <<job, shared, i, j, todo, iterated, mixed, loaded, colour, pixels>>

\* u = v = 0 and x = xmin + i * dx
Point(t) ==
    /\ at[t] = "point" /\ x' = i[t] /\ Goes(t, "start")
    /\ iterated' = [iterated EXCEPT ![t] = 0] /\ mixed' = [mixed EXCEPT ![t] = FALSE]
    /\ UNCHANGED <<job, y, k, offset, i, j, todo, loaded, colour, pixels>>

\* Mutant: k keeps the count of the point before.
Start_Not(t) ==
    /\ at[t] = "start" /\ Goes(t, "test")
    /\ UNCHANGED <<job, shared, i, j, todo, iterated, mixed, loaded, colour, pixels>>

Start(t) ==
    /\ at[t] = "start" /\ k' = 1 /\ Goes(t, "test")
    /\ UNCHANGED <<job, x, y, offset, i, j, todo, iterated, mixed, loaded, colour, pixels>>

Escaped(t) == {iterated[t] >= Escape(i[t], j[t])} \cup (IF mixed[t] THEN BOOLEAN ELSE {})
Test(t) ==
    /\ at[t] = "test"
    /\ \E escaped \in Escaped(t) : Goes(t, IF k < MaxIter /\ ~ escaped THEN "body" ELSE "offset")
    /\ UNCHANGED <<job, shared, i, j, todo, iterated, mixed, loaded, colour, pixels>>

Body(t) ==
    /\ at[t] = "body" /\ Goes(t, "load")
    /\ iterated' = [iterated EXCEPT ![t] = Min({@ + 1, MaxIter})]
    /\ mixed' = [mixed EXCEPT ![t] = @ \/ x # i[t] \/ y # j[t]]
    /\ UNCHANGED <<job, shared, i, j, todo, loaded, colour, pixels>>

\* k++
Load(t) ==
    /\ at[t] = "load" /\ loaded' = [loaded EXCEPT ![t] = k] /\ Goes(t, "store")
    /\ UNCHANGED <<job, shared, i, j, todo, iterated, mixed, colour, pixels>>
Store(t) ==
    /\ at[t] = "store" /\ k' = loaded[t] + 1 /\ Goes(t, "test")
    /\ loaded' = [loaded EXCEPT ![t] = 0]
    /\ UNCHANGED <<job, x, y, offset, i, j, todo, iterated, mixed, colour, pixels>>

\* Mutant: the offset counts from one.
Offset_One(t) ==
    /\ at[t] = "offset" /\ Goes(t, "compare")
    /\ offset' = j[t] * job.xres + i[t] + 1
    /\ UNCHANGED <<job, x, y, k, i, j, todo, iterated, mixed, loaded, colour, pixels>>

Offset(t) ==
    /\ at[t] = "offset" /\ Goes(t, "compare")
    /\ offset' = j[t] * job.xres + i[t]
    /\ UNCHANGED <<job, x, y, k, i, j, todo, iterated, mixed, loaded, colour, pixels>>

\* Black at or above maxiter; below it six bytes, each of a k read for it.
Black == [b \in 1 .. 6 |-> 0]
Compare(t) ==
    /\ at[t] = "compare" /\ Goes(t, IF k >= MaxIter THEN "write" ELSE "colour")
    /\ colour' = [colour EXCEPT ![t] = IF k >= MaxIter THEN Black ELSE << >>]
    /\ UNCHANGED <<job, shared, i, j, todo, iterated, mixed, loaded, pixels>>

ColourByte(b, count) == (IF b % 2 = 1 THEN count \div 256 ELSE count) % 256
Sample(t) ==
    /\ at[t] = "colour" /\ Goes(t, IF Len(colour[t]) = 5 THEN "write" ELSE "colour")
    /\ colour' = [colour EXCEPT ![t] = Append(@, ColourByte(Len(@) + 1, k))]
    /\ UNCHANGED <<job, shared, i, j, todo, iterated, mixed, loaded, pixels>>

\* memcpy of the pixel, and the next column.
Write(t) ==
    /\ at[t] = "write"
    /\ pixels' = [pixels EXCEPT ![offset] = colour[t]]
    /\ colour' = [colour EXCEPT ![t] = << >>]
    /\ i' = [i EXCEPT ![t] = @ + 1]
    /\ Goes(t, IF i[t] + 1 < job.xres THEN "point" ELSE "row")
    /\ UNCHANGED <<job, shared, j, todo, iterated, mixed, loaded>>

Thread(t) == Row(t) \/ RowsDone(t) \/ Point(t) \/ Start(t) \/ Test(t) \/ Body(t) \/ Load(t)
             \/ Store(t) \/ Offset(t) \/ Compare(t) \/ Sample(t) \/ Write(t)
Next == \E t \in Threads : Thread(t)
Spec == Init /\ [][Next]_vars
FairSpec == Spec /\ \A t \in Threads : WF_vars(Thread(t))

----------------------------------------------------------------------------
Ended == \A t \in Threads : at[t] = "done"

\* The picture of the definition: every pixel is written, and shows the
\* iterations of its own point.
Colour(count) == IF count >= MaxIter THEN Black ELSE [b \in 1 .. 6 |-> ColourByte(b, count)]
Drawn ==
    \A row \in Rows, col \in 0 .. job.xres - 1 :
        pixels[row * job.xres + col] = Colour(1 + Min({Escape(col, row), MaxIter - 1}))

\* No two threads are between the start and the end of a row: what is shared is
\* then one thread's at a time.  The program does nothing to make it so.
InRow(t) == at[t] \notin {"row", "done"}
TakeTurns == \A s, t \in Threads : InRow(s) /\ InRow(t) => s = t

\* It is the overlap of rows alone that spoils a picture: whatever the number of
\* threads, if they take turns, or if there is one, it ends up right.
PictureRight == []TakeTurns => [](Ended => Drawn)

\* With any number the threads end: no two of them keep each other's counter
\* below maxiter for ever.
AllEnd == <>Ended
=============================================================================
