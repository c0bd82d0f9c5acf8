----------------------------- MODULE CanvasLog -----------------------------
(***************************************************************************)
(* What a canvas promises its callers: a log of drawing operations that    *)
(* grows by one operation at a time, never holds two operations with one   *)
(* operation_id, and is otherwise only emptied or replaced as a whole.     *)
(* The picture on the screen is a replay of the log whenever it is not     *)
(* being redrawn.  Canvas implements this with two mutexes and an atomic.  *)
(***************************************************************************)
EXTENDS Integers, Sequences

CONSTANTS
    NoId,     \* operation_id 0: an operation without an id
    LoadSets  \* the operation sequences load() may be given

VARIABLES
    log,      \* the operations, in drawing order
    drawing,  \* TRUE while some thread is redrawing
    picture   \* the operations the pixels show, in drawing order

logVars == <<log, drawing, picture>>

LogHas(id) == id # NoId /\ \E i \in 1..Len(log) : log[i].id = id

LogInit == log = <<>> /\ picture = <<>> /\ drawing = FALSE

Grown(longer, shorter) ==
    /\ Len(longer) = Len(shorter) + 1
    /\ SubSeq(longer, 1, Len(shorter)) = shorter

\* The log takes one operation, whose id it does not hold yet.
LogAppend ==
    /\ Grown(log', log)
    /\ ~LogHas(log'[Len(log')].id)
    /\ picture' = log'
    /\ drawing' = FALSE

LogReset ==
    /\ log' \in LoadSets \cup {<<>>}
    /\ \/ picture' = log' /\ drawing' = FALSE
       \/ UNCHANGED picture /\ drawing' = TRUE

\* A redraw in progress may show anything; when it ends it shows the log.
LogRedraw ==
    /\ UNCHANGED log
    /\ drawing' \/ picture' = log

LogNext == LogAppend \/ LogReset \/ LogRedraw

LogSpec == LogInit /\ [][LogNext]_logVars
=============================================================================
