------------------------------- MODULE Canvas -------------------------------
(***************************************************************************)
(* struct canvas (engine/canvas/canvas.h, canvas.cpp): the drawing surface *)
(* shared by the UI thread, which draws, clears, opens and saves, and by   *)
(* the network poll thread, which applies, clears and loads what arrives.  *)
(*                                                                         *)
(* Two mutexes guard it: raster_mutex is held across a whole repaint,      *)
(* operations_mutex for short looks at the history; next_seq is an atomic  *)
(* read and written under either or none.  One action is one stretch of    *)
(* code between two accesses other threads can observe.                    *)
(*                                                                         *)
(* An operation is reduced to the two fields the canvas looks at, id and   *)
(* seq (0 until stamped); the pixels to the sequence of operations painted *)
(* since the last fill.  tool_type::clear operations, which no tool of the *)
(* UI produces, are left out.                                              *)
(***************************************************************************)
EXTENDS Integers, Sequences, FiniteSets

CONSTANTS
    Threads,   \* the threads that use the canvas
    Ids,       \* non-zero operation ids
    NoId,      \* operation_id 0
    Free,      \* owner of an unlocked mutex
    Calls,     \* Calls[t]: operations thread t may pass to apply
    Loads,     \* Loads[t]: sequences thread t may pass to load
    Clearers,  \* threads that may call clear_history
    MaxSeq     \* bound: no call to apply starts while next_seq, or the
               \* stamp of a call under way, exceeds it

Op == [id : Ids \cup {NoId}, seq : Nat]

ASSUME CanvasAssumption ==
    /\ NoId \notin Ids
    /\ Free \notin Threads
    /\ Calls \in [Threads -> SUBSET Op]
    /\ Loads \in [Threads -> SUBSET Seq(Op)]
    /\ Clearers \subseteq Threads
    /\ MaxSeq \in Nat

VARIABLES
    operations,        \* the history
    operation_ids,     \* the ids in it, kept apart for fast lookup
    next_seq,          \* the sequence number the next stamp takes
    pixels,            \* the operations painted since the last fill
    raster_mutex,      \* its owner
    operations_mutex,  \* its owner, when held across more than one step
    pc,                \* where each thread is
    op,                \* the operation each thread applies
    expected,          \* the next_seq each thread last read
    todo,              \* load(): operations whose seq is still to be seen
    result             \* the operation apply last returned for, as stamped

canvasVars == <<operations, operation_ids, next_seq, pixels,
                raster_mutex, operations_mutex>>
threadVars == <<pc, op, expected, todo, result>>
vars == <<operations, operation_ids, next_seq, pixels, raster_mutex,
          operations_mutex, pc, op, expected, todo, result>>

IdsOf(ops) == {ops[i].id : i \in 1..Len(ops)} \ {NoId}

NoOp == [id |-> NoId, seq |-> 0]

Init ==
    /\ operations = <<>> /\ operation_ids = {}
    /\ next_seq = 1 /\ pixels = <<>>
    /\ raster_mutex = Free /\ operations_mutex = Free
    /\ pc = [t \in Threads |-> "idle"]
    /\ op = [t \in Threads |-> NoOp]
    /\ expected = [t \in Threads |-> 0]
    /\ todo = [t \in Threads |-> <<>>]
    /\ result = [t \in Threads |-> NoOp]

Goto(t, label) == pc' = [pc EXCEPT ![t] = label]

Return(t, o) == result' = [result EXCEPT ![t] = o]

Drop(t) == op' = [op EXCEPT ![t] = NoOp]

WithSeq(o, seq) == [id |-> o.id, seq |-> seq]

Forget(t) == expected' = [expected EXCEPT ![t] = 0]

-----------------------------------------------------------------------------
(* apply(op), steps Lookup .. Log.                                         *)

\* An operation whose id is in the history is not applied again: apply
\* returns the seq it already has.
Lookup(t) ==
    /\ pc[t] = "idle"
    /\ next_seq <= MaxSeq /\ \A u \in Threads : op[u].seq <= MaxSeq
    /\ \E o \in Calls[t] :
        /\ o.id # NoId => operations_mutex = Free
        /\ \/ /\ o.id # NoId
              /\ \E i \in 1..Len(operations) :
                    /\ operations[i].id = o.id
                    /\ \A j \in 1..(i - 1) : operations[j].id # o.id
                    /\ Return(t, operations[i])
              /\ UNCHANGED <<pc, op>>
           \/ /\ o.id = NoId \/ o.id \notin IdsOf(operations)
              /\ op' = [op EXCEPT ![t] = o]
              /\ Goto(t, "stamp")
              /\ UNCHANGED result
    /\ UNCHANGED <<canvasVars, expected, todo>>

\* No lock is held here: other threads may stamp, clear or load before this
\* one gets the raster_mutex.
Stamp(t) ==
    /\ pc[t] = "stamp"
    /\ \/ /\ op[t].seq = 0
          /\ op' = [op EXCEPT ![t] = WithSeq(op[t], next_seq)]
          /\ next_seq' = next_seq + 1
       \/ /\ op[t].seq # 0
          /\ UNCHANGED <<op, next_seq>>
    /\ Goto(t, "lock")
    /\ UNCHANGED <<operations, operation_ids, pixels, raster_mutex,
                   operations_mutex, expected, todo, result>>

\* Mutant of Acquire: no second lookup.
AcquireNoRecheck(t) ==
    /\ pc[t] = "lock"
    /\ raster_mutex = Free /\ operations_mutex = Free
    /\ raster_mutex' = t /\ Goto(t, "read")
    /\ UNCHANGED <<operations, operation_ids, next_seq, pixels,
                   operations_mutex, op, expected, todo, result>>

\* With the raster_mutex the id is looked up once more, since another thread
\* may have logged it meanwhile; then the stamp taken above is lost.
Acquire(t) ==
    /\ pc[t] = "lock"
    /\ raster_mutex = Free /\ operations_mutex = Free
    /\ \/ /\ op[t].id \in operation_ids
          /\ Goto(t, "idle") /\ Return(t, op[t]) /\ Drop(t)
          /\ UNCHANGED raster_mutex
       \/ /\ op[t].id \notin operation_ids
          /\ Goto(t, "read")
          /\ raster_mutex' = t
          /\ UNCHANGED <<op, result>>
    /\ UNCHANGED <<operations, operation_ids, next_seq, pixels,
                   operations_mutex, expected, todo>>

ReadNext(t) ==
    /\ pc[t] = "read"
    /\ expected' = [expected EXCEPT ![t] = next_seq]
    /\ Goto(t, "raise")
    /\ UNCHANGED <<canvasVars, op, todo, result>>

\* Mutant of RaiseNext: > for >=.
RaiseNextExclusive(t) ==
    /\ pc[t] = "raise"
    /\ next_seq' = IF op[t].seq > expected[t] THEN op[t].seq + 1 ELSE next_seq
    /\ Goto(t, "draw") /\ Forget(t)
    /\ UNCHANGED <<operations, operation_ids, pixels, raster_mutex,
                   operations_mutex, op, todo, result>>

\* The comparison uses the value read before: a stamp taken in between by a
\* thread without the raster_mutex is overwritten.
RaiseNext(t) ==
    /\ pc[t] = "raise"
    /\ next_seq' = IF op[t].seq >= expected[t] THEN op[t].seq + 1 ELSE next_seq
    /\ Goto(t, "draw") /\ Forget(t)
    /\ UNCHANGED <<operations, operation_ids, pixels, raster_mutex,
                   operations_mutex, op, todo, result>>

Rasterize(t) ==
    /\ pc[t] = "draw"
    /\ pixels' = Append(pixels, op[t])
    /\ Goto(t, "log")
    /\ UNCHANGED <<operations, operation_ids, next_seq, raster_mutex,
                   operations_mutex, op, expected, todo, result>>

\* Mutant of Log: the id is not remembered.
LogWithoutId(t) ==
    /\ pc[t] = "log" /\ operations_mutex = Free
    /\ operations' = Append(operations, op[t])
    /\ raster_mutex' = Free /\ Goto(t, "idle")
    /\ Return(t, op[t]) /\ Drop(t)
    /\ UNCHANGED <<operation_ids, next_seq, pixels, operations_mutex,
                   expected, todo>>

\* Mutant of Log: the id is remembered even if it is 0.
LogAnyId(t) ==
    /\ pc[t] = "log" /\ operations_mutex = Free
    /\ operations' = Append(operations, op[t])
    /\ operation_ids' = operation_ids \cup {op[t].id}
    /\ raster_mutex' = Free /\ Goto(t, "idle")
    /\ Return(t, op[t]) /\ Drop(t)
    /\ UNCHANGED <<next_seq, pixels, operations_mutex, expected, todo>>

Log(t) ==
    /\ pc[t] = "log" /\ operations_mutex = Free
    /\ operations' = Append(operations, op[t])
    /\ operation_ids' = operation_ids \cup ({op[t].id} \ {NoId})
    /\ raster_mutex' = Free /\ Goto(t, "idle")
    /\ Return(t, op[t]) /\ Drop(t)
    /\ UNCHANGED <<next_seq, pixels, operations_mutex, expected, todo>>

-----------------------------------------------------------------------------
(* clear_history(): every field changes under the mutex its readers take,  *)
(* next_seq last, so one step shows all that another thread can see.       *)

ClearHistory(t) ==
    /\ pc[t] = "idle" /\ t \in Clearers
    /\ raster_mutex = Free /\ operations_mutex = Free
    /\ operations' = <<>> /\ operation_ids' = {} /\ next_seq' = 1
    /\ pixels' = <<>>
    /\ UNCHANGED <<raster_mutex, operations_mutex, threadVars>>

-----------------------------------------------------------------------------
(* load(ops): both mutexes are held throughout, but next_seq is rebuilt    *)
(* value by value in sight of threads that stamp without a lock.           *)

LoadHistory(t) ==
    /\ pc[t] = "idle"
    /\ raster_mutex = Free /\ operations_mutex = Free
    /\ raster_mutex' = t /\ operations_mutex' = t
    /\ \E ops \in Loads[t] :
        /\ operations' = ops
        /\ operation_ids' = IdsOf(ops)
        /\ todo' = [todo EXCEPT ![t] = ops]
    /\ Goto(t, "reset")
    /\ UNCHANGED <<next_seq, pixels, op, expected, result>>

LoadResetNext(t) ==
    /\ pc[t] = "reset"
    /\ next_seq' = 1
    /\ Goto(t, "scan")
    /\ UNCHANGED <<operations, operation_ids, pixels, raster_mutex,
                   operations_mutex, op, expected, todo, result>>

LoadReadNext(t) ==
    /\ pc[t] = "scan" /\ todo[t] # <<>>
    /\ expected' = [expected EXCEPT ![t] = next_seq]
    /\ Goto(t, "store")
    /\ UNCHANGED <<canvasVars, op, todo, result>>

\* max(next_seq, seq + 1), with the next_seq read in the step before.
LoadStoreNext(t) ==
    /\ pc[t] = "store"
    /\ next_seq' = IF expected[t] > Head(todo[t]).seq
                   THEN expected[t] ELSE Head(todo[t]).seq + 1
    /\ todo' = [todo EXCEPT ![t] = Tail(@)]
    /\ Goto(t, "scan") /\ Forget(t)
    /\ UNCHANGED <<operations, operation_ids, pixels, raster_mutex,
                   operations_mutex, op, result>>

\* Mutant of LoadPaint: the canvas is not filled first.
LoadWithoutFill(t) ==
    /\ pc[t] = "scan" /\ todo[t] = <<>>
    /\ pixels' = pixels \o operations
    /\ raster_mutex' = Free /\ operations_mutex' = Free
    /\ Goto(t, "idle")
    /\ UNCHANGED <<operations, operation_ids, next_seq, op, expected, todo,
                   result>>

LoadPaint(t) ==
    /\ pc[t] = "scan" /\ todo[t] = <<>>
    /\ pixels' = operations
    /\ raster_mutex' = Free /\ operations_mutex' = Free
    /\ Goto(t, "idle")
    /\ UNCHANGED <<operations, operation_ids, next_seq, op, expected, todo,
                   result>>

Apply(t) == \/ Lookup(t) \/ Stamp(t) \/ Acquire(t) \/ ReadNext(t)
            \/ RaiseNext(t) \/ Rasterize(t) \/ Log(t)

Load(t) == \/ LoadHistory(t) \/ LoadResetNext(t) \/ LoadReadNext(t)
           \/ LoadStoreNext(t) \/ LoadPaint(t)

Next == \E t \in Threads : Apply(t) \/ ClearHistory(t) \/ Load(t)

Spec == Init /\ [][Next]_vars

-----------------------------------------------------------------------------
(* Properties.                                                             *)

Labels == {"idle", "stamp", "lock", "read", "raise", "draw", "log",
           "reset", "scan", "store"}

\* Every variable of the canvas and of its callers has its type.
TypeOK ==
    /\ operations \in Seq(Op) /\ pixels \in Seq(Op)
    /\ operation_ids \subseteq Ids
    /\ next_seq \in Nat
    /\ raster_mutex \in Threads \cup {Free}
    /\ operations_mutex \in Threads \cup {Free}
    /\ pc \in [Threads -> Labels]
    /\ op \in [Threads -> Op] /\ result \in [Threads -> Op]
    /\ expected \in [Threads -> Nat]
    /\ todo \in [Threads -> Seq(Op)]

NoRepeatedId(ops) ==
    \A i, j \in 1..Len(ops) : ops[i].id = ops[j].id /\ ops[i].id # NoId => i = j

\* The history holds an operation id at most once, however the lookups,
\* stamps and locks of the threads interleave (apply, canvas.cpp:119-133).
NoDuplicateIds == NoRepeatedId(operations)

\* Whenever no thread is repainting, the pixels copy_pixels() returns are the
\* replay of the history snapshot() returns, in its order.
RasterMatchesHistory == raster_mutex = Free => pixels = operations

\* Whenever no thread is repainting, next_seq is beyond every seq of the
\* history, though apply and load update it by a read and a separate write.
HistoryBelowNext ==
    raster_mutex = Free =>
        \A i \in 1..Len(operations) : operations[i].seq < next_seq

-----------------------------------------------------------------------------
(* The inductive invariant behind them.                                    *)

ApplySection == {"read", "raise", "draw", "log"}
LoadSection == {"reset", "scan", "store"}

\* Who owns which mutex, seen from where each thread is.
MutexInv ==
    \A t \in Threads :
        /\ raster_mutex = t <=> pc[t] \in ApplySection \cup LoadSection
        /\ operations_mutex = t <=> pc[t] \in LoadSection

\* The two records of the ids agree, and an operation past the second lookup
\* is not in them.
IdsInv ==
    /\ operation_ids = IdsOf(operations)
    /\ \A t \in Threads : pc[t] \in ApplySection => op[t].id \notin operation_ids

Repainting == \E t \in Threads : pc[t] \in LoadSection

PixelsInv ==
    /\ (\A t \in Threads : pc[t] \notin LoadSection \cup {"log"})
           => pixels = operations
    /\ \A t \in Threads : pc[t] = "log" => pixels = Append(operations, op[t])

\* Every seq of the history before position n is below bound.
Below(n, bound) == \A i \in 1..n : operations[i].seq < bound

Scanned(t) == Len(operations) - Len(todo[t])

HistoryInv == ~Repainting => Below(Len(operations), next_seq)

\* In apply: what was read, and the stamp, against next_seq.
ApplyInv(t) ==
    /\ pc[t] = "raise" => /\ Below(Len(operations), expected[t])
                          /\ expected[t] <= next_seq
    /\ pc[t] \in {"draw", "log"} => op[t].seq < next_seq

\* In load: what is still to be scanned is the rest of the history, and the
\* part before it is below next_seq.
LoadInv(t) ==
    /\ pc[t] = "reset" => todo[t] = operations
    /\ pc[t] \in {"scan", "store"} =>
          /\ Scanned(t) \in Nat
          /\ \A j \in 1..Len(todo[t]) : todo[t][j] = operations[Scanned(t) + j]
          /\ Below(Scanned(t), next_seq)
    /\ pc[t] = "store" => /\ todo[t] # <<>>
                          /\ Below(Scanned(t), expected[t])
                          /\ expected[t] <= next_seq

NextInv == HistoryInv /\ \A t \in Threads : ApplyInv(t) /\ LoadInv(t)

\* The mutexes, ids, pixels and next_seq in every state between two steps of
\* apply, clear_history and load: what HistoryBelowNext, NoDuplicateIds and
\* RasterMatchesHistory rest on.
CanvasInv == MutexInv /\ IdsInv /\ PixelsInv /\ NextInv

Abstract == INSTANCE CanvasLog WITH
    log <- operations,
    drawing <- raster_mutex # Free,
    picture <- pixels,
    LoadSets <- UNION {Loads[t] : t \in Threads}

\* The canvas is the log CanvasLog describes: operations enter it one by one
\* and once, and a clear or a load replaces it as a whole.
ImplementsLog == Abstract!LogSpec
=============================================================================
