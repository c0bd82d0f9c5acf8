---------------------------- MODULE CanvasProofs ----------------------------
(***************************************************************************)
(* Proofs about Canvas, for any set of threads, any operations and any     *)
(* histories loaded.                                                       *)
(***************************************************************************)
EXTENDS Canvas, TLAPS

\* The ids of a history after one more operation.
LEMMA IdsOfAppend ==
    ASSUME NEW ops \in Seq(Op), NEW o \in Op
    PROVE  IdsOf(Append(ops, o)) = IdsOf(ops) \cup ({o.id} \ {NoId})
<1> DEFINE new == Append(ops, o)
<1>1. Len(new) = Len(ops) + 1 /\ new[Len(ops) + 1] = o
          /\ \A i \in 1..Len(ops) : new[i] = ops[i]
  OBVIOUS
<1> HIDE DEF new
<1>2. ASSUME NEW x
      PROVE  x \in IdsOf(new) <=> x \in IdsOf(ops) \cup ({o.id} \ {NoId})
  <2>1. Len(ops) \in Nat
    OBVIOUS
  <2>2. 1..Len(new) = 1..Len(ops) \cup {Len(ops) + 1}
    BY <1>1, <2>1
  <2> QED
    BY <1>1, <2>1, <2>2 DEF IdsOf
<1> QED
  BY <1>2 DEF new

-----------------------------------------------------------------------------
\* The initial state is well typed.
LEMMA TypeInit == Init => TypeOK
BY CanvasAssumption DEF Init, TypeOK, NoOp, Op, Labels

\* Every step keeps every variable well typed.
LEMMA TypeStep == TypeOK /\ NextInv /\ [Next]_vars => TypeOK'
<1> SUFFICES ASSUME TypeOK, NextInv, [Next]_vars PROVE TypeOK'
  OBVIOUS
<1> USE CanvasAssumption DEF TypeOK
<1>0. NoOp \in Op /\ \A o \in Op : o.seq \in Nat /\ o.id \in Ids \cup {NoId}
  BY DEF NoOp, Op
<1>1. ASSUME NEW t \in Threads, Lookup(t) PROVE TypeOK'
  <2>1. PICK o \in Calls[t] :
            \/ \E i \in 1..Len(operations) : Return(t, operations[i])
                  /\ UNCHANGED <<pc, op>>
            \/ op' = [op EXCEPT ![t] = o] /\ Goto(t, "stamp") /\ UNCHANGED result
    BY <1>1 DEF Lookup
  <2>2. o \in Op
    OBVIOUS
  <2>3. \A i \in 1..Len(operations) : operations[i] \in Op
    OBVIOUS
  <2>4. result' \in [Threads -> Op] /\ op' \in [Threads -> Op]
            /\ pc' \in [Threads -> Labels]
    <3>1. CASE \E i \in 1..Len(operations) : Return(t, operations[i])
                  /\ UNCHANGED <<pc, op>>
      BY <3>1, <2>3 DEF Return
    <3>2. CASE op' = [op EXCEPT ![t] = o] /\ Goto(t, "stamp") /\ UNCHANGED result
      BY <3>2, <2>2 DEF Goto, Labels
    <3> QED
      BY <2>1, <3>1, <3>2
  <2> QED
    BY <1>1, <2>4 DEF Lookup, canvasVars
<1>2. ASSUME NEW t \in Threads, Stamp(t) PROVE TypeOK'
  <2>1. WithSeq(op[t], next_seq) \in Op
    BY DEF Op, WithSeq
  <2>2. op' \in [Threads -> Op] /\ next_seq' \in Nat
    BY <1>2, <2>1 DEF Stamp
  <2> QED
    BY <1>2, <2>2 DEF Stamp, Goto, Labels
<1>3. ASSUME NEW t \in Threads, Acquire(t) PROVE TypeOK'
  <2>1. CASE Goto(t, "idle") /\ Return(t, op[t]) /\ Drop(t) /\ UNCHANGED raster_mutex
    BY <1>3, <2>1, <1>0 DEF Acquire, Return, Goto, Labels, Drop
  <2>2. CASE Goto(t, "read") /\ raster_mutex' = t /\ UNCHANGED <<op, result>>
    BY <1>3, <2>2 DEF Acquire, Goto, Labels
  <2> QED
    BY <1>3, <2>1, <2>2 DEF Acquire
<1>4. ASSUME NEW t \in Threads, ReadNext(t) PROVE TypeOK'
  BY <1>4 DEF ReadNext, Goto, Labels, canvasVars
<1>5. ASSUME NEW t \in Threads, RaiseNext(t) PROVE TypeOK'
  BY <1>5, <1>0 DEF RaiseNext, Goto, Labels, Forget
<1>6. ASSUME NEW t \in Threads, Rasterize(t) PROVE TypeOK'
  BY <1>6 DEF Rasterize, Goto, Labels
<1>7. ASSUME NEW t \in Threads, Log(t) PROVE TypeOK'
  BY <1>7, <1>0 DEF Log, Return, Goto, Labels, Drop
<1>8. ASSUME NEW t \in Threads, ClearHistory(t) PROVE TypeOK'
  BY <1>8 DEF ClearHistory, threadVars
<1>9. ASSUME NEW t \in Threads, LoadHistory(t) PROVE TypeOK'
  <2>1. PICK ops \in Loads[t] :
            /\ operations' = ops
            /\ operation_ids' = IdsOf(ops)
            /\ todo' = [todo EXCEPT ![t] = ops]
    BY <1>9 DEF LoadHistory
  <2>2. ops \in Seq(Op) /\ IdsOf(ops) \subseteq Ids
    BY <1>0 DEF IdsOf
  <2> QED
    BY <1>9, <2>1, <2>2 DEF LoadHistory, Goto, Labels
<1>10. ASSUME NEW t \in Threads, LoadResetNext(t) PROVE TypeOK'
  BY <1>10 DEF LoadResetNext, Goto, Labels
<1>11. ASSUME NEW t \in Threads, LoadReadNext(t) PROVE TypeOK'
  BY <1>11 DEF LoadReadNext, Goto, Labels, canvasVars
<1>12. ASSUME NEW t \in Threads, LoadStoreNext(t) PROVE TypeOK'
  <2>1. todo[t] # <<>>
    BY <1>12 DEF LoadStoreNext, NextInv, LoadInv
  <2>2. Head(todo[t]) \in Op /\ Tail(todo[t]) \in Seq(Op)
    BY <2>1
  <2> QED
    BY <1>12, <1>0, <2>2 DEF LoadStoreNext, Goto, Labels, Forget
<1>13. ASSUME NEW t \in Threads, LoadPaint(t) PROVE TypeOK'
  BY <1>13 DEF LoadPaint, Goto, Labels
<1>14. CASE UNCHANGED vars
  BY <1>14 DEF vars
<1> QED
  BY <1>1, <1>2, <1>3, <1>4, <1>5, <1>6, <1>7, <1>8, <1>9, <1>10, <1>11,
     <1>12, <1>13, <1>14 DEF Next, Apply, Load

-----------------------------------------------------------------------------
\* The invariant holds initially.
LEMMA InvInit == Init => CanvasInv
BY CanvasAssumption DEF Init, CanvasInv, MutexInv, IdsInv, PixelsInv, NextInv,
   HistoryInv, ApplyInv, LoadInv,
   IdsOf, Below, Repainting, ApplySection, LoadSection

\* The mutexes have the owner the labels say: an action takes or releases a
\* mutex exactly when it enters or leaves the section.
LEMMA MutexStep ==
    TypeOK /\ MutexInv /\ [Next]_vars => MutexInv'
<1> SUFFICES ASSUME TypeOK, MutexInv, [Next]_vars PROVE MutexInv'
  OBVIOUS
<1> USE CanvasAssumption DEF TypeOK, MutexInv, ApplySection, LoadSection, Goto
<1>1. ASSUME NEW t \in Threads, Lookup(t) PROVE MutexInv'
  BY <1>1 DEF Lookup, canvasVars
<1>2. ASSUME NEW t \in Threads, Stamp(t) PROVE MutexInv'
  BY <1>2 DEF Stamp
<1>3. ASSUME NEW t \in Threads, Acquire(t) PROVE MutexInv'
  BY <1>3 DEF Acquire
<1>4. ASSUME NEW t \in Threads, ReadNext(t) PROVE MutexInv'
  BY <1>4 DEF ReadNext, canvasVars
<1>5. ASSUME NEW t \in Threads, RaiseNext(t) PROVE MutexInv'
  BY <1>5 DEF RaiseNext
<1>6. ASSUME NEW t \in Threads, Rasterize(t) PROVE MutexInv'
  BY <1>6 DEF Rasterize
<1>7. ASSUME NEW t \in Threads, Log(t) PROVE MutexInv'
  BY <1>7 DEF Log
<1>8. ASSUME NEW t \in Threads, ClearHistory(t) PROVE MutexInv'
  BY <1>8 DEF ClearHistory, threadVars
<1>9. ASSUME NEW t \in Threads, LoadHistory(t) PROVE MutexInv'
  BY <1>9 DEF LoadHistory
<1>10. ASSUME NEW t \in Threads, LoadResetNext(t) PROVE MutexInv'
  BY <1>10 DEF LoadResetNext
<1>11. ASSUME NEW t \in Threads, LoadReadNext(t) PROVE MutexInv'
  BY <1>11 DEF LoadReadNext, canvasVars
<1>12. ASSUME NEW t \in Threads, LoadStoreNext(t) PROVE MutexInv'
  BY <1>12 DEF LoadStoreNext
<1>13. ASSUME NEW t \in Threads, LoadPaint(t) PROVE MutexInv'
  BY <1>13 DEF LoadPaint
<1>14. CASE UNCHANGED vars
  BY <1>14 DEF vars
<1> QED
  BY <1>1, <1>2, <1>3, <1>4, <1>5, <1>6, <1>7, <1>8, <1>9, <1>10, <1>11,
     <1>12, <1>13, <1>14 DEF Next, Apply, Load

\* The ids are those of the history.  Only the owner of the raster_mutex
\* changes them, so the second lookup stays valid until Log.
LEMMA IdsStep ==
    TypeOK /\ MutexInv /\ IdsInv /\ [Next]_vars => IdsInv'
<1> SUFFICES ASSUME TypeOK, MutexInv, IdsInv, [Next]_vars PROVE IdsInv'
  OBVIOUS
<1> USE CanvasAssumption DEF TypeOK, MutexInv, IdsInv, ApplySection,
                             LoadSection, Goto
<1>1. ASSUME NEW t \in Threads, Lookup(t) PROVE IdsInv'
  BY <1>1 DEF Lookup, canvasVars
<1>2. ASSUME NEW t \in Threads, Stamp(t) PROVE IdsInv'
  BY <1>2 DEF Stamp
<1>3. ASSUME NEW t \in Threads, Acquire(t) PROVE IdsInv'
  BY <1>3 DEF Acquire, Drop
<1>4. ASSUME NEW t \in Threads, ReadNext(t) PROVE IdsInv'
  BY <1>4 DEF ReadNext, canvasVars
<1>5. ASSUME NEW t \in Threads, RaiseNext(t) PROVE IdsInv'
  BY <1>5 DEF RaiseNext
<1>6. ASSUME NEW t \in Threads, Rasterize(t) PROVE IdsInv'
  BY <1>6 DEF Rasterize
<1>7. ASSUME NEW t \in Threads, Log(t) PROVE IdsInv'
  <2>1. operation_ids' = IdsOf(operations)'
    BY <1>7, IdsOfAppend DEF Log
  <2>2. \A u \in Threads : pc'[u] \notin ApplySection
    BY <1>7 DEF Log
  <2> QED
    BY <2>1, <2>2
<1>8. ASSUME NEW t \in Threads, ClearHistory(t) PROVE IdsInv'
  BY <1>8 DEF ClearHistory, threadVars, IdsOf
<1>9. ASSUME NEW t \in Threads, LoadHistory(t) PROVE IdsInv'
  <2>1. operation_ids' = IdsOf(operations)'
    BY <1>9 DEF LoadHistory
  <2>2. \A u \in Threads : pc'[u] \notin ApplySection
    BY <1>9 DEF LoadHistory
  <2> QED
    BY <2>1, <2>2
<1>10. ASSUME NEW t \in Threads, LoadResetNext(t) PROVE IdsInv'
  BY <1>10 DEF LoadResetNext
<1>11. ASSUME NEW t \in Threads, LoadReadNext(t) PROVE IdsInv'
  BY <1>11 DEF LoadReadNext, canvasVars
<1>12. ASSUME NEW t \in Threads, LoadStoreNext(t) PROVE IdsInv'
  BY <1>12 DEF LoadStoreNext
<1>13. ASSUME NEW t \in Threads, LoadPaint(t) PROVE IdsInv'
  BY <1>13 DEF LoadPaint
<1>14. CASE UNCHANGED vars
  BY <1>14 DEF vars
<1> QED
  BY <1>1, <1>2, <1>3, <1>4, <1>5, <1>6, <1>7, <1>8, <1>9, <1>10, <1>11,
     <1>12, <1>13, <1>14 DEF Next, Apply, Load

\* The pixels follow the history: an operation is painted just before it is
\* logged, and a load repaints before it lets anyone look.
LEMMA PixelsStep ==
    TypeOK /\ MutexInv /\ PixelsInv /\ [Next]_vars => PixelsInv'
<1> SUFFICES ASSUME TypeOK, MutexInv, PixelsInv, [Next]_vars PROVE PixelsInv'
  OBVIOUS
<1> USE CanvasAssumption DEF TypeOK, MutexInv, PixelsInv, ApplySection,
                             LoadSection, Goto
<1>1. ASSUME NEW t \in Threads, Lookup(t) PROVE PixelsInv'
  BY <1>1 DEF Lookup, canvasVars
<1>2. ASSUME NEW t \in Threads, Stamp(t) PROVE PixelsInv'
  BY <1>2 DEF Stamp
<1>3. ASSUME NEW t \in Threads, Acquire(t) PROVE PixelsInv'
  BY <1>3 DEF Acquire, Drop
<1>4. ASSUME NEW t \in Threads, ReadNext(t) PROVE PixelsInv'
  BY <1>4 DEF ReadNext, canvasVars
<1>5. ASSUME NEW t \in Threads, RaiseNext(t) PROVE PixelsInv'
  BY <1>5 DEF RaiseNext, Forget
<1>6. ASSUME NEW t \in Threads, Rasterize(t) PROVE PixelsInv'
  BY <1>6 DEF Rasterize
<1>7. ASSUME NEW t \in Threads, Log(t) PROVE PixelsInv'
  BY <1>7 DEF Log, Drop
<1>8. ASSUME NEW t \in Threads, ClearHistory(t) PROVE PixelsInv'
  BY <1>8 DEF ClearHistory, threadVars
<1>9. ASSUME NEW t \in Threads, LoadHistory(t) PROVE PixelsInv'
  BY <1>9 DEF LoadHistory
<1>10. ASSUME NEW t \in Threads, LoadResetNext(t) PROVE PixelsInv'
  BY <1>10 DEF LoadResetNext
<1>11. ASSUME NEW t \in Threads, LoadReadNext(t) PROVE PixelsInv'
  BY <1>11 DEF LoadReadNext, canvasVars
<1>12. ASSUME NEW t \in Threads, LoadStoreNext(t) PROVE PixelsInv'
  BY <1>12 DEF LoadStoreNext, Forget
<1>13. ASSUME NEW t \in Threads, LoadPaint(t) PROVE PixelsInv'
  BY <1>13 DEF LoadPaint
<1>14. CASE UNCHANGED vars
  BY <1>14 DEF vars
<1> QED
  BY <1>1, <1>2, <1>3, <1>4, <1>5, <1>6, <1>7, <1>8, <1>9, <1>10, <1>11,
     <1>12, <1>13, <1>14 DEF Next, Apply, Load

\* The seq of an operation is a natural number.
LEMMA OpSeqs == \A o \in Op : o.seq \in Nat
BY DEF Op

\* And throughout the history.
LEMMA HistorySeqs ==
    ASSUME TypeOK
    PROVE  \A i \in 1..Len(operations) : operations[i].seq \in Nat
BY OpSeqs DEF TypeOK

\* A bound on the history's seqs may be raised.
LEMMA BelowGrows ==
    ASSUME TypeOK, NEW n \in Nat, n <= Len(operations),
           NEW b1 \in Nat, NEW b2 \in Nat, b1 <= b2, Below(n, b1)
    PROVE  Below(n, b2)
<1>1. Len(operations) \in Nat
  BY DEF TypeOK
<1> QED
  BY <1>1, HistorySeqs DEF Below

\* next_seq stays beyond what has been logged or scanned: what a thread with
\* the raster_mutex read can only have grown since.
LEMMA NextStep ==
    TypeOK /\ MutexInv /\ NextInv /\ [Next]_vars => NextInv'
<1> SUFFICES ASSUME TypeOK, MutexInv, NextInv, [Next]_vars PROVE NextInv'
  OBVIOUS
<1> USE CanvasAssumption DEF TypeOK, MutexInv, NextInv, HistoryInv,
    ApplyInv, LoadInv, ApplySection, LoadSection, Goto, Repainting, Below, Scanned
<1>1. ASSUME NEW t \in Threads, Lookup(t) PROVE NextInv'
  <2>1. UNCHANGED <<operations, next_seq, expected, todo>>
    BY <1>1 DEF Lookup, canvasVars
  <2>2. /\ pc'[t] \in {"idle", "stamp"}
        /\ \A u \in Threads : u # t => pc'[u] = pc[u] /\ op'[u] = op[u]
    BY <1>1 DEF Lookup
  <2> QED
    BY <1>1, <2>1, <2>2 DEF Lookup
<1>2. ASSUME NEW t \in Threads, Stamp(t) PROVE NextInv'
  <2>1. UNCHANGED <<operations, expected, todo>> /\ next_seq' \in Nat
            /\ next_seq' >= next_seq
    BY <1>2 DEF Stamp
  <2>2. /\ pc'[t] = "lock" /\ pc[t] = "stamp"
        /\ \A u \in Threads : u # t => pc'[u] = pc[u] /\ op'[u] = op[u]
    BY <1>2 DEF Stamp
  <2>3. \A n \in Nat : n <= Len(operations) /\ Below(n, next_seq)
                           => Below(n, next_seq')
    <3> HIDE DEF Below
    <3> QED
      BY <2>1, BelowGrows
  <2>4. HistoryInv'
    <3>1. Repainting' => Repainting
      BY <2>2
    <3>2. Len(operations) \in Nat
      OBVIOUS
    <3>3. Repainting => Repainting'
      BY <2>2
    <3>4. ~Repainting => Below(Len(operations), next_seq')
      <4> HIDE DEF Below, Repainting, TypeOK, MutexInv
      <4> QED
        BY <2>3, <3>2
    <3>5. ~Repainting => \A i \in 1..Len(operations) : operations[i].seq < next_seq'
      BY <3>4
    <3>6. ~Repainting' => \A i \in 1..Len(operations') : operations'[i].seq < next_seq'
      <4> HIDE DEF Repainting
      <4> QED
        BY <2>1, <3>3, <3>5
    <3> QED
      BY <3>6
  <2>5. ASSUME NEW u \in Threads PROVE ApplyInv(u)'
    <3>1. CASE u = t
      BY <2>2, <3>1
    <3>2. CASE u # t
      <4>1. ApplyInv(u) /\ pc'[u] = pc[u] /\ op'[u] = op[u]
                /\ expected[u] \in Nat /\ op[u].seq \in Nat /\ next_seq \in Nat
        BY <2>2, <3>2, OpSeqs
      <4> HIDE DEF TypeOK, MutexInv, NextInv
      <4> QED
        BY <2>1, <4>1
    <3> QED
      BY <3>1, <3>2
  <2>6. ASSUME NEW u \in Threads, pc'[u] \in {"scan", "store"}
        PROVE  Below(Scanned(u), next_seq')
    <3>1. u # t /\ pc[u] \in {"scan", "store"}
      BY <2>2, <2>6
    <3>2. Scanned(u) \in Nat /\ Scanned(u) <= Len(operations)
              /\ Below(Scanned(u), next_seq)
      BY <3>1
    <3> HIDE DEF Below, Scanned
    <3> QED
      BY <2>3, <3>2
  <2>7. ASSUME NEW u \in Threads PROVE LoadInv(u)'
    <3>1. CASE u = t
      BY <2>2, <3>1
    <3>2. CASE u # t
      <4>1. LoadInv(u) /\ pc'[u] = pc[u] /\ expected[u] \in Nat
                /\ next_seq \in Nat
        BY <2>2, <3>2
      <4>2. Scanned(u)' = Scanned(u) /\ operations' = operations
                /\ todo' = todo /\ expected' = expected
        BY <2>1
      <4>3. pc'[u] \in {"scan", "store"} => Below(Scanned(u), next_seq)'
        BY <2>6, <4>2
      <4>4. pc'[u] = "store" => Below(Scanned(u), expected[u])'
                                    /\ expected'[u] <= next_seq'
        <5> HIDE DEF TypeOK, MutexInv, NextInv
        <5> QED
          BY <2>1, <4>1, <4>2
      <4> HIDE DEF TypeOK, MutexInv, NextInv, Below, Scanned
      <4> QED
        BY <4>1, <4>2, <4>3, <4>4
    <3> QED
      BY <3>1, <3>2
  <2> QED
    BY <2>4, <2>5, <2>7
<1>3. ASSUME NEW t \in Threads, Acquire(t) PROVE NextInv'
  <2>1. UNCHANGED <<operations, next_seq, expected, todo>>
    BY <1>3 DEF Acquire
  <2>2. /\ pc[t] = "lock" /\ pc'[t] \in {"idle", "read"}
        /\ \A u \in Threads : u # t => pc'[u] = pc[u] /\ op'[u] = op[u]
    BY <1>3 DEF Acquire, Drop
  <2>3. HistoryInv'
    BY <2>1, <2>2
  <2>4. ASSUME NEW u \in Threads PROVE ApplyInv(u)' /\ LoadInv(u)'
    <3>1. CASE u = t
      BY <2>2, <3>1
    <3>2. CASE u # t
      BY <2>1, <2>2, <3>2
    <3> QED
      BY <3>1, <3>2
  <2> QED
    BY <2>3, <2>4
<1>4. ASSUME NEW t \in Threads, ReadNext(t) PROVE NextInv'
  BY <1>4 DEF ReadNext, canvasVars
<1>5. ASSUME NEW t \in Threads, RaiseNext(t) PROVE NextInv'
  <2>1. UNCHANGED <<operations, todo, op>> /\ next_seq' \in Nat
            /\ next_seq' >= expected[t] /\ op[t].seq < next_seq'
    BY <1>5, OpSeqs DEF RaiseNext
  <2>2. /\ pc'[t] = "draw" /\ pc[t] = "raise"
        /\ \A u \in Threads : u # t => pc'[u] = pc[u]
    BY <1>5 DEF RaiseNext
  <2>3. \A u \in Threads : u # t => pc[u] \notin ApplySection \cup LoadSection
    BY <2>2
  <2>4. Below(Len(operations), next_seq')
    <3>1. Below(Len(operations), expected[t]) /\ Len(operations) \in Nat
              /\ expected[t] \in Nat
      BY <2>2
    <3>2. expected[t] <= next_seq' /\ next_seq' \in Nat
      BY <2>1, <3>1
    <3> HIDE DEF Below, NextInv, TypeOK, MutexInv
    <3> QED
      BY <3>1, <3>2, BelowGrows
  <2> QED
    BY <2>1, <2>2, <2>3, <2>4
<1>6. ASSUME NEW t \in Threads, Rasterize(t) PROVE NextInv'
  BY <1>6 DEF Rasterize
<1>7. ASSUME NEW t \in Threads, Log(t) PROVE NextInv'
  BY <1>7 DEF Log, Drop
<1>8. ASSUME NEW t \in Threads, ClearHistory(t) PROVE NextInv'
  BY <1>8 DEF ClearHistory, threadVars
<1>9. ASSUME NEW t \in Threads, LoadHistory(t) PROVE NextInv'
  BY <1>9 DEF LoadHistory
<1>10. ASSUME NEW t \in Threads, LoadResetNext(t) PROVE NextInv'
  BY <1>10 DEF LoadResetNext
<1>11. ASSUME NEW t \in Threads, LoadReadNext(t) PROVE NextInv'
  BY <1>11 DEF LoadReadNext, canvasVars
<1>12. ASSUME NEW t \in Threads, LoadStoreNext(t) PROVE NextInv'
  <2>1. /\ todo[t] # <<>> /\ todo[t] \in Seq(Op) /\ Len(todo[t]) \in Nat \ {0}
        /\ Head(todo[t]) = todo[t][1]
        /\ Len(Tail(todo[t])) = Len(todo[t]) - 1
        /\ \A j \in 1..Len(Tail(todo[t])) : Tail(todo[t])[j] = todo[t][j + 1]
    BY <1>12 DEF LoadStoreNext
  <2>2. UNCHANGED operations /\ todo'[t] = Tail(todo[t])
    BY <1>12 DEF LoadStoreNext
  <2>3. /\ pc'[t] = "scan" /\ pc[t] = "store"
        /\ \A u \in Threads : u # t => pc'[u] = pc[u]
    BY <1>12 DEF LoadStoreNext
  <2>4. \A u \in Threads : u # t => pc[u] \notin ApplySection \cup LoadSection
    BY <2>3
  <2>5. Scanned(t) \in Nat /\ Scanned(t) + 1 <= Len(operations)
    BY <2>1, <2>3
  <2>6. operations[Scanned(t) + 1] = Head(todo[t])
    <3>1. 1 \in 1..Len(todo[t])
      BY <2>1
    <3>2. \A j \in 1..Len(todo[t]) : todo[t][j] = operations[Scanned(t) + j]
      BY <2>3
    <3>3. todo[t][1] = operations[Scanned(t) + 1]
      <4> HIDE DEF TypeOK, MutexInv, NextInv, Scanned
      <4> QED
        BY <3>1, <3>2
    <3> QED
      BY <2>1, <3>3
  <2>7. next_seq' \in Nat /\ next_seq' >= expected[t]
            /\ Head(todo[t]).seq < next_seq'
    BY <1>12, <2>1, OpSeqs DEF LoadStoreNext
  <2>8. Below(Scanned(t), expected[t]) /\ expected[t] \in Nat
            /\ Len(operations) \in Nat
    BY <2>3
  <2>9. Below(Scanned(t) + 1, next_seq')
    <3> DEFINE n == Scanned(t)
    <3>1. n \in Nat /\ n <= Len(operations) /\ Below(n, expected[t])
              /\ expected[t] <= next_seq'
      BY <2>5, <2>7, <2>8
    <3> HIDE DEF NextInv, Below, n
    <3>2. Below(n, next_seq')
      BY <2>7, <2>8, <3>1, BelowGrows
    <3>3. operations[n + 1].seq < next_seq'
      BY <2>6, <2>7 DEF n
    <3>4. Below(n + 1, next_seq')
      BY <3>1, <3>2, <3>3 DEF Below
    <3> QED
      BY <3>4 DEF n
  <2>10. LoadInv(t)'
    <3>1. Scanned(t)' = Scanned(t) + 1
      BY <2>1, <2>2
    <3>2. \A j \in 1..Len(todo'[t]) : todo'[t][j] = operations[Scanned(t) + 1 + j]
      <4>1. ASSUME NEW j \in 1..Len(todo'[t])
            PROVE  todo'[t][j] = operations[Scanned(t) + (j + 1)]
        <5>1. j + 1 \in 1..Len(todo[t]) /\ todo'[t][j] = todo[t][j + 1]
          BY <2>1, <2>2
        <5> QED
          BY <2>3, <5>1
      <4>2. \A j \in 1..Len(todo'[t]) : Scanned(t) + (j + 1) = Scanned(t) + 1 + j
        BY <2>5
      <4> HIDE DEF Scanned
      <4> QED
        BY <4>1, <4>2
    <3>3. Below(Scanned(t), next_seq)'
      <4> HIDE DEF Scanned
      <4> QED
        BY <2>2, <2>9, <3>1
    <3>4. \A j \in 1..Len(todo'[t]) : todo'[t][j] = operations'[Scanned(t)' + j]
      <4> HIDE DEF Scanned
      <4> QED
        BY <2>2, <3>1, <3>2
    <3>5. Scanned(t)' \in Nat
      <4> HIDE DEF Scanned
      <4> QED
        BY <2>5, <3>1
    <3> HIDE DEF Scanned, Below
    <3> QED
      BY <2>3, <3>3, <3>4, <3>5
  <2>11. ASSUME NEW u \in Threads PROVE ApplyInv(u)' /\ (u # t => LoadInv(u)')
    BY <2>3, <2>4
  <2>12. HistoryInv'
    BY <2>3
  <2> QED
    BY <2>10, <2>11, <2>12
<1>13. ASSUME NEW t \in Threads, LoadPaint(t) PROVE NextInv'
  BY <1>13 DEF LoadPaint
<1>14. CASE UNCHANGED vars
  BY <1>14 DEF vars
<1> QED
  BY <1>1, <1>2, <1>3, <1>4, <1>5, <1>6, <1>7, <1>8, <1>9, <1>10, <1>11,
     <1>12, <1>13, <1>14 DEF Next, Apply, Load

-----------------------------------------------------------------------------
IInv == TypeOK /\ CanvasInv

\* Every state of the canvas satisfies the inductive invariant: the mutexes,
\* the ids, the pixels and next_seq agree between any two steps of apply,
\* clear_history and load.
THEOREM CanvasInvariant == Spec => [](TypeOK /\ CanvasInv)
<1>1. Init => IInv
  BY TypeInit, InvInit DEF IInv
<1>2. IInv /\ [Next]_vars => IInv'
  BY TypeStep, MutexStep, IdsStep, PixelsStep, NextStep DEF IInv, CanvasInv
<1>3. IInv => TypeOK /\ CanvasInv
  BY DEF IInv
<1> QED
  BY <1>1, <1>2, <1>3, PTL DEF Spec

\* The variables of the canvas and of its callers always have their types.
THEOREM TypeCorrect == Spec => []TypeOK
BY CanvasInvariant, PTL

\* Outside a repaint the pixels are the replay of the history
\* (canvas::apply, clear_history and load keep both in step).
THEOREM PixelsFollowHistory == Spec => []RasterMatchesHistory
<1>1. TypeOK /\ CanvasInv => RasterMatchesHistory
  BY CanvasAssumption DEF TypeOK, CanvasInv, MutexInv, PixelsInv,
     RasterMatchesHistory, ApplySection, LoadSection
<1> QED
  BY <1>1, CanvasInvariant, PTL

\* Outside a repaint next_seq exceeds every seq of the history, although it
\* is raised by a read and a separate write (canvas.cpp:136-137, 160).
THEOREM SeqsBelowNext == Spec => []HistoryBelowNext
<1>1. TypeOK /\ CanvasInv => HistoryBelowNext
  BY CanvasAssumption DEF TypeOK, CanvasInv, MutexInv, NextInv, HistoryInv,
     HistoryBelowNext, Repainting, Below, ApplySection, LoadSection
<1> QED
  BY <1>1, CanvasInvariant, PTL

\* A saved or received history that does not itself repeat an id.
CleanLoads == \A t \in Threads : \A ops \in Loads[t] : NoRepeatedId(ops)

\* No step logs an id twice, given clean loads.
LEMMA NoDuplicateStep ==
    ASSUME CleanLoads, IInv, NoDuplicateIds, [Next]_vars
    PROVE  NoDuplicateIds'
<1> USE DEF NoDuplicateIds
<1>1. CASE UNCHANGED operations
  BY <1>1 DEF NoRepeatedId
<1>2. ASSUME NEW t \in Threads, Log(t) PROVE NoDuplicateIds'
  <2>1. op[t].id \notin IdsOf(operations) /\ op[t] \in Op
            /\ operations \in Seq(Op) /\ operations' = Append(operations, op[t])
    BY <1>2 DEF IInv, TypeOK, CanvasInv, IdsInv, Log, ApplySection
  <2>2. /\ Len(operations') = Len(operations) + 1 /\ Len(operations) \in Nat
        /\ operations'[Len(operations) + 1] = op[t]
        /\ \A i \in 1..Len(operations) : operations'[i] = operations[i]
    BY <2>1
  <2>3. \A i \in 1..Len(operations) :
            operations[i].id # NoId => operations[i].id # op[t].id
    BY <2>1 DEF IdsOf
  <2> QED
    BY <2>2, <2>3 DEF NoRepeatedId
<1>3. ASSUME NEW t \in Threads, ClearHistory(t) PROVE NoDuplicateIds'
  BY <1>3 DEF ClearHistory, NoRepeatedId
<1>4. ASSUME NEW t \in Threads, LoadHistory(t) PROVE NoDuplicateIds'
  BY <1>4 DEF LoadHistory, CleanLoads
<1>5. ASSUME NEW t \in Threads, \/ Lookup(t) \/ Stamp(t) \/ Acquire(t)
          \/ ReadNext(t) \/ RaiseNext(t) \/ Rasterize(t) \/ LoadResetNext(t)
          \/ LoadReadNext(t) \/ LoadStoreNext(t) \/ LoadPaint(t)
      PROVE  UNCHANGED operations
  BY <1>5 DEF Lookup, Stamp, Acquire, ReadNext, RaiseNext, Rasterize,
     LoadResetNext, LoadReadNext, LoadStoreNext, LoadPaint, canvasVars
<1>6. CASE UNCHANGED vars
  BY <1>1, <1>6 DEF vars
<1> QED
  BY <1>1, <1>2, <1>3, <1>4, <1>5, <1>6 DEF Next, Apply, Load

\* The two lookups of apply keep every operation id at most once in the
\* history, if no history that is loaded repeats one.
THEOREM IdsLoggedOnce == ASSUME CleanLoads PROVE Spec => []NoDuplicateIds
<1>1. Init => NoDuplicateIds
  BY DEF Init, NoDuplicateIds, NoRepeatedId
<1>2. IInv /\ NoDuplicateIds /\ [Next]_vars => NoDuplicateIds'
  BY NoDuplicateStep
<1>3. IInv <=> TypeOK /\ CanvasInv
  BY DEF IInv
<1> QED
  BY <1>1, <1>2, <1>3, CanvasInvariant, PTL DEF Spec

\* Every step of the canvas is a step of the log or changes nothing of it.
LEMMA RefinementStep ==
    ASSUME IInv, [Next]_vars
    PROVE  [Abstract!LogNext]_(Abstract!logVars)
<1> USE CanvasAssumption DEF IInv, TypeOK, CanvasInv, MutexInv, PixelsInv,
        ApplySection, LoadSection, Goto
<1> DEFINE Stutter == UNCHANGED <<operations, pixels, raster_mutex>>
           Redraw == UNCHANGED operations /\ raster_mutex' # Free
<1>1. ASSUME Stutter PROVE UNCHANGED Abstract!logVars
  BY <1>1 DEF Abstract!logVars
<1>2. ASSUME Redraw PROVE Abstract!LogRedraw
  BY <1>2 DEF Abstract!LogRedraw
<1>3. ASSUME NEW t \in Threads, \/ Lookup(t) \/ Stamp(t) \/ ReadNext(t)
          \/ RaiseNext(t) \/ LoadResetNext(t) \/ LoadReadNext(t) \/ LoadStoreNext(t)
      PROVE  Stutter
  BY <1>3 DEF Lookup, Stamp, ReadNext, RaiseNext, LoadResetNext,
     LoadReadNext, LoadStoreNext, canvasVars
<1>4. ASSUME NEW t \in Threads, Acquire(t) PROVE Stutter \/ Redraw
  BY <1>4 DEF Acquire
<1>5. ASSUME NEW t \in Threads, Rasterize(t) PROVE Redraw
  BY <1>5 DEF Rasterize
<1>6. ASSUME NEW t \in Threads, Log(t) PROVE Abstract!LogAppend
  <2>1. op[t].id \notin IdsOf(operations) /\ op[t] \in Op
            /\ operations \in Seq(Op) /\ operations' = Append(operations, op[t])
    BY <1>6 DEF IdsInv, Log
  <2>2. /\ Len(operations') = Len(operations) + 1 /\ Len(operations) \in Nat
        /\ operations'[Len(operations')] = op[t]
        /\ SubSeq(operations', 1, Len(operations)) = operations
    BY <2>1
  <2>3. pixels' = operations' /\ raster_mutex' = Free
    BY <1>6 DEF Log
  <2>4. ~Abstract!LogHas(op[t].id)
    BY <2>1 DEF Abstract!LogHas, IdsOf
  <2> QED
    BY <2>2, <2>3, <2>4 DEF Abstract!LogAppend, Abstract!Grown
<1>7. ASSUME NEW t \in Threads, ClearHistory(t) PROVE Abstract!LogReset
  BY <1>7 DEF ClearHistory, Abstract!LogReset
<1>8. ASSUME NEW t \in Threads, LoadHistory(t) PROVE Abstract!LogReset
  BY <1>8 DEF LoadHistory, Abstract!LogReset
<1>9. ASSUME NEW t \in Threads, LoadPaint(t) PROVE Abstract!LogRedraw
  BY <1>9 DEF LoadPaint, Abstract!LogRedraw
<1>10. CASE UNCHANGED vars
  BY <1>10 DEF vars, Abstract!logVars
<1> HIDE DEF Stutter, Redraw
<1> QED
  BY <1>1, <1>2, <1>3, <1>4, <1>5, <1>6, <1>7, <1>8, <1>9, <1>10
  DEF Next, Apply, Load, Abstract!LogNext

\* The canvas implements CanvasLog: to its callers it is a log that takes
\* operations one at a time, each id once, and shows its replay.
THEOREM CanvasIsALog == Spec => ImplementsLog
<1>1. Init => Abstract!LogInit
  BY CanvasAssumption DEF Init, Abstract!LogInit
<1>2. IInv /\ [Next]_vars => [Abstract!LogNext]_(Abstract!logVars)
  BY RefinementStep
<1>3. IInv <=> TypeOK /\ CanvasInv
  BY DEF IInv
<1> QED
  BY <1>1, <1>2, <1>3, CanvasInvariant, PTL
  DEF Spec, ImplementsLog, Abstract!LogSpec
=============================================================================
