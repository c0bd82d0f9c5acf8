------------------------- MODULE PersistenceProofs -------------------------
(***************************************************************************)
(* Proofs about Persistence, for any number of threads that draw, any file *)
(* before, and any number of starts and failures.  The second half is      *)
(* about files saved, opened and closed only while nothing is being drawn  *)
(* or written (Careful): nothing gets into the file twice, and nothing     *)
(* that is drawn is lost.                                                  *)
(***************************************************************************)
EXTENDS Persistence, TLAPS, SequenceTheorems, WellFoundedInduction

(* The inductive invariants.                                               *)

\* A thread is in file_manager.
Busy == Labels \ ({"idle"} \cup Drawing)

\* The calls of file_manager in which there is no log: it has been closed, or
\* was not there.
Closing == DOMAIN ClosingTo
Logless == {"truncate", "write", "saved", "enable", "reopen", "gone"}

\* One thread at a time is in file_manager.
OneInv ==
    \A t, u \in Threads : pc[t] \in Busy /\ u # t => pc[u] \notin Busy

\* Where there is a log, and what toggle_auto_save waits for.
LogInv ==
    /\ operation_log => auto_save_on \/ \E t \in Threads : pc[t] = "disabling"
    /\ \A t \in Threads : pc[t] \in Logless => ~operation_log
    /\ enabling => \E t \in Threads :
                      \/ pc[t] \in {"snapshot", "refill"}
                      \/ /\ pc[t] \in {"save", "truncate", "write", "saved", "enable"}
                         /\ ~auto_save_on

\* Auto-save needs a file with a name; where there is no log nothing is queued.
NamedInv ==
    /\ operation_log \/ auto_save_on => named
    /\ ~operation_log => writer = NoWriter /\ queue = <<>> /\ ~stop
    /\ \A t \in Threads :
          /\ pc[t] \in {"enable", "saved", "opening", "reopen"} => named
          /\ pc[t] \in {"snapshot", "refill"} => operation_log
          /\ pc[t] = "disabling" => ~auto_save_on
    /\ auto_save_on /\ ~operation_log =>
          \E t \in Threads : pc[t] \in {"truncate", "write", "saved", "reopen", "gone"}

\* The writer has records in the file that the header does not count yet.
MidBatch == operation_log /\ ~writer.failed /\ writer.wrote
                /\ writer.step \in {"drain", "record", "header"}

\* An operation is the same wherever it is, and has been drawn.
Copies == {NoOp, writer.hand} \cup {op[t] : t \in Threads} \cup Ops(history)
             \cup Ops(file.recs) \cup Ops(queue) \cup Ops(todo)

IdInv == \A x, y \in Copies : x.id <= drawn /\ (x.id = y.id => x = y)

\* What the header says, and what it may be set to next, is in the file; in a
\* batch it is even without its last record.
HeadInv ==
    "save" \notin file.cut =>
       /\ file.header <= Highest(file.recs)
       /\ operation_log /\ ~writer.failed => writer.saved <= Highest(file.recs)
       /\ \A t \in Threads : pc[t] \in {"saved", "opening", "reopen"}
             => file_saved_seq <= Highest(file.recs)
       /\ MidBatch => /\ file.recs # <<>>
                      /\ file.header <= Highest(Front(file.recs))
                      /\ \A t \in Threads : pc[t] = "opening"
                            => file_saved_seq <= Highest(Front(file.recs))

-----------------------------------------------------------------------------
(* Sequences.                                                              *)

\* The seqs of operations are numbers.
LEMMA SeqsType ==
    ASSUME NEW ops \in Seq(Op)
    PROVE  /\ \A y \in Seqs(ops) \cup {0} : y \in Nat
           /\ \A i \in 1..Len(ops) : ops[i] \in Op /\ ops[i].seq \in Seqs(ops)
<1>1. \A i \in 1..Len(ops) : ops[i] \in Op
  BY ElementOfSeq
<1> QED
  BY <1>1 DEF Op, Seqs

\* Of the seqs of a history and 0 one is the highest.
LEMMA HighestSeq ==
    ASSUME NEW ops \in Seq(Op)
    PROVE  \E x \in Seqs(ops) \cup {0} : \A y \in Seqs(ops) \cup {0} : x >= y
<1> DEFINE High(s) == \E x \in Seqs(s) \cup {0} : \A y \in Seqs(s) \cup {0} : x >= y
           Bad == {n \in Nat : \E s \in Seq(Op) : Len(s) = n /\ ~High(s)}
           Less == {ss \in Nat \X Nat : ss[1] < ss[2]}
<1>1. SUFFICES ASSUME Bad # {} PROVE FALSE
  <2>1. Len(ops) \in Nat /\ Len(ops) \notin Bad
    BY <1>1, LenProperties
  <2> QED
    BY <2>1
<1>2. IsWellFoundedOn(Less, Nat)
  BY NatLessThanWellFounded DEF OpToRel
<1>3. PICK n \in Bad : \A k \in Bad : <<k, n>> \notin Less
  <2> HIDE DEF Less, Bad
  <2>1. Bad \subseteq Nat
    BY DEF Bad
  <2> QED
    BY <1>1, <1>2, <2>1, WFMin
<1>4. PICK s \in Seq(Op) : Len(s) = n /\ ~High(s)
  BY <1>3
<1>5. n # 0
  <2>1. ASSUME n = 0 PROVE Seqs(s) = {}
    BY <1>4, <2>1 DEF Seqs
  <2> QED
    BY <1>4, <2>1
<1> DEFINE t == SubSeq(s, 1, n - 1)
<1>6. /\ t \in Seq(Op) /\ Len(t) = n - 1 /\ n - 1 \in Nat
      /\ \A i \in 1..n - 1 : t[i] = s[i]
  BY <1>4, <1>5, SubSeqProperties, ElementOfSeq, LenProperties
<1>7. High(t)
  <2>1. n - 1 \notin Bad
    <3>1. n \in Nat /\ <<n - 1, n>> \in Less
      BY <1>6
    <3> QED
      BY <3>1, <1>3
  <2> QED
    BY <2>1, <1>6
<1>8. PICK x \in Seqs(t) \cup {0} : \A y \in Seqs(t) \cup {0} : x >= y
  BY <1>7
<1>9. Seqs(s) = Seqs(t) \cup {s[n].seq}
  <2> HIDE DEF t
  <2> QED
    BY <1>4, <1>5, <1>6 DEF Seqs
<1>10. s[n].seq \in Nat /\ \A y \in Seqs(t) \cup {0} : y \in Nat
  <2> HIDE DEF t
  <2>1. n \in 1..Len(s)
    BY <1>4, <1>5, LenProperties
  <2> QED
    BY <2>1, <1>4, <1>6, SeqsType DEF Op
<1>11. High(s)
  <2> HIDE DEF t
  <2>1. CASE x >= s[n].seq
    BY <1>8, <1>9, <1>10, <2>1
  <2>2. CASE s[n].seq >= x
    <3>1. x \in Nat
      BY <1>8, <1>10
    <3>2. \A y \in Seqs(t) \cup {0} : s[n].seq >= y
      BY <1>8, <1>10, <2>2, <3>1
    <3>3. \A y \in Seqs(s) \cup {0} : s[n].seq >= y
      BY <3>2, <1>9, <1>10
    <3>4. s[n].seq \in Seqs(s) \cup {0}
      BY <1>9
    <3> QED
      BY <3>3, <3>4
  <2> QED
    BY <2>1, <2>2, <1>8, <1>10
<1> QED
  BY <1>4, <1>11

\* Highest is the least number that no seq is beyond.
LEMMA HighestIs ==
    ASSUME NEW ops \in Seq(Op)
    PROVE  /\ Highest(ops) \in Nat
           /\ \A i \in 1..Len(ops) : ops[i].seq <= Highest(ops)
           /\ \A k \in Nat : (\A i \in 1..Len(ops) : ops[i].seq <= k)
                               => Highest(ops) <= k
<1> DEFINE all == Seqs(ops) \cup {0}
           max == CHOOSE x \in all : \A y \in all : x >= y
<1>1. max \in all /\ \A y \in all : max >= y
  BY HighestSeq
<1>2. Highest(ops) = max
  BY DEF Highest, Max
<1>3. max = 0 \/ \E i \in 1..Len(ops) : max = ops[i].seq
  BY <1>1 DEF Seqs
<1> HIDE DEF max
<1> QED
  BY <1>1, <1>2, <1>3, SeqsType

\* An operation more.
LEMMA HighestAppend ==
    ASSUME NEW ops \in Seq(Op), NEW o \in Op
    PROVE  /\ Append(ops, o) \in Seq(Op) /\ Append(ops, o) # <<>>
           /\ Front(Append(ops, o)) = ops
           /\ Highest(ops) <= Highest(Append(ops, o))
           /\ o.seq <= Highest(Append(ops, o))
<1> DEFINE longer == Append(ops, o)
<1>1. /\ longer \in Seq(Op) /\ Len(longer) = Len(ops) + 1 /\ Len(ops) \in Nat
      /\ \A i \in 1..Len(ops) : longer[i] = ops[i]
      /\ longer[Len(ops) + 1] = o
  BY AppendProperties, LenProperties
<1>2. Front(longer) = ops
  BY <1>1, AppendProperties DEF Front
<1> HIDE DEF longer
<1>3. Highest(ops) <= Highest(longer) /\ o.seq <= Highest(longer)
  <2>1. o = longer[Len(ops) + 1] /\ Len(ops) + 1 \in 1..Len(longer)
    BY <1>1
  <2>2. \A i \in 1..Len(ops) : ops[i].seq <= Highest(longer)
    <3> SUFFICES ASSUME NEW i \in 1..Len(ops) PROVE ops[i].seq <= Highest(longer)
      OBVIOUS
    <3>1. i \in 1..Len(longer) /\ longer[i] = ops[i]
      BY <1>1
    <3> QED
      BY <3>1, <1>1, HighestIs
  <2> QED
    BY <2>1, <2>2, <1>1, HighestIs
<1>4. longer # <<>>
  BY <1>1, EmptySeq
<1> QED
  BY <1>1, <1>2, <1>3, <1>4 DEF longer

\* No operations.
LEMMA HighestEmpty == <<>> \in Seq(Op) /\ Highest(<<>>) = 0
<1>1. <<>> \in Seq(Op) /\ Len(<<>>) = 0
  BY EmptySeq
<1> DEFINE none == <<>>
<1>2. none \in Seq(Op) /\ \A i \in 1..Len(none) : FALSE
  BY <1>1
<1> HIDE DEF none
<1>3. Highest(none) \in Nat /\ Highest(none) <= 0
  BY <1>2, HighestIs
<1> QED
  BY <1>1, <1>3 DEF none

\* The higher of two numbers.
LEMMA MaxOfTwo ==
    ASSUME NEW m \in Nat, NEW n \in Nat
    PROVE  /\ Max({m, n}) \in {m, n} /\ Max({m, n}) \in Nat
           /\ m <= Max({m, n}) /\ n <= Max({m, n})
<1>1. \E x \in {m, n} : \A y \in {m, n} : x >= y
  OBVIOUS
<1>2. Max({m, n}) \in {m, n} /\ \A y \in {m, n} : Max({m, n}) >= y
  BY <1>1 DEF Max
<1> QED
  BY <1>2

\* Parts of a sequence.
LEMMA PartTypes ==
    ASSUME NEW ops \in Seq(Op)
    PROVE  /\ Front(ops) \in Seq(Op)
           /\ ops # <<>> => Tail(ops) \in Seq(Op) /\ Head(ops) \in Op
           /\ \A n \in 0..Len(ops) : SubSeq(ops, 1, n) \in Seq(Op)
<1>1. Len(ops) \in Nat /\ \A i \in 1..Len(ops) : ops[i] \in Op
  BY LenProperties, ElementOfSeq
<1>2. \A n \in -1..Len(ops) : SubSeq(ops, 1, n) \in Seq(Op)
  BY <1>1, SubSeqProperties
<1>3. Front(ops) \in Seq(Op)
  BY <1>1, <1>2 DEF Front
<1>4. ops # <<>> => Tail(ops) \in Seq(Op) /\ Head(ops) \in Op
  BY HeadTailProperties
<1> QED
  BY <1>1, <1>2, <1>3, <1>4

-----------------------------------------------------------------------------
(* Types.                                                                  *)

USE DEF canvas, bounded, manager, log

\* The records the writer begins with.
LEMMA WriterTypes ==
    /\ NoOp \in Op /\ NoWriter \in WriterRec
    /\ \A n \in Nat :
          [NoWriter EXCEPT !.step = "open", !.start = n, !.saved = n] \in WriterRec
    /\ \A w \in WriterRec : Woken(w) \in WriterRec
BY DEF NoOp, Op, NoWriter, WriterRec, Woken

\* The initial state is well typed.
LEMMA TypeInit == Init => TypeOK
<1> SUFFICES ASSUME Init PROVE TypeOK
  OBVIOUS
<1>1. file \in FileRec
  <2>1. Highest(Start) \in Nat /\ Start \in Seq(Op)
    BY PersistenceAssumption, HighestIs
  <2> QED
    BY <2>1 DEF Init, FileRec
<1>2. Len(Start) \in Nat
  BY PersistenceAssumption, LenProperties
<1>3. /\ history \in Seq(Op) /\ queue \in Seq(Op) /\ todo \in Seq(Op)
      /\ op \in [Threads -> Op] /\ writer \in WriterRec
  BY WriterTypes, HighestEmpty DEF Init
<1>4. /\ drawn \in 0..MaxDrawn /\ runs \in 0..MaxRuns /\ failures \in 0..MaxFailures
      /\ next_seq \in Nat \ {0} /\ file_saved_seq \in Nat
  BY <1>2, PersistenceAssumption DEF Init
<1>5. pc \in [Threads -> Labels]
  BY DEF Init, Labels
<1> QED
  BY <1>1, <1>3, <1>4, <1>5 DEF Init, TypeOK

\* The canvas, and what has been drawn of it.
LEMMA CanvasTypes ==
    ASSUME TypeOK, [Next]_vars
    PROVE  /\ history' \in Seq(Op) /\ next_seq' \in Nat \ {0}
           /\ drawn' \in 0..MaxDrawn /\ op' \in [Threads -> Op] /\ todo' \in Seq(Op)
<1> DEFINE Goal == /\ history' \in Seq(Op) /\ next_seq' \in Nat \ {0}
                   /\ drawn' \in 0..MaxDrawn /\ op' \in [Threads -> Op]
                   /\ todo' \in Seq(Op)
<1> USE DEF TypeOK
<1>1. ASSUME NEW t \in Threads, Stamp(t) PROVE Goal
  BY <1>1, PersistenceAssumption DEF Stamp, Op
<1>2. ASSUME NEW t \in Threads, Log(t) PROVE Goal
  <2>1. op[t] \in Op /\ op[t].seq \in Nat
    BY DEF Op
  <2>2. history' \in Seq(Op)
    BY <1>2, <2>1 DEF Log
  <2> QED
    BY <1>2, <2>1, <2>2 DEF Log
<1>3. ASSUME NEW t \in Threads, Enqueue(t) PROVE Goal
  BY <1>3, WriterTypes DEF Enqueue
<1>4. ASSUME NEW t \in Threads, Snapshot(t) PROVE Goal
  BY <1>4 DEF Snapshot
<1>5. ASSUME NEW t \in Threads, Refill(t) PROVE Goal
  BY <1>5, PartTypes DEF Refill
<1>6. ASSUME NEW t \in Threads, Open(t) PROVE Goal
  <2>1. file.recs \in Seq(Op)
    BY DEF FileRec
  <2>2. Highest(file.recs) \in Nat
    BY <2>1, HighestIs
  <2> QED
    BY <1>6, <2>1, <2>2 DEF Open
<1>7. ASSUME NEW t \in Threads, Clear(t) PROVE Goal
  BY <1>7, HighestEmpty DEF Clear
<1>8. ASSUME Started PROVE Goal
  <2>1. op' \in [Threads -> Op]
    BY <1>8, WriterTypes DEF Started
  <2>2. history' \in Seq(Op) /\ todo' \in Seq(Op)
    BY <1>8, HighestEmpty DEF Started
  <2> QED
    BY <1>8, <2>1, <2>2 DEF Started
<1> QED
  BY <1>1, <1>2, <1>3, <1>4, <1>5, <1>6, <1>7, <1>8
     DEF Next, Stroke, Manager, User, WriterThread, Save, Closed, Truncate,
         SaveFails, WriteFile, Saved, Enable, Enabled, Reopen, SaveButton,
         EnableButton, Disable, Quit, OpenFile, Check, Doze, Take, Record,
         Drained, Header, ThrowAway, OpenFileFails, Fails, Restart, Kill,
         KillInSave, vars

\* The places of the threads, the flags and the bounds.
LEMMA PlaceTypes ==
    ASSUME TypeOK, [Next]_vars
    PROVE  /\ pc' \in [Threads -> Labels] /\ runs' \in 0..MaxRuns
           /\ failures' \in 0..MaxFailures
           /\ named' \in BOOLEAN /\ auto_save_on' \in BOOLEAN /\ enabling' \in BOOLEAN
           /\ operation_log' \in BOOLEAN /\ stop' \in BOOLEAN
<1> DEFINE Goal == /\ pc' \in [Threads -> Labels] /\ runs' \in 0..MaxRuns
                   /\ failures' \in 0..MaxFailures
                   /\ named' \in BOOLEAN /\ auto_save_on' \in BOOLEAN
                   /\ enabling' \in BOOLEAN
                   /\ operation_log' \in BOOLEAN /\ stop' \in BOOLEAN
<1> USE DEF TypeOK, Goto, StartWriter, StopWriter
<1>0. MaxRuns \in Nat /\ MaxFailures \in Nat
  BY PersistenceAssumption
<1>10. ASSUME FileFails PROVE failures' \in 0..MaxFailures /\ runs' \in 0..MaxRuns
  BY <1>0, <1>10 DEF FileFails
<1>1. ASSUME NEW t \in Threads, Stroke(t) PROVE Goal
  BY <1>1 DEF Stroke, Stamp, Log, Enqueue, Labels
<1>2. ASSUME NEW t \in Threads, User(t) PROVE Goal
  <2>1. ASSUME NEW l \in Labels, Goto(t, l) PROVE pc' \in [Threads -> Labels]
    BY <2>1
  <2>2. {"idle", "save", "enable"} \cup DOMAIN ClosingTo \subseteq Labels
    BY DEF Labels
  <2>3. {"opening", "disabling", "quitting"} \subseteq DOMAIN ClosingTo
    BY DEF ClosingTo
  <2>4. pc' \in [Threads -> Labels]
    BY <1>2, <2>1, <2>2, <2>3
    DEF User, SaveButton, EnableButton, Disable, Open, Clear, Quit
  <2> QED
    BY <1>2, <2>4 DEF User, SaveButton, EnableButton, Disable, Open, Clear, Quit
<1>3. ASSUME NEW t \in Threads, Manager(t) PROVE Goal
  <2>1. ASSUME Closed(t) PROVE Goal
    <3>1. ClosingTo[pc[t]] \in Labels
      BY <2>1 DEF Closed, ClosingTo, Labels
    <3> QED
      BY <2>1, <3>1 DEF Closed
  <2>2. ASSUME Save(t) PROVE Goal
    BY <2>2 DEF Save, Labels, ClosingTo
  <2>3. ASSUME SaveFails(t) PROVE Goal
    BY <2>3, <1>10 DEF SaveFails, Labels
  <2>4. ASSUME Saved(t) \/ Reopen(t) PROVE Goal
    BY <2>4 DEF Saved, Reopen, Labels
  <2>5. ASSUME \/ Truncate(t) \/ WriteFile(t) \/ Enable(t) \/ Snapshot(t) \/ Refill(t)
               \/ Enabled(t)
        PROVE  Goal
    BY <2>5 DEF Truncate, WriteFile, Enable, Snapshot, Refill, Enabled, Labels
  <2> QED
    BY <1>3, <2>1, <2>2, <2>3, <2>4, <2>5 DEF Manager
<1>4. ASSUME WriterThread PROVE Goal
  BY <1>4 DEF WriterThread, OpenFile, Check, Doze, Take, Record, Drained, Header,
             ThrowAway
<1>5. ASSUME OpenFileFails \/ Fails PROVE Goal
  BY <1>5, <1>10 DEF OpenFileFails, Fails
<1>6. ASSUME Started PROVE Goal
  <2>1. pc' \in [Threads -> Labels]
    BY <1>6 DEF Started, Labels
  <2>2. runs' \in 0..MaxRuns /\ failures' \in 0..MaxFailures
    BY <1>0, <1>6 DEF Started
  <2> QED
    BY <1>6, <2>1, <2>2 DEF Started
<1>7. ASSUME UNCHANGED vars PROVE Goal
  BY <1>7 DEF vars
<1> QED
  BY <1>1, <1>2, <1>3, <1>4, <1>5, <1>6, <1>7 DEF Next, Restart, Kill, KillInSave

\* The writer and its queue.
LEMMA LogTypes ==
    ASSUME TypeOK, [Next]_vars
    PROVE  writer' \in WriterRec /\ queue' \in Seq(Op)
<1> DEFINE Goal == writer' \in WriterRec /\ queue' \in Seq(Op)
<1> USE DEF TypeOK
<1>0. file_saved_seq \in Nat /\ file.header \in Nat /\ <<>> \in Seq(Op)
  BY HighestEmpty DEF FileRec
<1>1. ASSUME NEW n \in Nat, StartWriter(n) PROVE Goal
  BY <1>0, <1>1, WriterTypes DEF StartWriter
<1>2. ASSUME StopWriter PROVE Goal
  BY <1>2, WriterTypes DEF StopWriter
<1>3. ASSUME NEW o \in Op, Push(o) PROVE Goal
  <2>1. Append(queue, o) \in Seq(Op)
    OBVIOUS
  <2> QED
    BY <1>3, <2>1, WriterTypes DEF Push
<1>4. ASSUME NEW t \in Threads, Enqueue(t) PROVE Goal
  BY <1>3, <1>4 DEF Enqueue
<1>5. ASSUME NEW t \in Threads, Refill(t) PROVE Goal
  BY <1>3, <1>5, PartTypes DEF Refill
<1>6. ASSUME NEW t \in Threads, Closed(t) PROVE Goal
  BY <1>0, <1>6, WriterTypes DEF Closed
<1>7. ASSUME NEW t \in Threads, \/ Save(t) \/ SaveFails(t) \/ Saved(t) \/ Enable(t)
                               \/ Reopen(t) \/ Disable(t) \/ Open(t) \/ Quit(t)
      PROVE  Goal
  BY <1>0, <1>1, <1>2, <1>7
  DEF Save, SaveFails, Saved, Enable, Reopen, Disable, Open, Quit
<1>8. ASSUME OpenFile \/ Check \/ Doze \/ Drained \/ Header \/ OpenFileFails PROVE Goal
  <2>1. CASE OpenFile \/ Doze \/ Drained
    BY <2>1 DEF OpenFile, Doze, Drained, Step, WriterRec
  <2>2. CASE Check
    BY <2>2 DEF Check, WriterRec
  <2>3. CASE Header
    BY <2>3 DEF Header, Step, WriterRec
  <2>4. CASE OpenFileFails
    BY <2>4 DEF OpenFileFails, WriterRec
  <2> QED
    BY <1>8, <2>1, <2>2, <2>3, <2>4
<1>9. ASSUME Take PROVE Goal
  <2>1. Head(queue) \in Op /\ Tail(queue) \in Seq(Op)
    BY <1>9, PartTypes DEF Take
  <2> QED
    BY <1>9, <2>1 DEF Take, WriterRec
<1>10. ASSUME Record PROVE Goal
  <2>1. writer.saved \in Nat /\ writer.hand.seq \in Nat
    BY DEF WriterRec, Op
  <2>2. Max({writer.saved, writer.hand.seq}) \in Nat
    BY <2>1, MaxOfTwo
  <2> QED
    BY <1>10, <2>2, WriterTypes DEF Record, WriterRec
<1>11. ASSUME ThrowAway PROVE Goal
  BY <1>0, <1>11 DEF ThrowAway, Step, WriterRec
<1>12. ASSUME Fails PROVE Goal
  BY <1>0, <1>12, WriterTypes DEF Fails, WriterRec
<1>13. ASSUME Started PROVE Goal
  BY <1>0, <1>13, WriterTypes DEF Started
<1> QED
  BY <1>4, <1>5, <1>6, <1>7, <1>8, <1>9, <1>10, <1>11, <1>12, <1>13
     DEF Next, Stroke, Manager, User, WriterThread, Stamp, Log, Truncate,
         WriteFile, Snapshot, Enabled, SaveButton, EnableButton, Clear,
         Restart, Kill, KillInSave, vars

\* The file, and what the file manager knows of it.
LEMMA FileTypes ==
    ASSUME TypeOK, [Next]_vars
    PROVE  file' \in FileRec /\ file_saved_seq' \in Nat
<1> DEFINE Goal == file' \in FileRec /\ file_saved_seq' \in Nat
<1> USE DEF TypeOK
<1>0. /\ file.recs \in Seq(Op) /\ file.header \in Nat /\ history \in Seq(Op)
      /\ <<>> \in Seq(Op) /\ file.cut \subseteq {"batch", "save", "gap"}
      /\ Highest(history) \in Nat /\ writer.hand \in Op /\ writer.saved \in Nat
      /\ \A ops : Losing(ops) \subseteq {"gap"}
  BY HighestEmpty, HighestIs DEF FileRec, WriterRec, Losing
<1>1. ASSUME NEW t \in Threads, Truncate(t) PROVE Goal
  <2>1. [state |-> "empty", header |-> 0, recs |-> <<>>, cut |-> file.cut] \in FileRec
    BY <1>0 DEF FileRec
  <2> QED
    BY <1>1, <2>1 DEF Truncate
<1>11. ASSUME NEW t \in Threads, SaveFails(t) PROVE Goal
  BY <1>0, <1>11 DEF SaveFails, FileRec
<1>2. ASSUME NEW t \in Threads, WriteFile(t) PROVE Goal
  BY <1>0, <1>2 DEF WriteFile, FileRec
<1>3. ASSUME NEW t \in Threads, Enable(t) \/ Open(t) PROVE Goal
  BY <1>0, <1>3 DEF Enable, Open
<1>4. ASSUME Record PROVE Goal
  <2>1. Append(file.recs, writer.hand) \in Seq(Op)
    BY <1>0
  <2> QED
    BY <1>4, <2>1 DEF Record, FileRec
<1>5. ASSUME Header PROVE Goal
  BY <1>0, <1>5 DEF Header, FileRec
<1>6. ASSUME ThrowAway PROVE Goal
  BY <1>0, <1>6 DEF ThrowAway, FileRec
<1>7. ASSUME Fails PROVE Goal
  <2>1. Front(file.recs) \in Seq(Op)
    BY <1>0, PartTypes
  <2>2. PICK state \in {file.state, "torn"}, recs \in {file.recs, Front(file.recs)},
            lost \in SUBSET {"gap"} :
          file' = [file EXCEPT !.state = state, !.recs = recs,
                               !.cut = @ \cup {"batch"} \cup lost]
    <3>1. PICK state \in {file.state, "torn"}, recs \in {file.recs, Front(file.recs)} :
            file' = [file EXCEPT !.state = state, !.recs = recs,
               !.cut = @ \cup {"batch"} \cup
                       Losing({writer.hand} \cup ToSet(queue)
                                 \cup (ToSet(file.recs) \ ToSet(recs)))]
      BY <1>7 DEF Fails
    <3> QED
      BY <1>0, <3>1
  <2> QED
    BY <1>0, <1>7, <2>1, <2>2 DEF Fails, FileRec
<1>8. ASSUME Started, UNCHANGED file PROVE Goal
  BY <1>8 DEF Started
<1>9. ASSUME Kill PROVE Goal
  <2>1. PICK state \in {file.state, "torn"}, cut \in {file.cut, file.cut \cup {"batch"}} :
          file' = [file EXCEPT !.state = state, !.cut = cut]
    BY <1>9 DEF Kill
  <2> QED
    BY <1>0, <1>9, <2>1 DEF Kill, Started, FileRec
<1>10. ASSUME KillInSave PROVE Goal
  <2>1. \A n \in 0..Len(history) : SubSeq(history, 1, n) \in Seq(Op)
    BY <1>0, PartTypes
  <2>2. file_saved_seq' \in Nat
    BY <1>10 DEF KillInSave, Started
  <2>3. CASE file' = [file EXCEPT !.cut = @ \cup {"save"}]
    BY <1>0, <2>2, <2>3 DEF FileRec
  <2>4. ASSUME NEW n \in 0..Len(history), NEW state \in {"good", "torn"},
               file' = [state |-> state, header |-> Highest(history),
                        recs |-> SubSeq(history, 1, n), cut |-> file.cut \cup {"save"}]
        PROVE  Goal
    <3>1. SubSeq(history, 1, n) \in Seq(Op)
      BY <2>1
    <3> QED
      BY <1>0, <2>2, <2>4, <3>1 DEF FileRec
  <2> QED
    BY <1>10, <2>3, <2>4 DEF KillInSave
<1> QED
  BY <1>1, <1>2, <1>3, <1>4, <1>5, <1>6, <1>7, <1>8, <1>9, <1>10, <1>11
     DEF Next, Stroke, Manager, User, WriterThread, Stamp, Log, Enqueue,
         Save, Closed, Saved, Snapshot, Refill, Enabled, Reopen, SaveButton,
         EnableButton, Disable, Clear, Quit, OpenFile, Check, Doze, Take,
         Drained, OpenFileFails, Restart, vars

\* Every step keeps the types.
LEMMA TypeStep == TypeOK /\ [Next]_vars => TypeOK'
BY CanvasTypes, PlaceTypes, LogTypes, FileTypes DEF TypeOK

-----------------------------------------------------------------------------
(* Places.                                                                 *)

\* One thread goes on; into file_manager only if no other is there.
LEMMA PcStep ==
    ASSUME TypeOK, [Next]_vars
    PROVE  \/ pc' = [t \in Threads |-> "idle"]
           \/ UNCHANGED pc
           \/ \E t \in Threads, l \in Labels :
                 /\ pc' = [pc EXCEPT ![t] = l]
                 /\ l \in Busy /\ pc[t] \notin Busy
                       => \A u \in Threads \ {t} : pc[u] \notin Busy
<1> DEFINE Goes(t) == \E l \in Labels :
                 /\ pc' = [pc EXCEPT ![t] = l]
                 /\ l \in Busy /\ pc[t] \notin Busy
                       => \A u \in Threads \ {t} : pc[u] \notin Busy
<1> USE DEF Goto
<1>1. ASSUME NEW t \in Threads, Stroke(t) PROVE Goes(t)
  <2>1. PICK l \in {"idle", "log", "enqueue"} : pc' = [pc EXCEPT ![t] = l]
    BY <1>1 DEF Stroke, Stamp, Log, Enqueue
  <2>2. l \in Labels /\ l \notin Busy
    BY <2>1 DEF Labels, Busy, Drawing
  <2> QED
    BY <2>1, <2>2
<1>2. ASSUME NEW t \in Threads, Manager(t) PROVE Goes(t) \/ UNCHANGED pc
  <2>1. pc[t] \in Busy
    BY <1>2 DEF Manager, Save, Closed, Truncate, SaveFails, WriteFile, Saved, Enable,
                Snapshot, Refill, Enabled, Reopen, Busy, Labels, Drawing, ClosingTo
  <2>2. CASE Refill(t)
    BY <2>2 DEF Refill
  <2>3. CASE Closed(t)
    <3>1. ClosingTo[pc[t]] \in Labels
      BY <2>3 DEF Closed, ClosingTo, Labels
    <3> QED
      BY <2>1, <2>3, <3>1 DEF Closed
  <2>4. CASE \/ Save(t) \/ Truncate(t) \/ SaveFails(t) \/ WriteFile(t) \/ Saved(t)
             \/ Enable(t) \/ Snapshot(t) \/ Enabled(t) \/ Reopen(t)
    <3>1. PICK l \in Labels : pc' = [pc EXCEPT ![t] = l]
      BY <2>4 DEF Save, Truncate, SaveFails, WriteFile, Saved, Enable, Snapshot,
                  Enabled, Reopen, Labels, ClosingTo
    <3> QED
      BY <2>1, <3>1
  <2> QED
    BY <1>2, <2>2, <2>3, <2>4 DEF Manager
<1>3. ASSUME NEW t \in Threads, User(t) PROVE Goes(t)
  <2>1. \A u \in Threads \ {t} : pc[u] \notin Busy
    BY <1>3 DEF User, SaveButton, EnableButton, Disable, Open, Clear, Quit, MayFile,
                Others, Busy
  <2>2. PICK l \in Labels : pc' = [pc EXCEPT ![t] = l]
    <3>1. {"idle", "save", "enable", "opening", "disabling", "quitting"} \subseteq Labels
      BY DEF Labels, ClosingTo
    <3> QED
      BY <1>3, <3>1 DEF User, SaveButton, EnableButton, Disable, Open, Clear, Quit
  <2> QED
    BY <2>1, <2>2
<1>4. ASSUME Started PROVE pc' = [t \in Threads |-> "idle"]
  BY <1>4 DEF Started
<1> QED
  BY <1>1, <1>2, <1>3, <1>4
  DEF Next, WriterThread, OpenFile, Check, Doze, Take, Record, Drained, Header,
      ThrowAway, OpenFileFails, Fails, Restart, Kill, KillInSave, vars

\* One thread at a time is in file_manager.
LEMMA OneStep ==
    ASSUME TypeOK, OneInv, [Next]_vars
    PROVE  OneInv'
<1>1. CASE pc' = [t \in Threads |-> "idle"]
  BY <1>1 DEF OneInv, Busy
<1>2. CASE UNCHANGED pc
  BY <1>2 DEF OneInv
<1>3. ASSUME NEW t \in Threads, NEW l \in Labels, pc' = [pc EXCEPT ![t] = l],
             l \in Busy /\ pc[t] \notin Busy => \A u \in Threads \ {t} : pc[u] \notin Busy
      PROVE  OneInv'
  <2>1. pc'[t] = l /\ \A u \in Threads \ {t} : pc'[u] = pc[u]
    BY <1>3 DEF TypeOK
  <2>2. l \in Busy => \A u \in Threads \ {t} : pc[u] \notin Busy
    BY <1>3 DEF OneInv
  <2>3. \A u, v \in Threads \ {t} : pc[u] \in Busy /\ v # u => pc[v] \notin Busy
    BY DEF OneInv
  <2> QED
    BY <2>1, <2>2, <2>3 DEF OneInv
<1> QED
  BY <1>1, <1>2, <1>3, PcStep

\* Where there is a log.
LEMMA LogStep ==
    ASSUME TypeOK, OneInv, LogInv, [Next]_vars
    PROVE  LogInv'
<1> USE DEF Goto, StartWriter, StopWriter
<1>0. /\ pc \in [Threads -> Labels]
      /\ \A t, u \in Threads : pc[t] \in Busy /\ u # t => pc[u] \notin Busy
  BY DEF TypeOK, OneInv
<1>1. ASSUME NEW t \in Threads, Stroke(t) PROVE LogInv'
  <2>1. /\ pc[t] \notin Busy /\ pc'[t] \notin Busy
        /\ \A u \in Threads \ {t} : pc'[u] = pc[u]
    BY <1>0, <1>1 DEF Stroke, Stamp, Log, Enqueue, Busy, Drawing
  <2>2. UNCHANGED <<operation_log, auto_save_on, enabling>>
    BY <1>1 DEF Stroke, Stamp, Log, Enqueue
  <2> QED
    BY <2>1, <2>2 DEF LogInv, Busy, Labels, Logless, Drawing, ClosingTo
<1>2. ASSUME NEW t \in Threads, User(t) PROVE LogInv'
  <2>0. /\ pc[t] = "idle" /\ \A u \in Threads \ {t} : pc[u] \notin Busy
    BY <1>2 DEF User, SaveButton, EnableButton, Disable, Open, Clear, Quit, MayFile,
                Others, Busy
  <2>1. /\ ~enabling /\ operation_log => auto_save_on
    BY <2>0 DEF LogInv, Busy, Labels, ClosingTo, Drawing
  <2>2. \A u \in Threads \ {t} : pc'[u] = pc[u]
    BY <1>0, <1>2 DEF User, SaveButton, EnableButton, Disable, Open, Clear, Quit
  <2>3. operation_log' = operation_log
    BY <1>2 DEF User, SaveButton, EnableButton, Disable, Open, Clear, Quit
  <2>4. CASE EnableButton(t)
    <3>1. pc'[t] \in {"enable", "save"} /\ ~auto_save_on'
      BY <1>0, <2>4 DEF EnableButton
    <3> QED
      BY <2>0, <2>1, <2>2, <2>3, <3>1, <2>4
      DEF EnableButton, LogInv, Busy, Labels, Logless, Drawing, ClosingTo
  <2>5. CASE Disable(t)
    <3>1. pc'[t] = "disabling"
      BY <1>0, <2>5 DEF Disable
    <3> QED
      BY <2>0, <2>1, <2>2, <2>3, <3>1, <2>5
      DEF Disable, LogInv, Busy, Labels, Logless, Drawing, ClosingTo
  <2>6. CASE SaveButton(t) \/ Open(t) \/ Clear(t) \/ Quit(t)
    <3>1. pc'[t] \in {"save", "opening", "idle", "quitting"}
      BY <1>0, <2>6 DEF SaveButton, Open, Clear, Quit
    <3>2. UNCHANGED <<auto_save_on, enabling>>
      BY <2>6 DEF SaveButton, Open, Clear, Quit
    <3> QED
      BY <2>0, <2>1, <2>2, <2>3, <3>1, <3>2
      DEF LogInv, Busy, Labels, Logless, Drawing, ClosingTo
  <2> QED
    BY <1>2, <2>4, <2>5, <2>6 DEF User
<1>3. ASSUME NEW t \in Threads, Manager(t) PROVE LogInv'
  <2>0. pc[t] \in Busy
    BY <1>3 DEF Manager, Save, Closed, Truncate, SaveFails, WriteFile, Saved, Enable,
                Snapshot, Refill, Enabled, Reopen, Busy, Labels, Drawing, ClosingTo
  <2>1. \A u \in Threads \ {t} : pc[u] \notin Busy
    BY <1>0, <2>0
  <2>2. /\ operation_log => auto_save_on \/ pc[t] = "disabling"
        /\ enabling => \/ pc[t] \in {"snapshot", "refill"}
                       \/ pc[t] \in {"save", "truncate", "write", "saved", "enable"}
                             /\ ~auto_save_on
        /\ pc[t] \in Logless => ~operation_log
    BY <2>1 DEF LogInv, Busy, Labels, ClosingTo, Drawing
  <2>3. \A u \in Threads \ {t} : pc'[u] = pc[u]
    BY <1>0, <1>3 DEF Manager, Save, Closed, Truncate, SaveFails, WriteFile, Saved, Enable,
                Snapshot, Refill, Enabled, Reopen
  <2>4. \A u \in Threads \ {t} : pc'[u] \notin Logless /\ pc'[u] \notin Busy
    BY <2>1, <2>3 DEF Busy, Labels, Logless, Drawing
  <2> DEFINE Good == /\ operation_log' => auto_save_on' \/ pc'[t] = "disabling"
                     /\ enabling' => \/ pc'[t] \in {"snapshot", "refill"}
                                     \/ pc'[t] \in {"save", "truncate", "write",
                                                    "saved", "enable"}
                                           /\ ~auto_save_on'
                     /\ pc'[t] \in Logless => ~operation_log'
  <2>5. SUFFICES Good
    BY <2>4 DEF LogInv
  <2>6. CASE Save(t)
    BY <1>0, <2>2, <2>6 DEF Save, Logless
  <2>7. CASE Closed(t)
    <3>1. pc'[t] = ClosingTo[pc[t]] /\ pc[t] \in DOMAIN ClosingTo
      BY <1>0, <2>7 DEF Closed
    <3> QED
      BY <2>2, <2>7, <3>1 DEF Closed, ClosingTo
  <2>8. CASE Truncate(t) \/ WriteFile(t)
    BY <1>0, <2>2, <2>8 DEF Truncate, WriteFile, Logless
  <2>9. CASE SaveFails(t) \/ Saved(t)
    BY <1>0, <2>2, <2>9 DEF SaveFails, Saved, Logless
  <2>10. CASE Enable(t) \/ Snapshot(t) \/ Refill(t) \/ Enabled(t)
    BY <1>0, <2>2, <2>10 DEF Enable, Snapshot, Refill, Enabled, Logless
  <2>11. CASE Reopen(t)
    BY <1>0, <2>2, <2>11 DEF Reopen, Logless
  <2> QED
    BY <1>3, <2>6, <2>7, <2>8, <2>9, <2>10, <2>11 DEF Manager
<1>4. ASSUME Started PROVE LogInv'
  BY <1>4 DEF Started, LogInv, Logless
<1>5. ASSUME UNCHANGED <<operation_log, pc, auto_save_on, enabling>> PROVE LogInv'
  BY <1>5 DEF LogInv
<1> QED
  BY <1>1, <1>2, <1>3, <1>4, <1>5
  DEF Next, WriterThread, OpenFile, Check, Doze, Take, Record, Drained, Header,
      ThrowAway, OpenFileFails, Fails, Restart, Kill, KillInSave, vars

-----------------------------------------------------------------------------
(* The header.                                                             *)

\* Nothing that matters to the header changes, but that a call goes on, or a
\* batch ends.
Quiet ==
    /\ file'.header = file.header /\ file'.recs = file.recs
    /\ file.cut \subseteq file'.cut /\ file_saved_seq' = file_saved_seq
    /\ operation_log' /\ ~writer'.failed
          => operation_log /\ ~writer.failed /\ writer'.saved = writer.saved
    /\ MidBatch' => MidBatch
    /\ \A t \in Threads :
          /\ pc'[t] \in {"saved", "opening", "reopen"}
                => pc[t] \in {"saved", "opening", "reopen"}
          /\ pc'[t] = "opening" => pc[t] = "opening"

\* Such a step keeps the header within the records.
LEMMA QuietStep == ASSUME HeadInv, Quiet PROVE HeadInv'
<1> SUFFICES ASSUME "save" \notin file'.cut PROVE HeadInv'
  BY DEF HeadInv
<1>1. "save" \notin file.cut
  BY DEF Quiet
<1>2. \A t \in Threads : pc'[t] \in {"saved", "opening", "reopen"}
         => file_saved_seq' <= Highest(file'.recs)
  BY <1>1 DEF HeadInv, Quiet
<1>3. MidBatch' => \A t \in Threads : pc'[t] = "opening"
         => file_saved_seq' <= Highest(Front(file'.recs))
  BY <1>1 DEF HeadInv, Quiet
<1> QED
  BY <1>1, <1>2, <1>3 DEF HeadInv, Quiet

\* A woken writer has nothing else changed.
LEMMA WokenKeeps ==
    ASSUME NEW w \in WriterRec
    PROVE  /\ Woken(w).saved = w.saved /\ Woken(w).failed = w.failed
           /\ Woken(w).wrote = w.wrote
           /\ Woken(w).step \in {"drain", "record", "header"} => Woken(w).step = w.step
BY DEF Woken, WriterRec

\* The steps of the writer that leave the file's records and header alone.
LEMMA WriterQuiet ==
    ASSUME TypeOK, OpenFile \/ Check \/ Doze \/ Take \/ Drained \/ ThrowAway \/ OpenFileFails
    PROVE  Quiet
<1> USE DEF TypeOK, AtStep, Step
<1>1. writer \in WriterRec /\ file \in FileRec
  OBVIOUS
<1>2. pc' = pc /\ file_saved_seq' = file_saved_seq /\ operation_log' = operation_log
  BY DEF OpenFile, Check, Doze, Take, Drained, ThrowAway, OpenFileFails
<1>3. writer'.saved = writer.saved /\ (~writer'.failed => ~writer.failed)
  BY <1>1 DEF OpenFile, Check, Doze, Take, Drained, ThrowAway, OpenFileFails, WriterRec
<1>4. MidBatch' => MidBatch
  <2>1. CASE Check
    BY <1>1, <2>1 DEF Check, MidBatch, WriterRec
  <2>2. CASE Take
    BY <1>1, <2>2 DEF Take, MidBatch, WriterRec
  <2>3. CASE OpenFile \/ Doze \/ OpenFileFails
    BY <1>1, <2>3 DEF OpenFile, Doze, OpenFileFails, MidBatch, WriterRec
  <2>4. CASE Drained \/ ThrowAway
    BY <1>1, <2>4 DEF Drained, ThrowAway, MidBatch, WriterRec
  <2> QED
    BY <2>1, <2>2, <2>3, <2>4
<1>5. /\ file'.header = file.header /\ file'.recs = file.recs
      /\ file.cut \subseteq file'.cut
  BY <1>1 DEF OpenFile, Check, Doze, Take, Drained, ThrowAway, OpenFileFails, FileRec
<1> QED
  BY <1>2, <1>3, <1>4, <1>5 DEF Quiet

\* The threads that draw.
LEMMA StrokeQuiet ==
    ASSUME TypeOK, NEW t \in Threads, Stroke(t)
    PROVE  Quiet
<1>1. UNCHANGED <<file, file_saved_seq, operation_log>>
  BY DEF Stroke, Stamp, Log, Enqueue
<1>2. writer' = writer \/ writer' = Woken(writer)
  BY DEF Stroke, Stamp, Log, Enqueue, Push
<1>3. \A u \in Threads : pc'[u] = pc[u] \/ pc'[u] \in {"idle", "log", "enqueue"}
  BY DEF Stroke, Stamp, Log, Enqueue, TypeOK, Goto
<1> QED
  BY <1>1, <1>2, <1>3, WokenKeeps DEF Quiet, MidBatch, TypeOK

\* file_manager, where it neither opens nor begins a log nor writes.
LEMMA ManagerQuiet ==
    ASSUME TypeOK, NEW t \in Threads,
           \/ Save(t) \/ Closed(t) \/ Snapshot(t) \/ Refill(t) \/ Enabled(t)
           \/ SaveButton(t) \/ EnableButton(t) \/ Disable(t) \/ Clear(t) \/ Quit(t)
    PROVE  Quiet
<1>1. UNCHANGED <<file, file_saved_seq>>
  BY DEF Save, Closed, Snapshot, Refill, Enabled, SaveButton, EnableButton, Disable,
         Clear, Quit
<1>2. \/ ~operation_log'
      \/ operation_log' = operation_log /\ (writer' = writer \/ writer' = Woken(writer))
  BY DEF Save, Closed, Snapshot, Refill, Enabled, SaveButton, EnableButton, Disable,
         Clear, Quit, StopWriter, Push
<1>3. \A u \in Threads : \/ pc'[u] = pc[u]
                         \/ pc'[u] = "reopen" /\ pc[u] = "opening"
                         \/ pc'[u] \notin {"saved", "opening", "reopen"}
  BY DEF Save, Closed, Snapshot, Refill, Enabled, SaveButton, EnableButton, Disable,
         Clear, Quit, TypeOK, Goto, ClosingTo
<1> QED
  BY <1>1, <1>2, <1>3, WokenKeeps DEF Quiet, MidBatch, TypeOK

\* The header never passes what is in the file.
LEMMA HeadStep ==
    ASSUME TypeOK, OneInv, LogInv, HeadInv, [Next]_vars
    PROVE  HeadInv'
<1> USE DEF Goto
<1>0. /\ file.recs \in Seq(Op) /\ file.header \in Nat /\ history \in Seq(Op)
      /\ file_saved_seq \in Nat /\ writer.hand \in Op /\ writer.hand.seq \in Nat
      /\ writer.saved \in Nat /\ pc \in [Threads -> Labels]
      /\ writer \in WriterRec /\ file \in FileRec
  BY DEF TypeOK, FileRec, WriterRec, Op
<1>1. ASSUME NEW t \in Threads, Truncate(t) PROVE HeadInv'
  <2>1. ~operation_log' /\ \A u \in Threads : pc'[u] \notin {"saved", "opening", "reopen"}
    <3>1. ~operation_log /\ \A u \in Threads \ {t} : pc[u] \notin Busy
      BY <1>1 DEF Truncate, LogInv, OneInv, Logless, Busy, Labels, Drawing
    <3> QED
      BY <1>0, <1>1, <3>1 DEF Truncate, Busy, Labels, Drawing, ClosingTo
  <2>2. file'.header = 0 /\ file'.recs = <<>>
    BY <1>1 DEF Truncate
  <2> QED
    BY <2>1, <2>2, HighestEmpty DEF HeadInv, MidBatch
<1>2. ASSUME NEW t \in Threads, SaveFails(t) PROVE HeadInv'
  <2>1. "save" \in file'.cut
    BY <1>0, <1>2 DEF SaveFails, FileRec
  <2> QED
    BY <2>1 DEF HeadInv
<1>3. ASSUME NEW t \in Threads, WriteFile(t) PROVE HeadInv'
  <2>1. ~operation_log'
    BY <1>3 DEF WriteFile, LogInv, Logless
  <2>2. /\ file'.header = Highest(history) /\ file'.recs = history
        /\ file_saved_seq' = Highest(history) /\ Highest(history) \in Nat
    BY <1>0, <1>3, HighestIs DEF WriteFile
  <2> QED
    BY <2>1, <2>2 DEF HeadInv, MidBatch
<1>4. ASSUME NEW t \in Threads, Saved(t) \/ Reopen(t) \/ Enable(t) PROVE HeadInv'
  <2>1. UNCHANGED file /\ \A u \in Threads : pc'[u] \notin {"saved", "opening", "reopen"}
    <3>1. \A u \in Threads \ {t} : pc[u] \notin Busy
      BY <1>4 DEF Saved, Reopen, Enable, OneInv, Busy, Labels, Drawing
    <3> QED
      BY <1>0, <1>4, <3>1 DEF Saved, Reopen, Enable, Busy, Labels, Drawing, ClosingTo
  <2>2. \/ operation_log' = operation_log /\ ~operation_log
        \/ /\ ~writer'.wrote
           /\ \/ writer'.saved = file_saved_seq /\ pc[t] \in {"saved", "reopen"}
              \/ writer'.saved = file.header
    BY <1>4 DEF Saved, Reopen, Enable, StartWriter, NoWriter, LogInv, Logless
  <2> QED
    BY <2>1, <2>2 DEF HeadInv, MidBatch
<1>5. ASSUME NEW t \in Threads, Open(t) PROVE HeadInv'
  <2>1. UNCHANGED file /\ file_saved_seq' = file.header
    BY <1>5 DEF Open
  <2>2. /\ operation_log' = operation_log
        /\ writer'.saved = writer.saved /\ writer'.failed = writer.failed
        /\ MidBatch' => MidBatch
    BY <1>0, <1>5, WokenKeeps DEF Open, StopWriter, MidBatch
  <2> QED
    BY <2>1, <2>2 DEF HeadInv
<1>6. ASSUME Record PROVE HeadInv'
  <2>1. /\ file'.recs = Append(file.recs, writer.hand) /\ file'.header = file.header
        /\ file'.cut = file.cut /\ writer'.saved = Max({writer.saved, writer.hand.seq})
        /\ UNCHANGED <<pc, file_saved_seq, operation_log>> /\ writer'.failed = writer.failed
    BY <1>0, <1>6 DEF Record, FileRec, WriterRec
  <2>2. /\ file'.recs \in Seq(Op) /\ file'.recs # <<>> /\ Front(file'.recs) = file.recs
        /\ Highest(file.recs) <= Highest(file'.recs)
        /\ writer.hand.seq <= Highest(file'.recs)
        /\ Highest(file.recs) \in Nat /\ Highest(file'.recs) \in Nat
    BY <1>0, <2>1, HighestAppend, HighestIs
  <2>3. operation_log /\ ~writer.failed
    BY <1>6 DEF Record, AtStep
  <2>4. SUFFICES ASSUME "save" \notin file.cut PROVE HeadInv'
    BY <2>1 DEF HeadInv
  <2>5. /\ file.header <= Highest(file.recs) /\ writer.saved <= Highest(file.recs)
        /\ \A u \in Threads : pc[u] \in {"saved", "opening", "reopen"}
              => file_saved_seq <= Highest(file.recs)
    BY <2>3, <2>4 DEF HeadInv
  <2>6. writer'.saved \in {writer.saved, writer.hand.seq}
    BY <1>0, <2>1, MaxOfTwo
  <2>7. file'.header <= Highest(file'.recs) /\ writer'.saved <= Highest(file'.recs)
    BY <1>0, <2>1, <2>2, <2>5, <2>6
  <2>8. \A u \in Threads : pc'[u] \in {"saved", "opening", "reopen"}
           => /\ file_saved_seq' <= Highest(file'.recs)
              /\ file_saved_seq' <= Highest(Front(file'.recs))
    BY <1>0, <2>1, <2>2, <2>5
  <2> QED
    BY <2>1, <2>2, <2>5, <2>7, <2>8 DEF HeadInv
<1>7. ASSUME Header PROVE HeadInv'
  <2>1. /\ file'.recs = file.recs /\ file'.cut = file.cut
        /\ UNCHANGED <<pc, file_saved_seq, operation_log>>
        /\ writer'.saved = writer.saved /\ writer'.failed = writer.failed
        /\ writer'.step \in {"done", "check"} /\ operation_log
    BY <1>0, <1>7 DEF Header, Step, AtStep, FileRec, WriterRec
  <2>2. \/ file'.header = file.header
        \/ file'.header = writer.saved /\ ~writer.failed
    BY <1>0, <1>7 DEF Header, FileRec
  <2>3. "save" \notin file.cut => file'.header <= Highest(file.recs)
    BY <2>1, <2>2 DEF HeadInv
  <2> QED
    BY <2>1, <2>3 DEF HeadInv, MidBatch
<1>8. ASSUME Fails PROVE HeadInv'
  <2>1. /\ UNCHANGED <<pc, file_saved_seq, operation_log>> /\ operation_log
        /\ writer'.failed = TRUE /\ file'.header = file.header
        /\ file.cut \subseteq file'.cut
        /\ \/ file'.recs = file.recs
           \/ file'.recs = Front(file.recs) /\ MidBatch
    BY <1>0, <1>8 DEF Fails, AtStep, FileRec, WriterRec, MidBatch
  <2>2. "save" \notin file'.cut => "save" \notin file.cut
    BY <2>1
  <2>3. \A u \in Threads : pc[u] \notin {"saved", "reopen"}
    BY <2>1 DEF LogInv, Logless
  <2> QED
    BY <2>1, <2>2, <2>3 DEF HeadInv, MidBatch
<1>9. ASSUME Started, file'.header = file.header, file'.recs = file.recs,
             file.cut \subseteq file'.cut
      PROVE  HeadInv'
  BY <1>9 DEF Started, HeadInv, MidBatch
<1>10. ASSUME Kill PROVE HeadInv'
  BY <1>0, <1>9, <1>10 DEF Kill, FileRec
<1>11. ASSUME KillInSave PROVE HeadInv'
  <2>1. "save" \in file'.cut
    BY <1>0, <1>11 DEF KillInSave, FileRec
  <2> QED
    BY <2>1 DEF HeadInv
<1>12. ASSUME Restart PROVE HeadInv'
  BY <1>9, <1>12 DEF Restart
<1>13. ASSUME UNCHANGED vars PROVE HeadInv'
  BY <1>13 DEF vars, HeadInv, MidBatch
<1> QED
  BY <1>1, <1>2, <1>3, <1>4, <1>5, <1>6, <1>7, <1>8, <1>10, <1>11, <1>12, <1>13,
     QuietStep, WriterQuiet, StrokeQuiet, ManagerQuiet
  DEF Next, Manager, User, WriterThread

-----------------------------------------------------------------------------
(* Names, and how quiet it is while a careful user saves or opens.         *)

\* A call of file_manager goes on at t, and nobody else is there.
LEMMA InManager ==
    ASSUME TypeOK, OneInv, NEW t \in Threads, Manager(t)
    PROVE  /\ pc[t] \in Busy
           /\ \A u \in Threads \ {t} : pc[u] \notin Busy /\ pc'[u] = pc[u]
<1>1. pc[t] \in Busy
  BY DEF Manager, Save, Closed, Truncate, SaveFails, WriteFile, Saved, Enable,
         Snapshot, Refill, Enabled, Reopen, Busy, Labels, Drawing, ClosingTo
<1>2. \A u \in Threads \ {t} : pc'[u] = pc[u]
  BY DEF Manager, Save, Closed, Truncate, SaveFails, WriteFile, Saved, Enable,
         Snapshot, Refill, Enabled, Reopen, Goto, TypeOK
<1> QED
  BY <1>1, <1>2 DEF OneInv

\* A button is pressed at t.
LEMMA InUser ==
    ASSUME TypeOK, NEW t \in Threads, User(t)
    PROVE  /\ pc[t] = "idle" /\ \A u \in Threads \ {t} : pc[u] \notin Busy /\ pc'[u] = pc[u]
           /\ UNCHANGED <<file, operation_log, queue, op, drawn, todo>>
           /\ Careful => WriterIdle /\ \A u \in Threads \ {t} : pc[u] = "idle"
           /\ \/ writer' = writer /\ stop' = stop
              \/ /\ writer' = (IF operation_log THEN Woken(writer) ELSE writer)
                 /\ stop' = operation_log /\ pc'[t] \in Closing
<1>1. /\ pc[t] = "idle" /\ \A u \in Threads \ {t} : pc[u] \notin Busy
      /\ Careful => WriterIdle /\ \A u \in Threads \ {t} : pc[u] = "idle"
  BY DEF User, SaveButton, EnableButton, Disable, Open, Clear, Quit, MayFile, Others, Busy
<1>2. \A u \in Threads \ {t} : pc'[u] = pc[u]
  BY DEF User, SaveButton, EnableButton, Disable, Open, Clear, Quit, Goto, TypeOK
<1>3. UNCHANGED <<file, operation_log, queue, op, drawn, todo>>
  BY DEF User, SaveButton, EnableButton, Disable, Open, Clear, Quit, StopWriter
<1>4. CASE Disable(t) \/ Open(t) \/ Quit(t)
  BY <1>1, <1>2, <1>3, <1>4
  DEF Disable, Open, Quit, StopWriter, Goto, TypeOK, Closing, ClosingTo
<1>5. CASE SaveButton(t) \/ EnableButton(t) \/ Clear(t)
  BY <1>1, <1>2, <1>3, <1>5 DEF SaveButton, EnableButton, Clear
<1> QED
  BY <1>4, <1>5 DEF User

\* A file has a name once auto-save is on; where there is no log nothing is queued.
LEMMA NamedStep ==
    ASSUME TypeOK, OneInv, LogInv, NamedInv, [Next]_vars
    PROVE  NamedInv'
<1> USE DEF Goto
<1>0. /\ pc \in [Threads -> Labels] /\ auto_save_on \in BOOLEAN
      /\ operation_log \in BOOLEAN
  BY DEF TypeOK
<1>1. ASSUME NEW t \in Threads, Stroke(t) PROVE NamedInv'
  <2>1. /\ pc[t] \in {"idle", "log", "enqueue"} /\ pc'[t] \in {"idle", "log", "enqueue"}
        /\ \A u \in Threads \ {t} : pc'[u] = pc[u]
    BY <1>0, <1>1 DEF Stroke, Stamp, Log, Enqueue
  <2>2. /\ UNCHANGED <<operation_log, auto_save_on, named, stop>>
        /\ ~operation_log => UNCHANGED <<writer, queue>>
    BY <1>1 DEF Stroke, Stamp, Log, Enqueue
  <2> QED
    BY <2>1, <2>2 DEF NamedInv
<1>2. ASSUME NEW t \in Threads, User(t) PROVE NamedInv'
  <2>1. /\ pc[t] = "idle" /\ \A u \in Threads \ {t} : pc[u] \notin Busy /\ pc'[u] = pc[u]
        /\ UNCHANGED <<operation_log, queue>>
        /\ ~operation_log => UNCHANGED writer /\ ~stop'
        /\ operation_log => auto_save_on
        /\ auto_save_on => operation_log
    BY <1>2, InUser DEF LogInv, NamedInv, Busy, Labels, Drawing, ClosingTo
  <2>2. named => named'
    BY <1>2 DEF User, SaveButton, EnableButton, Disable, Open, Clear, Quit
  <2>3. pc'[t] \notin {"saved", "reopen", "snapshot", "refill"}
    BY <1>0, <1>2 DEF User, SaveButton, EnableButton, Disable, Open, Clear, Quit
  <2>4. /\ pc'[t] \in {"enable", "opening"} => named'
        /\ auto_save_on' => auto_save_on
        /\ pc'[t] = "disabling" => ~auto_save_on'
    BY <1>0, <1>2 DEF User, SaveButton, EnableButton, Disable, Open, Clear, Quit
  <2> QED
    BY <2>1, <2>2, <2>3, <2>4 DEF NamedInv, Busy, Labels, Drawing, ClosingTo
<1>3. ASSUME NEW t \in Threads, Manager(t) PROVE NamedInv'
  <2>1. /\ pc[t] \in Busy
        /\ \A u \in Threads \ {t} : pc[u] \notin Busy /\ pc'[u] = pc[u]
    BY <1>3, InManager
  <2>2. \A u \in Threads \ {t} : pc'[u] \in {"idle", "log", "enqueue"}
    BY <1>0, <2>1 DEF Busy, Drawing
  <2>3. /\ pc[t] \in Logless => ~operation_log
        /\ operation_log => auto_save_on \/ pc[t] = "disabling"
        /\ auto_save_on /\ ~operation_log
              => pc[t] \in {"truncate", "write", "saved", "reopen", "gone"}
        /\ enabling => \/ pc[t] \in {"snapshot", "refill"} \/ ~auto_save_on
    BY <2>1 DEF LogInv, NamedInv, Busy, Labels, Drawing, ClosingTo
  <2> DEFINE Good ==
        /\ operation_log' \/ auto_save_on' => named'
        /\ ~operation_log' => writer' = NoWriter /\ queue' = <<>> /\ ~stop'
        /\ pc'[t] \in {"enable", "saved", "opening", "reopen"} => named'
        /\ pc'[t] \in {"snapshot", "refill"} => operation_log'
        /\ pc'[t] = "disabling" => ~auto_save_on'
        /\ auto_save_on' /\ ~operation_log'
              => pc'[t] \in {"truncate", "write", "saved", "reopen", "gone"}
  <2>4. SUFFICES Good
    BY <2>2 DEF NamedInv
  <2> USE DEF StartWriter, StopWriter
  <2>5. CASE Save(t)
    BY <1>0, <2>3, <2>5 DEF Save, NamedInv, ClosingTo, Logless
  <2>6. CASE Closed(t)
    <3>1. pc'[t] = ClosingTo[pc[t]] /\ pc[t] \in DOMAIN ClosingTo
      BY <1>0, <2>6 DEF Closed
    <3>2. /\ pc[t] = "saving" => pc'[t] = "truncate"
          /\ pc[t] = "opening" => pc'[t] = "reopen"
          /\ pc[t] = "disabling" => pc'[t] = "idle"
          /\ pc[t] = "quitting" => pc'[t] = "gone"
          /\ pc[t] \in {"saving", "opening", "disabling", "quitting"}
      BY <3>1 DEF ClosingTo
    <3> QED
      BY <2>3, <2>6, <3>2 DEF Closed, NamedInv
  <2>7. CASE Truncate(t) \/ WriteFile(t)
    BY <1>0, <2>3, <2>7 DEF Truncate, WriteFile, NamedInv, Logless
  <2>8. CASE SaveFails(t) \/ Saved(t)
    BY <1>0, <2>3, <2>8 DEF SaveFails, Saved, NamedInv, Logless
  <2>9. CASE Enable(t) \/ Snapshot(t) \/ Enabled(t)
    BY <1>0, <2>3, <2>9 DEF Enable, Snapshot, Enabled, NamedInv, Logless
  <2>10. CASE Refill(t)
    BY <1>0, <2>3, <2>10 DEF Refill, NamedInv, Logless
  <2>11. CASE Reopen(t)
    BY <1>0, <2>3, <2>11 DEF Reopen, NamedInv, Logless
  <2> QED
    BY <1>3, <2>5, <2>6, <2>7, <2>8, <2>9, <2>10, <2>11 DEF Manager
<1>4. ASSUME Started PROVE NamedInv'
  BY <1>4 DEF Started, NamedInv
<1>5. ASSUME UNCHANGED <<operation_log, pc, auto_save_on, named, stop>>, operation_log
      PROVE  NamedInv'
  BY <1>5 DEF NamedInv
<1>6. ASSUME UNCHANGED vars PROVE NamedInv'
  BY <1>6 DEF vars, NamedInv
<1> QED
  BY <1>1, <1>2, <1>3, <1>4, <1>5, <1>6
  DEF Next, WriterThread, OpenFile, Check, Doze, Take, Record, Drained, Header,
      ThrowAway, OpenFileFails, Fails, Restart, Kill, KillInSave, AtStep

-----------------------------------------------------------------------------
(* Ids.                                                                    *)

\* What sequences of operations hold.
LEMMA OpsType == ASSUME NEW s \in Seq(Op) PROVE Ops(s) \subseteq Op
BY ElementOfSeq DEF Ops

\* No operations.
LEMMA OpsEmpty == Ops(<<>>) = {}
<1>1. Len(<<>>) = 0
  BY EmptySeq
<1> QED
  BY <1>1 DEF Ops

\* An operation more.
LEMMA OpsAppend ==
    ASSUME NEW s \in Seq(Op), NEW o \in Op
    PROVE  Ops(Append(s, o)) = Ops(s) \cup {o}
<1> DEFINE longer == Append(s, o)
<1>1. /\ Len(longer) = Len(s) + 1 /\ Len(s) \in Nat
      /\ \A i \in 1..Len(s) : longer[i] = s[i]
      /\ longer[Len(s) + 1] = o
  BY AppendProperties, LenProperties
<1> HIDE DEF longer
<1>2. Ops(longer) = Ops(s) \cup {o}
  BY <1>1 DEF Ops
<1> QED
  BY <1>2 DEF longer

\* The first operation, and the rest.
LEMMA OpsTail ==
    ASSUME NEW s \in Seq(Op), s # <<>>
    PROVE  Ops(s) = {Head(s)} \cup Ops(Tail(s))
<1> DEFINE rest == Tail(s)
<1>1. /\ Len(rest) = Len(s) - 1 /\ Len(s) \in Nat \ {0}
      /\ \A i \in 1..Len(rest) : rest[i] = s[i + 1]
      /\ Head(s) = s[1]
  BY HeadTailProperties, EmptySeq
<1> HIDE DEF rest
<1>2. \A i \in 1..Len(s) : i = 1 \/ (i - 1 \in 1..Len(rest) /\ s[i] = rest[i - 1])
  BY <1>1
<1>3. \A i \in 1..Len(rest) : i + 1 \in 1..Len(s)
  BY <1>1
<1>4. Ops(s) = {Head(s)} \cup Ops(rest)
  BY <1>1, <1>2, <1>3 DEF Ops
<1> QED
  BY <1>4 DEF rest

\* The first n operations.
LEMMA OpsPart ==
    ASSUME NEW s \in Seq(Op), NEW n \in -1..Len(s)
    PROVE  /\ Ops(SubSeq(s, 1, n)) \subseteq Ops(s)
           /\ NoneTwice(s) => NoneTwice(SubSeq(s, 1, n))
<1> DEFINE part == SubSeq(s, 1, n)
<1>1. /\ Len(part) = (IF 1 <= n THEN n ELSE 0) /\ Len(s) \in Nat
      /\ \A i \in 1..n : part[i] = s[i]
  BY LenProperties, ElementOfSeq, SubSeqProperties
<1> HIDE DEF part
<1>2. \A i \in 1..Len(part) : i \in 1..Len(s) /\ part[i] = s[i]
  BY <1>1
<1>3. Ops(part) \subseteq Ops(s)
  BY <1>2 DEF Ops
<1>4. NoneTwice(s) => NoneTwice(part)
  BY <1>2 DEF NoneTwice
<1> QED
  BY <1>3, <1>4 DEF part

\* The last operation, and the rest.
LEMMA OpsFront ==
    ASSUME NEW s \in Seq(Op), s # <<>>
    PROVE  Last(s) \in Op /\ Ops(s) = Ops(Front(s)) \cup {Last(s)}
<1> DEFINE part == Front(s)
<1>1. Len(s) \in Nat \ {0} /\ Last(s) = s[Len(s)]
  BY EmptySeq DEF Last
<1>2. /\ Len(part) = Len(s) - 1
      /\ \A i \in 1..Len(s) - 1 : part[i] = s[i]
  <2>1. \A i \in 1..Len(s) - 1 : s[i] \in Op
    BY <1>1, ElementOfSeq
  <2>2. Len(s) - 1 \in Int /\ 1 \in Int /\ \A i \in 1..Len(s) - 1 : 1 + i - 1 = i
    BY <1>1
  <2> DEFINE cut == SubSeq(s, 1, Len(s) - 1)
  <2>3. /\ Len(cut) = IF 1 <= Len(s) - 1 THEN Len(s) - 1 - 1 + 1 ELSE 0
        /\ \A i \in 1..Len(s) - 1 - 1 + 1 : cut[i] = s[1 + i - 1]
    BY <2>1, <2>2, SubSeqProperties
  <2>4. part = cut
    BY DEF Front
  <2> HIDE DEF part, cut
  <2>5. Len(cut) = Len(s) - 1
    <3>1. \A m \in Nat \ {0} : (IF 1 <= m - 1 THEN m - 1 - 1 + 1 ELSE 0) = m - 1
      OBVIOUS
    <3> QED
      BY <1>1, <2>3, <3>1
  <2>6. ASSUME NEW i \in 1..Len(s) - 1 PROVE cut[i] = s[i]
    <3>1. i \in 1..Len(s) - 1 - 1 + 1 /\ 1 + i - 1 = i
      BY <1>1
    <3>2. cut[i] = s[1 + i - 1]
      BY <2>3, <3>1
    <3> QED
      BY <3>1, <3>2
  <2> QED
    BY <2>4, <2>5, <2>6
<1> HIDE DEF part
<1>3. \A i \in 1..Len(s) : i = Len(s) \/ i \in 1..Len(part)
  BY <1>1, <1>2
<1>4. Len(s) \in 1..Len(s) /\ \A i \in 1..Len(part) : i \in 1..Len(s) /\ part[i] = s[i]
  BY <1>1, <1>2
<1>5. Ops(s) = Ops(part) \cup {Last(s)}
  BY <1>1, <1>3, <1>4 DEF Ops
<1>6. Last(s) \in Op
  BY <1>1, <1>4, ElementOfSeq
<1> QED
  BY <1>5, <1>6 DEF part

\* Where the operations that are somewhere after a step were before.
LEMMA HistorySource ==
    ASSUME TypeOK, [Next]_vars
    PROVE  /\ Ops(history') \subseteq Copies /\ Ops(todo') \subseteq Copies
           /\ Ops(file'.recs) \subseteq Copies
<1> DEFINE Goal == /\ Ops(history') \subseteq Copies /\ Ops(todo') \subseteq Copies
                   /\ Ops(file'.recs) \subseteq Copies
<1>0. /\ history \in Seq(Op) /\ todo \in Seq(Op) /\ file.recs \in Seq(Op)
      /\ file \in FileRec /\ writer.hand \in Op /\ op \in [Threads -> Op]
  BY DEF TypeOK, FileRec, WriterRec
<1>1. /\ Ops(history) \subseteq Copies /\ Ops(todo) \subseteq Copies
      /\ Ops(file.recs) \subseteq Copies /\ writer.hand \in Copies
      /\ \A t \in Threads : op[t] \in Copies
      /\ \A ops : ops = <<>> => Ops(ops) \subseteq Copies
  BY OpsEmpty DEF Copies
<1>2. ASSUME NEW t \in Threads, Log(t) PROVE Goal
  <2>1. Ops(history') = Ops(history) \cup {op[t]}
    BY <1>0, <1>2, OpsAppend DEF Log
  <2> QED
    BY <1>1, <1>2, <2>1 DEF Log
<1>3. ASSUME NEW t \in Threads, Clear(t) \/ Open(t) PROVE Goal
  BY <1>1, <1>3 DEF Clear, Open
<1>4. ASSUME NEW t \in Threads, Snapshot(t) \/ Truncate(t) \/ WriteFile(t) PROVE Goal
  BY <1>1, <1>4 DEF Snapshot, Truncate, WriteFile
<1>5. ASSUME NEW t \in Threads, Refill(t) PROVE Goal
  <2>1. Ops(todo') \subseteq Ops(todo)
    BY <1>0, <1>5, OpsTail DEF Refill
  <2> QED
    BY <1>1, <1>5, <2>1 DEF Refill
<1>6. ASSUME NEW t \in Threads, SaveFails(t) PROVE Goal
  BY <1>0, <1>1, <1>6 DEF SaveFails, FileRec
<1>7. ASSUME Record PROVE Goal
  <2>1. Ops(file'.recs) = Ops(file.recs) \cup {writer.hand}
    BY <1>0, <1>7, OpsAppend DEF Record, FileRec
  <2> QED
    BY <1>1, <1>7, <2>1 DEF Record
<1>8. ASSUME Header \/ ThrowAway PROVE Goal
  BY <1>0, <1>1, <1>8 DEF Header, ThrowAway, FileRec
<1>9. ASSUME Fails PROVE Goal
  <2>1. file'.recs = file.recs \/ file'.recs = Front(file.recs)
    BY <1>0, <1>9 DEF Fails, FileRec
  <2>2. Len(file.recs) - 1 \in -1..Len(file.recs)
    BY <1>0, LenProperties
  <2>3. Ops(Front(file.recs)) \subseteq Ops(file.recs)
    BY <1>0, <2>2, OpsPart DEF Front
  <2> QED
    BY <1>1, <1>9, <2>1, <2>3 DEF Fails
<1>10. ASSUME Kill \/ Restart PROVE Goal
  <2>1. history' = <<>> /\ todo' = <<>>
    BY <1>10 DEF Kill, Restart, Started
  <2>2. file'.recs = file.recs
    BY <1>0, <1>10 DEF Kill, Restart, FileRec
  <2> QED
    BY <1>1, <2>1, <2>2
<1>11. ASSUME KillInSave PROVE Goal
  <2>1. \A n \in 0..Len(history) : Ops(SubSeq(history, 1, n)) \subseteq Ops(history)
    <3>1. Len(history) \in Nat /\ \A n \in 0..Len(history) : n \in -1..Len(history)
      BY <1>0, LenProperties
    <3> QED
      BY <1>0, <3>1, OpsPart
  <2>2. \/ file'.recs = file.recs
        \/ \E n \in 0..Len(history) : file'.recs = SubSeq(history, 1, n)
    BY <1>0, <1>11 DEF KillInSave, FileRec
  <2> QED
    BY <1>1, <1>11, <2>1, <2>2 DEF KillInSave, Started
<1> QED
  BY <1>1, <1>2, <1>3, <1>4, <1>5, <1>6, <1>7, <1>8, <1>9, <1>10, <1>11
  DEF Next, Stroke, Manager, User, WriterThread, Stamp, Enqueue, Save, Closed,
      Saved, Enable, Enabled, Reopen, SaveButton, EnableButton, Disable, Quit,
      OpenFile, Check, Doze, Take, Drained, OpenFileFails, vars

\* A new operation is drawn by one thread; the writer and its queue get what
\* was somewhere before.
LEMMA LogSource ==
    ASSUME TypeOK, [Next]_vars
    PROVE  /\ Ops(queue') \subseteq Copies /\ writer'.hand \in Copies
<1> DEFINE Goal == Ops(queue') \subseteq Copies /\ writer'.hand \in Copies
<1>0. /\ queue \in Seq(Op) /\ todo \in Seq(Op) /\ writer \in WriterRec
      /\ op \in [Threads -> Op]
  BY DEF TypeOK
<1>1. /\ Ops(queue) \subseteq Copies /\ writer.hand \in Copies /\ NoOp \in Copies
      /\ Ops(todo) \subseteq Copies /\ \A t \in Threads : op[t] \in Copies
      /\ \A ops : ops = <<>> => Ops(ops) \subseteq Copies
      /\ NoWriter.hand = NoOp /\ Woken(writer).hand = writer.hand
  BY <1>0, OpsEmpty DEF Copies, NoWriter, Woken, WriterRec
<1>2. ASSUME NEW o \in Copies \cap Op, Push(o) PROVE Goal
  <2>1. Ops(queue') = Ops(queue) \cup {o}
    BY <1>0, <1>2, OpsAppend DEF Push
  <2> QED
    BY <1>1, <1>2, <2>1 DEF Push
<1>3. ASSUME NEW t \in Threads, Enqueue(t) PROVE Goal
  BY <1>0, <1>1, <1>2, <1>3 DEF Enqueue
<1>4. ASSUME NEW t \in Threads, Refill(t) PROVE Goal
  <2>1. Head(todo) \in Ops(todo) /\ Head(todo) \in Op
    BY <1>0, <1>4, OpsTail, PartTypes DEF Refill
  <2> QED
    BY <1>0, <1>1, <1>2, <1>4, <2>1 DEF Refill
<1>5. ASSUME NEW n \in Nat, StartWriter(n) PROVE Goal
  BY <1>1, <1>5 DEF StartWriter, NoWriter
<1>6. ASSUME StopWriter PROVE Goal
  BY <1>1, <1>6 DEF StopWriter
<1>7. file_saved_seq \in Nat /\ file.header \in Nat
  BY DEF TypeOK, FileRec
<1>8. ASSUME NEW t \in Threads, \/ Save(t) \/ SaveFails(t) \/ Saved(t) \/ Enable(t)
                               \/ Reopen(t) \/ Disable(t) \/ Open(t) \/ Quit(t)
      PROVE  Goal
  BY <1>1, <1>5, <1>6, <1>7, <1>8
  DEF Save, SaveFails, Saved, Enable, Reopen, Disable, Open, Quit
<1>9. ASSUME NEW t \in Threads, Closed(t) PROVE Goal
  BY <1>1, <1>9 DEF Closed
<1>10. ASSUME Take PROVE Goal
  <2>1. Ops(queue') \subseteq Ops(queue) /\ Head(queue) \in Ops(queue)
    BY <1>0, <1>10, OpsTail DEF Take
  <2> QED
    BY <1>0, <1>1, <1>10, <2>1 DEF Take, WriterRec
<1>11. ASSUME \/ OpenFile \/ Check \/ Doze \/ Record \/ Drained \/ Header \/ ThrowAway
              \/ OpenFileFails \/ Fails
       PROVE  Goal
  BY <1>0, <1>1, <1>11 DEF OpenFile, Check, Doze, Record, Drained, Header, ThrowAway,
      OpenFileFails, Fails, Step, WriterRec
<1>12. ASSUME Started PROVE Goal
  BY <1>1, <1>12 DEF Started
<1> QED
  BY <1>1, <1>3, <1>4, <1>8, <1>9, <1>10, <1>11, <1>12
  DEF Next, Stroke, Manager, User, WriterThread, Stamp, Log, Truncate,
      WriteFile, Snapshot, Enabled, SaveButton, EnableButton, Clear, Restart,
      Kill, KillInSave, vars

\* What the threads draw.
LEMMA OpSource ==
    ASSUME TypeOK, [Next]_vars
    PROVE  \/ drawn' = drawn /\ \A t \in Threads : op'[t] \in Copies
           \/ \E t \in Threads :
                 /\ Stamp(t) /\ drawn' = drawn + 1
                 /\ op'[t] = [id |-> drawn + 1, seq |-> next_seq]
                 /\ \A u \in Threads \ {t} : op'[u] = op[u]
<1>0. /\ NoOp \in Copies /\ op \in [Threads -> Op] /\ \A t \in Threads : op[t] \in Copies
  BY DEF TypeOK, Copies
<1>1. ASSUME NEW t \in Threads, Stamp(t)
      PROVE  /\ drawn' = drawn + 1
             /\ op'[t] = [id |-> drawn + 1, seq |-> next_seq]
             /\ \A u \in Threads \ {t} : op'[u] = op[u]
  BY <1>0, <1>1 DEF Stamp
<1>2. ASSUME NEW t \in Threads, Enqueue(t)
      PROVE  drawn' = drawn /\ \A u \in Threads : op'[u] \in Copies
  BY <1>0, <1>2 DEF Enqueue
<1>3. ASSUME Started PROVE drawn' = drawn /\ \A u \in Threads : op'[u] \in Copies
  BY <1>0, <1>3 DEF Started
<1>4. ASSUME NEW t \in Threads, Log(t) \/ Manager(t) \/ User(t)
      PROVE  drawn' = drawn /\ op' = op
  <2>1. CASE Log(t)
    BY <2>1 DEF Log
  <2>2. CASE Manager(t)
    BY <2>2 DEF Manager, Save, Closed, Truncate, SaveFails, WriteFile, Saved, Enable,
                Snapshot, Refill, Enabled, Reopen
  <2>3. CASE User(t)
    BY <2>3 DEF User, SaveButton, EnableButton, Disable, Open, Clear, Quit
  <2> QED
    BY <1>4, <2>1, <2>2, <2>3
<1>5. ASSUME WriterThread \/ OpenFileFails \/ Fails PROVE drawn' = drawn /\ op' = op
  BY <1>5 DEF WriterThread, OpenFile, Check, Doze, Take, Record, Drained, Header,
              ThrowAway, OpenFileFails, Fails
<1>6. CASE UNCHANGED vars
  BY <1>0, <1>6 DEF vars
<1> QED
  BY <1>0, <1>1, <1>2, <1>3, <1>4, <1>5, <1>6 DEF Next, Stroke, Restart, Kill, KillInSave

\* Ids stay as they are.
LEMMA IdStep ==
    ASSUME TypeOK, IdInv, [Next]_vars
    PROVE  IdInv'
<1>0. /\ drawn \in Nat /\ Copies \subseteq Op
  <2>1. /\ \A t \in Threads : op[t] \in Op
        /\ writer.hand \in Op /\ NoOp \in Op /\ file.recs \in Seq(Op)
        /\ history \in Seq(Op) /\ queue \in Seq(Op) /\ todo \in Seq(Op)
    BY WriterTypes DEF TypeOK, WriterRec, FileRec
  <2> QED
    BY <2>1, OpsType DEF Copies, TypeOK
<1>1. /\ Ops(history') \cup Ops(todo') \cup Ops(file'.recs) \cup Ops(queue') \subseteq Copies
      /\ writer'.hand \in Copies /\ NoOp \in Copies
  BY HistorySource, LogSource DEF Copies
<1>2. ASSUME drawn' = drawn, \A t \in Threads : op'[t] \in Copies
      PROVE  IdInv'
  <2>1. Copies' \subseteq Copies
    BY <1>1, <1>2 DEF Copies
  <2> QED
    BY <1>2, <2>1 DEF IdInv
<1>3. ASSUME NEW t \in Threads, drawn' = drawn + 1,
             op'[t] = [id |-> drawn + 1, seq |-> next_seq],
             \A u \in Threads \ {t} : op'[u] = op[u]
      PROVE  IdInv'
  <2> DEFINE new == [id |-> drawn + 1, seq |-> next_seq]
  <2>1. \A u \in Threads : op'[u] \in Copies \cup {new}
    BY <1>3 DEF Copies
  <2>2. Copies' \subseteq Copies \cup {new}
    BY <1>1, <2>1 DEF Copies
  <2>3. new.id = drawn + 1
    OBVIOUS
  <2> HIDE DEF new
  <2>4. \A x \in Copies : x.id \in Nat /\ x.id <= drawn /\ x.id # new.id
    BY <1>0, <2>3 DEF IdInv, Op
  <2>5. ASSUME NEW x \in Copies', NEW y \in Copies'
        PROVE  x.id <= drawn' /\ (x.id = y.id => x = y)
    <3>1. x \in Copies \cup {new} /\ y \in Copies \cup {new}
      BY <2>2
    <3> QED
      BY <1>0, <1>3, <2>3, <2>4, <3>1 DEF IdInv
  <2> QED
    BY <2>5 DEF IdInv
<1> QED
  BY <1>2, <1>3, OpSource

-----------------------------------------------------------------------------
(* Results.                                                                *)

\* What holds whatever the user does.
IndInv == TypeOK /\ OneInv /\ LogInv /\ HeadInv /\ NamedInv /\ IdInv

\* The operations in the file before have been drawn.
LEMMA IdInit == Init => IdInv
<1> SUFFICES ASSUME Init PROVE IdInv
  OBVIOUS
<1>1. Copies = {NoOp} \cup Ops(Start)
  <2>1. PICK t \in Threads : t = Ui
    BY PersistenceAssumption
  <2> QED
    BY <2>1, OpsEmpty DEF Init, Copies, NoWriter
<1>2. ASSUME NEW x \in Copies
      PROVE  /\ x.id <= drawn /\ x.seq = x.id
             /\ x = [id |-> x.id, seq |-> x.id]
  <2>1. Len(Start) \in Nat /\ drawn = Len(Start)
    BY PersistenceAssumption, LenProperties DEF Init
  <2>2. CASE x = NoOp
    BY <2>1, <2>2 DEF NoOp
  <2>3. CASE x \in Ops(Start)
    <3>1. PICK i \in 1..Len(Start) : x = Start[i]
      BY <2>3 DEF Ops
    <3>2. x = [id |-> i, seq |-> i]
      BY <3>1, PersistenceAssumption
    <3> QED
      BY <2>1, <3>2
  <2> QED
    BY <1>1, <1>2, <2>2, <2>3
<1>3. \A x, y \in Copies : x.id = y.id => x = y
  BY <1>2
<1> QED
  BY <1>2, <1>3 DEF IdInv

\* It holds in the beginning.
LEMMA IndInit == Init => IndInv
<1> SUFFICES ASSUME Init PROVE IndInv
  OBVIOUS
<1>1. /\ file.header = Highest(file.recs) /\ file.recs = Start /\ Start \in Seq(Op)
      /\ ~operation_log /\ writer = NoWriter /\ queue = <<>>
      /\ \A t \in Threads : pc[t] = "idle"
      /\ ~auto_save_on /\ ~stop /\ ~enabling
  BY PersistenceAssumption DEF Init
<1>2. Highest(Start) \in Nat
  BY <1>1, HighestIs
<1>3. HeadInv
  BY <1>1, <1>2 DEF HeadInv, MidBatch
<1>4. OneInv /\ LogInv /\ NamedInv
  BY <1>1 DEF OneInv, LogInv, NamedInv, Busy, Logless
<1> QED
  BY <1>3, <1>4, TypeInit, IdInit DEF IndInv

\* Every step keeps it.
LEMMA IndStep == IndInv /\ [Next]_vars => IndInv'
BY TypeStep, OneStep, LogStep, HeadStep, NamedStep, IdStep DEF IndInv

\* Where the threads of file_manager and the writer are, and that no number
\* they would write as the header is beyond the records in the file.
THEOREM HeaderIsKept == Spec => []IndInv
BY IndInit, IndStep, PTL DEF Spec

\* Every variable has its type.
THEOREM TypeCorrect == Spec => []TypeOK
<1>1. IndInv => TypeOK
  BY DEF IndInv
<1> QED
  BY <1>1, HeaderIsKept, PTL

\* The header never promises a seq that is not in the file, unless a save was
\* cut short.
THEOREM HeaderIsTrue == Spec => []HeaderNeverAhead
<1>1. IndInv => HeaderNeverAhead
  BY DEF IndInv, HeadInv, HeaderNeverAhead
<1> QED
  BY <1>1, HeaderIsKept, PTL

-----------------------------------------------------------------------------
(* While nothing is being drawn or written: the inductive invariants.      *)

\* While one thread is in file_manager the others do nothing.
CalmInv == \A t, u \in Threads : pc[t] \in Busy /\ u # t => pc[u] = "idle"

\* Nor does the writer have anything to write then, but while toggle_auto_save
\* fills its queue.
Refilling == {"snapshot", "refill"}

StillInv ==
    /\ \A t \in Threads :
          /\ pc[t] \in Busy \ Refilling /\ operation_log =>
                /\ writer.step \notin {"open", "record"} /\ ~MidBatch
                /\ queue = <<>> \/ writer.step = "done"
          /\ pc[t] \in Refilling => ~stop /\ file_saved_seq = writer.start
          /\ pc[t] = "snapshot"
                => /\ queue = <<>> /\ writer.step \notin {"drain", "record", "header"}
                   /\ file.header = writer.start
    /\ stop => \E t \in Threads : pc[t] \in Closing

\* next_seq is beyond what was stamped.
SeqInv ==
    /\ \A o \in Ops(history) : o.seq < next_seq
    /\ \A t \in Threads : pc[t] \in Drawing => op[t].seq < next_seq

\* A save has failed, after which auto-save goes on from an old seq.
OldStart == {"save", "batch"} \subseteq file.cut

\* The header and the writer begin with the same seq, and the header follows
\* what the writer has saved after every batch.
InStep ==
    /\ writer.start <= writer.saved /\ writer.start <= file.header
    /\ writer.step = "open" => file.header = writer.start
    /\ writer.step = "done" => \/ stop /\ queue = <<>>
                               \/ writer.failed /\ file.header = writer.start
    /\ ~writer.failed /\ ~MidBatch => file.header = writer.saved

StartInv ==
    ~OldStart =>
       /\ \A t \in Threads :
             pc[t] \in {"opening", "reopen", "saved"} => file_saved_seq = file.header
       /\ operation_log => InStep

\* No record is beyond the header, but in a batch.
Reach == IF MidBatch THEN writer.saved ELSE file.header

CoverInv ==
    "batch" \notin file.cut => \A o \in Ops(file.recs) : o.seq <= Reach

\* What is in the file or on its way through the writer is there once...
Ids(ops) == {o.id : o \in Ops(ops)}
Handed == IF writer.step = "record" THEN {writer.hand.id} ELSE {}
Taken == Ids(file.recs) \cup Ids(queue) \cup Handed

LogOnce ==
    /\ NoneTwice(file.recs) /\ NoneTwice(queue)
    /\ Ids(queue) \cap Ids(file.recs) = {}
    /\ Handed \cap (Ids(file.recs) \cup Ids(queue)) = {}

\* ...what a thread draws is not there yet...
DrawOnce ==
    /\ NoneTwice(history)
    /\ \A t \in Threads : pc[t] \in Drawing =>
          /\ op[t].id \notin Taken
          /\ \A u \in Threads : pc[u] \in Drawing /\ op[u].id = op[t].id => u = t
    /\ \A t \in Threads : pc[t] = "log" => op[t].id \notin Ids(history)

\* ...nor what toggle_auto_save goes through, beyond the header.
FillOnce ==
    \A t \in Threads : pc[t] = "refill" =>
       /\ NoneTwice(todo)
       /\ \A o \in Ops(todo) : o.seq > writer.start => o.id \notin Taken

OnceInv == "batch" \notin file.cut => LogOnce /\ DrawOnce /\ FillOnce

\* The drawing has a file that is being kept up with.
Rewriting == {"save", "saving", "truncate", "write"}
Kept == named /\ file.cut \cap {"save", "gap"} = {}
           /\ \A t \in Threads : pc[t] \notin Rewriting

\* An operation that is not in the file yet is on its way there...
Waiting(o) ==
    \/ o \in Ops(queue)
    \/ writer.step = "record" /\ o = writer.hand
    \/ \E t \in Threads : \/ pc[t] = "enqueue" /\ o = op[t]
                          \/ pc[t] = "refill" /\ o \in Ops(todo)
                          \/ pc[t] = "snapshot"

Pending(o) == operation_log /\ o.seq > writer.start /\ Waiting(o)

\* ...or beyond the header, so that it will be added when auto-save is enabled.
AllKept ==
    \A o \in Ops(history) :
       /\ o \in Ops(file.recs) \/ o.seq > file.header \/ Pending(o)
       /\ operation_log /\ ~writer.failed => o \in Ops(file.recs) \/ Pending(o)

\* Only what has been drawn is written, and the last record is in the batch.
OnlyDrawn ==
    /\ Ops(file.recs) \subseteq Ops(history)
    /\ operation_log /\ ~writer.failed => Ops(queue) \subseteq Ops(history)
    /\ writer.step = "record"
          => writer.hand \in Ops(history) /\ writer.hand.seq > writer.start
    /\ MidBatch => Last(file.recs).seq > writer.start

OnlyDrawnBy(t) ==
    /\ pc[t] = "enqueue" => op[t] \in Ops(history)
    /\ pc[t] = "refill" => Ops(todo) \subseteq Ops(history)
    /\ pc[t] \in {"opening", "reopen", "saved"} => Ops(history) \subseteq Ops(file.recs)
    /\ pc[t] \in Drawing => op[t].seq > IF operation_log THEN writer.start ELSE file.header

KeepInv == Kept => OnlyDrawn /\ AllKept /\ \A t \in Threads : OnlyDrawnBy(t)

-----------------------------------------------------------------------------
(* Who does what when.                                                     *)

\* Nobody draws while a thread is in file_manager.
LEMMA InStroke ==
    ASSUME TypeOK, Careful, CalmInv, NEW t \in Threads, Stroke(t)
    PROVE  /\ \A u \in Threads : pc[u] \notin Busy /\ pc'[u] \notin Busy
           /\ \A u \in Threads \ {t} : pc'[u] = pc[u]
<1>1. /\ pc[t] \in {"idle", "log", "enqueue"} /\ pc'[t] \in {"idle", "log", "enqueue"}
      /\ \A u \in Threads \ {t} : pc'[u] = pc[u]
  BY DEF Stroke, Stamp, Log, Enqueue, Goto, TypeOK
<1>2. ASSUME NEW u \in Threads \ {t} PROVE pc[u] \notin Busy
  <2>1. CASE pc[t] = "idle"
    BY <2>1 DEF Stroke, Stamp, Log, Enqueue, MayDraw, Others, Busy
  <2>2. CASE pc[t] # "idle"
    BY <2>2 DEF CalmInv
  <2> QED
    BY <2>1, <2>2
<1>3. {"idle", "log", "enqueue"} \cap Busy = {}
  BY DEF Busy, Drawing
<1> QED
  BY <1>1, <1>2, <1>3

\* While one thread is in file_manager the others do nothing.
LEMMA CalmStep ==
    ASSUME TypeOK, Careful, OneInv, CalmInv, [Next]_vars
    PROVE  CalmInv'
<1>1. ASSUME NEW t \in Threads, Stroke(t) PROVE CalmInv'
  BY <1>1, InStroke DEF CalmInv
<1>2. ASSUME NEW t \in Threads, Manager(t) PROVE CalmInv'
  <2>1. \A u \in Threads \ {t} : pc[u] = "idle" /\ pc'[u] = "idle"
    BY <1>2, InManager DEF CalmInv
  <2>2. "idle" \notin Busy
    BY DEF Busy
  <2> QED
    BY <2>1, <2>2 DEF CalmInv
<1>3. ASSUME NEW t \in Threads, User(t) PROVE CalmInv'
  <2>1. \A u \in Threads \ {t} : pc'[u] = "idle"
    BY <1>3, InUser
  <2>2. "idle" \notin Busy
    BY DEF Busy
  <2> QED
    BY <2>1, <2>2 DEF CalmInv
<1>4. ASSUME Started PROVE CalmInv'
  BY <1>4 DEF Started, CalmInv
<1>5. ASSUME UNCHANGED pc PROVE CalmInv'
  BY <1>5 DEF CalmInv
<1> QED
  BY <1>1, <1>2, <1>3, <1>4, <1>5
  DEF Next, WriterThread, OpenFile, Check, Doze, Take, Record, Drained, Header,
      ThrowAway, OpenFileFails, Fails, Restart, Kill, KillInSave, vars

\* A woken writer has the same place, but that it does not sleep.
LEMMA WokenStill ==
    ASSUME NEW w \in WriterRec
    PROVE  /\ Woken(w).start = w.start /\ Woken(w).hand = w.hand
           /\ Woken(w).step \in {w.step, "check"} /\ (w.step # "sleep" => Woken(w) = w)
           /\ w.step = "sleep" => Woken(w).step = "check"
BY DEF Woken, WriterRec

\* It is quiet while a thread is in file_manager.
LEMMA StillStep ==
    ASSUME TypeOK, Careful, OneInv, LogInv, NamedInv, CalmInv, StillInv, [Next]_vars
    PROVE  StillInv'
<1> USE DEF Goto
<1>0. /\ pc \in [Threads -> Labels] /\ writer \in WriterRec /\ operation_log \in BOOLEAN
      /\ NoWriter \in WriterRec /\ NoWriter.step = "done" /\ ~NoWriter.wrote
  BY WriterTypes DEF TypeOK, NoWriter
<1>1. ASSUME NEW t \in Threads, Stroke(t) PROVE StillInv'
  <2>1. stop' = stop
    BY <1>1 DEF Stroke, Stamp, Log, Enqueue
  <2>2. Closing \subseteq Busy /\ Refilling \subseteq Busy /\ "snapshot" \in Refilling
    BY DEF Closing, ClosingTo, Busy, Labels, Drawing, Refilling
  <2> QED
    BY <1>1, <2>1, <2>2, InStroke DEF StillInv
<1>2. ASSUME NEW t \in Threads, User(t) PROVE StillInv'
  <2>1. /\ pc[t] = "idle" /\ \A u \in Threads \ {t} : pc[u] = "idle" /\ pc'[u] = "idle"
        /\ UNCHANGED <<operation_log, queue>> /\ WriterIdle
        /\ \/ writer' = writer /\ stop' = stop
           \/ /\ writer' = (IF operation_log THEN Woken(writer) ELSE writer)
              /\ stop' = operation_log /\ pc'[t] \in Closing
    BY <1>2, InUser
  <2>2. pc'[t] \notin Refilling
    BY <1>0, <1>2 DEF User, SaveButton, EnableButton, Disable, Open, Clear, Quit,
                Refilling
  <2>3. ~stop
    BY <2>1 DEF StillInv, Closing, ClosingTo
  <2>4. /\ writer'.step \in {"done", "check", "doze", "sleep"}
        /\ queue' = <<>> \/ writer'.step = "done"
    BY <1>0, <2>1, WokenStill DEF WriterIdle
  <2>5. "idle" \notin Busy \cup Refilling /\ "snapshot" \in Refilling
    BY DEF Busy, Refilling
  <2> QED
    BY <2>1, <2>2, <2>3, <2>4, <2>5 DEF StillInv, MidBatch
<1>3. ASSUME NEW t \in Threads, Manager(t) PROVE StillInv'
  <2>1. /\ pc[t] \in Busy /\ \A u \in Threads \ {t} : pc[u] = "idle" /\ pc'[u] = "idle"
    BY <1>3, InManager DEF CalmInv
  <2>2. "idle" \notin Busy /\ "idle" \notin Refilling /\ "idle" \notin Closing
    BY DEF Busy, Refilling, Closing, ClosingTo
  <2>3. stop => pc[t] \in Closing
    BY <2>1, <2>2 DEF StillInv
  <2>4. /\ pc[t] \in Logless => ~operation_log
        /\ enabling => pc[t] \in Refilling \/ ~auto_save_on
    BY <2>1 DEF LogInv, Refilling
  <2>5. /\ pc[t] \in Busy \ Refilling /\ operation_log =>
              /\ writer.step \notin {"open", "record"} /\ ~MidBatch
              /\ queue = <<>> \/ writer.step = "done"
        /\ pc[t] \in Refilling => ~stop /\ file_saved_seq = writer.start
    BY DEF StillInv
  <2> DEFINE Good ==
        /\ pc'[t] \in Busy \ Refilling /\ operation_log' =>
              /\ writer'.step \notin {"open", "record"} /\ ~MidBatch'
              /\ queue' = <<>> \/ writer'.step = "done"
        /\ pc'[t] \in Refilling => ~stop' /\ file_saved_seq' = writer'.start
        /\ pc'[t] = "snapshot"
              => /\ queue' = <<>> /\ writer'.step \notin {"drain", "record", "header"}
                 /\ file'.header = writer'.start
        /\ stop' => pc'[t] \in Closing
  <2>6. SUFFICES Good
    BY <2>1, <2>2 DEF StillInv, Refilling
  <2> USE DEF StartWriter, StopWriter
  <2>7. CASE Save(t)
    <3>1. pc[t] \in Busy \ Refilling /\ pc'[t] \in {"saving", "truncate"}
          /\ pc'[t] \notin Refilling /\ "saving" \in Closing
          /\ pc[t] \notin Closing
      BY <1>0, <2>1, <2>7 DEF Save, Refilling, Closing, ClosingTo
    <3>2. CASE auto_save_on
      BY <1>0, <2>3, <2>5, <2>7, <3>1, <3>2, WokenStill DEF Save, MidBatch
    <3>3. CASE ~auto_save_on
      BY <1>0, <2>3, <2>5, <2>7, <3>1, <3>3 DEF Save, MidBatch
    <3> QED
      BY <3>2, <3>3
  <2>8. CASE Closed(t)
    <3>1. pc'[t] = ClosingTo[pc[t]] /\ pc[t] \in DOMAIN ClosingTo
      BY <1>0, <2>8 DEF Closed
    <3>2. pc'[t] \notin Refilling /\ pc'[t] # "snapshot"
      BY <3>1 DEF ClosingTo, Refilling
    <3> QED
      BY <2>8, <3>1, <3>2 DEF Closed
  <2>9. CASE Truncate(t) \/ WriteFile(t)
    BY <1>0, <2>3, <2>4, <2>9 DEF Truncate, WriteFile, Logless, Refilling, Closing, ClosingTo
  <2>10. CASE SaveFails(t)
    <3>1. pc'[t] = "idle" /\ ~stop'
      BY <1>0, <2>3, <2>10 DEF SaveFails, Closing, ClosingTo
    <3> QED
      BY <2>2, <3>1
  <2>11. CASE Saved(t) \/ Reopen(t)
    <3>1. ~stop' /\ (pc'[t] = "idle" \/ (pc'[t] = "enable" /\ ~operation_log'))
      <4>1. CASE Saved(t)
        BY <1>0, <2>3, <2>4, <4>1 DEF Saved, Closing, ClosingTo, Logless, Refilling
      <4>2. CASE Reopen(t)
        BY <1>0, <2>3, <4>2 DEF Reopen, Closing, ClosingTo
      <4> QED
        BY <2>11, <4>1, <4>2
    <3>2. "enable" \notin Refilling
      BY DEF Refilling
    <3> QED
      BY <2>2, <3>1, <3>2
  <2>12. CASE Enable(t)
    BY <1>0, <2>12 DEF Enable, Refilling, NoWriter
  <2>13. CASE Snapshot(t)
    BY <1>0, <2>3, <2>5, <2>13 DEF Snapshot, Refilling, Closing, ClosingTo
  <2>14. CASE Refill(t)
    <3>1. /\ pc'[t] = pc[t] /\ pc[t] = "refill"
          /\ stop' = stop /\ file_saved_seq' = file_saved_seq
          /\ writer'.start = writer.start
      BY <1>0, <2>14, WokenStill DEF Refill, Push
    <3> QED
      BY <2>3, <2>5, <3>1 DEF Refilling
  <2>15. CASE Enabled(t)
    BY <1>0, <2>2, <2>3, <2>5, <2>15 DEF Enabled, Refilling, Closing, ClosingTo
  <2> QED
    BY <1>3, <2>7, <2>8, <2>9, <2>10, <2>11, <2>12, <2>13, <2>14, <2>15 DEF Manager
<1>4. ASSUME Started PROVE StillInv'
  BY <1>4 DEF Started, StillInv, Busy, Refilling
<1>5. ASSUME UNCHANGED <<pc, stop, file_saved_seq, operation_log>>,
             writer'.start = writer.start,
             \A t \in Threads :
                /\ pc[t] \in Busy \ Refilling /\ operation_log =>
                      /\ writer'.step \notin {"open", "record"} /\ ~MidBatch'
                      /\ queue' = <<>> \/ writer'.step = "done"
                /\ pc[t] = "snapshot"
                      => /\ queue' = <<>> /\ writer'.step \notin {"drain", "record", "header"}
                         /\ file' = file
      PROVE  StillInv'
  BY <1>5 DEF StillInv
<1>6. ASSUME \/ WriterThread \/ OpenFileFails \/ Fails PROVE StillInv'
  <2>1. UNCHANGED <<pc, stop, file_saved_seq, operation_log>> /\ operation_log
    BY <1>6 DEF WriterThread, OpenFile, Check, Doze, Take, Record, Drained, Header,
                ThrowAway, OpenFileFails, Fails, AtStep
  <2>2. writer'.start = writer.start
    BY <1>0, <1>6 DEF WriterThread, OpenFile, Check, Doze, Take, Record, Drained, Header,
                ThrowAway, OpenFileFails, Fails, Step, WriterRec
  <2>3. ASSUME NEW t \in Threads, pc[t] \in Busy \ Refilling
        PROVE  /\ writer'.step \notin {"open", "record"} /\ ~MidBatch'
               /\ queue' = <<>> \/ writer'.step = "done"
    <3>1. /\ writer.step \notin {"open", "record"} /\ ~MidBatch
          /\ queue = <<>> \/ writer.step = "done"
      BY <2>1, <2>3 DEF StillInv
    <3>2. Check \/ Doze \/ Drained \/ Header
      BY <1>6, <2>1, <3>1 DEF WriterThread, OpenFile, Take, Record, ThrowAway,
                  OpenFileFails, Fails, AtStep, MidBatch
    <3>3. CASE Check
      BY <1>0, <3>1, <3>3 DEF Check, AtStep, MidBatch, WriterRec
    <3>4. CASE Doze \/ Drained \/ Header
      BY <1>0, <2>1, <3>1, <3>4 DEF Doze, Drained, Header, AtStep, Step, MidBatch, WriterRec
    <3> QED
      BY <3>2, <3>3, <3>4
  <2>4. ASSUME NEW t \in Threads, pc[t] = "snapshot"
        PROVE  /\ queue' = <<>> /\ writer'.step \notin {"drain", "record", "header"}
               /\ file' = file
    <3>1. /\ queue = <<>> /\ writer.step \notin {"drain", "record", "header"} /\ ~stop
      BY <2>4 DEF StillInv, Refilling
    <3>2. OpenFile \/ Check \/ Doze \/ OpenFileFails
      BY <1>6, <3>1 DEF WriterThread, Take, Record, Drained, Header, ThrowAway,
                  Fails, AtStep
    <3> QED
      BY <1>0, <3>1, <3>2 DEF OpenFile, Check, Doze, OpenFileFails, Step, WriterRec
  <2> QED
    BY <1>5, <2>1, <2>2, <2>3, <2>4
<1>7. ASSUME UNCHANGED vars PROVE StillInv'
  BY <1>7 DEF vars, StillInv, MidBatch
<1> QED
  BY <1>1, <1>2, <1>3, <1>4, <1>6, <1>7 DEF Next, Restart, Kill, KillInSave

\* next_seq stays beyond what was stamped.
LEMMA SeqStep ==
    ASSUME TypeOK, Careful, OneInv, CalmInv, SeqInv, [Next]_vars
    PROVE  SeqInv'
<1> USE DEF Goto
<1>0. /\ pc \in [Threads -> Labels] /\ op \in [Threads -> Op] /\ history \in Seq(Op)
      /\ next_seq \in Nat /\ file.recs \in Seq(Op) /\ file \in FileRec
      /\ \A o \in Op : o.seq \in Nat
      /\ Drawing = {"log", "enqueue"}
  BY DEF TypeOK, FileRec, Op, Drawing
<1>1. ASSUME NEW t \in Threads, Stamp(t) PROVE SeqInv'
  <2>1. /\ history' = history /\ next_seq' = next_seq + 1 /\ op'[t].seq = next_seq
        /\ \A u \in Threads \ {t} : pc'[u] = pc[u] /\ op'[u] = op[u]
    BY <1>0, <1>1 DEF Stamp
  <2>2. Ops(history) \subseteq Op
    BY <1>0, OpsType
  <2>3. \A o \in Ops(history) : o.seq < next_seq'
    BY <1>0, <2>1, <2>2 DEF SeqInv
  <2>4. \A u \in Threads : pc'[u] \in Drawing => op'[u].seq < next_seq'
    BY <1>0, <2>1 DEF SeqInv
  <2> QED
    BY <2>1, <2>3, <2>4 DEF SeqInv
<1>2. ASSUME NEW t \in Threads, Log(t) PROVE SeqInv'
  <2>1. /\ Ops(history') = Ops(history) \cup {op[t]} /\ op' = op
        /\ op[t].seq < next_seq
    BY <1>0, <1>2, OpsAppend DEF Log, SeqInv
  <2>2. next_seq' = next_seq
    BY <1>0, <1>2, <2>1 DEF Log
  <2>3. \A u \in Threads : pc'[u] \in Drawing => pc[u] \in Drawing
    BY <1>0, <1>2 DEF Log
  <2> QED
    BY <2>1, <2>2, <2>3 DEF SeqInv
<1>3. ASSUME NEW t \in Threads, Enqueue(t) PROVE SeqInv'
  BY <1>0, <1>3 DEF Enqueue, SeqInv
<1>4. ASSUME NEW t \in Threads, User(t) PROVE SeqInv'
  <2>1. op' = op /\ \A u \in Threads : pc'[u] \in Drawing => pc[u] \in Drawing /\ u # t
    BY <1>0, <1>4, InUser DEF User, SaveButton, EnableButton, Disable, Open, Clear, Quit
  <2>2. \A u \in Threads \ {t} : pc[u] = "idle"
    BY <1>4, InUser
  <2>3. \A u \in Threads : pc'[u] \notin Drawing
    BY <1>0, <2>1, <2>2
  <2>4. CASE Open(t)
    <3>1. \A i \in 1..Len(file.recs) : /\ file.recs[i].seq <= Highest(file.recs)
                                       /\ Highest(file.recs) \in Nat
                                       /\ file.recs[i].seq \in Nat
      BY <1>0, HighestIs, SeqsType
    <3>2. \A o \in Ops(file.recs) : o.seq < Highest(file.recs) + 1
      BY <3>1 DEF Ops
    <3> QED
      BY <2>3, <2>4, <3>2 DEF Open, SeqInv
  <2>5. CASE Clear(t)
    BY <2>3, <2>5, OpsEmpty DEF Clear, SeqInv
  <2>6. CASE SaveButton(t) \/ EnableButton(t) \/ Disable(t) \/ Quit(t)
    BY <2>3, <2>6 DEF SaveButton, EnableButton, Disable, Quit, SeqInv
  <2> QED
    BY <1>4, <2>4, <2>5, <2>6 DEF User
<1>5. ASSUME NEW t \in Threads, Manager(t) PROVE SeqInv'
  <2>1. \A u \in Threads \ {t} : pc'[u] = pc[u]
    BY <1>5, InManager
  <2>2. pc'[t] \notin Drawing
    BY <1>0, <1>5 DEF Manager, Save, Closed, Truncate, SaveFails, WriteFile, Saved,
        Enable, Snapshot, Refill, Enabled, Reopen, ClosingTo
  <2>3. UNCHANGED <<history, next_seq, op>>
    BY <1>5 DEF Manager, Save, Closed, Truncate, SaveFails, WriteFile, Saved,
        Enable, Snapshot, Refill, Enabled, Reopen
  <2> QED
    BY <2>1, <2>2, <2>3 DEF SeqInv
<1>6. ASSUME Started PROVE SeqInv'
  BY <1>0, <1>6, OpsEmpty DEF Started, SeqInv
<1>7. ASSUME UNCHANGED <<history, next_seq, op, pc>> PROVE SeqInv'
  BY <1>7 DEF SeqInv
<1> QED
  BY <1>1, <1>2, <1>3, <1>4, <1>5, <1>6, <1>7
  DEF Next, Stroke, WriterThread, OpenFile, Check, Doze, Take, Record, Drained, Header,
      ThrowAway, OpenFileFails, Fails, Restart, Kill, KillInSave, vars

\* A woken writer is in the same batch.
LEMMA WokenBatch ==
    ASSUME TypeOK, writer' = Woken(writer), operation_log' = operation_log
    PROVE  MidBatch' = MidBatch
<1>1. writer \in WriterRec
  BY DEF TypeOK
<1> QED
  BY <1>1, WokenKeeps, WokenStill DEF MidBatch

\* A write that fails leaves its batch to be added again, and the header.
LEMMA FailsEffect ==
    ASSUME TypeOK, Fails
    PROVE  /\ file.cut \subseteq file'.cut /\ "batch" \in file'.cut
           /\ file'.header = file.header
           /\ writer' = [writer EXCEPT !.failed = TRUE, !.step = "header", !.hand = NoOp]
           /\ operation_log /\ UNCHANGED <<pc, stop, file_saved_seq, operation_log>>
<1>1. file \in FileRec
  BY DEF TypeOK
<1>2. PICK state \in {file.state, "torn"},
           recs \in {file.recs} \cup (IF AtStep("header") THEN {Front(file.recs)} ELSE {}) :
          file' = [file EXCEPT !.state = state, !.recs = recs,
             !.cut = @ \cup {"batch"} \cup
                     Losing({writer.hand} \cup ToSet(queue)
                               \cup (ToSet(file.recs) \ ToSet(recs)))]
  BY DEF Fails
<1> DEFINE lost == Losing({writer.hand} \cup ToSet(queue) \cup (ToSet(file.recs) \ ToSet(recs)))
<1>3. file' = [file EXCEPT !.state = state, !.recs = recs, !.cut = @ \cup {"batch"} \cup lost]
  BY <1>2
<1> HIDE DEF lost
<1>4. file.cut \subseteq file'.cut /\ "batch" \in file'.cut /\ file'.header = file.header
  BY <1>1, <1>3 DEF FileRec
<1> QED
  BY <1>4 DEF Fails, AtStep

\* Nor does a queue that is thrown away change more of the file than what is cut.
LEMMA ThrowAwayEffect ==
    ASSUME TypeOK, ThrowAway
    PROVE  /\ file'.recs = file.recs /\ file'.header = file.header
           /\ file.cut \subseteq file'.cut
<1>1. file \in FileRec
  BY DEF TypeOK
<1> DEFINE lost == Losing(ToSet(queue))
<1>2. file' = [file EXCEPT !.cut = @ \cup lost]
  BY DEF ThrowAway
<1> HIDE DEF lost
<1> QED
  BY <1>1, <1>2 DEF FileRec

\* The header, the writer and what file_manager remembers stay in step.
LEMMA StartStep ==
    ASSUME TypeOK, Careful, OneInv, LogInv, NamedInv, CalmInv, StillInv, StartInv,
           [Next]_vars
    PROVE  StartInv'
<1> USE DEF Goto
<1>0. /\ pc \in [Threads -> Labels] /\ writer \in WriterRec /\ operation_log \in BOOLEAN
      /\ NoWriter \in WriterRec /\ file \in FileRec /\ file.header \in Nat
      /\ writer.start \in Nat /\ writer.saved \in Nat /\ file_saved_seq \in Nat
      /\ writer.hand.seq \in Nat
  BY WriterTypes DEF TypeOK, FileRec, WriterRec, Op
<1>1. ASSUME NEW t \in Threads, Stroke(t) PROVE StartInv'
  <2>1. /\ UNCHANGED <<file, file_saved_seq, stop, operation_log>>
        /\ writer' = writer \/ writer' = Woken(writer)
        /\ ~operation_log => queue' = queue
    BY <1>1 DEF Stroke, Stamp, Log, Enqueue, Push
  <2>2. ~stop
    BY <1>1, InStroke DEF StillInv, Closing, ClosingTo, Busy, Labels, Drawing
  <2>3. MidBatch' = MidBatch
    BY <2>1, WokenBatch DEF MidBatch
  <2>4. \A u \in Threads : pc'[u] \notin {"opening", "reopen", "saved"}
    BY <1>1, InStroke DEF Busy, Labels, ClosingTo, Drawing
  <2>5. /\ writer'.start = writer.start /\ writer'.saved = writer.saved
        /\ writer'.failed = writer.failed
        /\ writer'.step \in {"open", "done"} => writer'.step = writer.step
    BY <1>0, <2>1, WokenStill, WokenKeeps
  <2> QED
    BY <2>1, <2>2, <2>3, <2>4, <2>5 DEF StartInv, OldStart, InStep
<1>2. ASSUME NEW t \in Threads, User(t) PROVE StartInv'
  <2>1. /\ pc[t] = "idle" /\ \A u \in Threads \ {t} : pc[u] = "idle" /\ pc'[u] = "idle"
        /\ UNCHANGED <<file, operation_log, queue>>
        /\ \/ writer' = writer /\ stop' = stop
           \/ /\ writer' = (IF operation_log THEN Woken(writer) ELSE writer)
              /\ stop' = operation_log
    BY <1>2, InUser
  <2>2. pc'[t] \in {"opening", "reopen", "saved"} => file_saved_seq' = file.header
    BY <1>0, <1>2 DEF User, SaveButton, EnableButton, Disable, Open, Clear, Quit
  <2>3. MidBatch' = MidBatch
    BY <2>1, WokenBatch DEF MidBatch
  <2>4. /\ writer'.start = writer.start /\ writer'.saved = writer.saved
        /\ writer'.failed = writer.failed
        /\ writer'.step \in {"open", "done"} => writer'.step = writer.step
    BY <1>0, <2>1, WokenStill, WokenKeeps
  <2>5. ~stop
    BY <2>1 DEF StillInv, Closing, ClosingTo
  <2>6. operation_log /\ ~OldStart => InStep'
    BY <2>1, <2>3, <2>4, <2>5 DEF StartInv, InStep
  <2> QED
    BY <2>1, <2>2, <2>6 DEF StartInv, OldStart
<1>3. ASSUME NEW t \in Threads, Manager(t) PROVE StartInv'
  <2>1. /\ pc[t] \in Busy /\ \A u \in Threads \ {t} : pc[u] = "idle" /\ pc'[u] = "idle"
    BY <1>3, InManager DEF CalmInv
  <2>2. pc[t] \in Logless => ~operation_log
    BY DEF LogInv
  <2> DEFINE Good ==
        /\ pc'[t] \in {"opening", "reopen", "saved"} => file_saved_seq' = file'.header
        /\ operation_log' => InStep'
  <2>3. SUFFICES ASSUME ~OldStart' PROVE Good
    BY <2>1 DEF StartInv
  <2>4. \/ UNCHANGED <<file, file_saved_seq, operation_log>>
        \/ ~operation_log' /\ UNCHANGED <<file, file_saved_seq>>
        \/ \E n \in {file_saved_seq, file.header} : StartWriter(n) /\ UNCHANGED file
        \/ Truncate(t) \/ WriteFile(t) \/ SaveFails(t)
    BY <1>3 DEF Manager, Save, Closed, Truncate, SaveFails, WriteFile, Saved,
        Enable, Snapshot, Refill, Enabled, Reopen, StopWriter
  <2>5. ASSUME NEW n \in Nat, StartWriter(n), file'.header = n PROVE InStep'
    BY <1>0, <2>5 DEF StartWriter, InStep, MidBatch, NoWriter
  <2>6. CASE Truncate(t)
    BY <1>0, <2>2, <2>6 DEF Truncate, Logless
  <2>7. CASE WriteFile(t)
    BY <1>0, <2>2, <2>7 DEF WriteFile, Logless
  <2>8. CASE SaveFails(t)
    <3>1. OldStart'
      BY <1>0, <2>8 DEF SaveFails, OldStart, FileRec
    <3> QED
      BY <2>3, <3>1
  <2>9. CASE Saved(t) \/ Reopen(t)
    <3>1. /\ file' = file /\ file_saved_seq = file.header /\ pc'[t] \in {"idle", "enable"}
          /\ \/ StartWriter(file.header)
             \/ ~operation_log'
      <4>1. file' = file /\ pc[t] \in {"saved", "reopen"} /\ pc'[t] \in {"idle", "enable"}
            /\ (StartWriter(file_saved_seq) \/ operation_log' = operation_log)
        <5>1. CASE Saved(t)
          BY <1>0, <5>1 DEF Saved
        <5>2. CASE Reopen(t)
          BY <1>0, <5>2 DEF Reopen
        <5> QED
          BY <2>9, <5>1, <5>2
      <4>2. ~operation_log
        BY <2>2, <4>1 DEF Logless
      <4>3. ~OldStart
        BY <2>3, <4>1 DEF OldStart
      <4> QED
        BY <4>1, <4>2, <4>3 DEF StartInv
    <3> QED
      BY <1>0, <2>5, <3>1
  <2>10. CASE Enable(t)
    <3>1. StartWriter(file.header) /\ file' = file /\ pc'[t] = "snapshot"
      BY <1>0, <2>10 DEF Enable
    <3> QED
      BY <1>0, <2>5, <3>1
  <2>11. CASE Closed(t)
    <3>1. /\ ~operation_log' /\ file' = file /\ file_saved_seq' = file_saved_seq
          /\ pc[t] \in DOMAIN ClosingTo /\ pc'[t] = ClosingTo[pc[t]]
      BY <1>0, <2>11 DEF Closed
    <3>2. pc'[t] \in {"opening", "reopen", "saved"} => pc[t] = "opening"
      BY <3>1 DEF ClosingTo
    <3>3. ~OldStart
      BY <2>3, <3>1 DEF OldStart
    <3> QED
      BY <3>1, <3>2, <3>3 DEF StartInv
  <2>12. CASE Save(t) \/ Snapshot(t) \/ Refill(t) \/ Enabled(t)
    <3>1. /\ UNCHANGED <<file, file_saved_seq, operation_log>>
          /\ writer' = writer \/ writer' = Woken(writer)
          /\ \/ stop' = stop /\ (queue' = queue \/ ~stop)
             \/ stop' = operation_log /\ queue' = queue
      BY <2>12 DEF Save, Snapshot, Refill, Enabled, StopWriter, Push, StillInv, Refilling
    <3>2. pc'[t] \notin {"opening", "reopen", "saved"}
      BY <1>0, <2>12 DEF Save, Snapshot, Refill, Enabled
    <3>3. MidBatch' = MidBatch
      BY <3>1, WokenBatch DEF MidBatch
    <3>4. /\ writer'.start = writer.start /\ writer'.saved = writer.saved
          /\ writer'.failed = writer.failed
          /\ writer'.step \in {"open", "done"} => writer'.step = writer.step
      BY <1>0, <3>1, WokenStill, WokenKeeps
    <3>5. ~OldStart
      BY <2>3, <3>1 DEF OldStart
    <3>6. ASSUME operation_log PROVE InStep'
      <4>1. file' = file /\ (stop /\ queue = <<>> => stop' /\ queue' = <<>>)
        <5>1. CASE stop' = stop /\ (queue' = queue \/ ~stop)
          BY <3>1, <5>1
        <5>2. CASE stop' = operation_log /\ queue' = queue
          BY <3>1, <3>6, <5>2
        <5> QED
          BY <3>1, <5>1, <5>2
      <4>2. InStep
        BY <3>5, <3>6 DEF StartInv
      <4> QED
        BY <3>3, <3>4, <4>1, <4>2 DEF InStep
    <3> QED
      BY <3>1, <3>2, <3>6
  <2> QED
    BY <1>3, <2>6, <2>7, <2>8, <2>9, <2>10, <2>11, <2>12 DEF Manager
<1>4. ASSUME Started PROVE StartInv'
  BY <1>4 DEF Started, StartInv
<1>5. ASSUME WriterThread \/ OpenFileFails \/ Fails PROVE StartInv'
  <2>1. UNCHANGED <<pc, stop, file_saved_seq, operation_log>> /\ operation_log
    BY <1>5 DEF WriterThread, OpenFile, Check, Doze, Take, Record, Drained, Header,
                ThrowAway, OpenFileFails, Fails, AtStep
  <2>2. OldStart => OldStart'
    <3>1. CASE Fails
      BY <1>0, <3>1 DEF Fails, OldStart, FileRec
    <3>2. CASE WriterThread \/ OpenFileFails
      BY <1>0, <3>2 DEF WriterThread, OpenFile, Check, Doze, Take, Record, Drained,
                  Header, ThrowAway, OpenFileFails, OldStart, FileRec
    <3> QED
      BY <1>5, <3>1, <3>2
  <2>3. SUFFICES ASSUME ~OldStart, InStep
                 PROVE  /\ InStep'
                        /\ file'.header = file.header
                             \/ \A t \in Threads : pc[t] \notin {"opening", "reopen", "saved"}
    BY <2>1, <2>2 DEF StartInv
  <2>4. CASE OpenFile \/ Check \/ Doze \/ Take \/ Drained
    BY <1>0, <2>3, <2>4
    DEF OpenFile, Check, Doze, Take, Drained, AtStep, Step, InStep, MidBatch, WriterRec
  <2>5. CASE OpenFileFails \/ Fails \/ ThrowAway
    <3>1. CASE OpenFileFails
      BY <1>0, <2>3, <3>1 DEF OpenFileFails, AtStep, InStep, MidBatch, WriterRec
    <3>2. CASE Fails
      <4>1. writer.step \in {"record", "header"}
        BY <3>2 DEF Fails, AtStep
      <4>2. /\ writer'.start = writer.start /\ writer'.saved = writer.saved
            /\ writer'.step = "header" /\ writer'.failed
        BY <1>0, <3>2, FailsEffect DEF WriterRec
      <4> QED
        BY <2>3, <3>2, <4>2, FailsEffect DEF InStep
    <3>3. CASE ThrowAway
      <4>1. /\ writer'.start = writer.start /\ writer'.saved = writer.saved
            /\ writer'.step = "header" /\ writer'.failed /\ writer'.failed = writer.failed
        BY <1>0, <3>3 DEF ThrowAway, AtStep, Step, WriterRec
      <4> QED
        BY <2>3, <3>3, <4>1, ThrowAwayEffect DEF InStep
    <3> QED
      BY <2>5, <3>1, <3>2, <3>3
  <2>6. CASE Record
    <3>1. /\ writer'.saved = Max({writer.saved, writer.hand.seq})
          /\ writer'.start = writer.start /\ file'.header = file.header
          /\ writer'.step = "drain" /\ MidBatch'
      BY <1>0, <2>1, <2>6 DEF Record, AtStep, MidBatch, WriterRec, FileRec
    <3>2. writer.start <= writer'.saved
      <4>1. writer.saved <= Max({writer.saved, writer.hand.seq})
        BY <1>0, MaxOfTwo
      <4>2. writer.start \in Nat /\ writer.saved \in Nat /\ writer'.saved \in Nat
        BY <1>0, <3>1, MaxOfTwo DEF WriterRec
      <4>3. writer.start <= writer.saved
        BY <2>3 DEF InStep
      <4> QED
        BY <3>1, <4>1, <4>2, <4>3
    <3> QED
      BY <2>3, <3>1, <3>2 DEF InStep
  <2>7. CASE Header
    <3>1. /\ writer.step = "header"
          /\ writer' = [writer EXCEPT !.step = IF stop THEN "done" ELSE "check"]
          /\ queue' = queue /\ UNCHANGED operation_log
          /\ file'.header = IF (writer.wrote \/ stop) /\ ~writer.failed THEN writer.saved
                            ELSE file.header
      BY <1>0, <2>7 DEF Header, AtStep, Step, FileRec
    <3>2. /\ writer'.start = writer.start /\ writer'.saved = writer.saved
          /\ writer'.failed = writer.failed /\ ~MidBatch'
          /\ (writer'.step = "done" /\ stop) \/ writer'.step = "check"
      BY <1>0, <3>1 DEF WriterRec, MidBatch
    <3>3. stop => queue = <<>>
      BY <2>1, <3>1 DEF StillInv, Closing, ClosingTo, Busy, Labels, Drawing, Refilling
    <3>4. ~writer.failed => file'.header = writer.saved
      BY <2>1, <2>3, <3>1 DEF InStep, MidBatch
    <3>5. writer.start <= file'.header
      BY <2>3, <3>1 DEF InStep
    <3>6. InStep'
      BY <2>1, <2>3, <3>1, <3>2, <3>3, <3>4, <3>5 DEF InStep
    <3>7. ASSUME NEW t \in Threads, pc[t] \in {"opening", "reopen", "saved"}
          PROVE  file'.header = file.header
      <4>1. ~MidBatch
        BY <2>1, <3>7 DEF StillInv, Busy, Labels, Drawing, Refilling, ClosingTo
      <4> QED
        BY <2>3, <3>1, <4>1 DEF InStep
    <3> QED
      BY <3>6, <3>7
  <2> QED
    BY <1>5, <2>4, <2>5, <2>6, <2>7 DEF WriterThread
<1>6. ASSUME UNCHANGED vars PROVE StartInv'
  BY <1>6 DEF vars, StartInv, OldStart, InStep, MidBatch
<1> QED
  BY <1>1, <1>2, <1>3, <1>4, <1>5, <1>6 DEF Next, Restart, Kill, KillInSave

\* Records stay within the header, or within the batch.
LEMMA CoverStep ==
    ASSUME TypeOK, OneInv, LogInv, StartInv, CoverInv, [Next]_vars
    PROVE  CoverInv'
<1> USE DEF Goto
<1>0. /\ writer \in WriterRec /\ operation_log \in BOOLEAN
      /\ file \in FileRec /\ file.header \in Nat /\ file.recs \in Seq(Op)
      /\ writer.saved \in Nat /\ writer.hand \in Op /\ writer.hand.seq \in Nat
      /\ history \in Seq(Op) /\ Ops(file.recs) \subseteq Op /\ Ops(history) \subseteq Op
      /\ \A o \in Op : o.seq \in Nat
  BY OpsType DEF TypeOK, FileRec, WriterRec, Op
<1>1. SUFFICES ASSUME "batch" \notin file'.cut
               PROVE  \A o \in Ops(file'.recs) : o.seq <= Reach'
  BY DEF CoverInv
<1>2. ASSUME file' = file, MidBatch' = MidBatch, MidBatch => writer'.saved = writer.saved
      PROVE  \A o \in Ops(file'.recs) : o.seq <= Reach'
  BY <1>1, <1>2 DEF CoverInv, Reach
<1>3. ASSUME "batch" \notin file.cut, ~MidBatch, ~MidBatch',
             file'.recs = file.recs, file'.header = file.header
      PROVE  \A o \in Ops(file'.recs) : o.seq <= Reach'
  BY <1>3 DEF CoverInv, Reach
<1>4. \A i \in 1..Len(history) : history[i].seq <= Highest(history)
  BY <1>0, HighestIs
<1>5. \A o \in Ops(history) : o.seq <= Highest(history)
  BY <1>4 DEF Ops
<1>6. ASSUME NEW t \in Threads, Stroke(t) \/ User(t) \/ Save(t) \/ Snapshot(t)
                                \/ Refill(t) \/ Enabled(t)
      PROVE  \A o \in Ops(file'.recs) : o.seq <= Reach'
  <2>1. /\ UNCHANGED <<file, operation_log>>
        /\ writer' = writer \/ writer' = Woken(writer)
    <3>1. CASE User(t)
      BY <3>1, InUser
    <3>2. CASE Stroke(t) \/ Save(t) \/ Snapshot(t) \/ Refill(t) \/ Enabled(t)
      BY <3>2 DEF Stroke, Stamp, Log, Enqueue, Push, Save, StopWriter, Snapshot,
                  Refill, Enabled
    <3> QED
      BY <1>6, <3>1, <3>2
  <2>2. MidBatch' = MidBatch
    BY <2>1, WokenBatch DEF MidBatch
  <2>3. writer'.saved = writer.saved
    BY <1>0, <2>1, WokenKeeps
  <2> QED
    BY <1>2, <2>1, <2>2, <2>3
<1>7. ASSUME NEW t \in Threads, Saved(t) \/ Reopen(t) \/ Enable(t) \/ Closed(t)
      PROVE  \A o \in Ops(file'.recs) : o.seq <= Reach'
  <2>1. /\ file' = file
        /\ ~operation_log \/ writer.step = "done"
        /\ ~operation_log' \/ writer'.step = "open"
    <3>1. CASE Saved(t)
      BY <1>0, <3>1 DEF Saved, StartWriter, LogInv, Logless, NoWriter
    <3>2. CASE Reopen(t)
      BY <1>0, <3>2 DEF Reopen, StartWriter, LogInv, Logless, NoWriter
    <3>3. CASE Enable(t)
      BY <1>0, <3>3 DEF Enable, StartWriter, LogInv, Logless, NoWriter
    <3>4. CASE Closed(t)
      BY <1>0, <3>4 DEF Closed
    <3> QED
      BY <1>7, <3>1, <3>2, <3>3, <3>4
  <2> QED
    BY <1>2, <2>1 DEF MidBatch
<1>8. ASSUME NEW t \in Threads, Truncate(t)
      PROVE  \A o \in Ops(file'.recs) : o.seq <= Reach'
  BY <1>8, OpsEmpty DEF Truncate
<1>9. ASSUME NEW t \in Threads, WriteFile(t)
      PROVE  \A o \in Ops(file'.recs) : o.seq <= Reach'
  BY <1>5, <1>9 DEF WriteFile, LogInv, Logless, MidBatch, Reach
<1>10. ASSUME NEW t \in Threads PROVE ~SaveFails(t)
  BY <1>0, <1>1 DEF SaveFails, FileRec
<1>11. ~Fails
  BY <1>1, FailsEffect
<1>12. ASSUME OpenFile \/ Check \/ Doze \/ Take \/ Drained
       PROVE  \A o \in Ops(file'.recs) : o.seq <= Reach'
  BY <1>0, <1>2, <1>12
  DEF OpenFile, Check, Doze, Take, Drained, AtStep, Step, MidBatch, WriterRec
<1>13. ASSUME OpenFileFails \/ ThrowAway
       PROVE  \A o \in Ops(file'.recs) : o.seq <= Reach'
  <2>1. CASE OpenFileFails
    <3>1. file' = file /\ ~MidBatch /\ ~MidBatch'
      BY <1>0, <2>1 DEF OpenFileFails, AtStep, MidBatch, WriterRec
    <3> QED
      BY <1>1, <1>3, <3>1
  <2>2. CASE ThrowAway
    <3>1. ~MidBatch /\ ~MidBatch'
      BY <1>0, <2>2 DEF ThrowAway, AtStep, Step, MidBatch, WriterRec
    <3>2. file'.recs = file.recs /\ file'.header = file.header /\ file.cut \subseteq file'.cut
      BY <2>2, ThrowAwayEffect
    <3> QED
      BY <1>1, <1>3, <3>1, <3>2
  <2> QED
    BY <1>13, <2>1, <2>2
<1>14. ASSUME Record
       PROVE  \A o \in Ops(file'.recs) : o.seq <= Reach'
  <2>1. /\ writer'.saved = Max({writer.saved, writer.hand.seq}) /\ MidBatch'
        /\ file'.recs = Append(file.recs, writer.hand) /\ file'.cut = file.cut
        /\ operation_log /\ ~writer.failed
    BY <1>0, <1>14 DEF Record, AtStep, MidBatch, WriterRec, FileRec
  <2>2. Reach = writer.saved
    BY <1>1, <2>1 DEF StartInv, OldStart, InStep, Reach
  <2>3. Ops(file'.recs) = Ops(file.recs) \cup {writer.hand}
    BY <1>0, <2>1, OpsAppend
  <2>4. \A o \in Ops(file.recs) : o.seq <= writer.saved
    BY <1>1, <2>1, <2>2 DEF CoverInv
  <2>5. /\ writer.saved <= Reach' /\ writer.hand.seq <= Reach' /\ Reach' \in Nat
    BY <1>0, <2>1, MaxOfTwo DEF Reach
  <2> HIDE DEF Reach
  <2>6. \A o \in Ops(file.recs) : o.seq <= Reach'
    BY <1>0, <2>4, <2>5
  <2> QED
    BY <2>3, <2>5, <2>6
<1>15. ASSUME Header
       PROVE  \A o \in Ops(file'.recs) : o.seq <= Reach'
  <2>1. /\ file'.header = IF (writer.wrote \/ stop) /\ ~writer.failed THEN writer.saved
                          ELSE file.header
        /\ file'.recs = file.recs /\ file'.cut = file.cut
        /\ writer.step = "header" /\ operation_log /\ ~MidBatch'
    BY <1>0, <1>15 DEF Header, AtStep, Step, MidBatch, WriterRec, FileRec
  <2>2. Reach' = Reach
    <3>1. CASE MidBatch
      BY <2>1, <3>1 DEF MidBatch, Reach
    <3>2. CASE ~MidBatch
      BY <1>1, <2>1, <3>2 DEF Reach, StartInv, OldStart, InStep
    <3> QED
      BY <3>1, <3>2
  <2> QED
    BY <1>1, <2>1, <2>2 DEF CoverInv
<1>16. ASSUME Kill
       PROVE  \A o \in Ops(file'.recs) : o.seq <= Reach'
  <2>1. /\ file'.recs = file.recs /\ file'.header = file.header
        /\ file'.cut = IF writer.wrote THEN file.cut \cup {"batch"} ELSE file.cut
    BY <1>0, <1>16 DEF Kill, FileRec
  <2>2. ~operation_log'
    BY <1>16 DEF Kill, Started
  <2> QED
    BY <1>1, <1>3, <2>1, <2>2 DEF MidBatch
<1>17. ASSUME KillInSave
       PROVE  \A o \in Ops(file'.recs) : o.seq <= Reach'
  <2>1. ~operation_log /\ ~operation_log'
    BY <1>17 DEF KillInSave, Started, LogInv, Logless
  <2>2. CASE file' = [file EXCEPT !.cut = @ \cup {"save"}]
    BY <1>0, <1>1, <1>3, <2>1, <2>2 DEF MidBatch, FileRec
  <2>3. CASE \E n \in 0..Len(history), state \in {"good", "torn"} :
                file' = [state |-> state, header |-> Highest(history),
                         recs |-> SubSeq(history, 1, n), cut |-> file.cut \cup {"save"}]
    <3>1. PICK n \in 0..Len(history), state \in {"good", "torn"} :
                file' = [state |-> state, header |-> Highest(history),
                         recs |-> SubSeq(history, 1, n), cut |-> file.cut \cup {"save"}]
      BY <2>3
    <3>2. file'.recs = SubSeq(history, 1, n) /\ Reach' = Highest(history)
      BY <2>1, <3>1 DEF Reach, MidBatch
    <3>3. Ops(file'.recs) \subseteq Ops(history)
      <4>1. n \in -1..Len(history)
        BY LenProperties, <1>0
      <4> QED
        BY <1>0, <3>2, <4>1, OpsPart
    <3> QED
      BY <1>5, <3>2, <3>3
  <2> QED
    BY <1>17, <2>2, <2>3 DEF KillInSave
<1>18. ASSUME Restart
       PROVE  \A o \in Ops(file'.recs) : o.seq <= Reach'
  <2>1. ~operation_log
    BY <1>18, PersistenceAssumption DEF Restart, Gone, LogInv, Logless
  <2>2. ~operation_log'
    BY <1>18 DEF Restart, Started
  <2>3. file' = file
    BY <1>18 DEF Restart
  <2> QED
    BY <1>2, <2>1, <2>2, <2>3 DEF MidBatch
<1>19. ASSUME UNCHANGED vars
       PROVE  \A o \in Ops(file'.recs) : o.seq <= Reach'
  BY <1>2, <1>19 DEF vars, MidBatch
<1> QED
  BY <1>6, <1>7, <1>8, <1>9, <1>10, <1>11, <1>12, <1>13, <1>14, <1>15, <1>16,
     <1>17, <1>18, <1>19 DEF Next, Manager, WriterThread

\* What sequences without repetitions are made of.
LEMMA OnceEmpty == NoneTwice(<<>>) /\ Ids(<<>>) = {}
<1>1. Len(<<>>) = 0
  BY EmptySeq
<1>2. NoneTwice(<<>>)
  <2> DEFINE none == <<>>
  <2>1. \A i \in 1..Len(none) : FALSE
    BY <1>1
  <2> HIDE DEF none
  <2>2. NoneTwice(none)
    BY <2>1 DEF NoneTwice
  <2> QED
    BY <2>2 DEF none
<1> QED
  BY <1>2, OpsEmpty DEF Ids

\* Something new is added to them.
LEMMA OnceAppend ==
    ASSUME NEW s \in Seq(Op), NEW o \in Op
    PROVE  /\ Ids(Append(s, o)) = Ids(s) \cup {o.id}
           /\ NoneTwice(s) /\ o.id \notin Ids(s) => NoneTwice(Append(s, o))
<1> DEFINE longer == Append(s, o)
<1>1. /\ Len(longer) = Len(s) + 1 /\ Len(s) \in Nat
      /\ \A i \in 1..Len(s) : longer[i] = s[i]
      /\ longer[Len(s) + 1] = o
  BY AppendProperties, LenProperties
<1>2. Ids(longer) = Ids(s) \cup {o.id}
  BY OpsAppend DEF Ids
<1> HIDE DEF longer
<1>3. ASSUME NoneTwice(s), o.id \notin Ids(s) PROVE NoneTwice(longer)
  <2>1. \A i \in 1..Len(s) : s[i].id # o.id
    BY <1>3 DEF Ids, Ops
  <2>2. ASSUME NEW i \in 1..Len(longer), NEW j \in 1..Len(longer), longer[i].id = longer[j].id
        PROVE  i = j
    <3>1. CASE i \in 1..Len(s) /\ j \in 1..Len(s)
      <4>1. s[i].id = s[j].id
        BY <1>1, <2>2, <3>1
      <4> QED
        BY <1>3, <3>1, <4>1 DEF NoneTwice
    <3>2. CASE i \in 1..Len(s) /\ j = Len(s) + 1
      BY <1>1, <2>1, <2>2, <3>2
    <3>3. CASE i = Len(s) + 1 /\ j \in 1..Len(s)
      BY <1>1, <2>1, <2>2, <3>3
    <3>4. CASE i = Len(s) + 1 /\ j = Len(s) + 1
      BY <3>4
    <3>5. i \in 1..Len(s) \/ i = Len(s) + 1
      BY <1>1, <2>2
    <3>6. j \in 1..Len(s) \/ j = Len(s) + 1
      BY <1>1, <2>2
    <3> QED
      BY <3>1, <3>2, <3>3, <3>4, <3>5, <3>6
  <2> QED
    BY <2>2 DEF NoneTwice
<1> QED
  BY <1>2, <1>3 DEF longer

\* The first is taken from them.
LEMMA OnceTail ==
    ASSUME NEW s \in Seq(Op), s # <<>>, NoneTwice(s)
    PROVE  /\ NoneTwice(Tail(s)) /\ Ids(s) = {Head(s).id} \cup Ids(Tail(s))
           /\ Head(s).id \notin Ids(Tail(s))
<1> DEFINE rest == Tail(s)
<1>1. /\ Len(rest) = Len(s) - 1 /\ Len(s) \in Nat \ {0} /\ Head(s) = s[1]
      /\ \A i \in 1..Len(rest) : rest[i] = s[i + 1]
  BY HeadTailProperties, LenProperties, EmptySeq
<1>2. Ids(s) = {Head(s).id} \cup Ids(rest)
  BY OpsTail DEF Ids
<1> HIDE DEF rest
<1>3. \A i \in 1..Len(rest) : i + 1 \in 1..Len(s) /\ i + 1 # 1 /\ 1 \in 1..Len(s)
  BY <1>1
<1>4. NoneTwice(rest)
  <2>1. ASSUME NEW i \in 1..Len(rest), NEW j \in 1..Len(rest), rest[i].id = rest[j].id
        PROVE  i = j
    <3>1. s[i + 1].id = s[j + 1].id
      BY <1>1, <2>1
    <3>2. i + 1 = j + 1
      BY <1>3, <3>1 DEF NoneTwice
    <3> QED
      BY <1>1, <3>2
  <2> QED
    BY <2>1 DEF NoneTwice
<1>5. Head(s).id \notin Ids(rest)
  <2>1. ASSUME NEW i \in 1..Len(rest) PROVE rest[i].id # Head(s).id
    <3>1. s[i + 1].id # s[1].id
      BY <1>3 DEF NoneTwice
    <3> QED
      BY <1>1, <3>1
  <2> QED
    BY <2>1 DEF Ids, Ops
<1> QED
  BY <1>2, <1>4, <1>5 DEF rest

\* No thread draws, and nothing is gone through.
LEMMA OnceIdle ==
    ASSUME LogOnce', NoneTwice(history'),
           \A t \in Threads : pc'[t] \notin Drawing /\ pc'[t] # "refill"
    PROVE  OnceInv'
BY DEF OnceInv, DrawOnce, FillOnce, Drawing

\* Less is on its way.
LEMMA OnceLess ==
    ASSUME LogOnce', DrawOnce, FillOnce, Taken' \subseteq Taken,
           UNCHANGED <<pc, op, history, todo>>, writer'.start = writer.start
    PROVE  OnceInv'
BY DEF OnceInv, DrawOnce, FillOnce

\* The log, where only its thread is woken.
LEMMA LogOnceSame ==
    ASSUME TypeOK, LogOnce, file'.recs = file.recs, queue' = queue,
           writer' = writer \/ writer' = Woken(writer)
    PROVE  LogOnce' /\ Taken' = Taken
<1>1. Handed' = Handed
  <2>1. writer \in WriterRec
    BY DEF TypeOK
  <2>2. /\ writer'.hand = writer.hand
        /\ writer'.step = "record" <=> writer.step = "record"
    BY <2>1, WokenKeeps, WokenStill
  <2> QED
    BY <2>2 DEF Handed
<1> QED
  BY <1>1 DEF LogOnce, Taken

\* The log, where it is begun or closed.
LEMMA LogOnceNew ==
    ASSUME NoneTwice(file'.recs), queue' = <<>>, writer'.step # "record"
    PROVE  LogOnce' /\ Taken' = Ids(file'.recs)
BY OnceEmpty DEF LogOnce, Handed, Taken

\* The writer takes each operation once.
LEMMA OnceWriter ==
    ASSUME TypeOK, OnceInv, WriterThread \/ OpenFileFails \/ Fails
    PROVE  OnceInv'
<1>0. /\ writer \in WriterRec /\ file \in FileRec /\ queue \in Seq(Op)
      /\ file.recs \in Seq(Op) /\ writer.hand \in Op
  BY DEF TypeOK, WriterRec, FileRec
<1>1. UNCHANGED <<pc, op, history, todo>> /\ writer'.start = writer.start
  BY <1>0 DEF WriterThread, OpenFile, Check, Doze, Take, Record, Drained, Header,
      ThrowAway, OpenFileFails, Fails, Step, WriterRec
<1>2. SUFFICES ASSUME "batch" \notin file'.cut PROVE OnceInv'
  BY DEF OnceInv
<1>3. ~Fails
  BY <1>2, FailsEffect
<1>4. "batch" \notin file.cut
  BY <1>0, <1>2, <1>3 DEF WriterThread, OpenFile, Check, Doze, Take, Record, Drained,
      Header, ThrowAway, OpenFileFails, FileRec
<1>5. LogOnce /\ DrawOnce /\ FillOnce
  BY <1>4 DEF OnceInv
<1>6. SUFFICES LogOnce' /\ Taken' \subseteq Taken
  BY <1>1, <1>5, OnceLess
<1>7. CASE OpenFile \/ Check \/ Doze \/ Drained \/ Header \/ OpenFileFails
  <2>1. file'.recs = file.recs /\ queue' = queue /\ Handed' = {}
    BY <1>0, <1>7 DEF OpenFile, Check, Doze, Drained, Header, OpenFileFails, AtStep,
        Step, WriterRec, FileRec, Handed
  <2> QED
    BY <1>5, <2>1 DEF LogOnce, Taken
<1>8. CASE ThrowAway
  <2>1. file'.recs = file.recs /\ queue' = <<>> /\ writer'.step # "record"
    BY <1>0, <1>8 DEF ThrowAway, Step, WriterRec, FileRec
  <2> QED
    BY <1>5, <2>1, LogOnceNew DEF LogOnce, Taken
<1>9. CASE Take
  <2>1. /\ queue # <<>> /\ queue' = Tail(queue) /\ file' = file /\ writer.step = "drain"
        /\ Handed' \subseteq {Head(queue).id}
    BY <1>0, <1>9 DEF Take, AtStep, WriterRec, Handed
  <2>2. /\ NoneTwice(queue') /\ Ids(queue) = {Head(queue).id} \cup Ids(queue')
        /\ Head(queue).id \notin Ids(queue')
    BY <1>0, <1>5, <2>1, OnceTail DEF LogOnce
  <2> QED
    BY <1>5, <2>1, <2>2 DEF LogOnce, Taken
<1>10. CASE Record
  <2>1. /\ file'.recs = Append(file.recs, writer.hand) /\ queue' = queue
        /\ Handed = {writer.hand.id} /\ Handed' = {}
    BY <1>0, <1>10 DEF Record, AtStep, WriterRec, FileRec, Handed
  <2>2. writer.hand.id \notin Ids(file.recs) \cup Ids(queue)
    BY <1>5, <2>1 DEF LogOnce
  <2>3. /\ Ids(file'.recs) = Ids(file.recs) \cup {writer.hand.id} /\ NoneTwice(file'.recs)
    BY <1>0, <1>5, <2>1, <2>2, OnceAppend DEF LogOnce
  <2> QED
    BY <1>5, <2>1, <2>2, <2>3 DEF LogOnce, Taken
<1> QED
  BY <1>3, <1>7, <1>8, <1>9, <1>10 DEF WriterThread

\* What is drawn is new, and drawn by one thread.
LEMMA OnceStroke ==
    ASSUME TypeOK, Careful, CalmInv, NamedInv, IdInv, OnceInv, NEW t \in Threads, Stroke(t)
    PROVE  OnceInv'
<1> USE DEF Goto
<1>0. /\ pc \in [Threads -> Labels] /\ op \in [Threads -> Op] /\ writer \in WriterRec
      /\ file \in FileRec /\ queue \in Seq(Op) /\ file.recs \in Seq(Op)
      /\ history \in Seq(Op) /\ drawn \in Nat /\ Drawing = {"log", "enqueue"}
      /\ \A u \in Threads : op[u] \in Op
  BY DEF TypeOK, FileRec, Drawing
<1>1. SUFFICES ASSUME "batch" \notin file'.cut PROVE OnceInv'
  BY DEF OnceInv
<1>2. file' = file /\ LogOnce /\ DrawOnce
  BY <1>1 DEF Stroke, Stamp, Log, Enqueue, OnceInv
<1>3. FillOnce'
  BY InStroke DEF FillOnce, Busy, Labels, Drawing
<1>4. SUFFICES LogOnce' /\ DrawOnce'
  BY <1>3 DEF OnceInv
<1>5. CASE Stamp(t)
  <2> DEFINE new == [id |-> drawn + 1, seq |-> next_seq]
  <2>1. /\ UNCHANGED <<file, queue, writer, history>>
        /\ op'[t] = new /\ pc'[t] = "log"
        /\ \A u \in Threads \ {t} : pc'[u] = pc[u] /\ op'[u] = op[u]
    BY <1>0, <1>5 DEF Stamp
  <2>2. new.id = drawn + 1
    OBVIOUS
  <2> HIDE DEF new
  <2>3. \A x \in Copies : x.id # new.id
    <3>1. Copies \subseteq Op
      <4>1. todo \in Seq(Op) /\ writer.hand \in Op /\ NoOp \in Op
        BY WriterTypes DEF TypeOK, WriterRec
      <4> QED
        BY <1>0, <4>1, OpsType DEF Copies
    <3>2. \A x \in Copies : x.id <= drawn /\ x.id \in Nat
      BY <3>1 DEF IdInv, Op
    <3> QED
      BY <1>0, <2>2, <3>2
  <2>4. new.id \notin Taken /\ new.id \notin Ids(history)
    BY <2>3 DEF Taken, Handed, Ids, Copies
  <2>5. \A u \in Threads : op[u].id # new.id
    BY <2>3 DEF Copies
  <2>6. LogOnce' /\ Taken' = Taken
    BY <1>2, <2>1, LogOnceSame
  <2>7. DrawOnce'
    BY <1>0, <1>2, <2>1, <2>4, <2>5, <2>6 DEF DrawOnce
  <2> QED
    BY <2>6, <2>7
<1>6. CASE Log(t)
  <2>1. /\ UNCHANGED <<file, queue, writer, op>>
        /\ history' = Append(history, op[t]) /\ pc[t] = "log" /\ pc'[t] = "enqueue"
        /\ \A u \in Threads \ {t} : pc'[u] = pc[u]
    BY <1>0, <1>6 DEF Log
  <2>2. /\ Ids(history') = Ids(history) \cup {op[t].id} /\ NoneTwice(history')
    BY <1>0, <1>2, <2>1, OnceAppend DEF DrawOnce
  <2>3. LogOnce' /\ Taken' = Taken
    BY <1>2, <2>1, LogOnceSame
  <2>4. DrawOnce'
    BY <1>0, <1>2, <2>1, <2>2, <2>3 DEF DrawOnce
  <2> QED
    BY <2>3, <2>4
<1>7. CASE Enqueue(t)
  <2>1. /\ UNCHANGED <<file, history>> /\ pc[t] = "enqueue" /\ pc'[t] = "idle"
        /\ \A u \in Threads \ {t} : pc'[u] = pc[u] /\ op'[u] = op[u]
        /\ \/ queue' = Append(queue, op[t]) /\ writer' = Woken(writer)
           \/ queue' = queue /\ writer' = writer
    BY <1>0, <1>7 DEF Enqueue, Push
  <2>2. op[t].id \notin Taken
    BY <1>0, <1>2, <2>1 DEF DrawOnce
  <2>3. CASE queue' = queue /\ writer' = writer
    <3>1. LogOnce' /\ Taken' = Taken
      BY <1>2, <2>1, <2>3, LogOnceSame
    <3>2. DrawOnce'
      BY <1>0, <1>2, <2>1, <3>1 DEF DrawOnce
    <3> QED
      BY <3>1, <3>2
  <2>4. CASE queue' = Append(queue, op[t]) /\ writer' = Woken(writer)
    <3>1. Handed' = Handed
      <4>1. writer'.hand = writer.hand /\ (writer'.step = "record" <=> writer.step = "record")
        BY <1>0, <2>4, WokenKeeps, WokenStill
      <4> QED
        BY <4>1 DEF Handed
    <3>2. op[t].id \notin Ids(queue)
      BY <2>2 DEF Taken
    <3>3. Ids(queue') = Ids(queue) \cup {op[t].id} /\ NoneTwice(queue')
      BY <1>0, <1>2, <2>4, <3>2, OnceAppend DEF LogOnce
    <3>4. Taken' = Taken \cup {op[t].id}
      BY <2>1, <3>1, <3>3 DEF Taken
    <3>5. LogOnce'
      BY <1>2, <2>1, <2>2, <3>1, <3>3 DEF LogOnce, Taken
    <3>6. DrawOnce'
      <4>1. \A u \in Threads : pc'[u] \in Drawing
               => u # t /\ pc[u] \in Drawing /\ op'[u] = op[u] /\ op[u].id # op[t].id
        BY <1>0, <1>2, <2>1 DEF DrawOnce
      <4>2. \A u \in Threads : pc'[u] = "log" => pc[u] = "log" /\ op'[u] = op[u]
        BY <1>0, <2>1
      <4> QED
        BY <1>2, <2>1, <3>4, <4>1, <4>2 DEF DrawOnce
    <3> QED
      BY <3>5, <3>6
  <2> QED
    BY <2>1, <2>3, <2>4
<1> QED
  BY <1>5, <1>6, <1>7 DEF Stroke

\* Buttons write nothing.
LEMMA OnceUser ==
    ASSUME TypeOK, Careful, OnceInv, NEW t \in Threads, User(t)
    PROVE  OnceInv'
<1> USE DEF Goto
<1>0. pc \in [Threads -> Labels] /\ writer \in WriterRec
  BY DEF TypeOK
<1>1. /\ \A u \in Threads \ {t} : pc'[u] = "idle"
      /\ UNCHANGED <<file, operation_log, queue>>
      /\ writer' = writer \/ writer' = Woken(writer)
  BY InUser
<1>2. pc'[t] \notin Drawing /\ pc'[t] # "refill" /\ "idle" \notin Drawing
  BY <1>0 DEF User, SaveButton, EnableButton, Disable, Open, Clear, Quit, Drawing
<1>3. SUFFICES ASSUME LogOnce, DrawOnce PROVE OnceInv'
  BY <1>1 DEF OnceInv
<1>4. LogOnce'
  BY <1>1, <1>3, LogOnceSame
<1>5. NoneTwice(history')
  <2>1. history' \in {history, file.recs, <<>>}
    BY DEF User, SaveButton, EnableButton, Disable, Open, Clear, Quit
  <2> QED
    BY <1>3, <2>1, OnceEmpty DEF LogOnce, DrawOnce
<1> QED
  BY <1>1, <1>2, <1>4, <1>5, OnceIdle

\* Between the snapshot and the end of toggle_auto_save what is in the snapshot
\* beyond the header is not in the file.
LEMMA OnceSnapshot ==
    ASSUME TypeOK, StillInv, IdInv, CoverInv, "batch" \notin file.cut,
           NEW t \in Threads, pc[t] = "snapshot", NEW o \in Ops(history),
           o.seq > writer.start
    PROVE  o.id \notin Taken
<1>1. /\ queue = <<>> /\ writer.step \notin {"drain", "record", "header"}
      /\ file.header = writer.start
  BY DEF StillInv
<1>2. Taken = Ids(file.recs)
  BY <1>1, OnceEmpty DEF Taken, Handed
<1>3. Reach = writer.start
  BY <1>1 DEF Reach, MidBatch
<1>4. SUFFICES ASSUME NEW r \in Ops(file.recs), r.id = o.id PROVE FALSE
  BY <1>2 DEF Ids
<1>5. r = o
  BY <1>4 DEF IdInv, Copies
<1>6. r.seq <= writer.start /\ writer.start \in Nat /\ o.seq \in Nat
  <2>1. r.seq <= writer.start
    BY <1>3 DEF CoverInv
  <2>2. writer \in WriterRec /\ history \in Seq(Op)
    BY DEF TypeOK
  <2>3. o \in Op
    BY <2>2, OpsType
  <2> QED
    BY <2>1, <2>2, <2>3 DEF WriterRec, Op
<1> QED
  BY <1>5, <1>6

\* What toggle_auto_save enqueues is not in the file yet.
LEMMA OnceManager ==
    ASSUME TypeOK, Careful, OneInv, LogInv, NamedInv, IdInv, CalmInv, StillInv, CoverInv,
           OnceInv, NEW t \in Threads, Manager(t)
    PROVE  OnceInv'
<1> USE DEF Goto
<1>0. /\ pc \in [Threads -> Labels] /\ writer \in WriterRec /\ file \in FileRec
      /\ queue \in Seq(Op) /\ history \in Seq(Op) /\ todo \in Seq(Op)
      /\ NoWriter.step = "done" /\ "idle" \notin Drawing /\ writer.start \in Nat
  BY DEF TypeOK, NoWriter, Drawing, WriterRec
<1>1. pc[t] \in Busy /\ \A u \in Threads \ {t} : pc[u] = "idle" /\ pc'[u] = "idle"
  BY InManager DEF CalmInv
<1>2. SUFFICES ASSUME "batch" \notin file'.cut PROVE OnceInv'
  BY DEF OnceInv
<1>3. ~SaveFails(t)
  <2>1. ASSUME SaveFails(t) PROVE "batch" \in file'.cut
    BY <1>0, <2>1 DEF SaveFails, FileRec
  <2> QED
    BY <1>2, <2>1
<1>4. "batch" \notin file.cut
  BY <1>0, <1>2, <1>3 DEF Manager, Save, Closed, Truncate, WriteFile, Saved,
        Enable, Snapshot, Refill, Enabled, Reopen, FileRec
<1>5. LogOnce /\ DrawOnce /\ FillOnce
  BY <1>4 DEF OnceInv
<1>6. NoneTwice(history)
  BY <1>5 DEF DrawOnce
<1>7. CASE Snapshot(t)
  <2>1. /\ UNCHANGED <<file, queue, writer, history>> /\ todo' = history
        /\ pc[t] = "snapshot"
    BY <1>7 DEF Snapshot
  <2>2. LogOnce' /\ Taken' = Taken
    BY <1>5, <2>1, LogOnceSame
  <2>3. \A u \in Threads : pc'[u] \notin Drawing
    BY <1>0, <1>1, <1>7 DEF Snapshot, Drawing
  <2>4. DrawOnce'
    BY <1>6, <2>1, <2>3 DEF DrawOnce, Drawing
  <2>5. \A o \in Ops(history) : o.seq > writer.start => o.id \notin Taken
    BY <1>4, <2>1, OnceSnapshot
  <2>6. FillOnce'
    BY <1>6, <2>1, <2>2, <2>5 DEF FillOnce
  <2> QED
    BY <2>2, <2>4, <2>6 DEF OnceInv
<1>8. CASE Refill(t)
  <2> DEFINE o == Head(todo)
  <2>1. /\ UNCHANGED <<file, history, pc>> /\ todo # <<>> /\ todo' = Tail(todo)
        /\ pc[t] = "refill"
        /\ \/ o.seq > file_saved_seq /\ queue' = Append(queue, o) /\ writer' = Woken(writer)
           \/ queue' = queue /\ writer' = writer
    BY <1>8 DEF Refill, Push
  <2>2. /\ NoneTwice(todo') /\ Ops(todo) = {o} \cup Ops(todo') /\ o \in Op
        /\ Ids(todo) = {o.id} \cup Ids(todo') /\ o.id \notin Ids(todo')
    <3>1. NoneTwice(todo)
      BY <1>5, <2>1 DEF FillOnce
    <3> QED
      BY <1>0, <2>1, <3>1, OnceTail, OpsTail, PartTypes
  <2>3. \A x \in {o} \cup Ops(todo') : x.seq > writer.start => x.id \notin Taken
    BY <1>5, <2>1, <2>2 DEF FillOnce
  <2> HIDE DEF o
  <2>4. \A u \in Threads : pc'[u] \notin Drawing
    BY <1>1, <1>0, <2>1 DEF Drawing
  <2>5. DrawOnce'
    BY <1>6, <2>1, <2>4 DEF DrawOnce, Drawing
  <2>6. writer'.start = writer.start
    BY <1>0, <2>1, WokenStill
  <2>7. CASE queue' = queue /\ writer' = writer
    <3>1. LogOnce' /\ Taken' = Taken
      BY <1>5, <2>1, <2>7, LogOnceSame
    <3>2. FillOnce'
      BY <2>2, <2>3, <2>6, <3>1 DEF FillOnce
    <3> QED
      BY <2>5, <3>1, <3>2 DEF OnceInv
  <2>8. CASE o.seq > file_saved_seq /\ queue' = Append(queue, o) /\ writer' = Woken(writer)
    <3>1. Handed' = Handed
      <4>1. writer'.hand = writer.hand /\ (writer'.step = "record" <=> writer.step = "record")
        BY <1>0, <2>8, WokenKeeps, WokenStill
      <4> QED
        BY <4>1 DEF Handed
    <3>2. o.id \notin Taken
      BY <2>1, <2>3, <2>8 DEF StillInv, Refilling
    <3>3. Ids(queue') = Ids(queue) \cup {o.id} /\ NoneTwice(queue')
      <4>1. o.id \notin Ids(queue) /\ NoneTwice(queue)
        BY <1>5, <3>2 DEF Taken, LogOnce
      <4> QED
        BY <1>0, <2>2, <2>8, <4>1, OnceAppend
    <3>4. Taken' = Taken \cup {o.id}
      BY <2>1, <3>1, <3>3 DEF Taken
    <3>5. LogOnce'
      BY <1>5, <2>1, <3>1, <3>2, <3>3 DEF LogOnce, Taken
    <3>6. \A x \in Ops(todo') : x.id # o.id
      BY <2>2 DEF Ids
    <3>7. FillOnce'
      BY <2>2, <2>3, <2>6, <3>4, <3>6 DEF FillOnce
    <3> QED
      BY <2>5, <3>5, <3>7 DEF OnceInv
  <2> QED
    BY <2>1, <2>7, <2>8
<1>9. ASSUME LogOnce', history' = history, pc'[t] \notin Drawing \cup {"refill"}
      PROVE  OnceInv'
  BY <1>0, <1>1, <1>6, <1>9, OnceIdle
<1>10. CASE Save(t) \/ Enabled(t)
  <2>1. /\ UNCHANGED <<file, queue, history>> /\ (writer' = writer \/ writer' = Woken(writer))
        /\ pc'[t] \notin Drawing \cup {"refill"}
    BY <1>0, <1>10 DEF Save, Enabled, StopWriter, Drawing
  <2> QED
    BY <1>5, <1>9, <2>1, LogOnceSame
<1>11. CASE Saved(t) \/ Enable(t) \/ Reopen(t) \/ Closed(t)
  <2>1. /\ UNCHANGED <<file, history>> /\ pc'[t] \notin Drawing \cup {"refill"}
        /\ queue' = <<>> /\ writer'.step # "record"
    <3>1. CASE Saved(t)
      BY <1>0, <3>1 DEF Saved, StartWriter, NoWriter, Drawing, LogInv, NamedInv, Logless
    <3>2. CASE Enable(t)
      BY <1>0, <3>2 DEF Enable, StartWriter, NoWriter, Drawing
    <3>3. CASE Reopen(t)
      BY <1>0, <3>3 DEF Reopen, StartWriter, NoWriter, Drawing, LogInv, NamedInv, Logless
    <3>4. CASE Closed(t)
      <4>1. ClosingTo[pc[t]] \notin Drawing \cup {"refill"}
        BY <3>4 DEF Closed, ClosingTo, Drawing
      <4> QED
        BY <1>0, <3>4, <4>1 DEF Closed
    <3> QED
      BY <1>11, <3>1, <3>2, <3>3, <3>4
  <2>2. LogOnce'
    BY <1>5, <2>1, LogOnceNew DEF LogOnce
  <2> QED
    BY <1>9, <2>1, <2>2
<1>12. CASE Truncate(t) \/ WriteFile(t)
  <2>1. /\ file'.recs \in {<<>>, history} /\ history' = history
        /\ UNCHANGED <<queue, writer>> /\ pc[t] \in Logless
        /\ pc'[t] \notin Drawing \cup {"refill"}
    BY <1>0, <1>12 DEF Truncate, WriteFile, Logless, Drawing
  <2>2. queue' = <<>> /\ writer'.step # "record"
    BY <1>0, <2>1 DEF LogInv, NamedInv
  <2>3. NoneTwice(file'.recs)
    BY <1>6, <2>1, OnceEmpty
  <2> QED
    BY <1>9, <2>1, <2>2, <2>3, LogOnceNew
<1> QED
  BY <1>3, <1>7, <1>8, <1>10, <1>11, <1>12 DEF Manager

\* Nothing gets into the file twice.
LEMMA OnceStep ==
    ASSUME TypeOK, Careful, OneInv, LogInv, NamedInv, IdInv, CalmInv, StillInv, CoverInv,
           OnceInv, [Next]_vars
    PROVE  OnceInv'
<1>1. ASSUME Started, file'.cut = file.cut \/ file.cut \subseteq file'.cut,
             file'.recs = file.recs
             \/ \E n \in 0..Len(history) : file'.recs = SubSeq(history, 1, n)
      PROVE  OnceInv'
  <2>1. SUFFICES ASSUME LogOnce, DrawOnce PROVE OnceInv'
    BY <1>1 DEF OnceInv
  <2>2. history \in Seq(Op)
    BY DEF TypeOK
  <2>3. NoneTwice(file'.recs)
    <3>1. CASE file'.recs = file.recs
      BY <2>1, <3>1 DEF LogOnce
    <3>2. CASE \E n \in 0..Len(history) : file'.recs = SubSeq(history, 1, n)
      <4>1. PICK n \in 0..Len(history) : file'.recs = SubSeq(history, 1, n)
        BY <3>2
      <4>2. n \in -1..Len(history)
        BY <2>2, LenProperties
      <4> QED
        BY <2>1, <2>2, <4>1, <4>2, OpsPart DEF DrawOnce
    <3> QED
      BY <1>1, <3>1, <3>2
  <2>4. /\ queue' = <<>> /\ writer'.step # "record" /\ NoneTwice(history')
        /\ \A t \in Threads : pc'[t] \notin Drawing /\ pc'[t] # "refill"
    BY <1>1, OnceEmpty DEF Started, NoWriter, Drawing
  <2> QED
    BY <2>3, <2>4, LogOnceNew, OnceIdle
<1>2. file \in FileRec
  BY DEF TypeOK
<1>3. CASE Restart
  BY <1>1, <1>3 DEF Restart
<1>4. CASE Kill
  <2>1. Started /\ file'.recs = file.recs /\ file.cut \subseteq file'.cut
    BY <1>2, <1>4 DEF Kill, FileRec
  <2> QED
    BY <1>1, <2>1
<1>5. CASE KillInSave
  <2>1. Started /\ file.cut \subseteq file'.cut
        /\ \/ file'.recs = file.recs
           \/ \E n \in 0..Len(history) : file'.recs = SubSeq(history, 1, n)
    BY <1>2, <1>5 DEF KillInSave, FileRec
  <2> QED
    BY <1>1, <2>1
<1>6. ASSUME UNCHANGED vars PROVE OnceInv'
  BY <1>6 DEF vars, OnceInv, LogOnce, DrawOnce, FillOnce, Taken, Handed
<1> QED
  BY <1>3, <1>4, <1>5, <1>6, OnceStroke, OnceUser, OnceManager, OnceWriter
  DEF Next

-----------------------------------------------------------------------------
(* Nothing is lost.                                                        *)

\* What is in the file has a lower seq than what is drawn next.
LEMMA NextIsBeyond ==
    ASSUME TypeOK, HeadInv, StartInv, SeqInv, Kept, OnlyDrawn
    PROVE  next_seq > IF operation_log THEN writer.start ELSE file.header
<1>0. /\ next_seq \in Nat \ {0} /\ file.recs \in Seq(Op) /\ history \in Seq(Op)
      /\ file.header \in Nat /\ writer.start \in Nat
  BY DEF TypeOK, FileRec, WriterRec
<1>1. \A i \in 1..Len(file.recs) : file.recs[i].seq <= next_seq - 1
  <2>1. \A o \in Ops(history) : o.seq < next_seq /\ o.seq \in Nat
    <3>1. Ops(history) \subseteq Op
      BY <1>0, OpsType
    <3> QED
      BY <3>1 DEF SeqInv, Op
  <2>2. \A i \in 1..Len(file.recs) : file.recs[i] \in Ops(history)
    BY DEF OnlyDrawn, Ops
  <2> QED
    BY <1>0, <2>1, <2>2
<1>2. Highest(file.recs) \in Nat /\ Highest(file.recs) <= next_seq - 1
  <2>1. next_seq - 1 \in Nat
    BY <1>0
  <2> QED
    BY <1>0, <1>1, <2>1, HighestIs
<1>3. file.header <= Highest(file.recs)
  BY DEF HeadInv, Kept
<1>4. operation_log => writer.start <= file.header
  BY DEF StartInv, OldStart, InStep, Kept
<1> QED
  BY <1>0, <1>2, <1>3, <1>4

\* ToSet of the community modules.
LEMMA ToSetIsOps == ASSUME NEW s \in Seq(Op) PROVE ToSet(s) = Ops(s)
<1>1. DOMAIN s = 1..Len(s)
  BY LenProperties
<1> QED
  BY <1>1 DEF ToSet, Ops

\* The threads that draw lose nothing.
LEMMA KeepStroke ==
    ASSUME TypeOK, Careful, CalmInv, HeadInv, StartInv, SeqInv, NamedInv, KeepInv,
           NEW t \in Threads, Stroke(t)
    PROVE  KeepInv'
<1> USE DEF Goto
<1>0. /\ pc \in [Threads -> Labels] /\ op \in [Threads -> Op] /\ writer \in WriterRec
      /\ history \in Seq(Op) /\ queue \in Seq(Op) /\ Drawing = {"log", "enqueue"}
      /\ op[t] \in Op
  BY DEF TypeOK, Drawing
<1>1. SUFFICES ASSUME Kept' PROVE KeepInv'
  BY DEF KeepInv
<1>2. /\ \A u \in Threads : pc[u] \notin Busy /\ pc'[u] \notin Busy
      /\ \A u \in Threads \ {t} : pc'[u] = pc[u]
  BY InStroke
<1>3. /\ Rewriting \subseteq Busy /\ Refilling \subseteq Busy
      /\ {"opening", "reopen", "saved"} \subseteq Busy
  BY DEF Rewriting, Refilling, Busy, Labels, ClosingTo, Drawing
<1>4. /\ UNCHANGED <<file, operation_log, named, todo>>
      /\ writer' = writer \/ writer' = Woken(writer)
  BY DEF Stroke, Stamp, Log, Enqueue, Push
<1>5. Kept
  BY <1>1, <1>2, <1>3, <1>4 DEF Kept
<1>6. OnlyDrawn /\ AllKept /\ \A u \in Threads : OnlyDrawnBy(u)
  BY <1>5 DEF KeepInv
<1>7. /\ writer'.start = writer.start /\ writer'.failed = writer.failed
      /\ writer'.hand = writer.hand /\ (writer'.step = "record" <=> writer.step = "record")
      /\ MidBatch' = MidBatch
  <2>1. MidBatch' = MidBatch
    BY <1>4, WokenBatch DEF MidBatch
  <2> QED
    BY <1>0, <1>4, <2>1, WokenKeeps, WokenStill
<1>8. \A u \in Threads : pc'[u] \notin {"opening", "reopen", "saved", "refill", "snapshot"}
  BY <1>2, <1>3 DEF Refilling
<1>9. CASE Stamp(t)
  <2>1. /\ UNCHANGED <<queue, history>> /\ op'[t].seq = next_seq /\ pc[t] = "idle"
        /\ pc'[t] = "log" /\ \A u \in Threads \ {t} : op'[u] = op[u]
    BY <1>0, <1>9 DEF Stamp
  <2>2. \A u \in Threads : OnlyDrawnBy(u)'
    <3>1. next_seq > IF operation_log THEN writer.start ELSE file.header
      BY <1>5, <1>6, NextIsBeyond
    <3> QED
      BY <1>0, <1>2, <1>4, <1>6, <1>7, <1>8, <2>1, <3>1 DEF OnlyDrawnBy
  <2>3. OnlyDrawn'
    BY <1>4, <1>6, <1>7, <2>1 DEF OnlyDrawn
  <2>4. AllKept'
    <3>1. ASSUME NEW o \in Ops(history), Pending(o) PROVE Pending(o)'
      BY <1>0, <1>2, <1>3, <1>4, <1>7, <2>1, <3>1 DEF Pending, Waiting, Refilling
    <3> QED
      BY <1>4, <1>6, <1>7, <2>1, <3>1 DEF AllKept
  <2> QED
    BY <2>2, <2>3, <2>4 DEF KeepInv
<1>10. CASE Log(t)
  <2>1. /\ UNCHANGED <<queue, op, writer>> /\ history' = Append(history, op[t])
        /\ pc[t] = "log" /\ pc'[t] = "enqueue"
    BY <1>0, <1>10 DEF Log
  <2>2. Ops(history') = Ops(history) \cup {op[t]}
    BY <1>0, <2>1, OpsAppend
  <2>3. op[t].seq > IF operation_log THEN writer.start ELSE file.header
    BY <1>0, <1>6, <2>1 DEF OnlyDrawnBy
  <2>4. \A u \in Threads : OnlyDrawnBy(u)'
    BY <1>0, <1>2, <1>4, <1>6, <1>7, <1>8, <2>1, <2>2, <2>3 DEF OnlyDrawnBy
  <2>5. OnlyDrawn'
    BY <1>4, <1>6, <1>7, <2>1, <2>2 DEF OnlyDrawn
  <2>6. AllKept'
    <3>1. ASSUME NEW o \in Ops(history), Pending(o) PROVE Pending(o)'
      BY <1>0, <1>2, <1>3, <1>4, <1>7, <2>1, <3>1 DEF Pending, Waiting, Refilling
    <3>2. operation_log => Pending(op[t])'
      BY <1>4, <1>7, <2>1, <2>3 DEF Pending, Waiting
    <3>3. ~operation_log => op[t].seq > file.header
      BY <2>3
    <3>4. ASSUME NEW o \in Ops(history)
          PROVE  /\ o \in Ops(file'.recs) \/ o.seq > file'.header \/ Pending(o)'
                 /\ operation_log' /\ ~writer'.failed
                      => o \in Ops(file'.recs) \/ Pending(o)'
      BY <1>4, <1>6, <1>7, <3>1, <3>4 DEF AllKept
    <3>5. /\ op[t].seq > file'.header \/ Pending(op[t])'
          /\ operation_log' => Pending(op[t])'
      BY <1>4, <3>2, <3>3
    <3> QED
      BY <2>1, <2>2, <3>4, <3>5 DEF AllKept
  <2> QED
    BY <2>4, <2>5, <2>6 DEF KeepInv
<1>11. CASE Enqueue(t)
  <2>1. /\ UNCHANGED history /\ pc[t] = "enqueue" /\ pc'[t] = "idle"
        /\ \A u \in Threads \ {t} : op'[u] = op[u]
        /\ \/ operation_log /\ queue' = Append(queue, op[t])
           \/ ~operation_log /\ queue' = queue
    BY <1>0, <1>11 DEF Enqueue, Push
  <2>2. /\ op[t] \in Ops(history) /\ Ops(queue) \subseteq Ops(queue')
        /\ operation_log => Ops(queue') = Ops(queue) \cup {op[t]}
    BY <1>0, <1>6, <2>1, OpsAppend DEF OnlyDrawnBy
  <2>3. \A u \in Threads : OnlyDrawnBy(u)'
    BY <1>0, <1>2, <1>4, <1>6, <1>7, <1>8, <2>1 DEF OnlyDrawnBy
  <2>4. OnlyDrawn'
    BY <1>4, <1>6, <1>7, <2>1, <2>2 DEF OnlyDrawn
  <2>5. AllKept'
    <3>1. ASSUME NEW o \in Ops(history), Pending(o) PROVE Pending(o)'
      <4>1. operation_log /\ Waiting(o)
        BY <3>1 DEF Pending
      <4>2. Waiting(o)'
        BY <1>0, <1>2, <1>3, <1>7, <2>1, <2>2, <4>1 DEF Waiting, Refilling
      <4> QED
        BY <1>4, <1>7, <3>1, <4>2 DEF Pending
    <3> QED
      BY <1>4, <1>6, <1>7, <2>1, <3>1 DEF AllKept
  <2> QED
    BY <2>3, <2>4, <2>5 DEF KeepInv
<1> QED
  BY <1>9, <1>10, <1>11 DEF Stroke

\* The writer loses nothing that it does not leave a gap for.
LEMMA KeepWriter ==
    ASSUME TypeOK, Careful, OneInv, CalmInv, StillInv, HeadInv, KeepInv,
           WriterThread \/ OpenFileFails \/ Fails
    PROVE  KeepInv'
<1>0. /\ writer \in WriterRec /\ file \in FileRec /\ queue \in Seq(Op)
      /\ file.recs \in Seq(Op) /\ writer.hand \in Op /\ writer.start \in Nat
      /\ file.header \in Nat
  BY DEF TypeOK, WriterRec, FileRec
<1>1. SUFFICES ASSUME Kept' PROVE OnlyDrawn' /\ AllKept' /\ \A t \in Threads : OnlyDrawnBy(t)'
  BY DEF KeepInv
<1>2. /\ UNCHANGED <<pc, op, history, todo, operation_log, named>> /\ operation_log
      /\ writer'.start = writer.start /\ file.cut \subseteq file'.cut
  <2>1. CASE Fails
    <3>1. file.cut \subseteq file'.cut
      BY <2>1, FailsEffect
    <3>2. writer'.start = writer.start
      BY <1>0, <2>1 DEF Fails, WriterRec
    <3> QED
      BY <2>1, <3>1, <3>2 DEF Fails, AtStep
  <2>2. CASE WriterThread \/ OpenFileFails
    <3>1. CASE ThrowAway
      BY <1>0, <3>1, ThrowAwayEffect DEF ThrowAway, Step, AtStep, WriterRec
    <3>2. CASE Record \/ Header
      BY <1>0, <3>2 DEF Record, Header, Step, AtStep, WriterRec, FileRec
    <3>3. CASE OpenFile \/ Check \/ Doze \/ Take \/ Drained \/ OpenFileFails
      BY <1>0, <3>3
      DEF OpenFile, Check, Doze, Take, Drained, OpenFileFails, Step, AtStep, WriterRec
    <3> QED
      BY <2>2, <3>1, <3>2, <3>3 DEF WriterThread
  <2> QED
    BY <2>1, <2>2
<1>3. Kept
  BY <1>1, <1>2 DEF Kept
<1>4. OnlyDrawn /\ AllKept /\ \A t \in Threads : OnlyDrawnBy(t)
  BY <1>3 DEF KeepInv
<1>5. ASSUME Ops(file.recs) \subseteq Ops(file'.recs) PROVE \A t \in Threads : OnlyDrawnBy(t)'
  BY <1>2, <1>4, <1>5 DEF OnlyDrawnBy
<1>6. CASE OpenFile \/ Check \/ Doze \/ Drained \/ OpenFileFails
  <2>1. /\ UNCHANGED <<file, queue>> /\ writer.step # "record" /\ writer'.step # "record"
        /\ MidBatch' => MidBatch
        /\ writer.failed => writer'.failed
    BY <1>0, <1>6 DEF OpenFile, Check, Doze, Drained, OpenFileFails, AtStep, Step, WriterRec,
        MidBatch
  <2>2. OnlyDrawn'
    BY <1>2, <1>4, <2>1 DEF OnlyDrawn
  <2>3. AllKept'
    BY <1>2, <1>4, <2>1 DEF AllKept, Pending, Waiting
  <2> QED
    BY <1>5, <2>1, <2>2, <2>3
<1>7. CASE Header
  <2>1. /\ file'.recs = file.recs /\ queue' = queue
        /\ writer.step # "record" /\ writer'.step # "record"
        /\ ~MidBatch' /\ writer'.failed = writer.failed
        /\ writer.failed => file'.header = file.header
    BY <1>0, <1>7 DEF Header, AtStep, Step, WriterRec, FileRec, MidBatch
  <2>2. OnlyDrawn'
    BY <1>2, <1>4, <2>1 DEF OnlyDrawn
  <2>3. \A o : Pending(o) => Pending(o)'
    BY <1>2, <2>1 DEF Pending, Waiting
  <2>4. AllKept'
    BY <1>2, <1>4, <2>1, <2>3 DEF AllKept
  <2> QED
    BY <1>5, <2>1, <2>2, <2>4
<1>8. CASE Take
  <2> DEFINE o == Head(queue)
  <2>1. /\ file' = file /\ queue # <<>> /\ queue' = Tail(queue) /\ writer.step = "drain"
        /\ ~writer.failed /\ ~writer'.failed /\ MidBatch' = MidBatch
        /\ \/ o.seq > writer.start /\ writer'.step = "record" /\ writer'.hand = o
           \/ ~(o.seq > writer.start) /\ writer'.step = "drain"
    BY <1>0, <1>8 DEF Take, AtStep, WriterRec, MidBatch
  <2>2. Ops(queue) = {o} \cup Ops(queue')
    BY <1>0, <2>1, OpsTail
  <2> HIDE DEF o
  <2>3. OnlyDrawn'
    BY <1>2, <1>4, <2>1, <2>2 DEF OnlyDrawn
  <2>4. ASSUME NEW p, Pending(p) PROVE Pending(p)'
    BY <1>2, <2>1, <2>2, <2>4 DEF Pending, Waiting
  <2>5. AllKept'
    BY <1>2, <1>4, <2>1, <2>4 DEF AllKept
  <2> QED
    BY <1>5, <2>1, <2>3, <2>5
<1>9. CASE Record
  <2>1. /\ file'.recs = Append(file.recs, writer.hand) /\ file'.header = file.header
        /\ queue' = queue /\ writer.step = "record" /\ writer'.step = "drain"
        /\ ~writer.failed /\ ~writer'.failed
    BY <1>0, <1>9 DEF Record, AtStep, WriterRec, FileRec
  <2>2. Ops(file'.recs) = Ops(file.recs) \cup {writer.hand}
    BY <1>0, <2>1, OpsAppend
  <2>3. Last(file'.recs) = writer.hand
    BY <1>0, <2>1, AppendProperties, LenProperties DEF Last
  <2>4. OnlyDrawn'
    BY <1>2, <1>4, <2>1, <2>2, <2>3 DEF OnlyDrawn
  <2>5. ASSUME NEW o, Pending(o) PROVE o \in Ops(file'.recs) \/ Pending(o)'
    BY <1>2, <2>1, <2>2, <2>5 DEF Pending, Waiting
  <2>6. AllKept'
    BY <1>2, <1>4, <2>1, <2>2, <2>5 DEF AllKept
  <2> QED
    BY <1>5, <2>2, <2>4, <2>6
<1>10. ASSUME NEW ops, Losing(ops) \subseteq file'.cut, NEW o \in ops, o.seq > writer.start,
              o.seq \in Nat
       PROVE  o.seq > file.header
  <2>1. "gap" \notin file'.cut
    BY <1>1 DEF Kept
  <2>2. ~(o.seq <= file.header)
    BY <1>0, <1>10, <2>1 DEF Losing
  <2> QED
    BY <1>0, <1>10, <2>2
<1>11. \A s \in Seq(Op) : \A o \in Ops(s) : o.seq \in Nat /\ o \in ToSet(s)
  BY OpsType, ToSetIsOps DEF Op
<1>12. CASE ThrowAway
  <2>1. /\ file'.recs = file.recs /\ file'.header = file.header
        /\ Losing(ToSet(queue)) \subseteq file'.cut
        /\ queue' = <<>> /\ writer.step # "record" /\ writer'.step = "header"
        /\ writer.failed /\ writer'.failed
    BY <1>0, <1>12 DEF ThrowAway, AtStep, Step, WriterRec, FileRec
  <2>2. OnlyDrawn'
    BY <1>2, <1>4, <2>1, OpsEmpty DEF OnlyDrawn, MidBatch
  <2>3. ASSUME NEW o, Pending(o) PROVE o.seq > file.header \/ Pending(o)'
    <3>1. CASE o \in Ops(queue)
      BY <1>0, <1>10, <1>11, <2>1, <2>3, <3>1 DEF Pending
    <3>2. CASE o \notin Ops(queue)
      BY <1>2, <2>1, <2>3, <3>2 DEF Pending, Waiting
    <3> QED
      BY <3>1, <3>2
  <2>4. AllKept'
    BY <1>2, <1>4, <2>1, <2>3 DEF AllKept
  <2> QED
    BY <1>5, <2>1, <2>2, <2>4
<1>13. CASE Fails
  <2>1. /\ ~writer.failed /\ writer'.failed /\ writer'.step = "header" /\ queue' = <<>>
        /\ writer.step = "record" \/ (writer.step = "header" /\ writer.wrote)
    BY <1>0, <1>13 DEF Fails, AtStep, WriterRec
  <2>2. /\ file'.header = file.header
        /\ Losing({writer.hand} \cup ToSet(queue)
                    \cup (ToSet(file.recs) \ ToSet(file'.recs))) \subseteq file'.cut
        /\ file'.recs = file.recs
           \/ (writer.step = "header" /\ file'.recs = Front(file.recs))
    <3>1. PICK state \in {file.state, "torn"},
               recs \in {file.recs} \cup
                       (IF AtStep("header") THEN {Front(file.recs)} ELSE {}) :
             file' = [file EXCEPT !.state = state, !.recs = recs,
                !.cut = @ \cup {"batch"} \cup
                        Losing({writer.hand} \cup ToSet(queue)
                                  \cup (ToSet(file.recs) \ ToSet(recs)))]
      BY <1>13 DEF Fails
    <3>2. file'.recs = recs /\ file'.header = file.header
      BY <1>0, <3>1 DEF FileRec
    <3>3. Losing({writer.hand} \cup ToSet(queue) \cup (ToSet(file.recs) \ ToSet(recs)))
             \subseteq file'.cut
      BY <1>0, <3>1 DEF FileRec
    <3> QED
      BY <3>1, <3>2, <3>3 DEF AtStep
  <2>3. \A t \in Threads : pc[t] \notin {"opening", "reopen", "saved"}
    <3>1. writer.step = "record" \/ MidBatch
      BY <1>2, <2>1 DEF MidBatch
    <3> QED
      BY <1>2, <3>1 DEF StillInv, Busy, Labels, ClosingTo, Drawing, Refilling
  <2>4. \A t \in Threads : OnlyDrawnBy(t)'
    BY <1>2, <1>4, <2>3 DEF OnlyDrawnBy
  <2>5. /\ file'.recs \in Seq(Op) /\ Ops(file'.recs) \subseteq Ops(file.recs)
        /\ file'.recs # file.recs =>
              /\ Ops(file.recs) = Ops(file'.recs) \cup {Last(file.recs)}
              /\ Last(file.recs).seq > writer.start
    <3>1. CASE file'.recs = file.recs
      BY <1>0, <3>1
    <3>2. CASE writer.step = "header" /\ file'.recs = Front(file.recs)
      <4>1. MidBatch
        BY <1>2, <2>1, <3>2 DEF MidBatch
      <4>2. file.recs # <<>> /\ Last(file.recs).seq > writer.start
        BY <1>3, <1>4, <4>1 DEF HeadInv, Kept, OnlyDrawn
      <4> QED
        BY <1>0, <3>2, <4>2, OpsFront, PartTypes
    <3> QED
      BY <2>2, <3>1, <3>2
  <2>6. OnlyDrawn'
    BY <1>2, <1>4, <2>1, <2>5, OpsEmpty DEF OnlyDrawn, MidBatch
  <2> DEFINE lost == {writer.hand} \cup ToSet(queue)
                        \cup (ToSet(file.recs) \ ToSet(file'.recs))
  <2>7. ASSUME NEW o \in lost, o.seq > writer.start, o.seq \in Nat PROVE o.seq > file.header
    BY <1>10, <2>2, <2>7
  <2>8. ASSUME NEW o \in Ops(file.recs) PROVE o \in Ops(file'.recs) \/ o.seq > file.header
    <3>1. SUFFICES ASSUME o \notin Ops(file'.recs) PROVE o.seq > file.header
      OBVIOUS
    <3>2. o \in lost /\ o.seq \in Nat
      <4>1. ToSet(file.recs) = Ops(file.recs) /\ ToSet(file'.recs) = Ops(file'.recs)
        BY <1>0, <2>5, ToSetIsOps
      <4> QED
        BY <1>0, <1>11, <2>8, <3>1, <4>1
    <3>3. o = Last(file.recs) /\ o.seq > writer.start
      BY <2>5, <2>8, <3>1
    <3> QED
      BY <2>7, <3>2, <3>3
  <2>9. ASSUME NEW o, Pending(o) PROVE o.seq > file.header \/ Pending(o)'
    <3>1. CASE o \in Ops(queue) \/ o = writer.hand
      <4>1. o \in lost /\ o.seq \in Nat
        BY <1>0, <1>11, <3>1 DEF Op
      <4> QED
        BY <2>7, <2>9, <4>1 DEF Pending
    <3>2. CASE ~(o \in Ops(queue) \/ o = writer.hand)
      BY <1>2, <2>9, <3>2 DEF Pending, Waiting
    <3> QED
      BY <3>1, <3>2
  <2>10. AllKept'
    BY <1>2, <1>4, <2>1, <2>2, <2>8, <2>9 DEF AllKept
  <2> QED
    BY <2>4, <2>6, <2>10
<1> QED
  BY <1>6, <1>7, <1>8, <1>9, <1>12, <1>13 DEF WriterThread

\* Buttons lose nothing, but those that begin to rewrite the file.
LEMMA KeepUser ==
    ASSUME TypeOK, Careful, StillInv, StartInv, NamedInv, KeepInv, NEW t \in Threads, User(t)
    PROVE  KeepInv'
<1> USE DEF Goto
<1>0. /\ pc \in [Threads -> Labels] /\ writer \in WriterRec /\ Drawing = {"log", "enqueue"}
  BY DEF TypeOK, Drawing
<1>1. /\ pc[t] = "idle"
      /\ \A u \in Threads \ {t} : pc[u] = "idle" /\ pc'[u] = "idle"
      /\ UNCHANGED <<file, operation_log, queue, op, todo>>
      /\ writer' = writer \/ writer' = Woken(writer)
      /\ WriterIdle
  BY InUser
<1>2. SUFFICES ASSUME Kept' PROVE OnlyDrawn' /\ AllKept' /\ \A u \in Threads : OnlyDrawnBy(u)'
  BY DEF KeepInv
<1>3. writer.step # "record" /\ ~MidBatch
  BY <1>1 DEF WriterIdle, MidBatch
<1>4. /\ writer'.start = writer.start /\ writer'.failed = writer.failed
      /\ writer'.step # "record" /\ ~MidBatch'
  <2>1. MidBatch' = MidBatch
    BY <1>1, WokenBatch DEF MidBatch
  <2> QED
    BY <1>0, <1>1, <1>3, <2>1, WokenKeeps, WokenStill
<1>5. CASE Open(t)
  <2>1. history' = file.recs /\ pc'[t] = "opening"
    BY <1>0, <1>5 DEF Open
  <2>2. ~stop
    BY <1>1 DEF StillInv, Closing, ClosingTo
  <2>3. operation_log /\ ~writer.failed => queue = <<>>
    BY <1>1, <1>2, <2>2 DEF WriterIdle, StartInv, OldStart, InStep, Kept
  <2>4. OnlyDrawn'
    BY <1>1, <1>4, <2>1, <2>3, OpsEmpty DEF OnlyDrawn
  <2>5. AllKept'
    BY <1>1, <2>1 DEF AllKept
  <2>6. \A u \in Threads : OnlyDrawnBy(u)'
    BY <1>0, <1>1, <2>1 DEF OnlyDrawnBy
  <2> QED
    BY <2>4, <2>5, <2>6
<1>6. CASE Clear(t) \/ SaveButton(t)
  <2>1. CASE Clear(t)
    BY <1>0, <1>2, <2>1 DEF Clear, Kept, Rewriting, NamedInv
  <2>2. CASE SaveButton(t)
    BY <1>0, <1>2, <2>2 DEF SaveButton, Kept, Rewriting
  <2> QED
    BY <1>6, <2>1, <2>2
<1>7. CASE EnableButton(t) \/ Disable(t) \/ Quit(t)
  <2>1. /\ UNCHANGED <<history, named>>
        /\ pc'[t] \in {"enable", "save", "disabling", "quitting"}
    BY <1>0, <1>7 DEF EnableButton, Disable, Quit
  <2>2. Kept
    <3>1. \A u \in Threads : pc[u] \notin Rewriting
      BY <1>1 DEF Rewriting
    <3> QED
      BY <1>1, <1>2, <2>1, <3>1 DEF Kept
  <2>3. OnlyDrawn /\ AllKept
    BY <2>2 DEF KeepInv
  <2>4. OnlyDrawn'
    BY <1>1, <1>4, <2>1, <2>3 DEF OnlyDrawn
  <2>5. AllKept'
    <3>1. ASSUME NEW o, Pending(o) PROVE Pending(o)'
      <4>1. o \in Ops(queue)
        BY <1>1, <1>3, <3>1 DEF Pending, Waiting
      <4> QED
        BY <1>1, <1>4, <3>1, <4>1 DEF Pending, Waiting
    <3> QED
      BY <1>1, <1>4, <2>1, <2>3, <3>1 DEF AllKept
  <2>6. \A u \in Threads : OnlyDrawnBy(u)'
    BY <1>0, <1>1, <2>1 DEF OnlyDrawnBy
  <2> QED
    BY <2>4, <2>5, <2>6
<1> QED
  BY <1>5, <1>6, <1>7 DEF User

\* file_manager loses nothing, but where it rewrites the file.
LEMMA KeepManager ==
    ASSUME TypeOK, Careful, OneInv, LogInv, NamedInv, CalmInv, StillInv, StartInv, KeepInv,
           NEW t \in Threads, Manager(t)
    PROVE  KeepInv'
<1> USE DEF Goto
<1>0. /\ pc \in [Threads -> Labels] /\ writer \in WriterRec /\ file \in FileRec
      /\ Drawing = {"log", "enqueue"} /\ NoWriter.step = "done" /\ ~NoWriter.failed
      /\ queue \in Seq(Op) /\ todo \in Seq(Op) /\ history \in Seq(Op)
      /\ file.header \in Nat /\ writer.start \in Nat
      /\ \A o \in Ops(history) : o.seq \in Nat
  BY OpsType DEF TypeOK, Drawing, NoWriter, FileRec, WriterRec, Op
<1>1. pc[t] \in Busy /\ \A u \in Threads \ {t} : pc[u] = "idle" /\ pc'[u] = "idle"
  BY InManager DEF CalmInv
<1>2. SUFFICES ASSUME Kept' PROVE OnlyDrawn' /\ AllKept' /\ \A u \in Threads : OnlyDrawnBy(u)'
  BY DEF KeepInv
<1>3. pc[t] \in Logless => ~operation_log /\ queue = <<>> /\ writer = NoWriter
  BY DEF LogInv, NamedInv
<1>4. CASE WriteFile(t)
  <2>1. /\ file'.recs = history /\ history' = history /\ pc'[t] = "saved"
        /\ UNCHANGED <<operation_log, queue, writer>>
        /\ ~operation_log /\ writer.step = "done"
    BY <1>0, <1>3, <1>4 DEF WriteFile, Logless
  <2>2. OnlyDrawn'
    BY <2>1 DEF OnlyDrawn, MidBatch
  <2>3. AllKept'
    BY <2>1 DEF AllKept
  <2>4. \A u \in Threads : OnlyDrawnBy(u)'
    BY <1>0, <1>1, <2>1 DEF OnlyDrawnBy
  <2> QED
    BY <2>2, <2>3, <2>4
<1>5. CASE Save(t) \/ Truncate(t) \/ SaveFails(t)
  <2>1. CASE Save(t) \/ Truncate(t)
    BY <1>0, <1>2, <2>1 DEF Save, Truncate, Kept, Rewriting
  <2>2. CASE SaveFails(t)
    <3>1. "save" \in file'.cut
      BY <1>0, <2>2 DEF SaveFails, FileRec
    <3> QED
      BY <1>2, <3>1 DEF Kept
  <2> QED
    BY <1>5, <2>1, <2>2
<1>6. ASSUME Saved(t) \/ Enable(t) \/ Snapshot(t) \/ Refill(t) \/ Enabled(t) \/ Reopen(t)
             \/ Closed(t)
      PROVE  /\ UNCHANGED <<file, history, named, op>>
             /\ OnlyDrawn /\ AllKept /\ OnlyDrawnBy(t)
  <2>1. UNCHANGED <<file, history, named, op>>
    BY <1>6 DEF Saved, Enable, Snapshot, Refill, Enabled, Reopen, Closed
  <2>2. pc[t] \in Rewriting => pc'[t] \in Rewriting
    <3>1. CASE Closed(t)
      <4>1. pc'[t] = ClosingTo[pc[t]] /\ pc[t] \in DOMAIN ClosingTo
        BY <1>0, <3>1 DEF Closed
      <4> QED
        BY <4>1 DEF ClosingTo, Rewriting
    <3>2. CASE Saved(t) \/ Enable(t) \/ Snapshot(t) \/ Refill(t) \/ Enabled(t) \/ Reopen(t)
      BY <3>2 DEF Saved, Enable, Snapshot, Refill, Enabled, Reopen, Rewriting
    <3> QED
      BY <1>6, <3>1, <3>2
  <2>3. Kept
    <3>1. \A u \in Threads : pc[u] \notin Rewriting
      BY <1>1, <1>2, <2>2 DEF Kept, Rewriting
    <3> QED
      BY <1>2, <2>1, <3>1 DEF Kept
  <2> QED
    BY <2>1, <2>3 DEF KeepInv
<1>7. CASE Saved(t) \/ Reopen(t)
  <2>1. /\ pc[t] \in {"saved", "reopen"} /\ pc'[t] \in {"idle", "enable"}
        /\ queue' = <<>> /\ writer'.step \in {"open", "done"}
    <3>1. CASE Saved(t)
      BY <1>0, <1>3, <3>1 DEF Saved, StartWriter, Logless, NoWriter
    <3>2. CASE Reopen(t)
      BY <1>0, <1>3, <3>2 DEF Reopen, StartWriter, Logless, NoWriter
    <3> QED
      BY <1>7, <3>1, <3>2
  <2>2. Ops(history) \subseteq Ops(file.recs)
    BY <1>6, <1>7, <2>1 DEF OnlyDrawnBy
  <2>3. OnlyDrawn'
    BY <1>6, <1>7, <2>1, OpsEmpty DEF OnlyDrawn, MidBatch
  <2>4. AllKept'
    BY <1>6, <1>7, <2>2 DEF AllKept
  <2>5. \A u \in Threads : OnlyDrawnBy(u)'
    BY <1>0, <1>1, <2>1 DEF OnlyDrawnBy
  <2> QED
    BY <2>3, <2>4, <2>5
<1>8. CASE Closed(t)
  <2>1. /\ pc'[t] = ClosingTo[pc[t]] /\ pc[t] \in DOMAIN ClosingTo
        /\ ~operation_log' /\ queue' = <<>> /\ writer' = NoWriter
        /\ operation_log => writer.step = "done"
    BY <1>0, <1>8 DEF Closed
  <2>2. OnlyDrawn'
    BY <1>0, <1>6, <1>8, <2>1, OpsEmpty DEF OnlyDrawn, MidBatch
  <2>3. pc'[t] \in {"opening", "reopen", "saved", "refill", "snapshot", "enqueue", "log"}
           => pc'[t] = "reopen" /\ pc[t] = "opening"
    BY <2>1 DEF ClosingTo
  <2>4. \A u \in Threads : OnlyDrawnBy(u)'
    BY <1>0, <1>1, <1>6, <1>8, <2>3 DEF OnlyDrawnBy
  <2>5. ASSUME NEW o \in Ops(history), Pending(o) PROVE o.seq > file.header
    <3>1. operation_log /\ writer.step = "done"
      BY <2>1, <2>5 DEF Pending
    <3>2. o \in Ops(queue)
      BY <1>1, <2>1, <2>5, <3>1 DEF Pending, Waiting, ClosingTo
    <3>3. file.header = writer.start
      BY <1>2, <1>6, <1>8, <3>1, <3>2, OpsEmpty DEF StartInv, OldStart, InStep, Kept
    <3> QED
      BY <2>5, <3>3 DEF Pending
  <2>6. AllKept'
    BY <1>6, <1>8, <2>1, <2>5 DEF AllKept
  <2> QED
    BY <2>2, <2>4, <2>6
<1>9. CASE Enable(t)
  <2>1. /\ pc[t] = "enable" /\ pc'[t] = "snapshot" /\ ~operation_log /\ operation_log'
        /\ queue' = <<>> /\ writer'.step = "open" /\ writer'.start = file.header
    BY <1>0, <1>3, <1>9 DEF Enable, StartWriter, Logless, NoWriter
  <2>2. OnlyDrawn'
    BY <1>6, <1>9, <2>1, OpsEmpty DEF OnlyDrawn, MidBatch
  <2>3. AllKept'
    <3>1. ASSUME NEW o \in Ops(history), o.seq > file.header PROVE Pending(o)'
      BY <2>1, <3>1 DEF Pending, Waiting
    <3>2. \A o \in Ops(history) : ~Pending(o)
      BY <2>1 DEF Pending
    <3> QED
      BY <1>6, <1>9, <3>1, <3>2 DEF AllKept
  <2>4. \A u \in Threads : OnlyDrawnBy(u)'
    BY <1>0, <1>1, <2>1 DEF OnlyDrawnBy
  <2> QED
    BY <2>2, <2>3, <2>4
<1>10. CASE Snapshot(t)
  <2>1. /\ pc[t] = "snapshot" /\ pc'[t] = "refill" /\ todo' = history
        /\ UNCHANGED <<operation_log, writer, queue>>
    BY <1>0, <1>10 DEF Snapshot
  <2>2. OnlyDrawn'
    BY <1>6, <1>10, <2>1 DEF OnlyDrawn, MidBatch
  <2>3. AllKept'
    <3>1. ASSUME NEW o \in Ops(history), Pending(o) PROVE Pending(o)'
      BY <2>1, <3>1 DEF Pending, Waiting
    <3> QED
      BY <1>6, <1>10, <2>1, <3>1 DEF AllKept
  <2>4. \A u \in Threads : OnlyDrawnBy(u)'
    BY <1>0, <1>1, <1>6, <1>10, <2>1 DEF OnlyDrawnBy
  <2> QED
    BY <2>2, <2>3, <2>4
<1>11. CASE Refill(t)
  <2> DEFINE h == Head(todo)
  <2>1. /\ pc[t] = "refill" /\ pc' = pc /\ todo # <<>> /\ todo' = Tail(todo)
        /\ operation_log' = operation_log
        /\ \/ queue' = Append(queue, h) /\ writer' = Woken(writer)
           \/ ~(h.seq > writer.start) /\ queue' = queue /\ writer' = writer
    <3>1. file_saved_seq = writer.start
      BY <1>11 DEF Refill, StillInv, Refilling
    <3>2. h.seq \in Nat
      BY <1>0, <1>11, PartTypes DEF Refill, Op
    <3> QED
      BY <1>0, <1>11, <3>1, <3>2 DEF Refill, Push
  <2>2. Ops(todo) = {h} \cup Ops(todo') /\ h \in Op /\ h \in Ops(history)
        /\ Ops(todo') \subseteq Ops(history)
    <3>1. Ops(todo) = {h} \cup Ops(todo') /\ h \in Op
      BY <1>0, <2>1, OpsTail, PartTypes
    <3>2. Ops(todo) \subseteq Ops(history)
      BY <1>6, <1>11, <2>1 DEF OnlyDrawnBy
    <3> QED
      BY <3>1, <3>2
  <2>3. \/ Ops(queue') = Ops(queue) \cup {h}
        \/ ~(h.seq > writer.start) /\ queue' = queue
    BY <1>0, <2>1, <2>2, OpsAppend
  <2> HIDE DEF h
  <2>4. /\ writer'.start = writer.start /\ writer'.failed = writer.failed
        /\ writer'.hand = writer.hand /\ (writer'.step = "record" <=> writer.step = "record")
        /\ MidBatch' = MidBatch
    <3>1. MidBatch' = MidBatch
      BY <2>1, WokenBatch DEF MidBatch
    <3> QED
      BY <1>0, <2>1, <3>1, WokenKeeps, WokenStill
  <2>5. OnlyDrawn'
    BY <1>6, <1>11, <2>1, <2>2, <2>3, <2>4 DEF OnlyDrawn
  <2>6. AllKept'
    <3>1. ASSUME NEW o \in Ops(history), Pending(o) PROVE Pending(o)'
      <4>1. operation_log /\ o.seq > writer.start /\ Waiting(o)
        BY <3>1 DEF Pending
      <4>2. Waiting(o)'
        <5>1. CASE o \in Ops(queue)
          BY <2>3, <5>1 DEF Waiting
        <5>2. CASE writer.step = "record" /\ o = writer.hand
          BY <2>4, <5>2 DEF Waiting
        <5>3. CASE o \in Ops(todo)
          BY <2>1, <2>2, <2>3, <4>1, <5>3 DEF Waiting
        <5> QED
          BY <1>1, <2>1, <4>1, <5>1, <5>2, <5>3 DEF Waiting
      <4> QED
        BY <2>1, <2>4, <4>1, <4>2 DEF Pending
    <3> QED
      BY <1>6, <1>11, <2>1, <2>4, <3>1 DEF AllKept
  <2>7. \A u \in Threads : OnlyDrawnBy(u)'
    BY <1>0, <1>1, <1>6, <1>11, <2>1, <2>2 DEF OnlyDrawnBy
  <2> QED
    BY <2>5, <2>6, <2>7
<1>12. CASE Enabled(t)
  <2>1. /\ pc[t] = "refill" /\ pc'[t] = "idle" /\ todo = <<>>
        /\ UNCHANGED <<operation_log, writer, queue>>
    BY <1>0, <1>12 DEF Enabled
  <2>2. OnlyDrawn'
    BY <1>6, <1>12, <2>1 DEF OnlyDrawn, MidBatch
  <2>3. AllKept'
    <3>1. ASSUME NEW o \in Ops(history), Pending(o) PROVE Pending(o)'
      BY <1>1, <2>1, <3>1, OpsEmpty DEF Pending, Waiting
    <3> QED
      BY <1>6, <1>12, <2>1, <3>1 DEF AllKept
  <2>4. \A u \in Threads : OnlyDrawnBy(u)'
    BY <1>0, <1>1, <2>1 DEF OnlyDrawnBy
  <2> QED
    BY <2>2, <2>3, <2>4
<1> QED
  BY <1>4, <1>5, <1>7, <1>8, <1>9, <1>10, <1>11, <1>12 DEF Manager

\* Nothing that is drawn is lost under the header.
LEMMA KeepStep ==
    ASSUME TypeOK, Careful, OneInv, LogInv, NamedInv, HeadInv, CalmInv, StillInv, SeqInv,
           StartInv, KeepInv, [Next]_vars
    PROVE  KeepInv'
<1>1. ASSUME Started PROVE KeepInv'
  BY <1>1 DEF Started, KeepInv, Kept
<1>2. ASSUME UNCHANGED vars PROVE KeepInv'
  <2>1. Kept' = Kept /\ OnlyDrawn' = OnlyDrawn
    BY <1>2 DEF vars, Kept, OnlyDrawn, MidBatch
  <2>2. AllKept' = AllKept
    BY <1>2 DEF vars, AllKept, Pending, Waiting
  <2>3. \A t \in Threads : OnlyDrawnBy(t)' = OnlyDrawnBy(t)
    BY <1>2 DEF vars, OnlyDrawnBy
  <2> QED
    BY <2>1, <2>2, <2>3 DEF KeepInv
<1> QED
  BY <1>1, <1>2, KeepStroke, KeepUser, KeepManager, KeepWriter
  DEF Next, Restart, Kill, KillInSave

-----------------------------------------------------------------------------
(* Results.                                                                *)

\* What holds for careful users.
CarefulInv == CalmInv /\ StillInv /\ SeqInv /\ StartInv /\ CoverInv /\ OnceInv /\ KeepInv

\* It holds in the beginning.
LEMMA CarefulInit == Init => CarefulInv
<1> SUFFICES ASSUME Init PROVE CarefulInv
  OBVIOUS
<1>1. /\ file.header = Highest(file.recs) /\ file.recs = Start /\ Start \in Seq(Op)
      /\ history = <<>> /\ queue = <<>> /\ ~operation_log /\ writer = NoWriter
      /\ \A t \in Threads : pc[t] = "idle"
      /\ ~auto_save_on /\ ~stop /\ ~enabling /\ ~named
  BY PersistenceAssumption DEF Init
<1>2. Highest(Start) \in Nat /\ \A i \in 1..Len(Start) : Start[i].seq <= Highest(Start)
  BY <1>1, HighestIs
<1>3. CalmInv /\ StillInv /\ StartInv
  BY <1>1 DEF CalmInv, StillInv, StartInv, Busy, Refilling
<1>4. SeqInv /\ DrawOnce /\ FillOnce /\ KeepInv
  BY <1>1, OpsEmpty, OnceEmpty DEF SeqInv, DrawOnce, FillOnce, KeepInv, Kept, Drawing
<1>5. CoverInv
  BY <1>1, <1>2 DEF CoverInv, Reach, MidBatch, Ops
<1>6. LogOnce
  <2>1. ASSUME NEW i \in 1..Len(Start) PROVE Start[i].id = i
    <3>1. Start[i] = [id |-> i, seq |-> i]
      BY PersistenceAssumption
    <3> QED
      BY <3>1
  <2>2. NoneTwice(Start) /\ NoWriter.step # "record"
    BY <2>1 DEF NoneTwice, NoWriter
  <2> QED
    BY <1>1, <2>2, OnceEmpty DEF LogOnce, Handed
<1> QED
  BY <1>3, <1>4, <1>5, <1>6 DEF CarefulInv, OnceInv

\* Every step keeps it.
LEMMA CarefulStep == Careful /\ IndInv /\ CarefulInv /\ [Next]_vars => CarefulInv'
BY CalmStep, StillStep, SeqStep, StartStep, CoverStep, OnceStep, KeepStep
DEF IndInv, CarefulInv

\* With careful users the header and the records of the file, the writer's
\* queue and the canvas stay in step.
THEOREM FileFollows == Careful => (Spec => [](IndInv /\ CarefulInv))
<1> SUFFICES ASSUME Careful PROVE Spec => [](IndInv /\ CarefulInv)
  OBVIOUS
<1>1. IndInv /\ CarefulInv /\ [Next]_vars => (IndInv /\ CarefulInv)'
  BY IndStep, CarefulStep
<1> QED
  BY <1>1, IndInit, CarefulInit, PTL DEF Spec

\* However often auto-save is enabled, disabled and restarted by a save, no
\* operation is in the file twice, but for a batch that was left without its
\* header.
THEOREM NothingTwice == Careful => (Spec => []SavedOnce)
<1> SUFFICES ASSUME Careful PROVE Spec => []SavedOnce
  OBVIOUS
<1>1. CarefulInv => SavedOnce
  BY DEF CarefulInv, OnceInv, LogOnce, SavedOnce
<1> QED
  BY <1>1, FileFollows, PTL

\* With auto-save on and everything at rest the file has the operations of the
\* canvas.
THEOREM NothingLost == Careful => (Spec => []AutoSaveKeepsUp)
<1> SUFFICES ASSUME Careful PROVE Spec => []AutoSaveKeepsUp
  OBVIOUS
<1>1. IndInv /\ CarefulInv => AutoSaveKeepsUp
  <2> SUFFICES ASSUME IndInv, CarefulInv, auto_save_on, AtRest, ~writer.failed,
                      file.cut \subseteq {"batch"}
               PROVE  Ops(file.recs) = Ops(history)
    BY DEF AutoSaveKeepsUp
  <2>1. operation_log /\ named
    BY DEF IndInv, NamedInv, AtRest
  <2>2. ~stop
    BY DEF CarefulInv, StillInv, AtRest, Closing, ClosingTo
  <2>3. queue = <<>> /\ writer.step # "record"
    BY <2>1, <2>2 DEF CarefulInv, StartInv, OldStart, InStep, AtRest, WriterIdle
  <2>4. OnlyDrawn /\ AllKept
    BY <2>1 DEF CarefulInv, KeepInv, Kept, Rewriting, AtRest
  <2>5. \A o : ~Pending(o)
    BY <2>3, OpsEmpty DEF Pending, Waiting, AtRest
  <2> QED
    BY <2>1, <2>4, <2>5 DEF OnlyDrawn, AllKept
<1> QED
  BY <1>1, FileFollows, PTL
=============================================================================
