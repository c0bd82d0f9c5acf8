---------------------------- MODULE Persistence ----------------------------
(***************************************************************************)
(* Saving a drawing (engine/file/file_manager.cpp,                         *)
(* engine/persistence/persistenceWriter.cpp, and load_binary_replay and    *)
(* read_saved_seq of engine/ui/ui.cpp): the .sketchsync file, a header     *)
(* with the highest seq saved followed by one record per operation; the    *)
(* threads that draw and hand what they draw to the auto-save log; and the *)
(* writer thread of that log.                                              *)
(*                                                                         *)
(* The file and its name are one: the user always picks the same file in   *)
(* the dialogs.  It may fail to open for a save or for the writer, and a   *)
(* write of the writer may fail; the process may be killed at any step,    *)
(* with what was written so far in the file.  canvas::apply is two         *)
(* steps, Stamp and Log; the races inside it are in Canvas.  operation_log_*)
(* is a pointer without a lock: a thread that dereferences it while another*)
(* resets it is undefined behaviour of which only the outcome in which it  *)
(* reads the old or the new pointer is modelled, and two calls of          *)
(* save_to_file at once are left out.                                      *)
(***************************************************************************)
EXTENDS Integers, Sequences, FiniteSets, SequencesExt, FiniteSetsExt

CONSTANTS
    Ui,        \* the UI thread
    Threads,   \* the threads that draw: Ui, and the poll thread of a host
    Acts,      \* what the user does besides drawing, see UserActs
    Careful,   \* TRUE: files are saved, opened and closed only while nothing
               \* is being drawn or written, and the canvas is not cleared
               \* while auto-save is off
    Start,     \* the operations in the file before
    MaxDrawn,  \* bound on the operations drawn
    MaxRuns,   \* bound on the times the program is started
    MaxFailures \* bound on the times a file fails

UserActs == {"enable", "disable", "save", "open", "clear", "quit", "kill",
             "kill_save"}

Op == [id : Nat, seq : Nat]

ASSUME PersistenceAssumption ==
    /\ Ui \in Threads /\ Acts \subseteq UserActs /\ Careful \in BOOLEAN
    /\ Start \in Seq(Op) /\ MaxDrawn \in Nat /\ Len(Start) <= MaxDrawn
    /\ MaxRuns \in Nat \ {0} /\ MaxFailures \in Nat
    /\ \A i \in 1..Len(Start) : Start[i] = [id |-> i, seq |-> i]

VARIABLES
    history, next_seq,  \* the canvas
    drawn,              \* operations drawn so far, also before: the next id
    runs, failures,     \* times the program was started, or a file failed
    pc, op,             \* where each thread is, and what it is drawing
    named,              \* current_file_ # "untitled"
    auto_save_on, file_saved_seq,
    enabling,           \* toggle_auto_save waits for save_as
    todo,               \* the rest of the snapshot toggle_auto_save goes through
    operation_log,      \* TRUE: there is a persistence_writer
    writer,             \* its thread
    queue, stop,        \* its queue_ and stop_
    file                \* what is on disk; file.cut: what kills and failures
                        \* have done: "batch" that may be added again, "save"
                        \* not repeated, "gap": an operation lost under the header

canvas == <<history, next_seq, drawn>>
bounded == <<runs, failures>>
manager == <<named, auto_save_on, file_saved_seq, enabling, todo>>
log == <<operation_log, writer, queue, stop>>
vars == <<history, next_seq, drawn, runs, failures, pc, op, named, auto_save_on,
          file_saved_seq, enabling, todo, operation_log, writer, queue, stop, file>>

NoOp == [id |-> 0, seq |-> 0]
Seqs(ops) == {ops[i].seq : i \in 1..Len(ops)}
Highest(ops) == Max(Seqs(ops) \cup {0})

NoWriter == [step |-> "done", start |-> 0, saved |-> 0, wrote |-> FALSE,
             hand |-> NoOp, failed |-> FALSE]

\* A process that has just been started: a blank, untitled canvas.
Init ==
    /\ history = <<>> /\ next_seq = 1
    /\ pc = [t \in Threads |-> "idle"] /\ op = [t \in Threads |-> NoOp]
    /\ named = FALSE /\ auto_save_on = FALSE /\ file_saved_seq = 0
    /\ enabling = FALSE /\ todo = <<>>
    /\ operation_log = FALSE /\ writer = NoWriter /\ queue = <<>> /\ stop = FALSE
    /\ drawn = Len(Start) /\ runs = 1 /\ failures = 0
    /\ file = [state |-> "good", header |-> Highest(Start), recs |-> Start,
               cut |-> {}]

Started ==
    /\ history' = <<>> /\ next_seq' = 1
    /\ pc' = [t \in Threads |-> "idle"] /\ op' = [t \in Threads |-> NoOp]
    /\ named' = FALSE /\ auto_save_on' = FALSE /\ file_saved_seq' = 0
    /\ enabling' = FALSE /\ todo' = <<>>
    /\ operation_log' = FALSE /\ writer' = NoWriter /\ queue' = <<>> /\ stop' = FALSE
    /\ runs < MaxRuns /\ runs' = runs + 1
    /\ UNCHANGED <<drawn, failures>>

Goto(t, label) == pc' = [pc EXCEPT ![t] = label]

-----------------------------------------------------------------------------
(* When a careful user acts.                                               *)

Drawing == {"log", "enqueue"}
Others(t) == Threads \ {t}

\* The writer has nothing left to write.
WriterIdle ==
    writer.step = "done" \/ (queue = <<>> /\ writer.step \in {"check", "doze", "sleep"})

MayDraw(t) == Careful => \A u \in Others(t) : pc[u] \in {"idle"} \cup Drawing
\* No two threads are in file_manager at once, see above.
MayFile(t) ==
    /\ \A u \in Others(t) : pc[u] \in {"idle"} \cup Drawing
    /\ Careful => WriterIdle /\ \A u \in Others(t) : pc[u] = "idle"

-----------------------------------------------------------------------------
(* A stroke: canvas::apply, then enqueue_if_auto_save.                     *)

Stamp(t) ==
    /\ pc[t] = "idle" /\ drawn < MaxDrawn /\ MayDraw(t)
    /\ op' = [op EXCEPT ![t] = [id |-> drawn + 1, seq |-> next_seq]]
    /\ drawn' = drawn + 1 /\ next_seq' = next_seq + 1
    /\ Goto(t, "log")
    /\ UNCHANGED <<history, bounded, manager, log, file>>

Log(t) ==
    /\ pc[t] = "log"
    /\ history' = Append(history, op[t])
    /\ next_seq' = IF op[t].seq >= next_seq THEN op[t].seq + 1 ELSE next_seq
    /\ Goto(t, "enqueue")
    /\ UNCHANGED <<drawn, bounded, op, manager, log, file>>

\* notify_one, after a push under queue_mutex_ or after a store to stop_.
Woken(w) == [w EXCEPT !.step = IF @ = "sleep" THEN "check" ELSE @]

\* queue_mutex_ is with the writer from its look at the queue until it sleeps.
CanPush == writer.step # "doze"

\* Mutant of Push: the writer is not notified.
PushSilently(o) ==
    queue' = Append(queue, o) /\ UNCHANGED writer

Push(o) ==
    queue' = Append(queue, o) /\ writer' = Woken(writer)

Enqueue(t) ==
    /\ pc[t] = "enqueue"
    /\ \/ operation_log /\ CanPush /\ Push(op[t])
       \/ ~operation_log /\ UNCHANGED <<queue, writer>>
    /\ op' = [op EXCEPT ![t] = NoOp] /\ Goto(t, "idle")
    /\ UNCHANGED <<canvas, bounded, manager, operation_log, stop, file>>

-----------------------------------------------------------------------------
(* The writer thread (run).                                                *)

FileFails == failures < MaxFailures /\ failures' = failures + 1 /\ UNCHANGED runs

AtStep(w) == operation_log /\ writer.step = w
Step(w) == writer' = [writer EXCEPT !.step = w]

OpenFile ==
    /\ AtStep("open") /\ Step("check")
    /\ UNCHANGED <<canvas, bounded, pc, op, manager, operation_log, queue, stop, file>>

\* The thread ends at once; nobody takes what is queued then.
OpenFileFails ==
    /\ FileFails /\ AtStep("open")
    /\ writer' = [writer EXCEPT !.failed = TRUE, !.step = "done"]
    /\ UNCHANGED <<canvas, pc, op, manager, operation_log, queue, stop, file>>

\* The predicate of cv_.wait.
Check ==
    /\ AtStep("check")
    /\ writer' = [writer EXCEPT
          !.step = IF queue # <<>> \/ stop THEN "drain" ELSE "doze",
          !.wrote = FALSE]
    /\ UNCHANGED <<canvas, bounded, pc, op, manager, operation_log, queue, stop,
                   file>>

\* cv_.wait gives up the mutex and sleeps; what was notified before is lost.
Doze ==
    /\ AtStep("doze") /\ Step("sleep")
    /\ UNCHANGED <<canvas, bounded, pc, op, manager, operation_log, queue, stop,
                   file>>

\* Mutant of Take: the header is raised before the record is written.
TakeHeaderFirst ==
    /\ AtStep("drain") /\ queue # <<>> /\ ~writer.failed
    /\ queue' = Tail(queue)
    /\ writer' = IF Head(queue).seq > writer.start
                 THEN [writer EXCEPT !.hand = Head(queue), !.step = "record"]
                 ELSE writer
    /\ file' = [file EXCEPT !.header = Max({@, Head(queue).seq})]
    /\ UNCHANGED <<canvas, bounded, pc, op, manager, operation_log, stop>>

Take ==
    /\ AtStep("drain") /\ queue # <<>> /\ ~writer.failed
    /\ queue' = Tail(queue)
    /\ writer' = IF Head(queue).seq > writer.start
                 THEN [writer EXCEPT !.hand = Head(queue), !.step = "record"]
                 ELSE writer
    /\ UNCHANGED <<canvas, bounded, pc, op, manager, operation_log, stop, file>>

Record ==
    /\ AtStep("record") /\ ~writer.failed
    /\ file' = [file EXCEPT !.recs = Append(@, writer.hand)]
    /\ writer' = [writer EXCEPT !.step = "drain", !.hand = NoOp, !.wrote = TRUE,
          !.saved = Max({@, writer.hand.seq})]
    /\ UNCHANGED <<canvas, bounded, pc, op, manager, operation_log, queue, stop>>

Drained ==
    /\ AtStep("drain") /\ queue = <<>>
    /\ Step("header")
    /\ UNCHANGED <<canvas, bounded, pc, op, manager, operation_log, queue, stop,
                   file>>

\* update_header_seq after a batch, and once more at the end.  A stop is seen
\* here, whatever has been queued since.
Header ==
    /\ AtStep("header")
    /\ file' = [file EXCEPT !.header =
          IF (writer.wrote \/ stop) /\ ~writer.failed THEN writer.saved ELSE @]
    /\ Step(IF stop THEN "done" ELSE "check")
    /\ UNCHANGED <<canvas, bounded, pc, op, manager, operation_log, queue, stop>>

\* Mutant of Fails: the stream is taken to be good again.
FailsOnce ==
    /\ FileFails /\ AtStep("record") /\ ~writer.failed
    /\ writer' = [writer EXCEPT !.step = "drain", !.hand = NoOp, !.wrote = TRUE,
          !.saved = Max({@, writer.hand.seq})]
    /\ UNCHANGED <<canvas, pc, op, manager, operation_log, queue, stop, file>>

\* An operation is lost that the header has passed already: two threads had
\* enqueued theirs out of order.
Losing(ops) ==
    IF \E o \in ops : writer.start < o.seq /\ o.seq <= file.header THEN {"gap"} ELSE {}

\* A record does not reach the file, or not all of it; or the header does not,
\* and perhaps the last record with it.  The stream stays failed.
Fails ==
    /\ FileFails /\ ~writer.failed
    /\ AtStep("record") \/ (AtStep("header") /\ writer.wrote)
    /\ writer' = [writer EXCEPT !.failed = TRUE, !.step = "header", !.hand = NoOp]
    /\ queue' = <<>>
    /\ \E state \in {file.state, "torn"},
          recs \in {file.recs} \cup (IF AtStep("header") THEN {Front(file.recs)} ELSE {}) :
          file' = [file EXCEPT !.state = state, !.recs = recs,
             !.cut = @ \cup {"batch"} \cup
                     Losing({writer.hand} \cup ToSet(queue) \cup (ToSet(file.recs) \ ToSet(recs)))]
    /\ UNCHANGED <<canvas, pc, op, manager, operation_log, stop>>

\* From then on whatever is queued is thrown away.
ThrowAway ==
    /\ AtStep("drain") /\ queue # <<>> /\ writer.failed
    /\ queue' = <<>> /\ Step("header")
    /\ file' = [file EXCEPT !.cut = @ \cup Losing(ToSet(queue))]
    /\ UNCHANGED <<canvas, bounded, pc, op, manager, operation_log, stop>>

WriterThread == OpenFile \/ Check \/ Doze \/ Take \/ Record \/ Drained \/ Header \/ ThrowAway

-----------------------------------------------------------------------------
(* file_manager.                                                           *)

StartWriter(after) ==
    /\ operation_log' = TRUE /\ queue' = <<>> /\ stop' = FALSE
    /\ writer' = [NoWriter EXCEPT !.step = "open", !.start = after, !.saved = after]

\* close_auto_save, in the middle of various calls, and how each goes on.
ClosingTo == [saving |-> "truncate", opening |-> "reopen",
              disabling |-> "idle", quitting |-> "gone"]

\* stop(): no mutex is taken between the store to stop_ and the notify.
StopWriter ==
    /\ stop' = operation_log
    /\ writer' = IF operation_log THEN Woken(writer) ELSE writer
    /\ UNCHANGED <<operation_log, queue>>

Closed(t) ==
    /\ pc[t] \in DOMAIN ClosingTo
    /\ operation_log => writer.step = "done"
    /\ operation_log' = FALSE /\ writer' = NoWriter
    /\ queue' = <<>> /\ stop' = FALSE
    /\ Goto(t, ClosingTo[pc[t]])
    /\ UNCHANGED <<canvas, bounded, op, manager, file>>

SaveButton(t) ==
    /\ "save" \in Acts /\ t = Ui /\ pc[t] = "idle" /\ MayFile(t)
    /\ Goto(t, "save")
    /\ UNCHANGED <<canvas, bounded, op, manager, log, file>>

\* save_to_file: auto-save is closed first...
Save(t) ==
    /\ pc[t] = "save"
    /\ IF auto_save_on THEN StopWriter /\ Goto(t, "saving")
       ELSE UNCHANGED log /\ Goto(t, "truncate")
    /\ UNCHANGED <<canvas, bounded, op, manager, file>>

\* ...the file is emptied...
Truncate(t) ==
    /\ pc[t] = "truncate"
    /\ file' = [state |-> "empty", header |-> 0, recs |-> <<>>,
                 cut |-> file.cut]
    /\ Goto(t, "write")
    /\ UNCHANGED <<canvas, bounded, op, manager, log>>

\* ...or cannot be opened, and auto-save goes on from an old seq...
SaveFails(t) ==
    /\ FileFails /\ pc[t] = "truncate"
    /\ file' = [file EXCEPT !.cut = @ \cup {"save", "batch"}]
    /\ IF auto_save_on THEN StartWriter(file_saved_seq) ELSE UNCHANGED log
    /\ enabling' = FALSE /\ Goto(t, "idle")
    /\ UNCHANGED <<canvas, op, named, auto_save_on, file_saved_seq, todo>>

\* ...a snapshot of the canvas is written...
WriteFile(t) ==
    /\ pc[t] = "write"
    /\ file' = [state |-> "good", header |-> Highest(history), recs |-> history,
                 cut |-> file.cut \ {"save", "gap"}]
    /\ file_saved_seq' = Highest(history) /\ named' = TRUE
    /\ Goto(t, "saved")
    /\ UNCHANGED <<canvas, bounded, op, auto_save_on, enabling, todo, log>>

\* ...and auto-save goes on after it.  toggle_auto_save may have been waiting.
Saved(t) ==
    /\ pc[t] = "saved"
    /\ IF auto_save_on THEN StartWriter(file_saved_seq) ELSE UNCHANGED log
    /\ Goto(t, IF enabling THEN "enable" ELSE "idle")
    /\ UNCHANGED <<canvas, bounded, op, manager, file>>

\* toggle_auto_save, off and on.
Disable(t) ==
    /\ "disable" \in Acts /\ t = Ui /\ pc[t] = "idle" /\ MayFile(t)
    /\ auto_save_on /\ auto_save_on' = FALSE
    /\ StopWriter /\ Goto(t, "disabling")
    /\ UNCHANGED <<canvas, bounded, op, named, file_saved_seq, enabling, todo, file>>

EnableButton(t) ==
    /\ "enable" \in Acts /\ t = Ui /\ pc[t] = "idle" /\ MayFile(t)
    /\ ~auto_save_on /\ enabling' = TRUE
    /\ Goto(t, IF named THEN "enable" ELSE "save")
    /\ UNCHANGED <<canvas, bounded, op, named, auto_save_on, file_saved_seq, todo,
                   log, file>>

\* Mutant of Enable: the header is not read again.
EnableUnread(t) ==
    /\ pc[t] = "enable"
    /\ auto_save_on' = TRUE
    /\ StartWriter(file_saved_seq)
    /\ Goto(t, "snapshot")
    /\ UNCHANGED <<canvas, bounded, op, named, file_saved_seq, enabling, todo, file>>

\* read_saved_seq.
Enable(t) ==
    /\ pc[t] = "enable"
    /\ auto_save_on' = TRUE /\ file_saved_seq' = file.header
    /\ StartWriter(file.header)
    /\ Goto(t, "snapshot")
    /\ UNCHANGED <<canvas, bounded, op, named, enabling, todo, file>>

\* What the canvas has beyond the header of the file is enqueued, one by one.
Snapshot(t) ==
    /\ pc[t] = "snapshot"
    /\ todo' = history /\ Goto(t, "refill")
    /\ UNCHANGED <<canvas, bounded, op, named, auto_save_on, file_saved_seq,
                   enabling, log, file>>

Refill(t) ==
    /\ pc[t] = "refill" /\ todo # <<>>
    /\ todo' = Tail(todo)
    /\ \/ Head(todo).seq > file_saved_seq /\ CanPush /\ Push(Head(todo))
       \/ Head(todo).seq <= file_saved_seq /\ UNCHANGED <<queue, writer>>
    /\ UNCHANGED <<canvas, bounded, pc, op, named, auto_save_on, file_saved_seq,
                   enabling, operation_log, stop, file>>

Enabled(t) ==
    /\ pc[t] = "refill" /\ todo = <<>>
    /\ enabling' = FALSE /\ Goto(t, "idle")
    /\ UNCHANGED <<canvas, bounded, op, named, auto_save_on, file_saved_seq, todo,
                   log, file>>

\* Mutant of Open: next_seq_ is the last seq of the file.
OpenLastSeq(t) ==
    /\ "open" \in Acts /\ t = Ui /\ pc[t] = "idle" /\ MayFile(t)
    /\ file.state = "good"
    /\ history' = file.recs /\ next_seq' = Highest(file.recs)
    /\ named' = TRUE /\ file_saved_seq' = file.header
    /\ StopWriter /\ Goto(t, "opening")
    /\ UNCHANGED <<drawn, bounded, op, auto_save_on, enabling, todo, file>>

\* open_and_load: the file is read before auto-save is closed.  A file that
\* does not end with a whole record is refused.
Open(t) ==
    /\ "open" \in Acts /\ t = Ui /\ pc[t] = "idle" /\ MayFile(t)
    /\ file.state = "good"
    /\ history' = file.recs /\ next_seq' = Highest(file.recs) + 1
    /\ named' = TRUE /\ file_saved_seq' = file.header
    /\ StopWriter /\ Goto(t, "opening")
    /\ UNCHANGED <<drawn, bounded, op, auto_save_on, enabling, todo, file>>

Reopen(t) ==
    /\ pc[t] = "reopen"
    /\ IF auto_save_on THEN StartWriter(file_saved_seq) ELSE UNCHANGED log
    /\ Goto(t, "idle")
    /\ UNCHANGED <<canvas, bounded, op, manager, file>>

\* clear_canvas in the UI thread, handle_clear in the poll thread.
Clear(t) ==
    /\ "clear" \in Acts /\ pc[t] = "idle" /\ MayFile(t)
    /\ Careful => auto_save_on \/ ~named
    /\ history' = <<>> /\ next_seq' = 1
    /\ Goto(t, IF auto_save_on /\ named THEN "save" ELSE "idle")
    /\ UNCHANGED <<drawn, bounded, op, manager, log, file>>

-----------------------------------------------------------------------------
(* The end of the process.                                                 *)

\* shutdown: the poll thread has been joined before.
Quit(t) ==
    /\ "quit" \in Acts /\ t = Ui /\ pc[t] = "idle" /\ MayFile(t)
    /\ \A u \in Others(t) : pc[u] = "idle"
    /\ StopWriter /\ Goto(t, "quitting")
    /\ UNCHANGED <<canvas, bounded, op, manager, file>>

Gone == pc[Ui] = "gone"

Restart == Gone /\ Started /\ UNCHANGED file

\* A batch may be left without its header, and a record incomplete.
Kill ==
    /\ "kill" \in Acts /\ Started
    /\ \A t \in Threads : pc[t] \notin {"write", "gone"}
    /\ \E state \in {file.state} \cup (IF AtStep("record") THEN {"torn"} ELSE {}) :
          file' = [file EXCEPT !.state = state,
                               !.cut = IF writer.wrote THEN @ \cup {"batch"} ELSE @]

\* A file may be left empty, or with a header and some of its records, the last
\* of them incomplete or not.
KillInSave ==
    /\ "kill_save" \in Acts /\ Started
    /\ \E t \in Threads : pc[t] = "write"
    /\ \/ file' = [file EXCEPT !.cut = @ \cup {"save"}]
       \/ \E n \in 0..Len(history), state \in {"good", "torn"} :
             file' = [state |-> state, header |-> Highest(history),
                      recs |-> SubSeq(history, 1, n), cut |-> file.cut \cup {"save"}]

Stroke(t) == Stamp(t) \/ Log(t) \/ Enqueue(t)

Manager(t) == \/ Save(t) \/ Closed(t) \/ Truncate(t) \/ SaveFails(t) \/ WriteFile(t) \/ Saved(t)
              \/ Enable(t) \/ Snapshot(t) \/ Refill(t) \/ Enabled(t) \/ Reopen(t)

User(t) == \/ SaveButton(t) \/ EnableButton(t) \/ Disable(t) \/ Open(t)
           \/ Clear(t) \/ Quit(t)

Next == \/ \E t \in Threads : ~Gone /\ (Stroke(t) \/ Manager(t) \/ User(t))
        \/ WriterThread
        \/ OpenFileFails \/ Fails
        \/ Restart \/ Kill \/ KillInSave

Spec == Init /\ [][Next]_vars

\* Threads go on with what they have begun, and the writer with its batch.
Fairness == /\ WF_vars(WriterThread)
            /\ \A t \in Threads : WF_vars(Log(t) \/ Enqueue(t)) /\ WF_vars(Manager(t))

FairSpec == Spec /\ Fairness

-----------------------------------------------------------------------------
(* Properties.                                                             *)

Labels == {"idle", "log", "enqueue", "save", "truncate", "write", "saved",
           "enable", "snapshot", "refill", "reopen", "gone"} \cup DOMAIN ClosingTo
WriterRec == [step : {"open", "check", "doze", "sleep", "drain", "record", "header", "done"},
              start : Nat, saved : Nat, wrote : BOOLEAN, hand : Op,
              failed : BOOLEAN]
FileRec == [state : {"good", "empty", "torn"}, header : Nat, recs : Seq(Op),
            cut : SUBSET {"batch", "save", "gap"}]

\* Every variable of the canvas, the file manager, the writer and the file has
\* its type.
TypeOK ==
    /\ history \in Seq(Op) /\ next_seq \in Nat \ {0}
    /\ drawn \in 0..MaxDrawn /\ runs \in 0..MaxRuns
    /\ failures \in 0..MaxFailures
    /\ pc \in [Threads -> Labels] /\ op \in [Threads -> Op]
    /\ named \in BOOLEAN /\ auto_save_on \in BOOLEAN /\ enabling \in BOOLEAN
    /\ file_saved_seq \in Nat /\ todo \in Seq(Op) /\ operation_log \in BOOLEAN
    /\ writer \in WriterRec /\ queue \in Seq(Op) /\ stop \in BOOLEAN
    /\ file \in FileRec

\* Nothing is being drawn, saved or written.
AtRest == WriterIdle /\ \A t \in Threads : pc[t] = "idle"

Ops(seq) == {seq[i] : i \in 1..Len(seq)}

\* With auto-save on and everything at rest the file has the operations of the
\* canvas, though perhaps in another order or some of them twice: also after a
\* kill or a failed write in a batch, once auto-save has been enabled or the
\* drawing saved again.  (Not while the writer has failed, not if a save was
\* cut short or failed or an operation lost that the header has passed, and
\* nobody can read a file with an incomplete record.)
AutoSaveKeepsUp ==
    auto_save_on /\ AtRest /\ ~writer.failed
        /\ file.state = "good" /\ file.cut \subseteq {"batch"}
        => Ops(file.recs) = Ops(history)

NoneTwice(ops) == \A i, j \in 1..Len(ops) : ops[i].id = ops[j].id => i = j

\* However often auto-save is enabled, disabled and restarted by a save, no
\* operation is in the file twice; only a batch that was left without its
\* header is added again, or one after a save that failed, which has auto-save
\* go on from an old seq.  (load and save keep what was in a file twice.)
SavedOnce == "batch" \notin file.cut => NoneTwice(file.recs)

\* The header never promises a seq that is not in the file, unless a save was
\* cut short: the writer writes records before it and no header once a write
\* has failed, so a kill or a failure in between costs no operation when
\* auto-save is enabled again.
HeaderNeverAhead ==
    file.state # "empty" /\ "save" \notin file.cut
        => file.header <= Highest(file.recs)

Drawn(n, ops) == \E i \in 1..Len(ops) : ops[i].id = n

\* While auto-save stays on, no save fails, the writer can write and the header
\* has passed nothing that was lost, what is drawn and not cleared gets into the
\* file, at the latest when the program is quit.
DrawnIsSaved ==
    \A n \in 1..MaxDrawn :
        auto_save_on /\ ~Gone /\ Drawn(n, history)
            ~> \/ Drawn(n, file.recs) \/ ~Drawn(n, history)
               \/ ~auto_save_on \/ writer.failed
               \/ file.cut \cap {"save", "gap"} # {}

\* The writer waits only while "!queue_.empty() || stop_.load()"
\* (persistenceWriter.cpp:82) is false, so that close_auto_save, which joins
\* it, returns.
CloseReturns ==
    \A t \in Threads : pc[t] \in DOMAIN ClosingTo ~> pc[t] \notin DOMAIN ClosingTo
=============================================================================
