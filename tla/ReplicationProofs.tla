------------------------- MODULE ReplicationProofs -------------------------
(***************************************************************************)
(* Proofs about Replication, for any number of members, any strokes and    *)
(* any histories before the session.                                       *)
(*                                                                         *)
(* First, what each step does to each variable (UpStep to CanvasStep).     *)
(* From it follow four invariants, each on the ones before it: types and   *)
(* places (TypeOK, PlaceInv), one stamp for an operation (StampInv), and    *)
(* what members show until somebody clears (ShowInv); and, from the first, *)
(* the order in which they show it (OrderInv).                             *)
(***************************************************************************)
EXTENDS Replication, TLAPS, SequenceTheorems, WellFoundedInduction

(* The inductive invariants.                                               *)

\* What the frames of the two directions hold: the host's operations are
\* stamped, a member's are not.
Signal == {f \in FrameRec : f.kind \notin {"DRAW", "STATE"} /\ f.ops = <<>>}
Stroke == {f \in FrameRec :
              f.kind = "DRAW" /\ Len(f.ops) = 1 /\ f.ops \in Seq(StampedOp)}
Snapshot == {f \in FrameRec : f.kind = "STATE" /\ f.ops \in Seq(StampedOp)}
Asked == {f \in FrameRec :
             f.kind = "DRAW" /\ Len(f.ops) = 1 /\ Op1(f).seq = 0}

FromHost == Stroke \cup Snapshot \cup Signal
FromMember == Asked \cup Signal

\* What goes where; only the host logs what its user draws, and the threads of
\* a member send no operation.
PlaceInv ==
    /\ \A f \in Range(up[Host]) : f \in FromHost
    /\ \A f \in Range(down[Host]) : f \in FromMember
    /\ \A m \in Members : /\ \A f \in Range(up[m]) : f \in FromMember
                          /\ \A f \in Range(down[m]) : f \in FromHost
    /\ \A n \in Nodes : /\ ui[n].frame \in FromHost /\ poll[n].frame \in FromHost
                        /\ ui[n].step = "log" => n = Host /\ ui[n].frame \in Stroke
                        /\ poll[n].step = "log" => poll[n].frame \in Stroke
    /\ \A m \in Members : /\ ui[m].step = "send" => ui[m].frame \in Signal
                          /\ poll[m].step = "send" => poll[m].frame \in Signal

\* The operations that have been stamped and that n has or is about to send, or
\* that are on their way from n or to n.
Held(n) == Ops(n) \cup Range(ui[n].frame.ops) \cup Range(poll[n].frame.ops)
              \cup UNION {Range(f.ops) : f \in Range(up[n]) \cup Range(down[n])}
Copies == {op \in UNION {Held(n) : n \in Nodes} : op.seq # 0}

\* The i-th frame asks for a stamp on id.
Asks(queue, i, id) == i \in DOMAIN queue /\ queue[i] = Draw(Stamped(id, 0))

StartIds == UNION {IdsOf(Start[n]) : n \in Nodes}

\* What is undrawn is nowhere; what is to be stamped is at one place only;
\* copies agree.
StampInv ==
    /\ \A op \in Copies : op.id \in drawn \cup StartIds
    /\ \A x, y \in Copies : x.id = y.id => x = y
    /\ \A m \in Members : \A i \in DOMAIN up[m] : \A id \in Ids :
          Asks(up[m], i, id) =>
             /\ id \in Strokes[m] /\ id \in drawn
             /\ \A op \in Copies : op.id # id
             /\ \A j \in DOMAIN up[m] : Asks(up[m], j, id) => i = j
             /\ \A j \in DOMAIN down[Host] : ~Asks(down[Host], j, id)
    /\ \A i \in DOMAIN down[Host] : \A id \in Ids :
          Asks(down[Host], i, id) =>
             /\ id \in drawn /\ id \notin StartIds
             /\ \A op \in Copies : op.id # id
             /\ \A j \in DOMAIN down[Host] : Asks(down[Host], j, id) => i = j

\* Until somebody clears, what is on its way to the members' canvases is in the
\* host's.
Known(frame) == frame.kind # "CLEAR" /\ Range(frame.ops) \subseteq Ops(Host)

ShowInv ==
    clears = 0 =>
       /\ \A f \in Range(up[Host]) : Known(f)
       /\ \A m \in Members :
             /\ \A f \in Range(down[m]) : Known(f)
             /\ \A f \in Range(up[m]) : f.kind # "CLEAR"
             /\ session[m] = "synchronized" => Ops(m) \subseteq Ops(Host)
             /\ poll[m].step # "idle" => Known(poll[m].frame)
             /\ ui[m].step # "idle" => Known(ui[m].frame)
       /\ \A f \in Range(down[Host]) : f.kind # "CLEAR"
       /\ poll[Host].step = "send" => Known(poll[Host].frame)
       /\ ui[Host].step = "send" => Known(ui[Host].frame)

\* The host's operations are numbered one after the other from Start on.
Numbered(ops) ==
    LET start == Start[Host]
    IN  /\ IsPrefix(start, ops)
        /\ \A i \in Len(start) + 1..Len(ops) :
              ops[i].seq = NextAfter(start) + i - Len(start) - 1

\* What a frame holds is the host's, and as the host has numbered it.
Ordered(frame) ==
    /\ frame.kind # "CLEAR"
    /\ frame.kind = "DRAW" =>
          \E i \in Len(Start[Host]) + 1..Len(history[Host]) :
              frame.ops = <<history[Host][i]>>
    /\ frame.kind = "STATE" => /\ IsPrefix(Start[Host], frame.ops)
                               /\ IsPrefix(frame.ops, history[Host])

OrderInv ==
    /\ ui[Host] = Idle
    /\ Numbered(history[Host])
    /\ IF poll[Host].step = "log"
       THEN /\ Op1(poll[Host].frame).seq = NextAfter(history[Host])
            /\ Op1(poll[Host].frame).id \notin IdsOf(history[Host])
            /\ next_seq[Host] = NextAfter(history[Host]) + 1
       ELSE Ordered(poll[Host].frame) /\ next_seq[Host] = NextAfter(history[Host])
    /\ \A f \in Range(up[Host]) : Ordered(f)
    /\ \A f \in Range(down[Host]) : f.kind # "CLEAR"
    /\ \A m \in Members :
          /\ \A f \in Range(down[m]) : Ordered(f)
          /\ \A f \in Range(up[m]) : f.kind # "CLEAR"
          /\ Ordered(poll[m].frame)
          /\ ui[m].frame.kind = "none"
          /\ poll[m].step = "log" => Op1(poll[m].frame).seq = next_seq[m]
          /\ session[m] = "synchronized" =>
                /\ IsPrefix(Start[Host], history[m])
                /\ IsPrefix(history[m], history[Host])
                /\ next_seq[m] = NextAfter(history[m])

-----------------------------------------------------------------------------
(* Sequences.                                                              *)

\* What a sequence holds after one more element, and after one less.
LEMMA RangeAppend ==
    ASSUME NEW S, NEW s \in Seq(S), NEW e \in S
    PROVE  /\ Append(s, e) \in Seq(S) /\ Range(Append(s, e)) = Range(s) \cup {e}
           /\ Range(s) \subseteq S
BY LenProperties DEF Range

\* The rest of a sequence, and its first element.
LEMMA RangeTail ==
    ASSUME NEW S, NEW s \in Seq(S), s # <<>>
    PROVE  /\ Tail(s) \in Seq(S) /\ Range(Tail(s)) \subseteq Range(s)
           /\ Head(s) \in S /\ Head(s) \in Range(s)
<1>1. /\ Tail(s) \in Seq(S) /\ Len(Tail(s)) = Len(s) - 1 /\ Len(s) \in Nat \ {0}
      /\ DOMAIN s = 1..Len(s) /\ DOMAIN Tail(s) = 1..Len(Tail(s))
      /\ \A i \in 1..Len(Tail(s)) : Tail(s)[i] = s[i + 1]
  BY HeadTailProperties, LenProperties, EmptySeq
<1>2. Head(s) = s[1] /\ Head(s) \in S
  BY HeadTailProperties
<1> QED
  BY <1>1, <1>2 DEF Range

\* What longer holds is what shorter holds, and f if it has been pushed.
Among(longer, shorter, pushed, f) ==
    \A g : g \in Range(longer) <=> g \in Range(shorter) \/ (pushed /\ g = f)

\* A frame is pushed to the queues of some nodes.
LEMMA Pushed ==
    ASSUME NEW S, NEW q \in [Nodes -> Seq(S)], NEW to, NEW f \in S
    PROVE  /\ Push(q, to, f) \in [Nodes -> Seq(S)]
           /\ \A n \in Nodes : Among(Push(q, to, f)[n], q[n], n \in to, f)
<1>1. Push(q, to, f) \in [Nodes -> Seq(S)]
  BY RangeAppend DEF Push
<1>2. ASSUME NEW n \in Nodes PROVE Among(Push(q, to, f)[n], q[n], n \in to, f)
  <2>1. CASE n \in to
    <3>1. Push(q, to, f)[n] = Append(q[n], f)
      BY <2>1 DEF Push
    <3> QED
      BY <2>1, <3>1, RangeAppend DEF Among
  <2>2. CASE n \notin to
    <3>1. Push(q, to, f)[n] = q[n]
      BY <2>2 DEF Push
    <3> QED
      BY <2>2, <3>1 DEF Among
  <2> QED
    BY <2>1, <2>2
<1> QED
  BY <1>1, <1>2

\* The first frame is taken from the queue of n.
LEMMA Taken ==
    ASSUME NEW S, NEW q \in [Nodes -> Seq(S)], NEW n \in Nodes, q[n] # <<>>
    PROVE  /\ [q EXCEPT ![n] = Tail(@)] \in [Nodes -> Seq(S)]
           /\ \A k \in Nodes : Range([q EXCEPT ![n] = Tail(@)][k]) \subseteq Range(q[k])
           /\ Head(q[n]) \in Range(q[n]) /\ Head(q[n]) \in S
BY RangeTail

(* The next seq.                                                           *)

\* The seqs of a history are not 0.
LEMMA SeqsType ==
    ASSUME NEW ops \in Seq(StampedOp)
    PROVE  \A y \in SeqsOf(ops) : y \in Nat \ {0}
<1>1. \A op \in StampedOp : op.seq \in Nat \ {0}
  BY DEF StampedOp
<1>2. \A i \in 1..Len(ops) : ops[i] \in StampedOp
  BY ElementOfSeq
<1> QED
  BY <1>1, <1>2 DEF SeqsOf

\* Of the seqs of a history and 0 one is the highest.
LEMMA HighestSeq ==
    ASSUME NEW ops \in Seq(StampedOp)
    PROVE  \E x \in SeqsOf(ops) \cup {0} :
               x \in Nat /\ \A y \in SeqsOf(ops) \cup {0} : x >= y
<1> DEFINE High(s) == \E x \in SeqsOf(s) \cup {0} :
                          x \in Nat /\ \A y \in SeqsOf(s) \cup {0} : x >= y
           Bad == {n \in Nat : \E s \in Seq(StampedOp) : Len(s) = n /\ ~High(s)}
<1>1. SUFFICES ASSUME Bad # {} PROVE FALSE
  <2>1. Len(ops) \in Nat /\ Len(ops) \notin Bad
    BY <1>1, LenProperties
  <2> QED
    BY <2>1
<1> DEFINE Less == {ss \in Nat \X Nat : ss[1] < ss[2]}
<1>2. IsWellFoundedOn(Less, Nat)
  BY NatLessThanWellFounded DEF OpToRel
<1>3. PICK n \in Bad : \A k \in Bad : <<k, n>> \notin Less
  <2> HIDE DEF Less, Bad
  <2>1. Bad \subseteq Nat
    BY DEF Bad
  <2> QED
    BY <1>1, <1>2, <2>1, WFMin
<1>4. PICK s \in Seq(StampedOp) : Len(s) = n /\ ~High(s)
  BY <1>3
<1>5. n # 0
  <2>1. ASSUME n = 0 PROVE SeqsOf(s) = {}
    BY <1>4, <2>1 DEF SeqsOf
  <2> QED
    BY <1>4, <2>1
<1> DEFINE t == SubSeq(s, 1, n - 1)
<1>6. /\ t \in Seq(StampedOp) /\ Len(t) = n - 1 /\ n - 1 \in Nat
      /\ \A i \in 1..n - 1 : t[i] = s[i]
  BY <1>4, <1>5, SubSeqProperties, ElementOfSeq, LenProperties
<1>7. High(t)
  <2>1. n - 1 \notin Bad
    <3>1. n \in Nat /\ <<n - 1, n>> \in Less
      BY <1>6
    <3> QED
      BY <3>1, <1>3
  <2> QED
    BY <2>1, <1>6
<1>8. PICK x \in SeqsOf(t) \cup {0} : x \in Nat /\ \A y \in SeqsOf(t) \cup {0} : x >= y
  BY <1>7
<1>9. s[n] \in StampedOp
  BY <1>4, <1>5, ElementOfSeq
<1>10. SeqsOf(s) = SeqsOf(t) \cup {s[n].seq}
  <2> HIDE DEF t
  <2> QED
    BY <1>4, <1>5, <1>6 DEF SeqsOf
<1>11. s[n].seq \in Nat
  BY <1>9 DEF StampedOp
<1>12. High(s)
  <2> HIDE DEF t
  <2>1. CASE x >= s[n].seq
    BY <1>8, <1>10, <1>11, <2>1
  <2>2. CASE s[n].seq >= x
    <3>1. \A y \in SeqsOf(t) \cup {0} : y \in Nat
      BY <1>6, SeqsType
    <3>2. \A y \in SeqsOf(t) \cup {0} : s[n].seq >= y
      BY <1>8, <1>11, <2>2, <3>1
    <3> QED
      BY <3>2, <1>10, <1>11
  <2> QED
    BY <2>1, <2>2, <1>8, <1>11
<1> QED
  BY <1>4, <1>12

\* NextAfter is the number after the highest seq.
LEMMA NextAfterIs ==
    ASSUME NEW ops \in Seq(StampedOp)
    PROVE  /\ NextAfter(ops) \in Nat \ {0}
           /\ \A y \in SeqsOf(ops) : y \in Nat \ {0} /\ y < NextAfter(ops)
           /\ \A k \in SeqsOf(ops) \cup {0} :
                 (\A y \in SeqsOf(ops) : y <= k) => NextAfter(ops) = k + 1
<1>1. \A y \in SeqsOf(ops) : y \in Nat \ {0}
  BY SeqsType
<1> DEFINE all == SeqsOf(ops) \cup {0}
           max == CHOOSE x \in all : \A y \in all : x >= y
<1>2. max \in all /\ \A y \in all : max >= y
  BY HighestSeq
<1>3. NextAfter(ops) = max + 1
  BY DEF NextAfter, Max
<1> HIDE DEF max
<1> QED
  BY <1>1, <1>2, <1>3

-----------------------------------------------------------------------------
(* Types and places.                                                       *)

\* The frames the code makes.
LEMMA MadeFrames ==
    /\ \A kind \in Kinds \ {"DRAW", "STATE"} :
          Plain(kind) \in Signal /\ Plain(kind).kind = kind
    /\ \A op \in StampedOp : /\ Draw(op) \in Stroke /\ Op1(Draw(op)) = op
                             /\ Range(Draw(op).ops) = {op}
    /\ \A id \in Ids : /\ Draw(Stamped(id, 0)) \in Asked
                       /\ Op1(Draw(Stamped(id, 0))) = Stamped(id, 0)
    /\ \A ops \in Seq(StampedOp) : State(ops) \in Snapshot
    /\ Idle \in TaskRec /\ Idle.step = "idle" /\ Idle.frame \in Signal
    /\ Idle.frame.kind = "none" /\ Range(Idle.frame.ops) = {}
<1>1. Range(<<>>) = {} /\ \A op : Range(<<op>>) = {op}
  BY DEF Range
<1>2. Seq(StampedOp) \subseteq Seq(Op)
  <2>1. StampedOp \subseteq Op
    BY DEF StampedOp, Op
  <2> QED
    BY <2>1, SeqMonotonic
<1>3. \A kind \in Kinds \ {"DRAW", "STATE"} :
          Plain(kind) \in Signal /\ Plain(kind).kind = kind
  BY DEF Plain, Signal, FrameRec, Kinds
<1>4. \A op \in StampedOp : /\ Draw(op) \in Stroke /\ Op1(Draw(op)) = op
                            /\ Range(Draw(op).ops) = {op}
  <2> SUFFICES ASSUME NEW op \in StampedOp
               PROVE  /\ Draw(op) \in Stroke /\ Op1(Draw(op)) = op
                      /\ Range(Draw(op).ops) = {op}
    OBVIOUS
  <2>1. <<op>> \in Seq(StampedOp)
    OBVIOUS
  <2>4. <<op>> \in Seq(Op)
    BY <1>2, <2>1
  <2>5. Len(<<op>>) = 1
    OBVIOUS
  <2>2. Draw(op) = [kind |-> "DRAW", ops |-> <<op>>]
    BY DEF Draw
  <2>3. Draw(op) \in FrameRec
    BY <2>4, <2>2 DEF FrameRec, Kinds
  <2>9. Draw(op).kind = "DRAW" /\ Draw(op).ops = <<op>>
    BY <2>2
  <2>6. Draw(op) \in Stroke
    BY <2>1, <2>5, <2>9, <2>3 DEF Stroke
  <2>7. Op1(Draw(op)) = op
    BY <2>2 DEF Op1
  <2>8. Range(Draw(op).ops) = {op}
    BY <2>2, <1>1
  <2> QED
    BY <2>6, <2>7, <2>8
<1>5. \A id \in Ids : /\ Draw(Stamped(id, 0)) \in Asked
                      /\ Op1(Draw(Stamped(id, 0))) = Stamped(id, 0)
  BY DEF Draw, Asked, Op1, FrameRec, Kinds, Stamped, Op
<1>6. \A ops \in Seq(StampedOp) : State(ops) \in Snapshot
  BY <1>2 DEF State, Snapshot, FrameRec, Kinds
<1>7. /\ Idle \in TaskRec /\ Idle.step = "idle" /\ Idle.frame \in Signal
      /\ Idle.frame.kind = "none" /\ Range(Idle.frame.ops) = {}
  BY <1>1 DEF Idle, Task, Plain, TaskRec, FrameRec, Kinds, Signal
<1> QED
  BY <1>3, <1>4, <1>5, <1>6, <1>7

\* What is known of a frame that has its place.
LEMMA FrameFacts ==
    /\ \A f \in Signal : f.ops = <<>> /\ Range(f.ops) = {}
    /\ \A f \in FromHost : f \in FrameRec /\ f.ops \in Seq(StampedOp)
    /\ \A f \in FromHost : f.kind = "DRAW" => /\ f \in Stroke /\ f = Draw(Op1(f))
                                              /\ Op1(f) \in StampedOp
                                              /\ f.ops = <<Op1(f)>>
                                              /\ Range(f.ops) = {Op1(f)}
    /\ \A f \in FromMember :
          f \in FrameRec /\ (f.kind = "DRAW" => /\ Op1(f).id \in Ids
                                                /\ f = Draw(Stamped(Op1(f).id, 0)))
    /\ \A f \in FromMember : f.kind # "DRAW" => f \in Signal
    /\ Signal \subseteq FromHost /\ Stroke \subseteq FromHost /\ Snapshot \subseteq FromHost
    /\ Signal \subseteq FromMember /\ Asked \subseteq FromMember
<1>1. \A ops : ops \in Seq(StampedOp) /\ Len(ops) = 1
                  => ops = <<ops[1]>> /\ ops[1] \in StampedOp /\ Range(ops) = {ops[1]}
  BY LenProperties DEF Range
<1>2. \A ops : ops \in Seq(Op) /\ Len(ops) = 1 => ops = <<ops[1]>> /\ ops[1] \in Op
  BY LenProperties
<1>3. <<>> \in Seq(StampedOp) /\ Range(<<>>) = {}
  BY DEF Range
<1>4. \A f \in FromHost : f.kind = "DRAW" => /\ f \in Stroke /\ f = Draw(Op1(f))
                                             /\ Op1(f) \in StampedOp
                                             /\ f.ops = <<Op1(f)>>
                                             /\ Range(f.ops) = {Op1(f)}
  BY <1>1 DEF FromHost, Stroke, Snapshot, Signal, Draw, Op1, FrameRec
<1>5. \A f \in Asked : Op1(f).id \in Ids /\ f = Draw(Stamped(Op1(f).id, 0))
  BY <1>2 DEF Asked, Draw, Op1, FrameRec, Stamped, Op
<1> QED
  BY <1>3, <1>4, <1>5 DEF FromHost, FromMember, Stroke, Snapshot, Signal, Asked

\* What is known of the queues.
LEMMA QueueTypes ==
    ASSUME TypeOK
    PROVE  /\ \A to, f : f \in FrameRec =>
                 /\ Push(up, to, f) \in [Nodes -> Seq(FrameRec)]
                 /\ Push(down, to, f) \in [Nodes -> Seq(FrameRec)]
           /\ \A n \in Nodes :
                 /\ up[n] # <<>> =>
                       [up EXCEPT ![n] = Tail(@)] \in [Nodes -> Seq(FrameRec)]
                 /\ down[n] # <<>> =>
                       [down EXCEPT ![n] = Tail(@)] \in [Nodes -> Seq(FrameRec)]
BY Pushed, Taken DEF TypeOK

\* What is in the queues after a push or when a frame is taken.
LEMMA QueueRanges ==
    ASSUME TypeOK
    PROVE  /\ \A to : \A f \in FrameRec : \A k \in Nodes :
                 /\ Among(Push(up, to, f)[k], up[k], k \in to, f)
                 /\ Among(Push(down, to, f)[k], down[k], k \in to, f)
           /\ \A n \in Nodes : up[n] # <<>> =>
                 /\ Head(up[n]) \in Range(up[n]) /\ Head(up[n]) \in FrameRec
                 /\ \A k \in Nodes : Range([up EXCEPT ![n] = Tail(@)][k]) \subseteq Range(up[k])
           /\ \A n \in Nodes : down[n] # <<>> =>
                 /\ Head(down[n]) \in Range(down[n]) /\ Head(down[n]) \in FrameRec
                 /\ \A k \in Nodes :
                       Range([down EXCEPT ![n] = Tail(@)][k]) \subseteq Range(down[k])
<1>1. up \in [Nodes -> Seq(FrameRec)] /\ down \in [Nodes -> Seq(FrameRec)]
  BY DEF TypeOK
<1>2. \A n \in Nodes : up[n] # <<>> =>
         /\ Head(up[n]) \in Range(up[n]) /\ Head(up[n]) \in FrameRec
         /\ \A k \in Nodes : Range([up EXCEPT ![n] = Tail(@)][k]) \subseteq Range(up[k])
  BY <1>1, Taken
<1>3. \A n \in Nodes : down[n] # <<>> =>
         /\ Head(down[n]) \in Range(down[n]) /\ Head(down[n]) \in FrameRec
         /\ \A k \in Nodes :
               Range([down EXCEPT ![n] = Tail(@)][k]) \subseteq Range(down[k])
  BY <1>1, Taken
<1>4. ASSUME NEW to, NEW f \in FrameRec
      PROVE  \A k \in Nodes : Among(Push(up, to, f)[k], up[k], k \in to, f)
  BY <1>1, Pushed
<1>5. ASSUME NEW to, NEW f \in FrameRec
      PROVE  \A k \in Nodes : Among(Push(down, to, f)[k], down[k], k \in to, f)
  BY <1>1, Pushed
<1> QED
  BY <1>2, <1>3, <1>4, <1>5

-----------------------------------------------------------------------------
(* What a step does to each variable.                                      *)

\* What n may send next: its user's JOIN, LEAVE or stroke, or what a thread of
\* n has ready.
Sent(n, f) ==
    \/ n \in Members /\ f \in {Plain("JOIN"), Plain("LEAVE")}
    \/ n \in Members /\ \E id \in Strokes[n] \ drawn :
                           DrawMember(n, id) /\ f = Draw(Stamped(id, 0))
    \/ ui[n].step = "send" /\ f = ui[n].frame
    \/ poll[n].step = "send" /\ f = poll[n].frame

\* What becomes of the queues to the server.
LEMMA UpStep ==
    ASSUME TypeOK, [Next]_vars
    PROVE  \/ up' = up
           \/ \E n \in Nodes : up[n] # <<>> /\ up' = [up EXCEPT ![n] = Tail(@)]
           \/ \E n \in Nodes : \E f \in FrameRec : up' = Push(up, {n}, f) /\ Sent(n, f)
<1> DEFINE Goal == \/ up' = up
                   \/ \E n \in Nodes :
                         up[n] # <<>> /\ up' = [up EXCEPT ![n] = Tail(@)]
                   \/ \E n \in Nodes : \E f \in FrameRec :
                         up' = Push(up, {n}, f) /\ Sent(n, f)
<1>f. /\ Plain("JOIN") \in FrameRec /\ Plain("LEAVE") \in FrameRec
      /\ \A id \in Ids : Draw(Stamped(id, 0)) \in FrameRec
      /\ \A n \in Nodes : ui[n].frame \in FrameRec /\ poll[n].frame \in FrameRec
  <2>1. Signal \subseteq FrameRec /\ Asked \subseteq FrameRec
    BY DEF Signal, Asked
  <2>2. \A n \in Nodes : ui[n].frame \in FrameRec /\ poll[n].frame \in FrameRec
    BY DEF TypeOK, TaskRec
  <2> QED
    BY <2>1, <2>2, MadeFrames DEF Kinds
<1>1. ASSUME NEW n \in Nodes, SendUi(n) \/ SendPoll(n) PROVE Goal
  BY <1>1, <1>f DEF SendUi, SendPoll, Sent
<1>2. ASSUME NEW m \in Members, NEW id \in Ids, DrawMember(m, id) PROVE Goal
  BY <1>2, <1>f DEF DrawMember, Sent, Nodes
<1>3. ASSUME NEW m \in Members, Join(m) \/ Leave(m) PROVE Goal
  BY <1>3, <1>f DEF Join, Leave, Sent, Nodes
<1>4. ASSUME NEW n \in Nodes, ServeJoin(n) \/ ServeLeave(n) \/ Relay(n) PROVE Goal
  BY <1>4 DEF ServeJoin, ServeLeave, Relay, Serving
<1> QED
  BY <1>1, <1>2, <1>3, <1>4
  DEF Next, Use, Thread, PollThread, Receive, Handler, vars, LogUi, LogPoll,
      DrawHost, ClearCanvas, FinishLeave, RegisterHost, Ack, HostNotYet,
      HostReceivesDraw, HostReceivesRequest, MemberReceivesDraw,
      MemberReceivesState, ReceiveAck, ReceiveError, ReceiveClear

\* What n sends by the server, or the server itself, and to whom.
Passed(to, f) ==
    \/ f \in {Plain("ACK"), Plain("ERROR")}
    \/ \E k \in Nodes : /\ Relay(k) /\ up[k] # <<>>
                        /\ f = Head(up[k]) /\ to = Recipients(k, f)

\* What becomes of the queues from the server.
LEMMA DownStep ==
    ASSUME TypeOK, [Next]_vars
    PROVE  \/ down' = down
           \/ \E n \in Nodes : down[n] # <<>> /\ down' = [down EXCEPT ![n] = Tail(@)]
           \/ \E to : \E f \in FrameRec : down' = Push(down, to, f) /\ Passed(to, f)
<1> DEFINE Goal == \/ down' = down
                   \/ \E n \in Nodes :
                         down[n] # <<>> /\ down' = [down EXCEPT ![n] = Tail(@)]
                   \/ \E to : \E f \in FrameRec :
                         down' = Push(down, to, f) /\ Passed(to, f)
<1>f. /\ Plain("ACK") \in FrameRec /\ Plain("ERROR") \in FrameRec
      /\ \A n \in Nodes : up[n] # <<>> => Head(up[n]) \in FrameRec
  <2>1. Signal \subseteq FrameRec
    BY DEF Signal
  <2> QED
    BY <2>1, MadeFrames, QueueRanges DEF Kinds
<1>1. ASSUME NEW n \in Nodes, Ack(n) PROVE Goal
  BY <1>1, <1>f DEF Ack, Passed
<1>2. ASSUME NEW n \in Nodes, Relay(n) PROVE Goal
  <2>1. Head(up[n]) \in FrameRec /\ up[n] # <<>>
    BY <1>2, <1>f DEF Relay, Serving
  <2>2. Passed(Recipients(n, Head(up[n])), Head(up[n]))
    BY <1>2, <2>1 DEF Passed
  <2>3. \/ down' = Push(down, {n}, Plain("ERROR"))
        \/ down' = Push(down, Recipients(n, Head(up[n])), Head(up[n]))
    BY <1>2 DEF Relay, Refused
  <2> QED
    BY <1>f, <2>1, <2>2, <2>3 DEF Passed
<1>3. ASSUME NEW kind, NEW n \in Nodes, Receiving(n, kind) PROVE Goal
  BY <1>3 DEF Receiving
<1> QED
  BY <1>1, <1>2, <1>3
  DEF Next, Use, Thread, PollThread, Receive, Handler, vars, canvases, bounded,
      server, LogUi, LogPoll, SendUi, SendPoll, DrawHost, DrawMember,
      ClearCanvas, Join, Leave, FinishLeave, RegisterHost, ServeJoin,
      ServeLeave, HostNotYet, HostReceivesDraw, HostReceivesRequest,
      MemberReceivesDraw, MemberReceivesState, ReceiveAck, ReceiveError,
      ReceiveClear, Nodes

\* What a UI thread turns to.
LEMMA UiStep ==
    ASSUME TypeOK, [Next]_vars, NEW n \in Nodes
    PROVE  \/ ui'[n] = ui[n]
           \/ ui'[n] = Idle
           \/ ui'[n] = Task("leave", Plain("none")) /\ n \in Members
           \/ ui'[n] = Task("send", Plain("CLEAR")) /\ ClearCanvas(n)
           \/ /\ ui'[n] = Task("send", ui[n].frame)
              /\ n = Host /\ LogUi(n)
           \/ /\ n = Host
              /\ \E id \in Ids : /\ DrawHost(id)
                                 /\ ui'[n] = Task("log", Draw(Stamped(id, next_seq[n])))
<1> DEFINE Goal == \/ ui'[n] = ui[n]
                   \/ ui'[n] = Idle
                   \/ ui'[n] = Task("leave", Plain("none")) /\ n \in Members
                   \/ ui'[n] = Task("send", Plain("CLEAR")) /\ ClearCanvas(n)
                   \/ /\ ui'[n] = Task("send", ui[n].frame)
                      /\ n = Host /\ LogUi(n)
                   \/ /\ n = Host
                      /\ \E id \in Ids :
                            /\ DrawHost(id)
                            /\ ui'[n] = Task("log", Draw(Stamped(id, next_seq[n])))
<1> USE DEF TypeOK
<1>1. ASSUME NEW k \in Nodes, LogUi(k) PROVE Goal
  BY <1>1 DEF LogUi, AfterLog
<1>2. ASSUME NEW k \in Nodes, SendUi(k) \/ FinishLeave(k) PROVE Goal
  BY <1>2 DEF SendUi, FinishLeave
<1>3. ASSUME NEW id \in Ids, DrawHost(id) PROVE Goal
  BY <1>3 DEF DrawHost
<1>4. ASSUME NEW k \in Nodes, ClearCanvas(k) PROVE Goal
  BY <1>4 DEF ClearCanvas
<1>5. ASSUME NEW m \in Members, Leave(m) PROVE Goal
  BY <1>5 DEF Leave
<1> QED
  BY <1>1, <1>2, <1>3, <1>4, <1>5
  DEF Next, Use, Thread, PollThread, Receive, Handler, vars, LogPoll, SendPoll,
      DrawMember, Join, RegisterHost, Ack, ServeJoin, ServeLeave, Relay,
      HostNotYet, HostReceivesDraw, HostReceivesRequest, MemberReceivesDraw,
      MemberReceivesState, ReceiveAck, ReceiveError, ReceiveClear

\* What a poll thread turns to.
LEMMA PollStep ==
    ASSUME TypeOK, [Next]_vars, NEW n \in Nodes
    PROVE  \/ poll'[n] = poll[n]
           \/ poll'[n] = Idle
           \/ poll'[n] = Task("send", Plain("REQUEST")) /\ n \in Members
           \/ poll'[n] = Task("send", poll[n].frame) /\ n = Host /\ LogPoll(n)
           \/ /\ n = Host /\ HostReceivesDraw
              /\ poll'[n] = Task("log",
                               Draw(Stamped(Op1(Head(down[n])).id, next_seq[n])))
              /\ Op1(Head(down[n])).id \notin IdsOf(history[n])
           \/ /\ n = Host /\ HostReceivesRequest
              /\ poll'[n] = Task("send", State(history[n]))
           \/ /\ n \in Members /\ MemberReceivesDraw(n)
              /\ poll'[n] = Task("log", Draw(Op1(Head(down[n]))))
              /\ Op1(Head(down[n])).seq = next_seq[n]
<1> DEFINE Goal == \/ poll'[n] = poll[n]
                   \/ poll'[n] = Idle
                   \/ poll'[n] = Task("send", Plain("REQUEST")) /\ n \in Members
                   \/ poll'[n] = Task("send", poll[n].frame) /\ n = Host /\ LogPoll(n)
                   \/ /\ n = Host /\ HostReceivesDraw
                      /\ poll'[n] = Task("log",
                              Draw(Stamped(Op1(Head(down[n])).id, next_seq[n])))
                      /\ Op1(Head(down[n])).id \notin IdsOf(history[n])
                   \/ /\ n = Host /\ HostReceivesRequest
                      /\ poll'[n] = Task("send", State(history[n]))
                   \/ /\ n \in Members /\ MemberReceivesDraw(n)
                      /\ poll'[n] = Task("log", Draw(Op1(Head(down[n]))))
                      /\ Op1(Head(down[n])).seq = next_seq[n]
<1> USE DEF TypeOK
<1>1. ASSUME NEW k \in Nodes, LogPoll(k) PROVE Goal
  BY <1>1 DEF LogPoll, AfterLog
<1>2. ASSUME NEW k \in Nodes, SendPoll(k) PROVE Goal
  BY <1>2 DEF SendPoll
<1>3. ASSUME HostReceivesDraw PROVE Goal
  BY <1>3 DEF HostReceivesDraw
<1>4. ASSUME HostReceivesRequest PROVE Goal
  BY <1>4 DEF HostReceivesRequest
<1>5. ASSUME NEW m \in Members, MemberReceivesDraw(m) PROVE Goal
  BY <1>5 DEF MemberReceivesDraw
<1>6. ASSUME NEW k \in Nodes, ReceiveAck(k) PROVE Goal
  BY <1>6 DEF ReceiveAck, Nodes
<1> QED
  BY <1>1, <1>2, <1>3, <1>4, <1>5, <1>6
  DEF Next, Use, Thread, PollThread, Receive, Handler, vars, LogUi, SendUi,
      DrawHost, DrawMember, ClearCanvas, Join, Leave, FinishLeave, RegisterHost,
      Ack, ServeJoin, ServeLeave, Relay, HostNotYet, MemberReceivesState,
      ReceiveError, ReceiveClear

\* What becomes of a canvas.
LEMMA CanvasStep ==
    ASSUME TypeOK, [Next]_vars, NEW n \in Nodes
    PROVE  \/ history'[n] = history[n] /\ next_seq'[n] = next_seq[n]
           \/ /\ history'[n] = history[n] /\ next_seq'[n] = next_seq[n] + 1 /\ n = Host
              /\ HostReceivesDraw \/ \E id \in Ids : DrawHost(id)
           \/ \E op \in {Op1(ui[n].frame), Op1(poll[n].frame)} :
                 /\ \/ ui[n].step = "log" /\ LogUi(n) /\ op = Op1(ui[n].frame)
                    \/ poll[n].step = "log" /\ LogPoll(n) /\ op = Op1(poll[n].frame)
                 /\ history'[n] = Append(history[n], op) /\ op.id \notin IdsOf(history[n])
                 /\ next_seq'[n] = IF op.seq >= next_seq[n] THEN op.seq + 1
                                   ELSE next_seq[n]
           \/ /\ history'[n] = <<>> /\ next_seq'[n] = 1
              /\ ReceiveClear(n) \/ ClearCanvas(n)
           \/ /\ n \in Members /\ MemberReceivesState(n)
              /\ history'[n] = Head(down[n]).ops
              /\ next_seq'[n] = NextAfter(Head(down[n]).ops)
<1> DEFINE Goal == \/ history'[n] = history[n] /\ next_seq'[n] = next_seq[n]
           \/ /\ history'[n] = history[n] /\ next_seq'[n] = next_seq[n] + 1 /\ n = Host
              /\ HostReceivesDraw \/ \E id \in Ids : DrawHost(id)
           \/ \E op \in {Op1(ui[n].frame), Op1(poll[n].frame)} :
                 /\ \/ ui[n].step = "log" /\ LogUi(n) /\ op = Op1(ui[n].frame)
                    \/ poll[n].step = "log" /\ LogPoll(n) /\ op = Op1(poll[n].frame)
                 /\ history'[n] = Append(history[n], op) /\ op.id \notin IdsOf(history[n])
                 /\ next_seq'[n] = IF op.seq >= next_seq[n] THEN op.seq + 1
                                   ELSE next_seq[n]
           \/ /\ history'[n] = <<>> /\ next_seq'[n] = 1
              /\ ReceiveClear(n) \/ ClearCanvas(n)
           \/ /\ n \in Members /\ MemberReceivesState(n)
              /\ history'[n] = Head(down[n]).ops
              /\ next_seq'[n] = NextAfter(Head(down[n]).ops)
<1> USE DEF TypeOK, canvases
<1>1. ASSUME NEW k \in Nodes, LogUi(k) PROVE Goal
  <2>1. CASE k # n \/ UNCHANGED canvases
    BY <1>1, <2>1 DEF LogUi, LogOp
  <2>2. CASE k = n /\ ~UNCHANGED canvases
    <3> DEFINE op == Op1(ui[n].frame)
    <3>1. LogOp(n, op) /\ ui[n].step = "log"
      BY <1>1, <2>2 DEF LogUi
    <3>2. /\ history'[n] = Append(history[n], op) /\ op.id \notin IdsOf(history[n])
          /\ next_seq'[n] = IF op.seq >= next_seq[n] THEN op.seq + 1 ELSE next_seq[n]
      BY <3>1, <2>2 DEF LogOp
    <3>3. LogUi(n) /\ op \in {Op1(ui[n].frame), Op1(poll[n].frame)}
      BY <1>1, <2>2
    <3>4. op = Op1(ui[n].frame)
      OBVIOUS
    <3> HIDE DEF op
    <3> QED
      BY ONLY <3>1, <3>2, <3>3, <3>4
  <2> QED
    BY <2>1, <2>2
<1>2. ASSUME NEW k \in Nodes, LogPoll(k) PROVE Goal
  <2>1. CASE k # n \/ UNCHANGED canvases
    BY <1>2, <2>1 DEF LogPoll, LogOp
  <2>2. CASE k = n /\ ~UNCHANGED canvases
    <3> DEFINE op == Op1(poll[n].frame)
    <3>1. LogOp(n, op) /\ poll[n].step = "log"
      BY <1>2, <2>2 DEF LogPoll
    <3>2. /\ history'[n] = Append(history[n], op) /\ op.id \notin IdsOf(history[n])
          /\ next_seq'[n] = IF op.seq >= next_seq[n] THEN op.seq + 1 ELSE next_seq[n]
      BY <3>1, <2>2 DEF LogOp
    <3>3. LogPoll(n) /\ op \in {Op1(ui[n].frame), Op1(poll[n].frame)}
      BY <1>2, <2>2
    <3>4. op = Op1(poll[n].frame)
      OBVIOUS
    <3> HIDE DEF op
    <3> QED
      BY ONLY <3>1, <3>2, <3>3, <3>4
  <2> QED
    BY <2>1, <2>2
<1>3. ASSUME HostReceivesDraw PROVE Goal
  BY <1>3 DEF HostReceivesDraw, TakeSeq
<1>4. ASSUME NEW id \in Ids, DrawHost(id) PROVE Goal
  BY <1>4 DEF DrawHost, TakeSeq
<1>5. ASSUME NEW k \in Nodes, ReceiveClear(k) \/ ClearCanvas(k) PROVE Goal
  BY <1>5 DEF ReceiveClear, ClearCanvas, Cleared
<1>6. ASSUME NEW m \in Members, MemberReceivesState(m) PROVE Goal
  BY <1>6 DEF MemberReceivesState
<1>7. ASSUME NEW k \in Nodes, Handler(k) \/ RegisterHost PROVE UNCHANGED canvases
  BY <1>7 DEF Handler, RegisterHost, Ack, ServeJoin, ServeLeave, Relay
<1>8. ASSUME NEW k \in Nodes, SendUi(k) \/ SendPoll(k) \/ FinishLeave(k) \/ ReceiveAck(k)
                              \/ ReceiveError(k) \/ HostNotYet \/ HostReceivesRequest
      PROVE  UNCHANGED canvases
  BY <1>8 DEF SendUi, SendPoll, FinishLeave, ReceiveAck, ReceiveError, HostNotYet,
              HostReceivesRequest
<1>9. ASSUME NEW m \in Members, MemberReceivesDraw(m) PROVE UNCHANGED canvases
  BY <1>9 DEF MemberReceivesDraw
<1>10. ASSUME NEW m \in Members, Join(m) \/ Leave(m) \/ \E id \in Ids : DrawMember(m, id)
       PROVE  UNCHANGED canvases
  BY <1>10 DEF Join, Leave, DrawMember
<1>11. ASSUME UNCHANGED vars PROVE UNCHANGED canvases
  BY <1>11 DEF vars
<1>12. UNCHANGED canvases => Goal
  OBVIOUS
<1> HIDE DEF Goal, TypeOK, canvases
<1>13. ASSUME Use PROVE Goal
  BY <1>4, <1>5, <1>10, <1>12, <1>13 DEF Use
<1>14. ASSUME NEW k \in Nodes, Thread(k) \/ PollThread(k) \/ Handler(k) PROVE Goal
  BY <1>1, <1>2, <1>3, <1>5, <1>6, <1>7, <1>8, <1>9, <1>12, <1>14
  DEF Thread, PollThread, Receive
<1>15. ASSUME RegisterHost PROVE Goal
  BY <1>7, <1>12, <1>15 DEF Nodes
<1>16. ASSUME UNCHANGED vars PROVE Goal
  BY <1>11, <1>12, <1>16 DEF vars, canvases
<1>17. Goal
  BY <1>13, <1>14, <1>15, <1>16 DEF Next
<1> QED
  BY <1>17 DEF Goal

-----------------------------------------------------------------------------
(* Type correctness.                                                       *)

\* Canvases stay histories of stamped operations.
LEMMA CanvasTypes ==
    ASSUME TypeOK, PlaceInv, [Next]_vars
    PROVE  /\ history' \in [Nodes -> Seq(StampedOp)]
           /\ next_seq' \in [Nodes -> Nat \ {0}]
<1> DEFINE Goal == /\ history' \in [Nodes -> Seq(StampedOp)]
                   /\ next_seq' \in [Nodes -> Nat \ {0}]
<1>1. ASSUME NEW n \in Nodes, NEW op \in StampedOp, LogOp(n, op) PROVE Goal
  <2>1. history \in [Nodes -> Seq(StampedOp)] /\ next_seq \in [Nodes -> Nat \ {0}]
    BY DEF TypeOK
  <2>2. Append(history[n], op) \in Seq(StampedOp)
    BY <2>1, RangeAppend
  <2>3. op.seq + 1 \in Nat \ {0}
    BY DEF StampedOp
  <2> QED
    BY <1>1, <2>1, <2>2, <2>3 DEF LogOp, canvases
<1>2. ASSUME NEW n \in Nodes, LogUi(n) \/ LogPoll(n) PROVE Goal
  <2>1. /\ LogUi(n) => Op1(ui[n].frame) \in StampedOp
        /\ LogPoll(n) => Op1(poll[n].frame) \in StampedOp
    <3>1. \A f \in Stroke : Op1(f) \in StampedOp
      BY FrameFacts DEF Stroke
    <3> QED
      BY <3>1 DEF LogUi, LogPoll, PlaceInv
  <2> QED
    BY <1>1, <1>2, <2>1 DEF LogUi, LogPoll
<1>3. ASSUME HostReceivesDraw \/ \E id \in Ids : DrawHost(id) PROVE Goal
  BY <1>3 DEF HostReceivesDraw, DrawHost, TakeSeq, TypeOK, Nodes
<1>4. ASSUME NEW n \in Nodes, ReceiveClear(n) \/ ClearCanvas(n) PROVE Goal
  <2>1. <<>> \in Seq(StampedOp) /\ 1 \in Nat \ {0}
    OBVIOUS
  <2>2. history \in [Nodes -> Seq(StampedOp)] /\ next_seq \in [Nodes -> Nat \ {0}]
    BY DEF TypeOK
  <2>3. Cleared(n)
    BY <1>4 DEF ReceiveClear, ClearCanvas
  <2> QED
    BY <2>1, <2>2, <2>3 DEF Cleared
<1>5. ASSUME NEW m \in Members, MemberReceivesState(m) PROVE Goal
  <2>1. Head(down[m]) \in FromHost
    BY <1>5, QueueRanges DEF MemberReceivesState, Receiving, PlaceInv, Nodes
  <2>2. Head(down[m]).ops \in Seq(StampedOp)
    BY <2>1, FrameFacts
  <2>3. NextAfter(Head(down[m]).ops) \in Nat \ {0}
    BY <2>2, NextAfterIs
  <2> QED
    BY <1>5, <2>2, <2>3 DEF MemberReceivesState, TypeOK
<1> QED
  BY <1>2, <1>3, <1>4, <1>5
  DEF Next, Use, Thread, PollThread, Receive, Handler, vars, canvases, SendUi,
      SendPoll, DrawMember, Join, Leave, FinishLeave, RegisterHost, Ack,
      ServeJoin, ServeLeave, Relay, HostNotYet, HostReceivesRequest,
      MemberReceivesDraw, ReceiveAck, ReceiveError, TypeOK

\* Threads stay threads.
LEMMA TaskTypes ==
    ASSUME TypeOK, PlaceInv, [Next]_vars
    PROVE  ui' \in [Nodes -> TaskRec] /\ poll' \in [Nodes -> TaskRec]
<1> DEFINE Goal == ui' \in [Nodes -> TaskRec] /\ poll' \in [Nodes -> TaskRec]
<1>1. \A f \in FrameRec : /\ Task("log", f) \in TaskRec /\ Task("send", f) \in TaskRec
                          /\ Task("leave", f) \in TaskRec
  BY DEF Task, TaskRec
<1>2. /\ \A kind \in Kinds \ {"DRAW", "STATE"} : Plain(kind) \in FrameRec
      /\ \A op \in StampedOp : Draw(op) \in FrameRec
      /\ \A ops \in Seq(StampedOp) : State(ops) \in FrameRec
      /\ Idle \in TaskRec
  BY MadeFrames DEF Signal, Stroke, Snapshot
<1>3. \A n \in Nodes : ui[n].frame \in FrameRec /\ poll[n].frame \in FrameRec
  BY DEF TypeOK, TaskRec
<1>4. \A id \in Ids : \A n \in Nodes : Stamped(id, next_seq[n]) \in StampedOp
  BY DEF TypeOK, Stamped, StampedOp
<1>5. ASSUME NEW n \in Nodes, LogUi(n) \/ LogPoll(n) PROVE Goal
  <2>1. /\ AfterLog(n, ui[n].frame) \in TaskRec
        /\ AfterLog(n, poll[n].frame) \in TaskRec
    BY <1>1, <1>2, <1>3 DEF AfterLog
  <2> QED
    BY <1>5, <2>1 DEF LogUi, LogPoll, TypeOK
<1>6. ASSUME NEW n \in Nodes, SendUi(n) \/ SendPoll(n) \/ FinishLeave(n) PROVE Goal
  <2>1. ui \in [Nodes -> TaskRec] /\ poll \in [Nodes -> TaskRec]
    BY DEF TypeOK
  <2>2. CASE SendUi(n) \/ FinishLeave(n)
    BY <2>1, <2>2, <1>2 DEF SendUi, FinishLeave
  <2>3. CASE SendPoll(n)
    BY <2>1, <2>3, <1>2 DEF SendPoll
  <2> QED
    BY <1>6, <2>2, <2>3
<1>7. ASSUME NEW id \in Ids, DrawHost(id) PROVE Goal
  BY <1>7, <1>1, <1>2, <1>4 DEF DrawHost, TypeOK, Nodes
<1>8. ASSUME NEW n \in Nodes, ClearCanvas(n) PROVE Goal
  BY <1>8, <1>1, <1>2 DEF ClearCanvas, TypeOK, Kinds
<1>9. ASSUME NEW m \in Members, Leave(m) PROVE Goal
  BY <1>9, <1>1, <1>2 DEF Leave, TypeOK, Kinds
<1>10. CASE HostReceivesDraw
  <2>1. Op1(Head(down[Host])).id \in Ids
    <3>1. Head(down[Host]) \in FromMember /\ Head(down[Host]).kind = "DRAW"
      BY <1>10, QueueRanges DEF HostReceivesDraw, Receiving, PlaceInv, Nodes
    <3> QED
      BY <3>1, FrameFacts
  <2> QED
    BY <1>10, <2>1, <1>1, <1>2, <1>4 DEF HostReceivesDraw, TypeOK, Nodes
<1>11. CASE HostReceivesRequest
  BY <1>11, <1>1, <1>2 DEF HostReceivesRequest, TypeOK, Nodes
<1>12. ASSUME NEW m \in Members, MemberReceivesDraw(m) PROVE Goal
  <2>1. Op1(Head(down[m])) \in StampedOp
    <3>1. Head(down[m]) \in FromHost /\ Head(down[m]).kind = "DRAW"
      BY <1>12, QueueRanges DEF MemberReceivesDraw, Receiving, PlaceInv, Nodes
    <3> QED
      BY <3>1, FrameFacts
  <2> QED
    BY <1>12, <2>1, <1>1, <1>2 DEF MemberReceivesDraw, TypeOK, Kinds
<1>13. ASSUME NEW n \in Nodes, ReceiveAck(n) PROVE Goal
  BY <1>13, <1>1, <1>2 DEF ReceiveAck, TypeOK, Kinds
<1> QED
  BY <1>5, <1>6, <1>7, <1>8, <1>9, <1>10, <1>11, <1>12, <1>13
  DEF Next, Use, Thread, PollThread, Receive, Handler, vars, DrawMember, Join,
      RegisterHost, Ack, ServeJoin, ServeLeave, Relay, HostNotYet,
      MemberReceivesState, ReceiveError, ReceiveClear, TypeOK

\* Queues stay queues.
LEMMA QueuesStay ==
    ASSUME TypeOK, [Next]_vars
    PROVE  up' \in [Nodes -> Seq(FrameRec)] /\ down' \in [Nodes -> Seq(FrameRec)]
<1>1. up \in [Nodes -> Seq(FrameRec)] /\ down \in [Nodes -> Seq(FrameRec)]
  BY DEF TypeOK
<1>2. up' \in [Nodes -> Seq(FrameRec)]
  <2>1. ASSUME NEW n \in Nodes, up[n] # <<>>, up' = [up EXCEPT ![n] = Tail(@)]
        PROVE  up' \in [Nodes -> Seq(FrameRec)]
    BY <2>1, QueueTypes
  <2>2. ASSUME NEW to, NEW f \in FrameRec, up' = Push(up, to, f)
        PROVE  up' \in [Nodes -> Seq(FrameRec)]
    BY <2>2, QueueTypes
  <2> QED
    BY <1>1, <2>1, <2>2, UpStep
<1>3. down' \in [Nodes -> Seq(FrameRec)]
  <2>1. ASSUME NEW n \in Nodes, down[n] # <<>>, down' = [down EXCEPT ![n] = Tail(@)]
        PROVE  down' \in [Nodes -> Seq(FrameRec)]
    BY <2>1, QueueTypes
  <2>2. ASSUME NEW to, NEW f \in FrameRec, down' = Push(down, to, f)
        PROVE  down' \in [Nodes -> Seq(FrameRec)]
    BY <2>2, QueueTypes
  <2> QED
    BY <1>1, <2>1, <2>2, DownStep
<1> QED
  BY <1>2, <1>3

\* What else the nodes, the server and the bounds are stays well typed.
LEMMA OtherTypes ==
    ASSUME TypeOK, PlaceInv, [Next]_vars
    PROVE  /\ session' \in [Nodes -> Stages] /\ pending' \in [Members -> SUBSET Ids]
           /\ room' \in [Nodes -> Places] /\ unheard' \subseteq Members \cup Ids
           /\ drawn' \subseteq Ids /\ clears' \in 0..MaxClears
           /\ leaving' \in [Members -> {"may", "has", "never"}]
<1> DEFINE Session == session' \in [Nodes -> Stages]
           Others == /\ pending' \in [Members -> SUBSET Ids]
                     /\ room' \in [Nodes -> Places] /\ drawn' \subseteq Ids
                     /\ clears' \in 0..MaxClears
                     /\ leaving' \in [Members -> {"may", "has", "never"}]
           Unheard == unheard' \subseteq Members \cup Ids
<1>1. Session
  <2>1. session \in [Nodes -> Stages]
    BY DEF TypeOK
  <2>2. ASSUME NEW n \in Nodes, NEW stage \in Stages,
               session' = [session EXCEPT ![n] = stage]
        PROVE  Session
    BY <2>1, <2>2
  <2>3. CASE Use
    <3>1. session' = session \/ \E m \in Members : session' = [session EXCEPT ![m] = "joining"]
      BY <2>3 DEF Use, DrawHost, DrawMember, ClearCanvas, Join, Leave
    <3> QED
      BY <2>1, <2>2, <3>1 DEF Stages, Nodes
  <2>4. ASSUME NEW n \in Nodes, Thread(n) \/ LogPoll(n) \/ SendPoll(n) PROVE Session
    <3>1. session' = session \/ session' = [session EXCEPT ![n] = "out"]
      BY <2>4 DEF Thread, LogUi, SendUi, FinishLeave, LogPoll, SendPoll
    <3> QED
      BY <2>1, <2>2, <3>1 DEF Stages
  <2>5. ASSUME NEW n \in Nodes, Receive(n) PROVE Session
    <3>1. CASE ReceiveAck(n) \/ ReceiveError(n)
      <4>1. PICK stage \in {session[n], "in", "cancelled"} :
                    session' = [session EXCEPT ![n] = stage]
        BY <3>1 DEF ReceiveAck, ReceiveError
      <4> QED
        BY <2>1, <2>2, <4>1 DEF Stages
    <3>2. CASE n \in Members /\ MemberReceivesState(n)
      <4>1. PICK stage \in {session[n], "synchronized"} :
                    session' = [session EXCEPT ![n] = stage]
        BY <3>2 DEF MemberReceivesState
      <4> QED
        BY <2>1, <2>2, <4>1 DEF Stages
    <3>3. CASE \/ HostNotYet \/ HostReceivesDraw \/ HostReceivesRequest
               \/ MemberReceivesDraw(n) \/ ReceiveClear(n)
      BY <2>1, <3>3 DEF HostNotYet, HostReceivesDraw, HostReceivesRequest,
                        MemberReceivesDraw, ReceiveClear
    <3> QED
      BY <2>5, <3>1, <3>2, <3>3 DEF Receive
  <2>6. ASSUME NEW n \in Nodes, Handler(n) \/ RegisterHost PROVE Session
    BY <2>1, <2>6 DEF Handler, RegisterHost, Ack, ServeJoin, ServeLeave, Relay
  <2>7. CASE UNCHANGED vars
    BY <2>1, <2>7 DEF vars
  <2> HIDE DEF Session
  <2> QED
    BY <2>3, <2>4, <2>5, <2>6, <2>7 DEF Next, PollThread, Nodes
<1>2. Others
  <2>1. pending' \in [Members -> SUBSET Ids]
    <3> DEFINE Goal == pending' \in [Members -> SUBSET Ids]
    <3>0. pending \in [Members -> SUBSET Ids]
      BY DEF TypeOK
    <3>1. ASSUME NEW m \in Members, NEW id \in Ids, DrawMember(m, id) PROVE Goal
      BY <3>0, <3>1 DEF DrawMember
    <3>2. ASSUME NEW m \in Members, MemberReceivesDraw(m) PROVE Goal
      BY <3>0, <3>2 DEF MemberReceivesDraw
    <3> QED
      BY <3>0, <3>1, <3>2
      DEF Next, Use, Thread, PollThread, Receive, Handler, vars, LogUi, LogPoll,
          SendUi, SendPoll, DrawHost, ClearCanvas, Join, Leave, FinishLeave,
          RegisterHost, Ack, ServeJoin, ServeLeave, Relay, HostNotYet,
          HostReceivesDraw, HostReceivesRequest, MemberReceivesState, ReceiveAck,
          ReceiveError, ReceiveClear
  <2>2. room' \in [Nodes -> Places]
    BY ReplicationAssumption
    DEF TypeOK, Places, Next, Use, Thread, PollThread, Receive, Handler, vars,
        server,
        bounded, LogUi, LogPoll, SendUi, SendPoll, DrawHost, DrawMember, ClearCanvas,
        Join, Leave, FinishLeave, RegisterHost, Ack, ServeJoin, ServeLeave, Relay,
        HostNotYet, HostReceivesDraw, HostReceivesRequest, MemberReceivesDraw,
        MemberReceivesState, ReceiveAck, ReceiveError, ReceiveClear
  <2>3. drawn' \subseteq Ids
    <3>1. ASSUME NEW id \in Ids, drawn' = drawn \cup {id} PROVE drawn' \subseteq Ids
      BY <3>1 DEF TypeOK
    <3>2. drawn' = drawn \/ \E id \in Ids : drawn' = drawn \cup {id}
      <4>1. CASE Use
        <5>1. \A id \in Ids : DrawHost(id) => drawn' = drawn \cup {id}
          BY DEF DrawHost
        <5>2. \A m \in Members, id \in Ids : DrawMember(m, id) => drawn' = drawn \cup {id}
          BY DEF DrawMember
        <5>3. /\ \A n \in Nodes : ClearCanvas(n) => drawn' = drawn
              /\ \A m \in Members : Join(m) \/ Leave(m) => drawn' = drawn
          BY DEF ClearCanvas, Join, Leave, bounded
        <5> QED
          BY <4>1, <5>1, <5>2, <5>3 DEF Use
      <4>2. ASSUME NEW n \in Nodes, Thread(n) \/ PollThread(n) PROVE drawn' = drawn
        BY <4>2 DEF Thread, PollThread, Receive, bounded, LogUi, LogPoll, SendUi, SendPoll,
             FinishLeave, HostNotYet, HostReceivesDraw, HostReceivesRequest,
             MemberReceivesDraw, MemberReceivesState, ReceiveAck, ReceiveError,
             ReceiveClear
      <4>3. ASSUME NEW n \in Nodes, Handler(n) \/ RegisterHost PROVE drawn' = drawn
        BY <4>3 DEF Handler, RegisterHost, bounded, Ack, ServeJoin, ServeLeave, Relay
      <4>4. CASE UNCHANGED vars
        BY <4>4 DEF vars, bounded
      <4> QED
        BY <4>1, <4>2, <4>3, <4>4 DEF Next, Nodes
    <3> QED
      BY <3>1, <3>2 DEF TypeOK
  <2>4. clears' \in 0..MaxClears
    <3>1. ASSUME NEW n \in Nodes, ClearCanvas(n) PROVE clears' \in 0..MaxClears
      BY <3>1, ReplicationAssumption DEF ClearCanvas, TypeOK
    <3>2. clears' = clears \/ \E n \in Nodes : ClearCanvas(n)
      BY DEF Next, Use, Thread, PollThread, Receive, Handler, vars, bounded, LogUi,
         LogPoll, SendUi, SendPoll, DrawHost, DrawMember, Join, Leave,
         FinishLeave, RegisterHost, Ack, ServeJoin, ServeLeave, Relay, HostNotYet,
         HostReceivesDraw, HostReceivesRequest, MemberReceivesDraw,
         MemberReceivesState, ReceiveAck, ReceiveError, ReceiveClear
    <3> QED
      BY <3>1, <3>2 DEF TypeOK
  <2>5. leaving' \in [Members -> {"may", "has", "never"}]
    BY ReplicationAssumption
    DEF TypeOK, Places, Next, Use, Thread, PollThread, Receive, Handler, vars,
        server,
        bounded, LogUi, LogPoll, SendUi, SendPoll, DrawHost, DrawMember, ClearCanvas,
        Join, Leave, FinishLeave, RegisterHost, Ack, ServeJoin, ServeLeave, Relay,
        HostNotYet, HostReceivesDraw, HostReceivesRequest, MemberReceivesDraw,
        MemberReceivesState, ReceiveAck, ReceiveError, ReceiveClear
  <2> QED
    BY <2>1, <2>2, <2>3, <2>4, <2>5
<1>3. ASSUME NEW n \in Nodes, Relay(n) PROVE Unheard
  <2>1. CASE UNCHANGED unheard
    BY <2>1 DEF TypeOK
  <2>2. CASE n # Host /\ unheard' = unheard \cup Waiting(n, Head(up[n]))
    <3>1. Head(up[n]) \in FromMember
      BY <1>3, <2>2, QueueRanges DEF Relay, Serving, PlaceInv, Nodes
    <3>2. Waiting(n, Head(up[n])) \subseteq Members \cup Ids
      BY <3>1, <2>2, FrameFacts DEF Waiting, Nodes
    <3> QED
      BY <2>2, <3>2 DEF TypeOK
  <2> QED
    BY <1>3, <2>1, <2>2 DEF Relay
<1>4. ASSUME HostNotYet PROVE Unheard
  <2>0. unheard \subseteq Members \cup Ids
    BY DEF TypeOK
  <2>1. CASE unheard' = unheard \cup {m \in Members : room[m] = "member"}
    BY <2>0, <2>1
  <2>2. CASE /\ Receiving(Host, "DRAW")
             /\ unheard' = unheard \cup {Op1(Head(down[Host])).id}
    <3>1. Head(down[Host]) \in FromMember /\ Head(down[Host]).kind = "DRAW"
      BY <2>2, QueueRanges DEF Receiving, PlaceInv, Nodes
    <3>2. Op1(Head(down[Host])).id \in Ids
      BY <3>1, FrameFacts
    <3> QED
      BY <2>0, <2>2, <3>2
  <2> QED
    BY <1>4, <2>1, <2>2 DEF HostNotYet
<1>5. Unheard
  BY <1>3, <1>4
  DEF TypeOK, Next, Use, Thread, PollThread, Receive, Handler, vars, server,
      LogUi, LogPoll, SendUi, SendPoll, DrawHost, DrawMember, ClearCanvas, Join,
      Leave, FinishLeave, RegisterHost, Ack, ServeJoin, ServeLeave,
      HostReceivesDraw, HostReceivesRequest, MemberReceivesDraw,
      MemberReceivesState, ReceiveAck, ReceiveError, ReceiveClear
<1> QED
  BY <1>1, <1>2, <1>5

\* Every step keeps every variable well typed.
LEMMA TypeStep == TypeOK /\ PlaceInv /\ [Next]_vars => TypeOK'
<1> SUFFICES ASSUME TypeOK, PlaceInv, [Next]_vars PROVE TypeOK'
  OBVIOUS
<1> QED
  BY CanvasTypes, TaskTypes, QueuesStay, OtherTypes DEF TypeOK

-----------------------------------------------------------------------------
(* Places.                                                                 *)

\* A frame in a queue was there before or has just been pushed.
LEMMA UpSource ==
    ASSUME TypeOK, [Next]_vars, NEW n \in Nodes, NEW g \in Range(up'[n])
    PROVE  g \in Range(up[n]) \/ Sent(n, g)
<1>1. ASSUME NEW k \in Nodes, up[k] # <<>>, up' = [up EXCEPT ![k] = Tail(@)]
      PROVE  g \in Range(up[n])
  BY <1>1, QueueRanges
<1>2. ASSUME NEW k \in Nodes, NEW f \in FrameRec, up' = Push(up, {k}, f), Sent(k, f)
      PROVE  g \in Range(up[n]) \/ Sent(n, g)
  BY <1>2, QueueRanges DEF Among
<1> QED
  BY <1>1, <1>2, UpStep

\* What the server relays goes from a member to the host and from the host to
\* members; only a clear goes everywhere.
LEMMA DownSource ==
    ASSUME TypeOK, [Next]_vars, NEW n \in Nodes, NEW g \in Range(down'[n])
    PROVE  \/ g \in Range(down[n])
           \/ g \in {Plain("ACK"), Plain("ERROR")}
           \/ \E k \in Nodes : /\ g \in Range(up[k])
                               /\ g.kind = "CLEAR" \/ (n = Host <=> k # Host)
<1> DEFINE Goal == \/ g \in Range(down[n])
                   \/ g \in {Plain("ACK"), Plain("ERROR")}
                   \/ \E k \in Nodes : /\ g \in Range(up[k])
                                       /\ g.kind = "CLEAR" \/ (n = Host <=> k # Host)
<1>1. ASSUME NEW k \in Nodes, down[k] # <<>>, down' = [down EXCEPT ![k] = Tail(@)]
      PROVE  g \in Range(down[n])
  BY <1>1, QueueRanges
<1>2. ASSUME NEW to, n \in to, Passed(to, g) PROVE Goal
  <2>1. ASSUME NEW k \in Nodes, up[k] # <<>>, g = Head(up[k]), to = Recipients(k, g)
        PROVE  g \in Range(up[k]) /\ (g.kind = "CLEAR" \/ (n = Host <=> k # Host))
    <3>1. g \in Range(up[k])
      BY <2>1, QueueRanges
    <3>2. g.kind = "CLEAR" \/ (n = Host <=> k # Host)
      BY <1>2, <2>1 DEF Recipients
    <3> QED
      BY <3>1, <3>2
  <2> QED
    BY <1>2, <2>1 DEF Passed
<1>3. ASSUME NEW to, NEW f \in FrameRec, down' = Push(down, to, f), Passed(to, f)
      PROVE  Goal
  <2>1. g \in Range(down[n]) \/ (n \in to /\ g = f)
    BY <1>3, QueueRanges DEF Among
  <2> QED
    BY <2>1, <1>2, <1>3
<1> QED
  BY <1>1, <1>3, DownStep

\* Every frame stays where frames of its sort belong.
LEMMA PlaceStep == TypeOK /\ PlaceInv /\ [Next]_vars => PlaceInv'
<1> SUFFICES ASSUME TypeOK, PlaceInv, [Next]_vars PROVE PlaceInv'
  OBVIOUS
<1>0. /\ Plain("JOIN") \in Signal /\ Plain("LEAVE") \in Signal /\ Plain("ACK") \in Signal
      /\ Plain("ERROR") \in Signal /\ Plain("CLEAR") \in Signal
      /\ Plain("REQUEST") \in Signal /\ Plain("none") \in Signal
  BY MadeFrames DEF Kinds
<1>1. ASSUME NEW f \in Range(up'[Host]) PROVE f \in FromHost
  <2>1. Host \in Nodes /\ Host \notin Members
    BY ReplicationAssumption DEF Nodes
  <2>2. f \in Range(up[Host]) \/ Sent(Host, f)
    BY <1>1, <2>1, UpSource
  <2> QED
    BY <2>1, <2>2 DEF Sent, PlaceInv
<1>2. ASSUME NEW m \in Members, NEW f \in Range(up'[m]) PROVE f \in FromMember
  <2>1. \A id \in Strokes[m] : Draw(Stamped(id, 0)) \in FromMember
    BY MadeFrames, FrameFacts DEF Ids, Nodes
  <2>2. f \in Range(up[m]) \/ Sent(m, f)
    BY UpSource DEF Nodes
  <2> QED
    BY <1>0, <2>1, <2>2, FrameFacts DEF Sent, PlaceInv
<1>3. ASSUME NEW f \in Range(down'[Host]) PROVE f \in FromMember
  <2>1. \A k \in Nodes : \A g \in Range(up[k]) :
           /\ k # Host => g \in FromMember
           /\ k = Host /\ g.kind = "CLEAR" => g \in FromMember
    BY FrameFacts DEF PlaceInv, Nodes, FromHost, Stroke, Snapshot
  <2> QED
    BY <1>0, <2>1, DownSource, FrameFacts DEF PlaceInv, Nodes
<1>4. ASSUME NEW m \in Members, NEW f \in Range(down'[m]) PROVE f \in FromHost
  <2>1. \A k \in Nodes : \A g \in Range(up[k]) :
           /\ k = Host => g \in FromHost
           /\ k # Host /\ g.kind = "CLEAR" => g \in FromHost
    BY FrameFacts DEF PlaceInv, Nodes
  <2>2. m # Host /\ m \in Nodes
    BY ReplicationAssumption DEF Nodes
  <2>3. \/ f \in Range(down[m])
        \/ f \in {Plain("ACK"), Plain("ERROR")}
        \/ \E k \in Nodes : f \in Range(up[k]) /\ (f.kind = "CLEAR" \/ k = Host)
    BY <1>4, <2>2, DownSource
  <2>4. \A g \in Range(down[m]) : g \in FromHost
    BY DEF PlaceInv
  <2>5. Signal \subseteq FromHost
    BY FrameFacts
  <2> QED
    BY <1>0, <2>1, <2>3, <2>4, <2>5
<1>5. \A k \in Nodes : \A id \in Ids :
         /\ Draw(Stamped(id, next_seq[k])) \in Stroke
         /\ Draw(Stamped(id, next_seq[k])) \in FromHost
  BY MadeFrames, FrameFacts DEF TypeOK, Stamped, StampedOp
<1>6. \A f : /\ Task("log", f).step = "log" /\ Task("log", f).frame = f
             /\ Task("send", f).step = "send" /\ Task("send", f).frame = f
             /\ Task("leave", f).step = "leave" /\ Task("leave", f).frame = f
  BY DEF Task
<1>7. ASSUME NEW n \in Nodes
      PROVE  /\ ui'[n].frame \in FromHost
             /\ ui'[n].step = "log" => n = Host /\ ui'[n].frame \in Stroke
             /\ n # Host /\ ui'[n].step = "send" => ui'[n].frame \in Signal
  BY <1>0, <1>5, <1>6, UiStep, MadeFrames, FrameFacts DEF PlaceInv, Nodes
<1>8. ASSUME NEW n \in Nodes
      PROVE  /\ poll'[n].frame \in FromHost
             /\ poll'[n].step = "log" => poll'[n].frame \in Stroke
             /\ n # Host /\ poll'[n].step = "send" => poll'[n].frame \in Signal
  <2>1. ASSUME n = Host, HostReceivesDraw PROVE Op1(Head(down[n])).id \in Ids
    <3>1. Head(down[n]) \in FromMember /\ Head(down[n]).kind = "DRAW"
      BY <2>1, QueueRanges DEF HostReceivesDraw, Receiving, PlaceInv
    <3> QED
      BY <3>1, FrameFacts
  <2>2. ASSUME n \in Members, MemberReceivesDraw(n)
        PROVE  Draw(Op1(Head(down[n]))) \in Stroke
    <3>1. Head(down[n]) \in FromHost /\ Head(down[n]).kind = "DRAW"
      BY <2>2, QueueRanges DEF MemberReceivesDraw, Receiving, PlaceInv, Nodes
    <3> QED
      BY <3>1, FrameFacts
  <2>3. State(history[n]) \in FromHost
    BY MadeFrames, FrameFacts DEF TypeOK
  <2> QED
    BY <1>0, <1>5, <1>6, <2>1, <2>2, <2>3, PollStep, MadeFrames, FrameFacts
    DEF PlaceInv, Nodes
<1> QED
  BY <1>1, <1>2, <1>3, <1>4, <1>7, <1>8, ReplicationAssumption DEF PlaceInv, Nodes

-----------------------------------------------------------------------------
(* Stamps.                                                                 *)

\* A frame or canvas operation that was somebody's, or is on its way.
LEMMA HeldIsCopy ==
    ASSUME NEW n \in Nodes, NEW op \in Held(n), op.seq # 0
    PROVE  op \in Copies
BY DEF Copies

\* A copy was there before, unless the host has just stamped it.
LEMMA CopySource ==
    ASSUME TypeOK, PlaceInv, [Next]_vars, NEW op \in Copies'
    PROVE  \/ op \in Copies
           \/ \E id \in Ids : DrawHost(id) /\ op = Stamped(id, next_seq[Host])
           \/ /\ HostReceivesDraw
              /\ op = Stamped(Op1(Head(down[Host])).id, next_seq[Host])
<1> DEFINE New == \/ \E id \in Ids : DrawHost(id) /\ op = Stamped(id, next_seq[Host])
                  \/ /\ HostReceivesDraw
                     /\ op = Stamped(Op1(Head(down[Host])).id, next_seq[Host])
           Goal == op \in Copies \/ New
<1>1. op.seq # 0 /\ \E n \in Nodes : op \in Held(n)'
  BY DEF Copies
<1>2. PICK n \in Nodes : op \in Held(n)'
  BY <1>1
<1>3. \A k \in Nodes : op \in Held(k) => op \in Copies
  BY <1>1, HeldIsCopy
<1>4. \A k \in Nodes : \A f \in Range(up[k]) \cup Range(down[k]) :
         op \in Range(f.ops) => op \in Copies
  BY <1>3 DEF Held
<1>5. \A k \in Nodes : /\ op \in Ops(k) => op \in Copies
                       /\ op \in Range(ui[k].frame.ops) => op \in Copies
                       /\ op \in Range(poll[k].frame.ops) => op \in Copies
  BY <1>3 DEF Held
<1>6. \A k \in Nodes : \A f : f = ui[k].frame \/ f = poll[k].frame
         => f \in FromHost /\ (op \in Range(f.ops) => op \in Copies)
  BY <1>5 DEF PlaceInv
<1>7. \A kind \in Kinds \ {"DRAW", "STATE"} : Range(Plain(kind).ops) = {}
  BY MadeFrames, FrameFacts
<1>8. \A f : /\ Task("log", f).frame = f /\ Task("send", f).frame = f
             /\ Task("leave", f).frame = f
  BY DEF Task
<1>9. CASE op \in Ops(n)'
  <2>1. PICK i \in 1..Len(history'[n]) : op = history'[n][i]
    BY <1>9 DEF Ops
  <2>2. CASE history'[n] = history[n]
    BY <1>5, <2>1, <2>2 DEF Ops
  <2>3. ASSUME NEW f, f = ui[n].frame \/ f = poll[n].frame, f \in Stroke,
               history'[n] = Append(history[n], Op1(f))
        PROVE  op \in Copies
    <3>1. Op1(f) \in StampedOp /\ Range(f.ops) = {Op1(f)}
      BY <2>3, FrameFacts DEF Stroke
    <3>2. op \in Ops(n) \/ op = Op1(f)
      BY <2>1, <2>3, <3>1 DEF Ops, TypeOK
    <3> QED
      BY <1>5, <1>6, <2>3, <3>1, <3>2
  <2>4. CASE history'[n] = <<>>
    BY <2>1, <2>4
  <2>5. CASE /\ n \in Members
             /\ MemberReceivesState(n)
             /\ history'[n] = Head(down[n]).ops
    <3>1. Head(down[n]) \in Range(down[n]) /\ Head(down[n]) \in FromHost
      BY <2>5, QueueRanges DEF MemberReceivesState, Receiving, PlaceInv
    <3>2. op \in Range(Head(down[n]).ops)
      BY <2>1, <2>5, <3>1, FrameFacts, LenProperties DEF Range
    <3> QED
      BY <1>4, <3>1, <3>2
  <2> QED
    BY <2>2, <2>3, <2>4, <2>5, CanvasStep DEF PlaceInv
<1>10. CASE op \in Range(ui'[n].frame.ops)
  <2>1. ASSUME NEW id \in Ids, n = Host, DrawHost(id),
               ui'[n] = Task("log", Draw(Stamped(id, next_seq[n])))
        PROVE  op = Stamped(id, next_seq[Host])
    <3>1. Stamped(id, next_seq[n]) \in StampedOp
      BY DEF Stamped, StampedOp, TypeOK
    <3>2. ui'[n].frame = Draw(Stamped(id, next_seq[n]))
      BY <1>8, <2>1
    <3>3. Range(ui'[n].frame.ops) = {Stamped(id, next_seq[n])}
      BY <3>1, <3>2, MadeFrames
    <3> QED
      BY <1>10, <2>1, <3>3
  <2>2. ASSUME \/ ui'[n] = Idle \/ ui'[n] = Task("leave", Plain("none"))
               \/ ui'[n] = Task("send", Plain("CLEAR"))
        PROVE  FALSE
    <3>1. /\ Range(Plain("none").ops) = {} /\ Range(Plain("CLEAR").ops) = {}
          /\ Range(Idle.frame.ops) = {}
      BY <1>7, MadeFrames DEF Kinds
    <3> QED
      BY <1>8, <1>10, <2>2, <3>1
  <2>3. ASSUME ui'[n] = ui[n] \/ ui'[n] = Task("send", ui[n].frame)
        PROVE  op \in Copies
    BY <1>5, <1>8, <1>10, <2>3
  <2> QED
    BY <2>1, <2>2, <2>3, UiStep
<1>11. CASE op \in Range(poll'[n].frame.ops)
  <2>1. ASSUME n = Host, HostReceivesDraw,
               poll'[n] = Task("log",
                             Draw(Stamped(Op1(Head(down[n])).id, next_seq[n])))
        PROVE  op = Stamped(Op1(Head(down[Host])).id, next_seq[Host])
    <3>1. Head(down[Host]) \in FromMember /\ Head(down[Host]).kind = "DRAW"
      BY <2>1, QueueRanges DEF HostReceivesDraw, Receiving, PlaceInv
    <3>2. Stamped(Op1(Head(down[Host])).id, next_seq[Host]) \in StampedOp
      BY <2>1, <3>1, FrameFacts DEF Stamped, StampedOp, TypeOK
    <3>3. poll'[n].frame = Draw(Stamped(Op1(Head(down[Host])).id, next_seq[Host]))
      BY <1>8, <2>1
    <3>4. Range(poll'[n].frame.ops)
             = {Stamped(Op1(Head(down[Host])).id, next_seq[Host])}
      BY <3>2, <3>3, MadeFrames
    <3> QED
      BY <1>11, <3>4
  <2>2. ASSUME poll'[n] = Task("send", State(history[n])) PROVE op \in Copies
    <3>1. op \in Range(history[n])
      BY <1>8, <1>11, <2>2 DEF State
    <3>2. op \in Ops(n)
      BY <3>1, LenProperties DEF Ops, Range, TypeOK
    <3> QED
      BY <1>5, <3>2
  <2>3. ASSUME n \in Members, MemberReceivesDraw(n),
               poll'[n] = Task("log", Draw(Op1(Head(down[n]))))
        PROVE  op \in Copies
    <3>1. /\ Head(down[n]) \in FromHost /\ Head(down[n]).kind = "DRAW"
          /\ Head(down[n]) \in Range(down[n])
      BY <2>3, QueueRanges DEF MemberReceivesDraw, Receiving, PlaceInv
    <3>2. op \in Range(Head(down[n]).ops)
      BY <1>8, <1>11, <2>3, <3>1, FrameFacts
    <3> QED
      BY <1>4, <3>1, <3>2
  <2>4. ASSUME poll'[n] = Idle \/ poll'[n] = Task("send", Plain("REQUEST"))
        PROVE  FALSE
    <3>1. Range(Idle.frame.ops) = {} /\ Range(Plain("REQUEST").ops) = {}
      BY <1>7, MadeFrames DEF Kinds
    <3> QED
      BY <1>8, <1>11, <2>4, <3>1
  <2>5. ASSUME poll'[n] = poll[n] \/ poll'[n] = Task("send", poll[n].frame)
        PROVE  op \in Copies
    BY <1>5, <1>8, <1>11, <2>5
  <2> QED
    BY <2>1, <2>2, <2>3, <2>4, <2>5, PollStep
<1>12. ASSUME NEW f \in Range(up'[n]), op \in Range(f.ops) PROVE op \in Copies
  <2>1. \A id \in Strokes[n] : op \notin Range(Draw(Stamped(id, 0)).ops)
    BY <1>1 DEF Draw, Stamped, Range
  <2>2. f \in Range(up[n]) \/ Sent(n, f)
    BY UpSource
  <2> QED
    BY <1>4, <1>6, <1>7, <1>12, <2>1, <2>2 DEF Sent, Kinds
<1>13. ASSUME NEW f \in Range(down'[n]), op \in Range(f.ops) PROVE op \in Copies
  BY <1>4, <1>7, <1>13, DownSource DEF Kinds
<1> QED
  BY <1>2, <1>9, <1>10, <1>11, <1>12, <1>13 DEF Held

\* Asking moves with the queue.
LEMMA PushAsks ==
    ASSUME NEW q \in [Nodes -> Seq(FrameRec)], NEW n \in Nodes, NEW to,
           NEW f \in FrameRec, NEW i, NEW id, Asks(Push(q, to, f)[n], i, id)
    PROVE  \/ Asks(q[n], i, id)
           \/ n \in to /\ i = Len(q[n]) + 1 /\ f = Draw(Stamped(id, 0))
BY DEF Asks, Push

\* What asks in the rest of a queue asked one place further behind.
LEMMA TailAsks ==
    ASSUME NEW s \in Seq(FrameRec), s # <<>>, NEW i, NEW id, Asks(Tail(s), i, id)
    PROVE  i \in Nat \ {0} /\ Asks(s, i + 1, id)
<1>1. /\ Len(Tail(s)) = Len(s) - 1 /\ Len(s) \in Nat \ {0}
      /\ DOMAIN s = 1..Len(s) /\ DOMAIN Tail(s) = 1..Len(Tail(s))
      /\ \A j \in 1..Len(Tail(s)) : Tail(s)[j] = s[j + 1]
  BY HeadTailProperties, LenProperties, EmptySeq
<1> QED
  BY <1>1 DEF Asks

\* Only a member's stroke is an asking, and only a member asks.
LEMMA AskingFrames ==
    /\ \A id : Draw(Stamped(id, 0)).kind = "DRAW"
    /\ \A id : Op1(Draw(Stamped(id, 0))) = Stamped(id, 0)
    /\ \A id, x : Draw(Stamped(id, 0)) = Draw(Stamped(x, 0)) => id = x
    /\ \A id : Draw(Stamped(id, 0)) \notin FromHost
<1>1. /\ \A id : Draw(Stamped(id, 0)).kind = "DRAW"
      /\ \A id : Op1(Draw(Stamped(id, 0))) = Stamped(id, 0)
  BY DEF Draw, Op1
<1>2. \A id : Stamped(id, 0).id = id /\ Stamped(id, 0) \notin StampedOp
  BY DEF Stamped, StampedOp
<1> QED
  BY <1>1, <1>2, FrameFacts

\* What asks for a stamp at the end of up[m] is a stroke m draws now; all else
\* was there before, one place further behind if a frame has been taken.
LEMMA UpAsks ==
    ASSUME TypeOK, PlaceInv, [Next]_vars, NEW m \in Members
    PROVE  \E d \in {0, 1} :
              /\ Relay(m) => d = 1
              /\ \A i : \A id \in Ids : Asks(up'[m], i, id) =>
                    \/ Asks(up[m], i + d, id) /\ i \in Nat \ {0}
                    \/ d = 0 /\ i = Len(up[m]) + 1 /\ DrawMember(m, id)
<1> DEFINE Was(d) == \A i : \A id \in Ids : Asks(up'[m], i, id) =>
                        \/ Asks(up[m], i + d, id) /\ i \in Nat \ {0}
                        \/ d = 0 /\ i = Len(up[m]) + 1 /\ DrawMember(m, id)
<1>0. /\ m \in Nodes /\ up \in [Nodes -> Seq(FrameRec)] /\ up[m] \in Seq(FrameRec)
      /\ DOMAIN up[m] = 1..Len(up[m])
  BY LenProperties DEF TypeOK, Nodes
<1>1. ASSUME up'[m] = up[m] PROVE Was(0)
  BY <1>0, <1>1 DEF Asks
<1>2. ASSUME up[m] # <<>>, up'[m] = Tail(up[m]) PROVE Was(1)
  BY <1>0, <1>2, TailAsks
<1>3. Relay(m) => up[m] # <<>> /\ up'[m] = Tail(up[m])
  BY <1>0 DEF Relay, Serving
<1>4. ASSUME NEW k \in Nodes, up[k] # <<>>, up' = [up EXCEPT ![k] = Tail(@)]
      PROVE  \/ up'[m] = up[m]
             \/ up[m] # <<>> /\ up'[m] = Tail(up[m])
  BY <1>0, <1>4
<1>5. ASSUME NEW k \in Nodes, NEW f \in FrameRec, up' = Push(up, {k}, f), Sent(k, f)
      PROVE  Was(0)
  <2>1. SUFFICES ASSUME NEW i, NEW id \in Ids, Asks(up'[m], i, id)
                 PROVE  \/ Asks(up[m], i, id) /\ i \in Nat \ {0} /\ i + 0 = i
                        \/ i = Len(up[m]) + 1 /\ DrawMember(m, id)
    OBVIOUS
  <2>2. \/ Asks(up[m], i, id)
        \/ m = k /\ i = Len(up[m]) + 1 /\ f = Draw(Stamped(id, 0))
    <3>1. PICK to : to = {k}
      OBVIOUS
    <3>2. Asks(Push(up, to, f)[m], i, id)
      BY <1>5, <2>1, <3>1
    <3>3. \/ Asks(up[m], i, id)
          \/ m \in to /\ i = Len(up[m]) + 1 /\ f = Draw(Stamped(id, 0))
      BY <1>0, <1>5, <3>2, PushAsks
    <3> QED
      BY <3>1, <3>3
  <2>3. Asks(up[m], i, id) => i \in Nat \ {0} /\ i + 0 = i
    BY <1>0 DEF Asks
  <2>4. ASSUME m = k, f = Draw(Stamped(id, 0)) PROVE DrawMember(m, id)
    <3>1. f \notin Signal
      BY <2>4, AskingFrames, FrameFacts
    <3>2. Plain("JOIN") \in Signal /\ Plain("LEAVE") \in Signal
      BY MadeFrames DEF Kinds
    <3> QED
      BY <1>5, <2>4, <3>1, <3>2, AskingFrames DEF Sent, PlaceInv
  <2> QED
    BY <2>2, <2>3, <2>4
<1> HIDE DEF Was
<1>6. \E d \in {0, 1} : (Relay(m) => d = 1) /\ Was(d)
  <2>1. CASE Relay(m)
    BY <1>2, <1>3, <2>1
  <2>2. CASE ~Relay(m)
    BY <1>1, <1>2, <1>4, <1>5, <2>2, UpStep
  <2> QED
    BY <2>1, <2>2
<1> QED
  BY <1>6 DEF Was

\* What asks for a stamp at the end of the host's queue was first in that of the
\* member that is being served.
LEMMA DownAsks ==
    ASSUME TypeOK, PlaceInv, [Next]_vars
    PROVE  \E d \in {0, 1} :
              /\ HostReceivesDraw => d = 1
              /\ \A i : \A id \in Ids : Asks(down'[Host], i, id) =>
                    \/ Asks(down[Host], i + d, id) /\ i \in Nat \ {0}
                    \/ /\ d = 0 /\ i = Len(down[Host]) + 1
                       /\ \E m \in Members : Relay(m) /\ Asks(up[m], 1, id)
<1> DEFINE Was(d) == \A i : \A id \in Ids : Asks(down'[Host], i, id) =>
                        \/ Asks(down[Host], i + d, id) /\ i \in Nat \ {0}
                        \/ /\ d = 0 /\ i = Len(down[Host]) + 1
                           /\ \E m \in Members : Relay(m) /\ Asks(up[m], 1, id)
<1>0. /\ Host \in Nodes /\ down \in [Nodes -> Seq(FrameRec)]
      /\ down[Host] \in Seq(FrameRec) /\ DOMAIN down[Host] = 1..Len(down[Host])
  BY LenProperties DEF TypeOK, Nodes
<1>1. ASSUME down'[Host] = down[Host] PROVE Was(0)
  BY <1>0, <1>1 DEF Asks
<1>2. ASSUME down[Host] # <<>>, down'[Host] = Tail(down[Host]) PROVE Was(1)
  BY <1>0, <1>2, TailAsks
<1>3. HostReceivesDraw => down[Host] # <<>> /\ down'[Host] = Tail(down[Host])
  BY <1>0 DEF HostReceivesDraw, Receiving
<1>4. ASSUME NEW k \in Nodes, down[k] # <<>>, down' = [down EXCEPT ![k] = Tail(@)]
      PROVE  \/ down'[Host] = down[Host]
             \/ down[Host] # <<>> /\ down'[Host] = Tail(down[Host])
  BY <1>0, <1>4
<1>5. ASSUME NEW to, NEW f \in FrameRec, down' = Push(down, to, f), Passed(to, f)
      PROVE  Was(0)
  <2>1. SUFFICES ASSUME NEW i, NEW id \in Ids, Asks(down'[Host], i, id)
                 PROVE  \/ Asks(down[Host], i, id) /\ i \in Nat \ {0} /\ i + 0 = i
                        \/ /\ i = Len(down[Host]) + 1
                           /\ \E m \in Members : Relay(m) /\ Asks(up[m], 1, id)
    OBVIOUS
  <2>2. \/ Asks(down[Host], i, id)
        \/ i = Len(down[Host]) + 1 /\ f = Draw(Stamped(id, 0))
    BY <1>0, <1>5, <2>1, PushAsks
  <2>3. Asks(down[Host], i, id) => i \in Nat \ {0} /\ i + 0 = i
    BY <1>0 DEF Asks
  <2>4. ASSUME f = Draw(Stamped(id, 0))
        PROVE  \E m \in Members : Relay(m) /\ Asks(up[m], 1, id)
    <3>1. f \notin FromHost
      BY <2>4, AskingFrames
    <3>2. Plain("ACK") \in FromHost /\ Plain("ERROR") \in FromHost
      BY MadeFrames, FrameFacts DEF Kinds
    <3>3. PICK k \in Nodes : Relay(k) /\ up[k] # <<>> /\ f = Head(up[k])
      BY <1>5, <3>1, <3>2 DEF Passed
    <3>4. k \in Members
      BY <3>1, <3>3, QueueRanges DEF PlaceInv, Nodes
    <3>5. Asks(up[k], 1, id)
      <4>1. up[k] \in Seq(FrameRec)
        BY DEF TypeOK
      <4> QED
        BY <4>1, <3>3, <2>4, LenProperties, EmptySeq DEF Asks
    <3> QED
      BY <3>3, <3>4, <3>5
  <2> QED
    BY <2>2, <2>3, <2>4
<1> HIDE DEF Was
<1>6. \E d \in {0, 1} : (HostReceivesDraw => d = 1) /\ Was(d)
  <2>1. CASE HostReceivesDraw
    BY <1>2, <1>3, <2>1
  <2>2. CASE ~HostReceivesDraw
    BY <1>1, <1>2, <1>4, <1>5, <2>2, DownStep
  <2> QED
    BY <2>1, <2>2
<1> QED
  BY <1>6 DEF Was

\* What has been drawn stays drawn.
LEMMA DrawnStep ==
    ASSUME [Next]_vars
    PROVE  /\ drawn \subseteq drawn'
           /\ \A id \in Ids : DrawHost(id) => /\ id \in Strokes[Host] \ drawn
                                              /\ id \in drawn'
           /\ \A m, id : DrawMember(m, id) => id \in Strokes[m] \ drawn /\ id \in drawn'
<1>1. drawn \subseteq drawn'
  BY DEF Next, Use, Thread, PollThread, Receive, Handler, vars, bounded, LogUi,
     LogPoll, SendUi, SendPoll, DrawHost, DrawMember, ClearCanvas, Join, Leave,
     FinishLeave, RegisterHost, Ack, ServeJoin, ServeLeave, Relay, HostNotYet,
     HostReceivesDraw, HostReceivesRequest, MemberReceivesDraw,
     MemberReceivesState, ReceiveAck, ReceiveError, ReceiveClear
<1> QED
  BY <1>1 DEF DrawHost, DrawMember

\* Ids are distinct: no stroke has the id of an operation from before, and what
\* two nodes have from before under one id is one operation.
DistinctIds ==
    /\ \A n \in Nodes : Strokes[n] \cap StartIds = {}
    /\ \A n, k \in Nodes : \A x \in Range(Start[n]), y \in Range(Start[k]) :
          x.id = y.id => x = y

\* No step stamps an id twice.
LEMMA StampStep ==
    ASSUME DistinctIds, TypeOK, PlaceInv, StampInv, [Next]_vars
    PROVE  StampInv'
<1>a. /\ \A op \in Copies : op.id \in drawn \cup StartIds
      /\ \A x, y \in Copies : x.id = y.id => x = y
  BY DEF StampInv
<1>b. \A m \in Members : \A i : \A id \in Ids : Asks(up[m], i, id) =>
         /\ id \in Strokes[m] /\ id \in drawn
         /\ \A op \in Copies : op.id # id
         /\ \A j : Asks(up[m], j, id) => i = j
         /\ \A j : ~Asks(down[Host], j, id)
  BY DEF StampInv, Asks
<1>c. \A i : \A id \in Ids : Asks(down[Host], i, id) =>
         /\ id \in drawn /\ id \notin StartIds
         /\ \A op \in Copies : op.id # id
         /\ \A j : Asks(down[Host], j, id) => i = j
  BY DEF StampInv, Asks
<1>d. Host \in Nodes /\ Host \notin Members /\ \A m \in Members : m \in Nodes
  BY ReplicationAssumption DEF Nodes
<1>e. /\ \A n \in Nodes : \A id \in Strokes[n] : id \notin StartIds
      /\ \A n, k \in Nodes : \A id \in Strokes[n] \cap Strokes[k] : n = k
  BY ReplicationAssumption DEF DistinctIds
<1>f. \A id, seq : Stamped(id, seq).id = id
  BY DEF Stamped
<1>g. ASSUME HostReceivesDraw
      PROVE  /\ Op1(Head(down[Host])).id \in Ids
             /\ Asks(down[Host], 1, Op1(Head(down[Host])).id)
  <2>1. /\ Head(down[Host]) \in FromMember /\ Head(down[Host]).kind = "DRAW"
        /\ down[Host] # <<>>
    BY <1>d, <1>g, QueueRanges DEF HostReceivesDraw, Receiving, PlaceInv
  <2>2. down[Host] \in Seq(FrameRec)
    BY <1>d DEF TypeOK
  <2> QED
    BY <2>1, <2>2, FrameFacts, LenProperties, EmptySeq DEF Asks
<1>h. drawn \subseteq drawn'
  BY DrawnStep
\* A new copy has an id that was drawn just now, or asked for at the host.
<1>1. ASSUME NEW op \in Copies'
      PROVE  \/ op \in Copies
             \/ /\ op.id \in Strokes[Host] \ drawn /\ op.id \in drawn' /\ op.id \in Ids
                /\ op = Stamped(op.id, next_seq[Host]) /\ ~HostReceivesDraw
             \/ /\ HostReceivesDraw /\ Asks(down[Host], 1, op.id) /\ op.id \in Ids
                /\ op = Stamped(op.id, next_seq[Host])
  <2>1. ASSUME NEW id \in Ids, DrawHost(id) PROVE ~HostReceivesDraw
    BY <2>1 DEF DrawHost, HostReceivesDraw, vars, bounded
  <2> QED
    BY <1>1, <1>f, <1>g, <2>1, CopySource, DrawnStep
<1>2. \A op \in Copies' : op.id \in drawn' \cup StartIds
  BY <1>1, <1>a, <1>c, <1>h
<1>3. \A x, y \in Copies' : x.id = y.id => x = y
  <2> SUFFICES ASSUME NEW x \in Copies', NEW y \in Copies', x.id = y.id PROVE x = y
    OBVIOUS
  <2>1. ASSUME NEW u \in Copies', NEW v \in Copies, u.id = v.id PROVE u \in Copies
    BY <2>1, <1>1, <1>a, <1>c, <1>d, <1>e
  <2>2. CASE x \in Copies \/ y \in Copies
    BY <1>a, <2>1, <2>2
  <2>3. CASE x \notin Copies /\ y \notin Copies
    BY <1>1, <2>3
  <2> QED
    BY <2>2, <2>3
<1>4. ASSUME NEW m \in Members, NEW i, NEW id \in Ids, Asks(up'[m], i, id)
      PROVE  /\ id \in Strokes[m] /\ id \in drawn'
             /\ \A op \in Copies' : op.id # id
             /\ \A j : Asks(up'[m], j, id) => i = j
             /\ \A j : ~Asks(down'[Host], j, id)
  <2>1. PICK d \in {0, 1} :
           /\ Relay(m) => d = 1
           /\ \A k : \A x \in Ids : Asks(up'[m], k, x) =>
                 \/ Asks(up[m], k + d, x) /\ k \in Nat \ {0}
                 \/ d = 0 /\ k = Len(up[m]) + 1 /\ DrawMember(m, x)
    BY UpAsks
  <2>2. PICK e \in {0, 1} :
           \A k : \A x \in Ids : Asks(down'[Host], k, x) =>
              \/ Asks(down[Host], k + e, x) /\ k \in Nat \ {0}
              \/ \E a \in Members : Relay(a) /\ Asks(up[a], 1, x)
    BY DownAsks
  <2>3. CASE DrawMember(m, id)
    <3>1. id \in Strokes[m] \ drawn /\ id \in drawn' /\ id \notin StartIds
      BY <1>d, <1>e, <2>3, DrawnStep
    <3>2. \A op \in Copies' : op.id # id
      BY <1>1, <1>a, <1>c, <1>d, <1>e, <3>1
    <3>3. \A j : Asks(up'[m], j, id) => d = 0 /\ j = Len(up[m]) + 1
      BY <1>b, <2>1, <3>1
    <3>4. \A j : ~Asks(down'[Host], j, id)
      BY <1>b, <1>c, <2>2, <3>1
    <3> QED
      BY <1>4, <3>1, <3>2, <3>3, <3>4
  <2>4. CASE Asks(up[m], i + d, id) /\ i \in Nat \ {0}
    <3>0. /\ id \in Strokes[m] /\ id \in drawn
          /\ \A op \in Copies : op.id # id
          /\ \A j : Asks(up[m], j, id) => i + d = j
          /\ \A j : ~Asks(down[Host], j, id)
      BY <1>b, <2>4
    <3>1. id \in Strokes[m] /\ id \in drawn'
      BY <1>h, <3>0
    <3>2. \A op \in Copies' : op.id # id
      BY <1>1, <3>0
    <3>3. ~DrawMember(m, id)
      BY <3>0, DrawnStep
    <3>4. \A j : Asks(up'[m], j, id) => i = j
      <4>1. ASSUME NEW j, Asks(up'[m], j, id) PROVE i = j
        <5>1. Asks(up[m], j + d, id) /\ j \in Nat \ {0}
          BY <2>1, <3>3, <4>1
        <5> QED
          BY <2>4, <3>0, <5>1
      <4> QED
        BY <4>1
    <3>5. ASSUME NEW a \in Members, Relay(a), Asks(up[a], 1, id) PROVE FALSE
      <4>1. a = m
        BY <1>b, <1>d, <1>e, <3>0, <3>5
      <4> QED
        BY <2>1, <2>4, <3>0, <3>5, <4>1
    <3>6. \A j : ~Asks(down'[Host], j, id)
      BY <2>2, <3>0, <3>5
    <3> QED
      BY <3>1, <3>2, <3>4, <3>6
  <2> QED
    BY <1>4, <2>1, <2>3, <2>4
<1>5. ASSUME NEW i, NEW id \in Ids, Asks(down'[Host], i, id)
      PROVE  /\ id \in drawn' /\ id \notin StartIds
             /\ \A op \in Copies' : op.id # id
             /\ \A j : Asks(down'[Host], j, id) => i = j
  <2>1. PICK d \in {0, 1} :
           /\ HostReceivesDraw => d = 1
           /\ \A k : \A x \in Ids : Asks(down'[Host], k, x) =>
                 \/ Asks(down[Host], k + d, x) /\ k \in Nat \ {0}
                 \/ /\ d = 0 /\ k = Len(down[Host]) + 1
                    /\ \E m \in Members : Relay(m) /\ Asks(up[m], 1, x)
    BY DownAsks
  <2>2. CASE Asks(down[Host], i + d, id) /\ i \in Nat \ {0}
    <3>0. /\ id \in drawn /\ id \notin StartIds
          /\ \A op \in Copies : op.id # id
          /\ \A j : Asks(down[Host], j, id) => i + d = j
          /\ \A m \in Members : \A j : ~Asks(up[m], j, id)
      BY <1>b, <1>c, <2>2
    <3>1. id \in drawn' /\ id \notin StartIds
      BY <1>h, <3>0
    <3>2. \A op \in Copies' : op.id # id
      BY <1>1, <2>1, <2>2, <3>0
    <3>3. ASSUME NEW j, Asks(down'[Host], j, id) PROVE i = j
      <4>1. Asks(down[Host], j + d, id) /\ j \in Nat \ {0}
        BY <2>1, <3>0, <3>3
      <4> QED
        BY <2>2, <3>0, <4>1
    <3> QED
      BY <3>1, <3>2, <3>3
  <2>3. ASSUME d = 0, i = Len(down[Host]) + 1, NEW m \in Members, Asks(up[m], 1, id)
        PROVE  /\ id \in drawn' /\ id \notin StartIds
               /\ \A op \in Copies' : op.id # id
               /\ \A j : Asks(down'[Host], j, id) => i = j
    <3>0. /\ id \in Strokes[m] /\ id \in drawn
          /\ \A op \in Copies : op.id # id
          /\ \A j : ~Asks(down[Host], j, id)
      BY <1>b, <2>3
    <3>1. id \in drawn' /\ id \notin StartIds
      BY <1>d, <1>e, <1>h, <3>0
    <3>2. \A op \in Copies' : op.id # id
      BY <1>1, <3>0
    <3>3. \A j : Asks(down'[Host], j, id) => i = j
      BY <2>1, <2>3, <3>0
    <3> QED
      BY <3>1, <3>2, <3>3
  <2> QED
    BY <1>5, <2>1, <2>2, <2>3
<1> QED
  BY <1>2, <1>3, <1>4, <1>5 DEF StampInv

-----------------------------------------------------------------------------
(* What members show.                                                      *)

\* Who clears, and who is synchronized.
LEMMA ClearsStep ==
    ASSUME TypeOK, [Next]_vars
    PROVE  /\ clears' = 0 => clears = 0 /\ \A n \in Nodes : ~ClearCanvas(n)
           /\ \A m \in Members : session'[m] = "synchronized" =>
                 session[m] = "synchronized" \/ MemberReceivesState(m)
<1>1. clears' = clears \/ \E n \in Nodes : ClearCanvas(n)
  BY DEF Next, Use, Thread, PollThread, Receive, Handler, vars, bounded, LogUi,
     LogPoll, SendUi, SendPoll, DrawHost, DrawMember, Join, Leave, FinishLeave,
     RegisterHost, Ack, ServeJoin, ServeLeave, Relay, HostNotYet,
     HostReceivesDraw, HostReceivesRequest, MemberReceivesDraw,
     MemberReceivesState, ReceiveAck, ReceiveError, ReceiveClear
<1>2. ASSUME NEW n \in Nodes, ClearCanvas(n) PROVE clears' # 0
  BY <1>2, ReplicationAssumption DEF ClearCanvas, TypeOK
<1>3. ASSUME NEW m \in Members, session'[m] = "synchronized"
      PROVE  session[m] = "synchronized" \/ MemberReceivesState(m)
  <2> DEFINE Goal == session[m] = "synchronized" \/ MemberReceivesState(m)
  <2>1. m \in Nodes /\ session \in [Nodes -> Stages]
    BY DEF Nodes, TypeOK
  <2>2. ASSUME NEW k \in Members, Join(k) PROVE Goal
    BY <1>3, <2>1, <2>2 DEF Join
  <2>3. ASSUME NEW n \in Nodes, FinishLeave(n) PROVE Goal
    BY <1>3, <2>1, <2>3 DEF FinishLeave
  <2>4. ASSUME NEW n \in Nodes, ReceiveAck(n) PROVE Goal
    BY <1>3, <2>1, <2>4 DEF ReceiveAck
  <2>5. ASSUME NEW n \in Nodes, ReceiveError(n) PROVE Goal
    BY <1>3, <2>1, <2>5 DEF ReceiveError
  <2>6. ASSUME NEW k \in Members, MemberReceivesState(k) PROVE Goal
    BY <1>3, <2>1, <2>6 DEF MemberReceivesState
  <2> QED
    BY <1>3, <2>2, <2>3, <2>4, <2>5, <2>6
    DEF Next, Use, Thread, PollThread, Receive, Handler, vars, LogUi, LogPoll,
        SendUi, SendPoll, DrawHost, DrawMember, ClearCanvas, Leave, RegisterHost,
        Ack, ServeJoin, ServeLeave, Relay, HostNotYet, HostReceivesDraw,
        HostReceivesRequest, MemberReceivesDraw, ReceiveClear
<1> QED
  BY <1>1, <1>2, <1>3

\* What the host has logged it has, also when it had its id already.
LEMMA HostHasLogged ==
    ASSUME TypeOK, StampInv, NEW op \in Copies, LogOp(Host, op)
    PROVE  op \in Ops(Host)'
<1>1. /\ Host \in Nodes /\ history \in [Nodes -> Seq(StampedOp)]
      /\ history[Host] \in Seq(StampedOp)
  BY DEF TypeOK, Nodes
<1>2. CASE op.id \in IdsOf(history[Host])
  <2>1. PICK i \in 1..Len(history[Host]) : history[Host][i].id = op.id
    BY <1>2 DEF IdsOf
  <2>2. history[Host][i] \in StampedOp /\ history[Host][i] \in Ops(Host)
    BY <1>1, <2>1, ElementOfSeq DEF Ops
  <2>3. history[Host][i] \in Copies
    BY <1>1, <2>2 DEF Copies, Held, StampedOp
  <2>4. history[Host][i] = op
    BY <2>1, <2>3 DEF StampInv
  <2> QED
    BY <1>2, <2>2, <2>4 DEF LogOp, canvases, Ops
<1>3. CASE op.id \notin IdsOf(history[Host])
  <2>1. history'[Host] = Append(history[Host], op)
    BY <1>1, <1>3 DEF LogOp
  <2>2. /\ Len(history'[Host]) = Len(history[Host]) + 1
        /\ history'[Host][Len(history[Host]) + 1] = op /\ Len(history[Host]) \in Nat
    BY <1>1, <2>1
  <2> QED
    BY <2>2 DEF Ops
<1> QED
  BY <1>2, <1>3

\* A canvas that takes one more operation keeps the others.
LEMMA OpsAppend ==
    ASSUME TypeOK, NEW n \in Nodes, NEW op, history'[n] = Append(history[n], op)
    PROVE  /\ \A x \in Ops(n) : x \in Ops(n)'
           /\ \A x \in Ops(n)' : x \in Ops(n) \/ x = op
<1>1. history[n] \in Seq(StampedOp)
  BY DEF TypeOK
<1> QED
  BY <1>1 DEF Ops

\* Until somebody clears, what is on its way to a member stays the host's.
LEMMA ShowStep ==
    ASSUME TypeOK, PlaceInv, StampInv, ShowInv, [Next]_vars
    PROVE  ShowInv'
<1> SUFFICES ASSUME clears' = 0 PROVE ShowInv'
  BY DEF ShowInv
<1>a. clears = 0 /\ \A n \in Nodes : ~ClearCanvas(n)
  BY ClearsStep
<1>b. /\ Host \in Nodes /\ Host \notin Members /\ \A m \in Members : m \in Nodes
      /\ \A n \in Nodes : n = Host \/ n \in Members
  BY ReplicationAssumption DEF Nodes
<1>c. /\ \A f \in Range(up[Host]) : Known(f)
      /\ \A m \in Members :
            /\ \A f \in Range(down[m]) : Known(f)
            /\ \A f \in Range(up[m]) : f.kind # "CLEAR"
            /\ session[m] = "synchronized" => Ops(m) \subseteq Ops(Host)
            /\ poll[m].step # "idle" => Known(poll[m].frame)
            /\ ui[m].step # "idle" => Known(ui[m].frame)
      /\ \A f \in Range(down[Host]) : f.kind # "CLEAR"
      /\ poll[Host].step = "send" => Known(poll[Host].frame)
      /\ ui[Host].step = "send" => Known(ui[Host].frame)
  BY <1>a DEF ShowInv
<1>d. \A n \in Nodes : ~ReceiveClear(n)
  BY <1>b, <1>c, QueueRanges DEF ReceiveClear, Receiving, Known
<1>e. \A x \in Ops(Host) : x \in Ops(Host)'
  <2>1. history'[Host] = history[Host] => \A x \in Ops(Host) : x \in Ops(Host)'
    BY DEF Ops
  <2> QED
    BY <1>a, <1>b, <1>d, <2>1, CanvasStep, OpsAppend
<1> DEFINE Stays(f) == f.kind # "CLEAR" /\ \A x \in Range(f.ops) : x \in Ops(Host)'
<1>f. \A f : Known(f) => Stays(f)
  BY <1>e DEF Known
<1>g. \A kind \in Kinds \ {"DRAW", "STATE", "CLEAR"} :
         Known(Plain(kind)) /\ Plain(kind).kind # "CLEAR"
  BY MadeFrames, FrameFacts DEF Known
<1>h. \A f : /\ Task("log", f).step = "log" /\ Task("log", f).frame = f
             /\ Task("send", f).step = "send" /\ Task("send", f).frame = f
             /\ Task("leave", f).step = "leave" /\ Task("leave", f).frame = f
  BY DEF Task
<1>1. ASSUME NEW f \in Range(up'[Host]) PROVE Stays(f)
  <2>1. f \in Range(up[Host]) \/ Sent(Host, f)
    BY <1>1, <1>b, UpSource
  <2> QED
    BY <2>1, <1>b, <1>c, <1>f DEF Sent
<1>2. ASSUME NEW m \in Members, NEW f \in Range(down'[m]) PROVE Stays(f)
  <2>1. \/ f \in Range(down[m]) \/ f \in {Plain("ACK"), Plain("ERROR")}
        \/ f \in Range(up[Host])
    BY <1>2, <1>b, <1>c, DownSource DEF Known
  <2> QED
    BY <2>1, <1>c, <1>f, <1>g DEF Kinds
<1>3. ASSUME NEW m \in Members, NEW f \in Range(up'[m]) PROVE f.kind # "CLEAR"
  <2>1. f \in Range(up[m]) \/ Sent(m, f)
    BY <1>3, <1>b, UpSource
  <2>2. \A id : Draw(Stamped(id, 0)).kind # "CLEAR"
    BY DEF Draw
  <2>3. Plain("JOIN").kind # "CLEAR" /\ Plain("LEAVE").kind # "CLEAR"
    BY DEF Plain
  <2> QED
    BY <2>1, <2>2, <2>3, <1>c DEF Sent, Known
<1>4. ASSUME NEW f \in Range(down'[Host]) PROVE f.kind # "CLEAR"
  <2>1. Plain("ACK").kind # "CLEAR" /\ Plain("ERROR").kind # "CLEAR"
    BY DEF Plain
  <2> QED
    BY <1>4, <1>b, <1>c, <2>1, DownSource DEF Known
<1>5. ASSUME NEW m \in Members, session'[m] = "synchronized"
      PROVE  \A x \in Ops(m)' : x \in Ops(Host)'
  <2>1. CASE MemberReceivesState(m)
    <3>1. /\ Head(down[m]) \in Range(down[m]) /\ Head(down[m]) \in FromHost
          /\ Known(Head(down[m]))
      BY <1>b, <1>c, <2>1, QueueRanges DEF MemberReceivesState, Receiving, PlaceInv
    <3>2. history'[m] = Head(down[m]).ops
      BY <1>b, <2>1 DEF MemberReceivesState, TypeOK
    <3>3. \A x \in Ops(m)' : x \in Range(Head(down[m]).ops)
      BY <3>1, <3>2, FrameFacts, LenProperties DEF Ops, Range
    <3> QED
      BY <1>e, <3>1, <3>3 DEF Known
  <2>2. CASE ~MemberReceivesState(m) /\ session[m] = "synchronized"
    <3>1. \A x \in Ops(m) : x \in Ops(Host)'
      BY <1>c, <1>e, <2>2
    <3>2. CASE history'[m] = history[m]
      BY <3>1, <3>2 DEF Ops
    <3>3. CASE /\ poll[m].step = "log"
               /\ history'[m] = Append(history[m], Op1(poll[m].frame))
      <4>1. Op1(poll[m].frame) \in Ops(Host)
        <5>1. poll[m].frame \in Stroke /\ Known(poll[m].frame)
          BY <1>b, <1>c, <3>3 DEF PlaceInv
        <5> QED
          BY <5>1, FrameFacts DEF Stroke, Known
      <4> QED
        BY <1>b, <1>e, <3>1, <3>3, <4>1, OpsAppend
    <3>4. ui[m].step # "log"
      BY <1>b DEF PlaceInv
    <3> QED
      BY <1>a, <1>b, <1>d, <2>2, <3>2, <3>3, <3>4, CanvasStep
  <2> QED
    BY <1>5, <2>1, <2>2, ClearsStep
<1>6. ASSUME NEW m \in Members, poll'[m].step # "idle" PROVE Stays(poll'[m].frame)
  <2>1. ASSUME MemberReceivesDraw(m) PROVE Stays(Draw(Op1(Head(down[m]))))
    <3>1. /\ Head(down[m]) \in FromHost /\ Head(down[m]).kind = "DRAW"
          /\ Known(Head(down[m]))
      BY <1>b, <1>c, <2>1, QueueRanges DEF MemberReceivesDraw, Receiving, PlaceInv
    <3> QED
      BY <1>f, <3>1, FrameFacts
  <2> QED
    BY <1>6, <1>b, <1>c, <1>f, <1>g, <1>h, <2>1, PollStep, MadeFrames DEF Kinds
<1>7. ASSUME NEW m \in Members, ui'[m].step # "idle" PROVE Stays(ui'[m].frame)
  BY <1>7, <1>a, <1>b, <1>c, <1>f, <1>g, <1>h, UiStep, MadeFrames DEF Kinds
<1>8. ASSUME NEW f \in Stroke, LogOp(Host, Op1(f)),
             f = ui[Host].frame \/ f = poll[Host].frame
      PROVE  Stays(f)
  <2>1. Op1(f) \in StampedOp /\ Range(f.ops) = {Op1(f)} /\ f.kind # "CLEAR"
    BY FrameFacts DEF Stroke
  <2>2. Op1(f) \in Copies
    <3>1. Host \in Nodes
      BY DEF Nodes
    <3>2. Op1(f) \in Held(Host)
      BY <1>8, <2>1 DEF Held
    <3>3. Op1(f).seq # 0
      BY <2>1 DEF StampedOp
    <3> QED
      BY <3>1, <3>2, <3>3 DEF Copies
  <2>3. Op1(f) \in Ops(Host)'
    BY <1>8, <2>2, HostHasLogged
  <2> QED
    BY <2>1, <2>3 DEF Known
<1>9. ASSUME poll'[Host].step = "send" PROVE Stays(poll'[Host].frame)
  <2>1. ASSUME LogPoll(Host) PROVE Stays(poll[Host].frame)
    BY <1>8, <1>b, <2>1 DEF LogPoll, PlaceInv
  <2>2. Stays(State(history[Host]))
    <3>1. \A x \in Range(history[Host]) : x \in Ops(Host)
      BY <1>b, LenProperties DEF Range, Ops, TypeOK
    <3>2. State(history[Host]).kind # "CLEAR" /\ State(history[Host]).ops = history[Host]
      BY DEF State
    <3> QED
      BY <1>e, <3>1, <3>2
  <2> QED
    BY <1>9, <1>b, <1>c, <1>f, <1>h, <2>1, <2>2, PollStep, MadeFrames
<1>10. ASSUME ui'[Host].step = "send" PROVE Stays(ui'[Host].frame)
  <2>1. ASSUME LogUi(Host) PROVE Stays(ui[Host].frame)
    BY <1>8, <1>b, <2>1 DEF LogUi, PlaceInv
  <2> QED
    BY <1>10, <1>a, <1>b, <1>c, <1>f, <1>h, <2>1, UiStep, MadeFrames
<1> QED
  BY <1>1, <1>2, <1>3, <1>4, <1>5, <1>6, <1>7, <1>9, <1>10 DEF ShowInv, Known

-----------------------------------------------------------------------------
(* The order of what members show.                                         *)

\* Prefixes, element by element.
LEMMA PrefixIs ==
    ASSUME NEW S, NEW s \in Seq(S), NEW t \in Seq(S)
    PROVE  IsPrefix(s, t) <=> /\ Len(s) <= Len(t)
                              /\ \A i \in 1..Len(s) : s[i] = t[i]
<1>1. Len(s) \in Nat /\ Len(t) \in Nat
  BY LenProperties
<1>2. /\ SubSeq(s, 1, Len(s)) \in Seq(S) /\ Len(SubSeq(s, 1, Len(s))) = Len(s)
      /\ \A i \in 1..Len(s) : SubSeq(s, 1, Len(s))[i] = s[i]
  BY <1>1
<1>3. ASSUME Len(s) <= Len(t)
      PROVE  /\ SubSeq(t, 1, Len(s)) \in Seq(S)
             /\ Len(SubSeq(t, 1, Len(s))) = Len(s)
             /\ \A i \in 1..Len(s) : SubSeq(t, 1, Len(s))[i] = t[i]
  BY <1>1, <1>3
<1> QED
  BY <1>1, <1>2, <1>3, SeqEqual DEF IsPrefix

\* The operation after a prefix makes a longer one, and a longer sequence has the
\* prefixes it had.
LEMMA PrefixAppend ==
    ASSUME NEW S, NEW s \in Seq(S), NEW t \in Seq(S), IsPrefix(s, t), NEW e \in S
    PROVE  /\ IsPrefix(s, Append(t, e))
           /\ \A i \in 1..Len(t) : i = Len(s) + 1 => IsPrefix(Append(s, t[i]), t)
<1>0. /\ Len(s) <= Len(t) /\ \A i \in 1..Len(s) : s[i] = t[i]
      /\ Len(s) \in Nat /\ Len(t) \in Nat
  BY PrefixIs, LenProperties
<1>1. IsPrefix(s, Append(t, e))
  <2> DEFINE longer == Append(t, e)
  <2>1. /\ longer \in Seq(S) /\ Len(longer) = Len(t) + 1
        /\ \A i \in 1..Len(t) : longer[i] = t[i]
    BY <1>0
  <2> HIDE DEF longer
  <2>2. Len(s) <= Len(longer) /\ \A i \in 1..Len(s) : s[i] = longer[i]
    BY <1>0, <2>1
  <2>3. IsPrefix(s, longer)
    BY <2>1, <2>2, PrefixIs
  <2> QED
    BY <2>3 DEF longer
<1>2. ASSUME NEW i \in 1..Len(t), i = Len(s) + 1 PROVE IsPrefix(Append(s, t[i]), t)
  <2>0. t[i] \in S
    BY <1>2, ElementOfSeq
  <2> DEFINE longer == Append(s, t[i])
  <2>1. /\ longer \in Seq(S) /\ Len(longer) = Len(s) + 1
        /\ \A k \in 1..Len(s) : longer[k] = s[k]
        /\ longer[Len(s) + 1] = t[i]
    BY <1>0, <2>0
  <2> HIDE DEF longer
  <2>2. Len(longer) <= Len(t) /\ \A k \in 1..Len(longer) : longer[k] = t[k]
    BY <1>0, <1>2, <2>1
  <2>3. IsPrefix(longer, t)
    BY <2>1, <2>2, PrefixIs
  <2> QED
    BY <2>3 DEF longer
<1> QED
  BY <1>1, <1>2

\* Only its poll thread uses the host's canvas, and nobody clears.
HostServes == Strokes[Host] = {} /\ Clearers = {}

\* The host's history from before the session.
LEMMA StartFacts ==
    /\ Start[Host] \in Seq(StampedOp) /\ Len(Start[Host]) \in Nat
    /\ NextAfter(Start[Host]) \in Nat \ {0}
BY ReplicationAssumption, NextAfterIs, LenProperties DEF Nodes

\* A numbered history goes on with the number after its last.
LEMMA NumberedNext ==
    ASSUME NEW ops \in Seq(StampedOp), Numbered(ops)
    PROVE  /\ NextAfter(ops) = NextAfter(Start[Host]) + Len(ops) - Len(Start[Host])
           /\ Len(ops) \in Nat /\ Len(Start[Host]) <= Len(ops)
<1> DEFINE start == Start[Host]
           first == NextAfter(start)
<1>0. /\ start \in Seq(StampedOp) /\ Len(start) \in Nat /\ first \in Nat \ {0}
      /\ Len(ops) \in Nat
  BY StartFacts, LenProperties
<1>1. Len(start) <= Len(ops) /\ \A i \in 1..Len(start) : start[i] = ops[i]
  BY <1>0, PrefixIs DEF Numbered
<1>2. \A i \in Len(start) + 1..Len(ops) : ops[i].seq = first + i - Len(start) - 1
  BY DEF Numbered
<1>3. \A y \in SeqsOf(start) : y \in Nat \ {0} /\ y < first
  BY <1>0, NextAfterIs
<1> HIDE DEF start, first
<1>4. CASE Len(ops) = Len(start)
  <2>1. ops = start
    BY <1>0, <1>1, <1>4, SeqEqual
  <2> QED
    BY <1>0, <1>4, <2>1 DEF start, first
<1>5. CASE Len(ops) > Len(start)
  <2> DEFINE last == first + Len(ops) - Len(start) - 1
  <2>1. last \in Nat /\ ops[Len(ops)].seq = last /\ Len(ops) \in 1..Len(ops)
    BY <1>0, <1>2, <1>5
  <2>2. last \in SeqsOf(ops)
    BY <2>1 DEF SeqsOf
  <2>3. ASSUME NEW i \in 1..Len(ops) PROVE ops[i].seq <= last
    <3>1. CASE i \in 1..Len(start)
      <4>1. ops[i].seq \in SeqsOf(start)
        BY <1>1, <3>1 DEF SeqsOf
      <4>2. ops[i].seq \in Nat /\ ops[i].seq < first
        BY <1>3, <4>1
      <4> QED
        BY <1>0, <1>5, <4>2
    <3>2. CASE i \in Len(start) + 1..Len(ops)
      BY <1>0, <1>2, <3>2
    <3> QED
      BY <1>0, <3>1, <3>2
  <2>4. \A y \in SeqsOf(ops) : y <= last
    BY <2>3 DEF SeqsOf
  <2> HIDE DEF last
  <2>5. NextAfter(ops) = last + 1
    BY <2>2, <2>4, NextAfterIs
  <2> QED
    BY <1>0, <1>5, <2>5 DEF last, start, first
<1> QED
  BY <1>0, <1>1, <1>4, <1>5 DEF start

\* A prefix of a numbered history is numbered, if it begins with Start as well.
LEMMA NumberedPrefix ==
    ASSUME NEW s \in Seq(StampedOp), NEW t \in Seq(StampedOp), Numbered(t),
           IsPrefix(Start[Host], s), IsPrefix(s, t)
    PROVE  Numbered(s)
<1>1. /\ Len(s) <= Len(t) /\ \A i \in 1..Len(s) : s[i] = t[i]
      /\ Len(s) \in Nat /\ Len(t) \in Nat /\ Len(Start[Host]) \in Nat
  BY PrefixIs, LenProperties, StartFacts
<1> QED
  BY <1>1 DEF Numbered

\* The numbers of a numbered history.
LEMMA OneMore ==
    \A first, length, start \in Nat :
        /\ first + (length + 1) - start = (first + length - start) + 1
        /\ first + (length + 1) - start - 1 = first + length - start
OBVIOUS

\* Equal numbers are those of one place.
LEMMA SameNumber ==
    \A first, length, start \in Nat : \A i \in Int :
        first + i - start - 1 = first + length - start => i = length + 1
OBVIOUS

\* The operation that takes the next number goes on with the numbering.
LEMMA NumberedAppend ==
    ASSUME NEW ops \in Seq(StampedOp), Numbered(ops), NEW op \in StampedOp,
           op.seq = NextAfter(ops)
    PROVE  /\ Append(ops, op) \in Seq(StampedOp) /\ Numbered(Append(ops, op))
           /\ NextAfter(Append(ops, op)) = NextAfter(ops) + 1
<1>0. /\ Start[Host] \in Seq(StampedOp) /\ Len(Start[Host]) \in Nat
      /\ NextAfter(Start[Host]) \in Nat \ {0}
      /\ NextAfter(ops) = NextAfter(Start[Host]) + Len(ops) - Len(Start[Host])
      /\ Len(ops) \in Nat /\ Len(Start[Host]) <= Len(ops)
  BY StartFacts, NumberedNext
<1> DEFINE longer == Append(ops, op)
<1>1. /\ longer \in Seq(StampedOp) /\ Len(longer) = Len(ops) + 1
      /\ \A i \in 1..Len(ops) : longer[i] = ops[i]
      /\ longer[Len(ops) + 1] = op
  BY <1>0
<1>2. IsPrefix(Start[Host], longer)
  BY <1>0, PrefixAppend DEF Numbered
<1> SUFFICES Numbered(longer) /\ NextAfter(longer) = NextAfter(ops) + 1
  BY <1>1
<1> HIDE DEF longer
<1>3. ASSUME NEW i \in Len(Start[Host]) + 1..Len(longer)
      PROVE  longer[i].seq = NextAfter(Start[Host]) + i - Len(Start[Host]) - 1
  <2>1. CASE i = Len(ops) + 1
    <3>1. longer[i].seq = NextAfter(Start[Host]) + Len(ops) - Len(Start[Host])
      BY <1>0, <1>1, <2>1
    <3> QED
      BY <1>0, <2>1, <3>1, OneMore
  <2>2. CASE i # Len(ops) + 1
    <3>1. i \in Len(Start[Host]) + 1..Len(ops) /\ i \in 1..Len(ops)
      BY <1>0, <1>1, <2>2
    <3> QED
      BY <1>1, <3>1 DEF Numbered
  <2> QED
    BY <2>1, <2>2
<1>4. Numbered(longer)
  BY <1>2, <1>3 DEF Numbered
<1>5. NextAfter(longer) = NextAfter(Start[Host]) + Len(longer) - Len(Start[Host])
  BY <1>1, <1>4, NumberedNext
<1>6. NextAfter(longer) = NextAfter(ops) + 1
  <2>1. NextAfter(longer) = NextAfter(Start[Host]) + (Len(ops) + 1) - Len(Start[Host])
    BY <1>1, <1>5
  <2>2. @ = (NextAfter(Start[Host]) + Len(ops) - Len(Start[Host])) + 1
    BY <1>0, OneMore
  <2> QED
    BY <1>0, <2>1, <2>2
<1> QED
  BY <1>4, <1>6

\* The poll thread of the host has what it will log until it logs it.
LEMMA LogWaits ==
    ASSUME TypeOK, [Next]_vars, NEW n \in Nodes, poll[n].step = "log", ~LogPoll(n)
    PROVE  poll'[n] = poll[n]
<1>1. poll \in [Nodes -> TaskRec] /\ poll[n] # Idle
  BY MadeFrames DEF TypeOK
<1>2. ASSUME NEW k \in Nodes, LogPoll(k) PROVE poll'[n] = poll[n]
  BY <1>1, <1>2 DEF LogPoll
<1>3. ASSUME NEW k \in Nodes, SendPoll(k) PROVE poll'[n] = poll[n]
  BY <1>1, <1>3 DEF SendPoll
<1>4. ASSUME HostReceivesDraw PROVE poll'[n] = poll[n]
  BY <1>1, <1>4 DEF HostReceivesDraw, Receiving
<1>5. ASSUME HostReceivesRequest PROVE poll'[n] = poll[n]
  BY <1>1, <1>5 DEF HostReceivesRequest, Receiving
<1>6. ASSUME NEW m \in Members, MemberReceivesDraw(m) PROVE poll'[n] = poll[n]
  BY <1>1, <1>6 DEF MemberReceivesDraw, Receiving
<1>7. ASSUME NEW k \in Nodes, ReceiveAck(k) PROVE poll'[n] = poll[n]
  BY <1>1, <1>7 DEF ReceiveAck, Receiving
<1> QED
  BY <1>2, <1>3, <1>4, <1>5, <1>6, <1>7
  DEF Next, Use, Thread, PollThread, Receive, Handler, vars, LogUi, SendUi,
      DrawHost, DrawMember, ClearCanvas, Join, Leave, FinishLeave, RegisterHost,
      Ack, ServeJoin, ServeLeave, Relay, HostNotYet, MemberReceivesState,
      ReceiveError, ReceiveClear

\* What the host's poll thread stamps is next in its history, and goes out as it
\* is there.
LEMMA HostOrder ==
    ASSUME HostServes, TypeOK, PlaceInv, OrderInv, [Next]_vars
    PROVE  /\ ui'[Host] = Idle
           /\ \A n \in Nodes : ~ClearCanvas(n) /\ ~ReceiveClear(n)
           /\ Numbered(history'[Host])
           /\ \/ history'[Host] = history[Host]
              \/ \E op \in StampedOp : history'[Host] = Append(history[Host], op)
           /\ IF poll'[Host].step = "log"
              THEN /\ Op1(poll'[Host].frame).seq = NextAfter(history'[Host])
                   /\ Op1(poll'[Host].frame).id \notin IdsOf(history'[Host])
                   /\ next_seq'[Host] = NextAfter(history'[Host]) + 1
              ELSE next_seq'[Host] = NextAfter(history'[Host])
<1>a. /\ Host \in Nodes /\ Host \notin Members /\ \A m \in Members : m \in Nodes
      /\ \A n \in Nodes : n = Host \/ n \in Members
  BY ReplicationAssumption DEF Nodes
<1>b. /\ ui[Host] = Idle /\ Numbered(history[Host])
      /\ \A f \in Range(down[Host]) : f.kind # "CLEAR"
      /\ \A m \in Members : \A f \in Range(down[m]) : f.kind # "CLEAR"
  BY DEF OrderInv, Ordered
<1>c. \A n \in Nodes : ~ClearCanvas(n) /\ ~ReceiveClear(n)
  <2>1. \A n \in Nodes : \A f \in Range(down[n]) : f.kind # "CLEAR"
    BY <1>a, <1>b
  <2> QED
    BY <2>1, QueueRanges DEF ClearCanvas, HostServes, ReceiveClear, Receiving
<1>d. \A id : ~DrawHost(id)
  BY DEF DrawHost, HostServes
<1>e. /\ history[Host] \in Seq(StampedOp) /\ NextAfter(history[Host]) \in Nat \ {0}
      /\ history \in [Nodes -> Seq(StampedOp)] /\ next_seq \in [Nodes -> Nat \ {0}]
      /\ poll \in [Nodes -> TaskRec] /\ ui \in [Nodes -> TaskRec]
  BY <1>a, NextAfterIs DEF TypeOK
<1>f. \A f : /\ Task("log", f).step = "log" /\ Task("log", f).frame = f
             /\ Task("send", f).step = "send" /\ Task("send", f).frame = f
  BY DEF Task
<1>1. ui'[Host] = Idle
  <2>1. ~LogUi(Host)
    BY <1>b, MadeFrames DEF LogUi
  <2> QED
    BY <1>a, <1>b, <1>c, <1>d, <2>1, UiStep
<1> DEFINE Grown == \/ history'[Host] = history[Host]
                    \/ \E op \in StampedOp : history'[Host] = Append(history[Host], op)
           Stamps == IF poll'[Host].step = "log"
                     THEN /\ Op1(poll'[Host].frame).seq = NextAfter(history'[Host])
                          /\ Op1(poll'[Host].frame).id \notin IdsOf(history'[Host])
                          /\ next_seq'[Host] = NextAfter(history'[Host]) + 1
                     ELSE next_seq'[Host] = NextAfter(history'[Host])
           Goal == Numbered(history'[Host]) /\ Grown /\ Stamps
<1>2. ASSUME HostReceivesDraw PROVE Goal
  <2> DEFINE id == Op1(Head(down[Host])).id
  <2>1. /\ history'[Host] = history[Host] /\ poll[Host] = Idle
        /\ IF id \in IdsOf(history[Host])
           THEN next_seq'[Host] = next_seq[Host] /\ poll'[Host] = poll[Host]
           ELSE /\ next_seq'[Host] = next_seq[Host] + 1
                /\ poll'[Host] = Task("log", Draw(Stamped(id, next_seq[Host])))
    BY <1>2, <1>a, <1>e DEF HostReceivesDraw, Receiving, TakeSeq
  <2>2. poll[Host].step = "idle" /\ next_seq[Host] = NextAfter(history[Host])
    BY <2>1, MadeFrames DEF OrderInv
  <2>3. \A seq : Op1(Draw(Stamped(id, seq))) = Stamped(id, seq)
    BY DEF Op1, Draw
  <2>4. \A seq : Stamped(id, seq).id = id /\ Stamped(id, seq).seq = seq
    BY DEF Stamped
  <2> HIDE DEF id
  <2>5. Numbered(history'[Host]) /\ Grown
    BY <1>b, <2>1
  <2>6. CASE id \in IdsOf(history[Host])
    BY <2>1, <2>2, <2>5, <2>6
  <2>7. CASE id \notin IdsOf(history[Host])
    <3>1. Op1(poll'[Host].frame) = Stamped(id, next_seq[Host])
      BY <1>f, <2>1, <2>3, <2>7
    <3> QED
      BY <1>f, <2>1, <2>2, <2>4, <2>5, <2>7, <3>1
  <2> QED
    BY <2>6, <2>7
<1>3. ASSUME LogPoll(Host) PROVE Goal
  <2> DEFINE op == Op1(poll[Host].frame)
  <2>1. /\ poll[Host].step = "log" /\ LogOp(Host, op)
        /\ poll'[Host] = Task("send", poll[Host].frame)
    BY <1>3, <1>a, <1>e DEF LogPoll, AfterLog
  <2>2. /\ op.seq = NextAfter(history[Host]) /\ op.id \notin IdsOf(history[Host])
        /\ next_seq[Host] = NextAfter(history[Host]) + 1
    BY <2>1 DEF OrderInv
  <2>3. op \in StampedOp
    BY <2>1, <1>a, FrameFacts DEF PlaceInv, Stroke
  <2> HIDE DEF op
  <2>4. /\ history'[Host] = Append(history[Host], op)
        /\ next_seq'[Host] = IF op.seq >= next_seq[Host] THEN op.seq + 1
                             ELSE next_seq[Host]
    BY <1>a, <1>e, <2>1, <2>2 DEF LogOp
  <2>5. next_seq'[Host] = NextAfter(history[Host]) + 1
    BY <1>e, <2>2, <2>4
  <2>6. /\ Numbered(history'[Host])
        /\ NextAfter(history'[Host]) = NextAfter(history[Host]) + 1
    BY <1>b, <1>e, <2>2, <2>3, <2>4, NumberedAppend
  <2>7. poll'[Host].step # "log"
    BY <1>f, <2>1
  <2>8. Grown
    BY <2>3, <2>4
  <2>9. Stamps
    BY <2>5, <2>6, <2>7
  <2> QED
    BY <2>6, <2>8, <2>9
<1>4. ASSUME ~HostReceivesDraw, ~LogPoll(Host) PROVE Goal
  <2>1. ui[Host].step # "log" /\ ~(Host \in Members)
    BY <1>a, <1>b, MadeFrames
  <2>2. history'[Host] = history[Host] /\ next_seq'[Host] = next_seq[Host]
    BY <1>4, <1>a, <1>c, <1>d, <2>1, CanvasStep
  <2>0. Numbered(history'[Host]) /\ Grown
    BY <1>b, <2>2
  <2>3. CASE poll[Host].step = "log"
    <3>1. poll'[Host] = poll[Host]
      BY <1>4, <1>a, <2>3, LogWaits
    <3>2. /\ Op1(poll[Host].frame).seq = NextAfter(history[Host])
          /\ Op1(poll[Host].frame).id \notin IdsOf(history[Host])
          /\ next_seq[Host] = NextAfter(history[Host]) + 1
      BY <2>3 DEF OrderInv
    <3> QED
      BY <2>0, <2>2, <2>3, <3>1, <3>2
  <2>4. CASE poll[Host].step # "log"
    <3>1. poll'[Host].step # "log"
      BY <1>4, <1>a, <1>f, <2>4, PollStep, MadeFrames
    <3>2. next_seq[Host] = NextAfter(history[Host])
      BY <2>4 DEF OrderInv
    <3> QED
      BY <2>0, <2>2, <3>1, <3>2
  <2> QED
    BY <2>3, <2>4
<1>5. Goal
  BY <1>2, <1>3, <1>4
<1> QED
  BY <1>1, <1>c, <1>5

\* Every step keeps the host's numbering and what is on its way to the members as
\* the host has numbered it, and a member takes the next operation or a snapshot.
LEMMA OrderStep ==
    ASSUME HostServes, TypeOK, PlaceInv, OrderInv, [Next]_vars
    PROVE  OrderInv'
<1>a. /\ Host \in Nodes /\ Host \notin Members /\ \A m \in Members : m \in Nodes
      /\ \A n \in Nodes : n = Host \/ n \in Members
  BY ReplicationAssumption DEF Nodes
<1>b. /\ ui[Host] = Idle /\ Numbered(history[Host])
      /\ poll[Host].step # "log" => Ordered(poll[Host].frame)
      /\ \A f \in Range(up[Host]) : Ordered(f)
      /\ \A f \in Range(down[Host]) : f.kind # "CLEAR"
      /\ \A m \in Members :
            /\ \A f \in Range(down[m]) : Ordered(f)
            /\ \A f \in Range(up[m]) : f.kind # "CLEAR"
            /\ Ordered(poll[m].frame)
            /\ ui[m].frame.kind = "none"
            /\ poll[m].step = "log" => Op1(poll[m].frame).seq = next_seq[m]
            /\ session[m] = "synchronized" =>
                  /\ IsPrefix(Start[Host], history[m])
                  /\ IsPrefix(history[m], history[Host])
                  /\ next_seq[m] = NextAfter(history[m])
  BY DEF OrderInv
<1>c. /\ \A n \in Nodes : ~ClearCanvas(n) /\ ~ReceiveClear(n)
      /\ \A id : ~DrawHost(id)
  BY HostOrder DEF DrawHost, HostServes
<1>d. /\ history[Host] \in Seq(StampedOp) /\ Start[Host] \in Seq(StampedOp)
      /\ Len(history[Host]) \in Nat /\ Len(Start[Host]) \in Nat
      /\ history \in [Nodes -> Seq(StampedOp)] /\ next_seq \in [Nodes -> Nat \ {0}]
      /\ poll \in [Nodes -> TaskRec]
  BY <1>a, StartFacts, LenProperties DEF TypeOK
<1>e. /\ history'[Host] \in Seq(StampedOp)
      /\ \A s \in Seq(StampedOp) :
            IsPrefix(s, history[Host]) => IsPrefix(s, history'[Host])
      /\ Len(history[Host]) <= Len(history'[Host]) /\ Len(history'[Host]) \in Nat
      /\ \A i \in 1..Len(history[Host]) : history'[Host][i] = history[Host][i]
  <2>1. ASSUME NEW op \in StampedOp, history'[Host] = Append(history[Host], op)
        PROVE  /\ history'[Host] \in Seq(StampedOp)
               /\ \A s \in Seq(StampedOp) :
                     IsPrefix(s, history[Host]) => IsPrefix(s, history'[Host])
               /\ Len(history'[Host]) = Len(history[Host]) + 1
               /\ \A i \in 1..Len(history[Host]) : history'[Host][i] = history[Host][i]
    <3>1. \A s \in Seq(StampedOp) :
             IsPrefix(s, history[Host]) => IsPrefix(s, history'[Host])
      BY <1>d, <2>1, PrefixAppend
    <3> QED
      BY <1>d, <2>1, <3>1
  <2> QED
    BY <1>d, <2>1, HostOrder
<1> DEFINE Stays(f) ==
              /\ f.kind # "CLEAR"
              /\ f.kind = "DRAW" =>
                    \E i \in Len(Start[Host]) + 1..Len(history'[Host]) :
                        f.ops = <<history'[Host][i]>>
              /\ f.kind = "STATE" => /\ IsPrefix(Start[Host], f.ops)
                                     /\ IsPrefix(f.ops, history'[Host])
<1>f. ASSUME NEW f \in FromHost, Ordered(f) PROVE Stays(f)
  <2>1. f.ops \in Seq(StampedOp)
    BY <1>f, FrameFacts
  <2>2. CASE f.kind = "DRAW"
    <3>1. PICK i \in Len(Start[Host]) + 1..Len(history[Host]) :
             f.ops = <<history[Host][i]>>
      BY <1>f, <2>2 DEF Ordered
    <3>2. /\ i \in Len(Start[Host]) + 1..Len(history'[Host])
          /\ history'[Host][i] = history[Host][i]
      BY <1>d, <1>e, <3>1
    <3> QED
      BY <2>2, <3>1, <3>2
  <2>3. CASE f.kind = "STATE"
    BY <1>e, <1>f, <2>1, <2>3 DEF Ordered
  <2> QED
    BY <1>f, <2>2, <2>3 DEF Ordered
<1>g. \A kind \in Kinds \ {"DRAW", "STATE", "CLEAR"} :
         Stays(Plain(kind)) /\ Plain(kind).kind = kind
  BY DEF Plain
<1>h. \A f : /\ Task("log", f).step = "log" /\ Task("log", f).frame = f
             /\ Task("send", f).step = "send" /\ Task("send", f).frame = f
             /\ Task("leave", f).step = "leave" /\ Task("leave", f).frame = f
  BY DEF Task
<1>i. /\ \A f \in Range(up[Host]) : Stays(f)
      /\ \A m \in Members : \A f \in Range(down[m]) : Stays(f)
      /\ \A m \in Members : Stays(poll[m].frame)
      /\ poll[Host].step # "log" => Stays(poll[Host].frame)
      /\ Stays(Idle.frame)
  <2>1. Idle.frame \in FromHost /\ Ordered(Idle.frame)
    BY MadeFrames, FrameFacts DEF Ordered
  <2> QED
    BY <1>a, <1>b, <1>f, <2>1 DEF PlaceInv
<1>1. ASSUME NEW f \in Range(up'[Host]) PROVE Stays(f)
  <2>1. f \in Range(up[Host]) \/ Sent(Host, f)
    BY <1>1, <1>a, UpSource
  <2>2. ui[Host].step # "send"
    BY <1>b, MadeFrames
  <2> QED
    BY <2>1, <2>2, <1>a, <1>i DEF Sent
<1>2. ASSUME NEW m \in Members, NEW f \in Range(down'[m]) PROVE Stays(f)
  <2>1. \A k \in Members : \A g \in Range(up[k]) : g.kind # "CLEAR"
    BY <1>b
  <2>2. \/ f \in Range(down[m]) \/ f \in {Plain("ACK"), Plain("ERROR")}
        \/ f \in Range(up[Host])
    BY <1>2, <1>a, <2>1, DownSource
  <2> QED
    BY <2>2, <1>g, <1>i DEF Kinds
<1>3. ASSUME NEW m \in Members, NEW f \in Range(up'[m]) PROVE f.kind # "CLEAR"
  <2>1. f \in Range(up[m]) \/ Sent(m, f)
    BY <1>3, <1>a, UpSource
  <2>2. \A id : Draw(Stamped(id, 0)).kind # "CLEAR"
    BY DEF Draw
  <2>3. Plain("JOIN").kind # "CLEAR" /\ Plain("LEAVE").kind # "CLEAR"
    BY DEF Plain
  <2> QED
    BY <2>1, <2>2, <2>3, <1>b DEF Sent, Ordered
<1>4. ASSUME NEW f \in Range(down'[Host]) PROVE f.kind # "CLEAR"
  <2>1. Plain("ACK").kind # "CLEAR" /\ Plain("ERROR").kind # "CLEAR"
    BY DEF Plain
  <2> QED
    BY <1>4, <1>a, <1>b, <2>1, DownSource DEF Ordered
<1>5. ASSUME poll'[Host].step # "log" PROVE Stays(poll'[Host].frame)
  <2>1. CASE LogPoll(Host)
    <3> DEFINE op == Op1(poll[Host].frame)
    <3>1. /\ poll[Host].step = "log" /\ LogOp(Host, op)
          /\ poll'[Host] = Task("send", poll[Host].frame)
      BY <2>1, <1>a, <1>d DEF LogPoll, AfterLog
    <3>2. op.id \notin IdsOf(history[Host])
      BY <3>1 DEF OrderInv
    <3>3. /\ poll[Host].frame.kind = "DRAW" /\ poll[Host].frame.ops = <<op>>
          /\ op \in StampedOp
      BY <3>1, <1>a, FrameFacts DEF PlaceInv, Stroke
    <3> HIDE DEF op
    <3>4. history'[Host] = Append(history[Host], op)
      BY <1>a, <1>d, <3>1, <3>2 DEF LogOp
    <3>5. /\ history'[Host][Len(history[Host]) + 1] = op
          /\ Len(history'[Host]) = Len(history[Host]) + 1
      BY <1>d, <3>3, <3>4
    <3>6. Len(Start[Host]) <= Len(history[Host])
      BY <1>b, <1>d, NumberedNext
    <3>7. Len(history[Host]) + 1 \in Len(Start[Host]) + 1..Len(history'[Host])
      BY <1>d, <3>5, <3>6
    <3> QED
      BY <1>h, <3>1, <3>3, <3>5, <3>7
  <2>2. Stays(State(history[Host]))
    <3>1. IsPrefix(history[Host], history[Host])
      BY <1>d, PrefixIs
    <3>2. State(history[Host]).kind = "STATE" /\ State(history[Host]).ops = history[Host]
      BY DEF State
    <3> QED
      BY <1>b, <1>d, <1>e, <3>1, <3>2 DEF Numbered
  <2>3. CASE ~LogPoll(Host)
    <3>1. poll[Host].step # "log"
      BY <1>5, <1>a, <2>3, LogWaits
    <3> QED
      BY <1>5, <1>a, <1>h, <1>i, <2>2, <2>3, <3>1, PollStep
  <2> QED
    BY <2>1, <2>3
<1>6. ASSUME NEW m \in Members PROVE Stays(poll'[m].frame)
  <2>1. ASSUME MemberReceivesDraw(m) PROVE Stays(Draw(Op1(Head(down[m]))))
    <3>1. /\ Head(down[m]) \in FromHost /\ Head(down[m]).kind = "DRAW"
          /\ Head(down[m]) \in Range(down[m])
      BY <1>a, <2>1, QueueRanges DEF MemberReceivesDraw, Receiving, PlaceInv
    <3> QED
      BY <1>i, <3>1, FrameFacts
  <2> QED
    BY <1>6, <1>a, <1>g, <1>h, <1>i, <2>1, PollStep, MadeFrames DEF Kinds
<1>7. ASSUME NEW m \in Members PROVE ui'[m].frame.kind = "none"
  BY <1>7, <1>a, <1>b, <1>c, <1>g, <1>h, UiStep, MadeFrames DEF Kinds
<1> DEFINE AsksNext(m) ==
              poll'[m].step = "log" => Op1(poll'[m].frame).seq = next_seq'[m]
           Follows(m) ==
              session'[m] = "synchronized" =>
                 /\ IsPrefix(Start[Host], history'[m])
                 /\ IsPrefix(history'[m], history'[Host])
                 /\ next_seq'[m] = NextAfter(history'[m])
<1>8. ASSUME NEW m \in Members, MemberReceivesState(m)
      PROVE  AsksNext(m) /\ Follows(m)
  <2>1. /\ Head(down[m]) \in Range(down[m]) /\ Head(down[m]).kind = "STATE"
        /\ poll[m] = Idle
    BY <1>a, <1>8, QueueRanges DEF MemberReceivesState, Receiving
  <2>2. /\ history'[m] = Head(down[m]).ops /\ poll'[m] = poll[m]
        /\ next_seq'[m] = NextAfter(Head(down[m]).ops)
    BY <1>a, <1>d, <1>8 DEF MemberReceivesState
  <2>3. Stays(Head(down[m]))
    BY <1>i, <2>1
  <2> QED
    BY <2>1, <2>2, <2>3, MadeFrames
<1>9. ASSUME NEW m \in Members, LogPoll(m) PROVE AsksNext(m) /\ Follows(m)
  <2> DEFINE op == Op1(poll[m].frame)
  <2>1. /\ poll[m].step = "log" /\ LogOp(m, op) /\ poll'[m] = Idle
        /\ session'[m] = session[m]
    BY <1>9, <1>a, <1>d DEF LogPoll, AfterLog
  <2>2. AsksNext(m)
    BY <2>1, MadeFrames
  <2>3. /\ poll[m].frame.kind = "DRAW" /\ poll[m].frame.ops = <<op>> /\ op \in StampedOp
    BY <2>1, <1>a, FrameFacts DEF PlaceInv, Stroke
  <2>4. op.seq = next_seq[m]
    BY <1>b, <2>1
  <2>5. PICK i \in Len(Start[Host]) + 1..Len(history[Host]) : op = history[Host][i]
    <3>1. \E i \in Len(Start[Host]) + 1..Len(history[Host]) :
             <<op>> = <<history[Host][i]>>
      BY <1>b, <2>3 DEF Ordered
    <3> QED
      BY <3>1
  <2> HIDE DEF op
  <2>6. SUFFICES ASSUME session[m] = "synchronized"
                 PROVE  /\ IsPrefix(Start[Host], history'[m])
                        /\ IsPrefix(history'[m], history'[Host])
                        /\ next_seq'[m] = NextAfter(history'[m])
    BY <2>1, <2>2
  <2>7. /\ IsPrefix(Start[Host], history[m]) /\ IsPrefix(history[m], history[Host])
        /\ next_seq[m] = NextAfter(history[m]) /\ history[m] \in Seq(StampedOp)
    BY <1>a, <1>b, <1>d, <2>6
  <2>8. CASE op.id \in IdsOf(history[m])
    <3>1. history'[m] = history[m] /\ next_seq'[m] = next_seq[m]
      BY <2>1, <2>8 DEF LogOp, canvases
    <3> QED
      BY <1>e, <2>7, <3>1
  <2>9. CASE op.id \notin IdsOf(history[m])
    <3>1. /\ history'[m] = Append(history[m], op)
          /\ next_seq'[m] = IF op.seq >= next_seq[m] THEN op.seq + 1 ELSE next_seq[m]
      BY <1>a, <1>d, <2>1, <2>9 DEF LogOp
    <3>2. Numbered(history[m])
      BY <1>b, <1>d, <2>7, NumberedPrefix
    <3>3. /\ NextAfter(history[m])
                = NextAfter(Start[Host]) + Len(history[m]) - Len(Start[Host])
          /\ Len(history[m]) \in Nat /\ NextAfter(Start[Host]) \in Nat
      BY <2>7, <3>2, NumberedNext, StartFacts
    <3>4. op.seq = NextAfter(Start[Host]) + i - Len(Start[Host]) - 1
      BY <1>b, <2>5 DEF Numbered
    <3>5. i = Len(history[m]) + 1
      <4>1. NextAfter(Start[Host]) + i - Len(Start[Host]) - 1
               = NextAfter(Start[Host]) + Len(history[m]) - Len(Start[Host])
        BY <2>4, <2>7, <3>3, <3>4
      <4>2. i \in Int
        BY <1>d
      <4>3. Len(Start[Host]) \in Nat
        BY StartFacts
      <4> QED
        BY <3>3, <4>1, <4>2, <4>3, SameNumber
    <3>6. i \in 1..Len(history[Host])
      BY <1>d, <2>5
    <3>7. IsPrefix(Append(history[m], op), history[Host])
      BY <1>d, <2>3, <2>5, <2>7, <3>5, <3>6, PrefixAppend
    <3>8. IsPrefix(Start[Host], Append(history[m], op))
      BY <1>d, <2>3, <2>7, PrefixAppend
    <3>9. /\ Append(history[m], op) \in Seq(StampedOp)
          /\ NextAfter(Append(history[m], op)) = NextAfter(history[m]) + 1
      BY <2>3, <2>4, <2>7, <3>2, NumberedAppend
    <3>10. next_seq'[m] = NextAfter(history'[m])
      <4>1. op.seq = next_seq[m] /\ op.seq \in Nat
        BY <2>3, <2>4 DEF StampedOp
      <4>2. next_seq'[m] = op.seq + 1
        BY <3>1, <4>1
      <4> QED
        BY <2>7, <3>1, <3>9, <4>1, <4>2
    <3> QED
      BY <1>e, <3>1, <3>7, <3>8, <3>9, <3>10
  <2> QED
    BY <2>8, <2>9
<1>10. ASSUME NEW m \in Members, ~MemberReceivesState(m), ~LogPoll(m)
       PROVE  AsksNext(m) /\ Follows(m)
  <2>1. ui[m].step # "log" /\ m # Host /\ m \in Nodes
    BY <1>a DEF PlaceInv
  <2>2. history'[m] = history[m] /\ next_seq'[m] = next_seq[m]
    BY <1>10, <1>c, <2>1, CanvasStep
  <2>3. Follows(m)
    <3>1. session'[m] = "synchronized" => session[m] = "synchronized"
      BY <1>10, ClearsStep
    <3>2. history[m] \in Seq(StampedOp)
      BY <1>d, <2>1
    <3> QED
      BY <1>b, <1>e, <2>2, <3>1, <3>2
  <2>4. AsksNext(m)
    <3>1. \A f \in FromHost : f.kind = "DRAW" => Op1(Draw(Op1(f))) = Op1(f)
      BY DEF Op1, Draw
    <3>2. MemberReceivesDraw(m)
             => Head(down[m]) \in FromHost /\ Head(down[m]).kind = "DRAW"
      BY <2>1, QueueRanges DEF MemberReceivesDraw, Receiving, PlaceInv
    <3> QED
      BY <1>10, <1>b, <1>h, <2>1, <2>2, <3>1, <3>2, PollStep, MadeFrames
  <2> QED
    BY <2>3, <2>4
<1>11. \A m \in Members : AsksNext(m) /\ Follows(m)
  BY <1>8, <1>9, <1>10
<1> QED
  BY <1>1, <1>2, <1>3, <1>4, <1>5, <1>6, <1>7, <1>11, HostOrder DEF OrderInv,
      Ordered

-----------------------------------------------------------------------------
(* The theorems.                                                           *)

\* The initial state: only the canvases hold operations.
LEMMA InitFacts ==
    ASSUME Init
    PROVE  /\ history = Start /\ Start \in [Nodes -> Seq(StampedOp)]
           /\ \A n \in Nodes : /\ ui[n] = Idle /\ poll[n] = Idle
                               /\ up[n] = <<>> /\ down[n] = <<>>
                               /\ Range(up[n]) = {} /\ Range(down[n]) = {}
                               /\ next_seq[n] = NextAfter(Start[n])
                               /\ session[n] # "synchronized"
           /\ \E course \in Courses : drawn = Ids \ course.strokes
<1>1. Range(<<>>) = {}
  BY DEF Range
<1> QED
  BY <1>1, ReplicationAssumption DEF Init

\* At first every variable has its type, and there are no frames.
LEMMA InitTypes == Init => TypeOK /\ PlaceInv
<1> SUFFICES ASSUME Init PROVE TypeOK /\ PlaceInv
  OBVIOUS
<1>1. history \in [Nodes -> Seq(StampedOp)] /\ next_seq \in [Nodes -> Nat \ {0}]
  <2>1. \A n \in Nodes : NextAfter(Start[n]) \in Nat \ {0}
    BY NextAfterIs, ReplicationAssumption
  <2> QED
    BY <2>1, ReplicationAssumption DEF Init
<1>2. ui \in [Nodes -> TaskRec] /\ poll \in [Nodes -> TaskRec]
  BY MadeFrames DEF Init
<1>3. session \in [Nodes -> Stages] /\ room \in [Nodes -> Places]
  BY DEF Init, Stages, Places
<1>4. /\ pending \in [Members -> SUBSET Ids] /\ unheard \subseteq Members \cup Ids
      /\ leaving \in [Members -> {"may", "has", "never"}] /\ drawn \subseteq Ids
  BY DEF Init
<1>5. up \in [Nodes -> Seq(FrameRec)] /\ down \in [Nodes -> Seq(FrameRec)]
  <2>1. <<>> \in Seq(FrameRec)
    OBVIOUS
  <2> QED
    BY <2>1 DEF Init
<1>6. clears \in 0..MaxClears
  BY ReplicationAssumption DEF Init
<1>7. PlaceInv
  <2>1. Host \in Nodes /\ \A m \in Members : m \in Nodes
    BY DEF Nodes
  <2> QED
    BY <2>1, InitFacts, MadeFrames, FrameFacts DEF PlaceInv
<1> QED
  BY <1>1, <1>2, <1>3, <1>4, <1>5, <1>6, <1>7 DEF TypeOK

\* At first the only copies are those of the operations from before.
LEMMA InitStamps ==
    ASSUME DistinctIds, Init
    PROVE  StampInv
<1>1. \A n \in Nodes : \A op \in Held(n) : op \in Range(Start[n])
  <2> SUFFICES ASSUME NEW n \in Nodes, NEW op \in Held(n)
               PROVE  op \in Range(Start[n])
    OBVIOUS
  <2>1. op \in Ops(n)
    BY InitFacts, MadeFrames DEF Held
  <2>2. Start[n] \in Seq(StampedOp)
    BY ReplicationAssumption
  <2> QED
    BY <2>1, <2>2, InitFacts, LenProperties DEF Ops, Range
<1>2. \A op \in Copies : \E n \in Nodes : op \in Range(Start[n])
  BY <1>1 DEF Copies
<1>3. \A n \in Nodes : \A op \in Range(Start[n]) : op.id \in StartIds
  <2> SUFFICES ASSUME NEW n \in Nodes, NEW op \in Range(Start[n])
               PROVE  op.id \in StartIds
    OBVIOUS
  <2>1. Start[n] \in Seq(StampedOp)
    BY ReplicationAssumption
  <2>2. op.id \in IdsOf(Start[n])
    BY <2>1, LenProperties DEF Range, IdsOf
  <2> QED
    BY <2>2 DEF StartIds
<1>4. \A x, y \in Copies : x.id = y.id => x = y
  BY <1>2 DEF DistinctIds
<1>5. \A m \in Nodes : \A i, id : ~Asks(up[m], i, id) /\ ~Asks(down[m], i, id)
  BY InitFacts DEF Asks
<1> QED
  BY <1>2, <1>3, <1>4, <1>5 DEF StampInv, Nodes

\* At first no frame is on its way.
LEMMA InitShow == Init => ShowInv
<1> SUFFICES ASSUME Init PROVE ShowInv
  OBVIOUS
<1>1. Host \in Nodes /\ \A m \in Members : m \in Nodes
  BY DEF Nodes
<1>2. \A n \in Nodes : /\ Range(up[n]) = {} /\ Range(down[n]) = {}
                       /\ ui[n].step = "idle" /\ poll[n].step = "idle"
                       /\ session[n] # "synchronized"
  BY InitFacts, MadeFrames
<1> QED
  BY <1>1, <1>2 DEF ShowInv

\* Type correctness, and where frames belong: no operation without a stamp leaves
\* the host, and none with a stamp leaves a member.
THEOREM TypeCorrect == Spec => [](TypeOK /\ PlaceInv)
<1>1. TypeOK /\ PlaceInv /\ [Next]_vars => (TypeOK /\ PlaceInv)'
  BY TypeStep, PlaceStep
<1> QED
  BY <1>1, InitTypes, PTL DEF Spec

\* The host stamps no operation twice (canvas::apply, handle_draw): whoever holds
\* an operation holds it under the same seq, whoever draws and clears.
THEOREM OneStamp == ASSUME DistinctIds PROVE Spec => []OneSeqPerStroke
<1>1. Init => TypeOK /\ PlaceInv /\ StampInv
  BY InitTypes, InitStamps
<1>2. TypeOK /\ PlaceInv /\ StampInv /\ [Next]_vars => (TypeOK /\ PlaceInv /\ StampInv)'
  BY TypeStep, PlaceStep, StampStep
<1>3. TypeOK /\ StampInv => OneSeqPerStroke
  <2> SUFFICES ASSUME TypeOK, StampInv, NEW n \in Nodes, NEW k \in Nodes,
                      NEW x \in Ops(n), NEW y \in Ops(k), x.id = y.id
               PROVE  x.seq = y.seq
    BY DEF OneSeqPerStroke
  <2>1. ASSUME NEW j \in Nodes, NEW op \in Ops(j) PROVE op \in Copies
    <3>1. history[j] \in Seq(StampedOp)
      BY DEF TypeOK
    <3>2. op \in StampedOp
      BY <2>1, <3>1, ElementOfSeq DEF Ops
    <3>3. op.seq # 0 /\ op \in Held(j)
      BY <2>1, <3>2 DEF StampedOp, Held
    <3> QED
      BY <3>3 DEF Copies
  <2> QED
    BY <2>1 DEF StampInv
<1> QED
  BY <1>1, <1>2, <1>3, PTL DEF Spec

\* Until somebody clears, a synchronized member shows nothing the host does not
\* have, also while the host's two threads stamp, log and send in any order
\* (process_canvas_input, handle_draw, handle_canvas_request).
THEOREM ShowsTheHost == ASSUME DistinctIds PROVE Spec => []MembersShowTheHost
<1> DEFINE I == TypeOK /\ PlaceInv /\ StampInv /\ ShowInv
<1>1. Init => I
  BY InitTypes, InitStamps, InitShow
<1>2. I /\ [Next]_vars => I'
  BY TypeStep, PlaceStep, StampStep, ShowStep
<1>3. I => MembersShowTheHost
  BY DEF ShowInv, MembersShowTheHost
<1> QED
  BY <1>1, <1>2, <1>3, PTL DEF Spec

\* At first nothing is on its way and nobody is synchronized.
LEMMA InitOrder == Init => OrderInv
<1> SUFFICES ASSUME Init PROVE OrderInv
  OBVIOUS
<1>1. Host \in Nodes /\ \A m \in Members : m \in Nodes
  BY DEF Nodes
<1>2. Numbered(history[Host])
  <2>1. IsPrefix(Start[Host], Start[Host])
    BY StartFacts, PrefixIs
  <2> QED
    BY <1>1, <2>1, InitFacts, StartFacts DEF Numbered
<1> QED
  BY <1>1, <1>2, InitFacts, MadeFrames DEF OrderInv, Ordered

\* While only its poll thread uses the host's canvas and nobody clears, a
\* synchronized member's canvas is a prefix of the host's: gaps, stale frames and
\* snapshots never reorder it (handle_draw, load_operations).
THEOREM FollowsInOrder == ASSUME HostServes PROVE Spec => []MembersFollowInOrder
<1> DEFINE I == TypeOK /\ PlaceInv /\ OrderInv
<1>1. Init => I
  BY InitTypes, InitOrder
<1>2. I /\ [Next]_vars => I'
  BY TypeStep, PlaceStep, OrderStep
<1>3. I => MembersFollowInOrder
  BY DEF OrderInv, MembersFollowInOrder
<1> QED
  BY <1>1, <1>2, <1>3, PTL DEF Spec
=============================================================================
