------------------------------ MODULE Channel ------------------------------
(***************************************************************************)
(* What the other modules take one direction of a connection to be: a FIFO *)
(* queue of whole frames.  When the connection is lost, the frames at the  *)
(* end of the queue are lost with it, and no more come in.                 *)
(***************************************************************************)
EXTENDS Sequences, SequencesExt

CONSTANTS Frames

VARIABLES queue, got, open

Init == queue = <<>> /\ got = <<>> /\ open = TRUE

Send == /\ open
        /\ queue' # <<>> /\ Front(queue') = queue /\ Last(queue') \in Frames
        /\ UNCHANGED <<got, open>>

Receive == /\ queue # <<>>
           /\ got' = Append(got, Head(queue)) /\ queue' = Tail(queue)
           /\ UNCHANGED open

Break == /\ open /\ open' = FALSE
         /\ IsPrefix(queue', queue)
         /\ UNCHANGED got

Spec == Init /\ [][Send \/ Receive \/ Break]_<<queue, got, open>>
=============================================================================
