----------------------------- MODULE FrameQueue -----------------------------
(***************************************************************************)
(* A bounded queue between an interrupt or tasks on one side and one task  *)
(* on the other: what webcam_fifo_write and webcam_fifo_read promise for   *)
(* blocks of JPEG data, and a mailbox of the lwIP port for its messages.   *)
(* A block is accepted at the tail or, when the queue is full, refused     *)
(* whole; blocks leave at the head in the order they came, each once,      *)
(* unchanged.                                                              *)
(***************************************************************************)
EXTENDS Sequences, Naturals

CONSTANTS Blocks,       \* the blocks that may be offered
          Capacity,     \* how many the queue holds
          Nothing,      \* no block
          Kept          \* the block taken last stays until the next is taken

VARIABLES queue,        \* accepted and not yet taken
          taken         \* the block taken last, or Nothing

qvars == <<queue, taken>>

QInit == queue = << >> /\ taken = Nothing

Accept == /\ Len(queue) < Capacity
          /\ \E b \in Blocks : queue' = Append(queue, b)
          /\ UNCHANGED taken

Take == /\ queue # << >>
        /\ queue' = Tail(queue) /\ taken' = Head(queue)

GiveUp == ~Kept /\ taken' = Nothing /\ UNCHANGED queue

QNext == Accept \/ Take \/ GiveUp

QSpec == QInit /\ [][QNext]_qvars
=============================================================================
