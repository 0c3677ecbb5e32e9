----------------------------- MODULE UcosQueue ------------------------------
(***************************************************************************)
(* The ring of message pointers of a uC/OS-II queue (os_q.c): OSQStart is  *)
(* index 0, OSQEnd is index OSQSize, which neither OSQIn nor OSQOut keeps. *)
(***************************************************************************)
EXTENDS Naturals

CONSTANTS OSQSize,      \* slots
          Empty         \* what a slot holds before the first post

Slots == 0 .. OSQSize - 1

Wrap(p) == IF p = OSQSize THEN 0 ELSE p

OSQCreate == [cell |-> [i \in Slots |-> Empty], in |-> 0, out |-> 0, n |-> 0]

Full(q) == q.n >= OSQSize

Put_early(q, m) ==                      \* mutant: wraps one slot too early
    [cell |-> [q.cell EXCEPT ![q.in] = m],
     in   |-> IF q.in + 1 >= OSQSize - 1 THEN 0 ELSE q.in + 1,
     out  |-> q.out,
     n    |-> q.n + 1]

Put(q, m) == [cell |-> [q.cell EXCEPT ![q.in] = m], in |-> Wrap(q.in + 1),
              out  |-> q.out, n |-> q.n + 1]

First(q) == q.cell[q.out]

(* A slot keeps its pointer in the code; here it is emptied, for nothing   *)
(* may look at it again before the next post fills it.                     *)
Rest(q) == [cell |-> [q.cell EXCEPT ![q.out] = Empty], in |-> q.in,
            out  |-> Wrap(q.out + 1), n |-> q.n - 1]

(* The messages in the order in which they will leave.                     *)
Place(q, i) == LET p == q.out + i - 1
               IN  IF p >= OSQSize THEN p - OSQSize ELSE p

Contents(q) == [i \in 1 .. q.n |-> q.cell[Place(q, i)]]
=============================================================================
