----------------------------- MODULE UcosKernel -----------------------------
(***************************************************************************)
(* The part of uC/OS-II that lwIP's port stands on, UCOSII/uCOS-II/Source: *)
(* event wait lists, pending with a time-out, the clock tick (os_core.c)   *)
(* and semaphores (os_sem.c).  Each operator is one critical section.      *)
(*                                                                         *)
(* A time-out makes a task ready but leaves it in the event's wait list    *)
(* until the task runs again: a post that comes in between still hands the *)
(* task its message.                                                       *)
(***************************************************************************)
EXTENDS Integers

CONSTANTS Tasks,        \* tasks with a TCB
          Prio,         \* their priorities, all different, 0 the highest
          Events,       \* event control blocks: queues and semaphores
          None          \* no event; no message

VARIABLES tcb,          \* OSTCBDly, OSTCBStatPend, OSTCBMsg, ready list bit
          wait          \* the event whose wait list the task is in

TcbInit == [dly |-> 0, pend |-> "ok", msg |-> None, rdy |-> TRUE]

Waiting(e) == {t \in Tasks : wait[t] = e}

(* OSPrioHighRdy: the task that owns the CPU outside interrupts.           *)
Runs(t) == /\ tcb[t].rdy
           /\ \A u \in Tasks : tcb[u].rdy => Prio[t] <= Prio[u]

(* The highest priority task that waits for e gets the message.            *)
OS_EventTaskRdy_late(e, m) ==           \* mutant: a timed-out task keeps
    LET t == CHOOSE x \in Waiting(e) :  \* its OS_STAT_PEND_TO
               \A u \in Waiting(e) : Prio[x] <= Prio[u]
    IN  /\ tcb' = [tcb EXCEPT ![t].dly = 0, ![t].msg = m, ![t].rdy = TRUE]
        /\ wait' = [wait EXCEPT ![t] = None]

OS_EventTaskRdy(e, m) ==
    LET t == CHOOSE x \in Waiting(e) :
               \A u \in Waiting(e) : Prio[x] <= Prio[u]
    IN  /\ tcb' = [tcb EXCEPT ![t] = [dly |-> 0, pend |-> "ok",
                                      msg |-> m, rdy |-> TRUE]]
        /\ wait' = [wait EXCEPT ![t] = None]

(* A pend that has to wait, for at most dly ticks or, with 0, for ever.    *)
OS_EventTaskWait(t, e, dly) ==
    /\ tcb' = [tcb EXCEPT ![t] = [dly |-> dly, pend |-> "ok",
                                  msg |-> None, rdy |-> FALSE]]
    /\ wait' = [wait EXCEPT ![t] = e]

(* The end of a pend: the task leaves the wait list if it timed out.       *)
Resume(t) ==
    /\ tcb' = [tcb EXCEPT ![t] = TcbInit]
    /\ wait' = [wait EXCEPT ![t] = IF tcb[t].pend = "to" THEN None ELSE @]

TimedOut(t) == tcb[t].pend = "to"

Ticked(c) == IF c.dly # 1 THEN [c EXCEPT !.dly = IF @ = 0 THEN 0 ELSE @ - 1]
             ELSE [c EXCEPT !.dly = 0, !.pend = "to", !.rdy = TRUE]

OSTimeTick == tcb' = [t \in Tasks |-> Ticked(tcb[t])] /\ UNCHANGED wait
=============================================================================
