------------------------------ MODULE Network -------------------------------
(***************************************************************************)
(* The network side as it runs: the Ethernet interrupt posts received      *)
(* packets to the mailbox of lwIP's tcpip_thread, tasks post their         *)
(* netconn_* calls to it and wait for a semaphore, and the thread fetches  *)
(* the messages one by one and runs the timers in between.  Composes the   *)
(* receive ring, the queue and the pends of uC/OS-II under the port in     *)
(* LWIP/arch/sys_arch.c, and the time-out list.                            *)
(*                                                                         *)
(* Scheduling.  A step of a task needs the CPU: it is the ready task of    *)
(* highest priority and the Ethernet interrupt is not running.  A step is  *)
(* a critical section, or the code up to the next one.  One tick is one    *)
(* millisecond (OS_TICKS_PER_SEC 1000).                                    *)
(***************************************************************************)
EXTENDS LwipTimers

CONSTANTS Apps,         \* tasks that call netconn_*
          Prio,         \* uC/OS-II priorities: of Apps and of "tcpip"
          OSQSize,      \* slots of the mailbox
          NINPKT,       \* MEMP_NUM_TCPIP_MSG_INPKT
          ETH_RXBUFNB,  \* receive descriptors
          Cyclic,       \* handlers of timers that always run
          Period,       \* of Cyclic and of "tcp", in ms
          Clock,        \* bound: 2, or 1 where no fairness needs to see ticks
          None          \* no message, no event

Inpkt    == 1 .. NINPKT                 \* elements of MEMP_TCPIP_MSG_INPKT
Handlers == Cyclic \cup {"tcp"}

ASSUME NetworkAssumption ==
    /\ NINPKT \in Nat \ {0} /\ ETH_RXBUFNB \in Nat \ {0} /\ OSQSize \in Nat
    /\ Prio \in [Apps \cup {"tcpip"} -> Nat]
    /\ \A t, u \in DOMAIN Prio : Prio[t] = Prio[u] => t = u
    /\ Inpkt \cap Apps = {} /\ None \notin Inpkt /\ None \notin Apps /\ None # "mbox"
    /\ "tcpip" \notin Apps /\ "mbox" \notin Apps /\ IsFiniteSet(Apps)
    /\ NINPKT + Cardinality(Apps) <= OSQSize     \* 8 and at most 10 tasks: 20
    /\ Clock \in Nat \ {0} /\ Cyclic # {} /\ IsFiniteSet(Cyclic) /\ "tcp" \notin Cyclic
    /\ Period \in [Handlers -> Nat \ {0}]

VARIABLES
    tcb, wait,          \* uC/OS-II: task control blocks, event wait lists
    q,                  \* the mailbox's queue
    sem,                \* op_completed of each caller's netconn
    own, cur, get, rs, isr, burst,      \* reception, EthRing.tla
    pool,               \* free elements of MEMP_TCPIP_MSG_INPKT
    pc, msg,            \* tcpip_thread: where it is, the message it has
    OSTime,             \* the clock, modulo Clock
    waited,             \* OSTimeGet() - timeout, in sys_arch_mbox_fetch
    list,               \* next_timeout
    pcbs, active,       \* there are TCP pcbs; tcpip_tcp_timer_active
    open,               \* callers whose call is left to TCP: conn->current_msg
    app                 \* where a caller is

K == INSTANCE UcosKernel WITH Tasks <- Apps \cup {"tcpip"},
                              Events <- Apps \cup {"mbox"}
Q == INSTANCE UcosQueue WITH Empty <- None
E == INSTANCE EthRing

kernel == <<tcb, wait>>
ring   == <<own, cur, get, rs, isr, burst>>
timers == <<list, pcbs, active, open>>
thread == <<pc, msg, waited>>
vars   == <<kernel, OSTime, q, sem, ring, pool, thread, timers, app>>

Runs(t) == isr = "off" /\ K!Runs(t)

-----------------------------------------------------------------------------
(* OSQPost on the mailbox: to the waiting thread, or into the queue.       *)

Refused == K!Waiting("mbox") = {} /\ Q!Full(q)

OSQPost(m) ==
    /\ ~Refused
    /\ IF K!Waiting("mbox") # {}
         THEN K!OS_EventTaskRdy("mbox", m) /\ UNCHANGED q
         ELSE q' = Q!Put(q, m) /\ UNCHANGED kernel

(* The packet goes into an element of the pool and that into the mailbox,  *)
(* or the packet is dropped: no pbuf, no element, or no room.              *)
Arrive == E!Arrive /\ UNCHANGED <<OSTime, kernel, q, sem, pool, thread, timers, app>>

Enter == E!Enter /\ UNCHANGED <<OSTime, kernel, q, sem, pool, thread, timers, app>>

TcpipInput_unchecked ==                 \* mutant: element kept in the pool
    \E m \in Inpkt : m = 1 /\ OSQPost(m) /\ UNCHANGED pool

TcpipInput == LET m == CHOOSE x \in pool : TRUE
              IN  pool # {} /\ OSQPost(m) /\ pool' = pool \ {m}

Packet ==
    /\ E!TakeOne
    /\ TcpipInput \/ UNCHANGED <<kernel, q, pool>>
    /\ UNCHANGED <<OSTime, sem, thread, timers, app>>

Leave == (E!LoopEnds \/ E!Leave)
         /\ UNCHANGED <<OSTime, kernel, q, sem, pool, thread, timers, app>>

-----------------------------------------------------------------------------
(* The tick interrupt.                                                     *)

Longest == Max({Period[h] : h \in Handlers})
Capped(n, bound) == IF n > bound THEN bound ELSE n

Tick ==
    /\ isr = "off"
    /\ K!OSTimeTick /\ OSTime' = (OSTime + 1) % Clock
    /\ waited' = IF pc \in {"pend", "pending", "got"}
                   THEN Capped(waited + 1, Longest) ELSE waited
    /\ UNCHANGED <<q, sem, ring, pool, pc, msg, timers, app>>

-----------------------------------------------------------------------------
(* tcpip_thread.                                                           *)

(* sys_timeouts_mbox_fetch: a timer that is due runs at once.              *)
Fetch ==
    /\ pc = "fetch" /\ Runs("tcpip")
    /\ pc' = IF list[1].time > 0 THEN "pend" ELSE "fire"
    /\ waited' = 0
    /\ UNCHANGED <<OSTime, kernel, q, sem, ring, pool, msg, timers, app>>

(* OSQPend: the oldest message, or wait until the first timer is due.      *)
Pend ==
    /\ pc = "pend" /\ Runs("tcpip")
    /\ \/ /\ q.n > 0
          /\ msg' = Q!First(q) /\ q' = Q!Rest(q)
          /\ pc' = "got" /\ UNCHANGED kernel
       \/ /\ q.n = 0
          /\ K!OS_EventTaskWait("tcpip", "mbox", list[1].time)
          /\ pc' = "pending" /\ UNCHANGED <<msg, q>>
    /\ UNCHANGED <<OSTime, sem, ring, pool, waited, timers, app>>

Pended ==
    /\ pc = "pending" /\ Runs("tcpip")
    /\ K!Resume("tcpip")
    /\ IF K!TimedOut("tcpip")
         THEN pc' = "fire" /\ waited' = 0 /\ UNCHANGED msg
         ELSE pc' = "got" /\ msg' = tcb["tcpip"].msg /\ UNCHANGED waited
    /\ UNCHANGED <<OSTime, q, sem, ring, pool, timers, app>>

(* The time needed in ms.  With no tick in between, line 151 computes      *)
(* 2^32 - 1 ticks, and line 152 (modulo 2^32) 4294967 ms of them: more     *)
(* than any timer.                                                         *)
TimeNeeded_exact == waited              \* mutant: no + 1, `>=' in line 150

TimeNeeded == IF waited = 0 THEN Longest ELSE waited + 1

Arm(l, h) == list' = sys_timeout(l, h, Period[h])

Got ==
    /\ pc = "got" /\ Runs("tcpip")
    /\ list' = Elapse(list, TimeNeeded)
    /\ pc' = "handle" /\ waited' = 0
    /\ UNCHANGED <<OSTime, kernel, q, sem, ring, pool, msg, pcbs, active, open, app>>

(* What a message does to the TCP pcbs: TCP_REG starts the timer if it is  *)
(* not running.  The pcb of an unfinished call goes with that call only,   *)
(* in err_tcp.                                                             *)
Pcbs ==
    \/ /\ pcbs' = FALSE /\ open' = {} /\ UNCHANGED <<list, active>>
    \/ /\ pcbs' = TRUE /\ active' = TRUE
       /\ IF active THEN UNCHANGED list ELSE Arm(list, "tcp")

(* The end of a call wakes its caller: OSSemPost.                          *)
OSSemPost_lost(a) ==                    \* mutant: nobody waits, no count
    /\ UNCHANGED sem
    /\ IF K!Waiting(a) # {} THEN K!OS_EventTaskRdy(a, None) ELSE UNCHANGED kernel

OSSemPost(a) ==
    IF K!Waiting(a) # {} THEN K!OS_EventTaskRdy(a, None) /\ UNCHANGED sem
                         ELSE sem' = [sem EXCEPT ![a] = @ + 1] /\ UNCHANGED kernel

(* A message.  A call is answered at once, or it is left to its TCP        *)
(* connection: a write that finds no room (do_writemore), a close that     *)
(* finds no memory (do_close_internal), a connect (do_connect).  The       *)
(* thread does not look at the message again.                              *)
Handle ==
    /\ pc = "handle" /\ Runs("tcpip")
    /\ \/ /\ msg \in Inpkt /\ pool' = pool \cup {msg}
          /\ UNCHANGED <<kernel, sem, open>>
       \/ msg \in Apps /\ OSSemPost(msg) /\ UNCHANGED <<pool, open>>
       \/ /\ msg \in Apps /\ open' = open \cup {msg}
          /\ UNCHANGED <<kernel, sem, pool>>
    /\ Pcbs
    /\ pc' = "fetch" /\ msg' = None
    /\ UNCHANGED <<OSTime, q, ring, waited, app>>

(* sent_tcp, poll_tcp, do_connected or err_tcp, called while the thread    *)
(* handles a packet or a call or runs TCP's timer, ends a call that was    *)
(* left: the peer has made room, accepted or reset, memory is there again, *)
(* or the pcb is given up.                                                 *)
Complete(a) ==
    /\ pc = "fire" => list[1].h = "tcp"
    /\ pc \in {"handle", "fire"}
    /\ Runs("tcpip")
    /\ a \in open /\ open' = open \ {a}
    /\ OSSemPost(a)
    /\ UNCHANGED <<OSTime, q, ring, pool, thread, list, pcbs, active, app>>

(* The handler of a cyclic timer arms it again; TCP's only while there are *)
(* pcbs, of which tcp_tmr may remove the last.                             *)
FireCyclic == /\ list[1].h \in Cyclic
              /\ Arm(Tail(list), list[1].h)
              /\ UNCHANGED <<pcbs, active>>

FireTcp_on ==                           \* mutant: line 91 is missing
    /\ list[1].h = "tcp"
    /\ pcbs' \in {FALSE, pcbs} /\ (open # {} => pcbs')
    /\ UNCHANGED active
    /\ IF pcbs' THEN Arm(Tail(list), "tcp")
                ELSE list' = Tail(list)

FireTcp ==
    /\ list[1].h = "tcp"
    /\ pcbs' \in {FALSE, pcbs} /\ (open # {} => pcbs')
    /\ active' = pcbs'
    /\ IF pcbs' THEN Arm(Tail(list), "tcp")
                ELSE list' = Tail(list)

Fire ==
    /\ pc = "fire" /\ Runs("tcpip")
    /\ FireCyclic \/ FireTcp
    /\ pc' = "fetch"
    /\ UNCHANGED <<OSTime, kernel, q, sem, ring, pool, msg, waited, open, app>>

-----------------------------------------------------------------------------
(* A task's netconn_* call, tcpip_apimsg.  Between calls it waits for      *)
(* something of its own and is not ready.                                  *)

Idle(a) == app' = [app EXCEPT ![a] = "idle"]

Call(a) ==
    /\ app[a] = "idle" /\ isr = "off"
    /\ app' = [app EXCEPT ![a] = "post"]
    /\ tcb' = [tcb EXCEPT ![a].rdy = TRUE]
    /\ UNCHANGED <<OSTime, wait, q, sem, ring, pool, thread, timers>>

(* sys_mbox_post; it would spin on a full mailbox.                         *)
Post(a) ==
    /\ app[a] = "post" /\ Runs(a)
    /\ OSQPost(a)
    /\ app' = [app EXCEPT ![a] = "sem"]
    /\ UNCHANGED <<OSTime, sem, ring, pool, thread, timers>>

(* OSSemPend: the call has been answered already, or wait.                 *)
SemPend(a) ==
    /\ app[a] = "sem" /\ Runs(a)
    /\ \/ /\ sem[a] > 0
          /\ sem' = [sem EXCEPT ![a] = @ - 1]
          /\ tcb' = [tcb EXCEPT ![a].rdy = FALSE]
          /\ Idle(a) /\ UNCHANGED wait
       \/ /\ sem[a] = 0
          /\ K!OS_EventTaskWait(a, a, 0)
          /\ app' = [app EXCEPT ![a] = "waiting"] /\ UNCHANGED sem
    /\ UNCHANGED <<OSTime, q, ring, pool, thread, timers>>

Answered(a) ==
    /\ app[a] = "waiting" /\ Runs(a)
    /\ tcb' = [tcb EXCEPT ![a] = [K!TcbInit EXCEPT !.rdy = FALSE]]
    /\ Idle(a)
    /\ UNCHANGED <<OSTime, wait, q, sem, ring, pool, thread, timers>>

-----------------------------------------------------------------------------
(* The thread has started and armed the cyclic timers: sys_timeouts_init.  *)

Init ==
    /\ tcb = [t \in Apps \cup {"tcpip"} |-> [K!TcbInit EXCEPT !.rdy = t = "tcpip"]]
    /\ wait = [t \in Apps \cup {"tcpip"} |-> None]
    /\ q = Q!OSQCreate /\ sem = [a \in Apps |-> 0] /\ E!RingInit
    /\ pool = Inpkt /\ pc = "fetch" /\ msg = None /\ waited = 0 /\ OSTime = 0
    /\ list = FoldSet(LAMBDA h, l : sys_timeout(l, h, Period[h]), << >>, Cyclic)
    /\ pcbs = FALSE /\ active = FALSE /\ open = {}
    /\ app = [a \in Apps |-> "idle"]

Interrupt == Enter \/ Packet \/ Leave
Thread    == \/ Fetch \/ Pend \/ Pended \/ Got \/ Handle \/ Fire
             \/ \E a \in Apps : Complete(a)
App(a)    == Post(a) \/ SemPend(a) \/ Answered(a)
Task      == Thread \/ \E a \in Apps : App(a)

Next == Arrive \/ Interrupt \/ Tick \/ Task \/ \E a \in Apps : Call(a)

Spec == Init /\ [][Next]_vars

(***************************************************************************)
(* The interrupts are served; a tick that meets the Ethernet handler stays *)
(* pending.  Strong fairness of Task: interrupts do not take the whole CPU *)
(* from the tasks; which task has it is fixed by the priorities.  Nobody   *)
(* has to call, no frame has to come, and no peer has to make room.        *)
(***************************************************************************)
FairSpec == /\ Spec /\ WF_vars(Interrupt) /\ SF_vars(Tick) /\ SF_vars(Task)

-----------------------------------------------------------------------------
(* Properties.                                                             *)

(* Messages posted and not yet seen by the thread, oldest first: the one   *)
(* handed over in its TCB, then the queue.                                 *)
Handed == IF pc = "pending" /\ tcb["tcpip"].msg # None
          THEN <<tcb["tcpip"].msg>> ELSE << >>
Posted == Handed \o Q!Contents(q)

Mail == INSTANCE FrameQueue WITH
    Blocks <- Inpkt \cup Apps, Capacity <- OSQSize + 1, Nothing <- None, Kept <- FALSE,
    queue <- Posted, taken <- msg

(***************************************************************************)
(* Whatever the interrupt, the callers, time-outs that meet a post and the *)
(* ring's wrap-around do, the thread gets every posted message once and in *)
(* the order of posting.                                                   *)
(***************************************************************************)
MailIsQueue == Mail!QSpec

(***************************************************************************)
(* sys_mbox_post's busy loop is never entered: when the mailbox is full    *)
(* every packet element and every caller's message is in it already, for   *)
(* packets are limited by their pool and a task has one call at a time.    *)
(* Otherwise a caller of higher priority than the thread would keep it     *)
(* from emptying the mailbox.                                              *)
(***************************************************************************)
PostAtOnce == Refused => pool = {} /\ \A a \in Apps : app[a] # "post"

(* A packet element is free, on its way, or being handled: none is lost or *)
(* used twice.                                                             *)
PoolKept ==
    LET used == {i \in DOMAIN Posted : Posted[i] \in Inpkt}
        held == IF pc \in {"got", "handle"} THEN {msg} \cap Inpkt ELSE {}
    IN  /\ Cardinality(pool) + Cardinality(used) + Cardinality(held) = NINPKT
        /\ pool \cap ({Posted[i] : i \in used} \cup held) = {}

(* Every cyclic timer is in the list, once; TCP's when it is said to be    *)
(* active, and always while there are connections, among them those with a *)
(* call that only a packet or this timer can end.                          *)
TimersKept ==
    /\ \A h \in Cyclic : Armed(list, h) = 1
    /\ Armed(list, "tcp") = IF active THEN 1 ELSE 0
    /\ pcbs => active
    /\ open # {} => pcbs

(* The timer that fires in this step.                                      *)
Fires(h) == pc = "fire" /\ pc' = "fetch" /\ list[1].h = h

DueTime(l, h) == Due(l, CHOOSE i \in DOMAIN l : l[i].h = h)

(***************************************************************************)
(* The relative times of the list are right after every insertion and      *)
(* removal: what is done to one timer never makes another later, nor       *)
(* earlier, except by the time that has been waited.                       *)
(***************************************************************************)
NeverPostponed ==
    [][list' # list => \A h \in Handlers :
         Armed(list, h) = 1 /\ Armed(list', h) = 1 /\ ~Fires(h) =>
             \/ DueTime(list', h) = DueTime(list, h)
             \/ pc = "got" /\ DueTime(list', h) < DueTime(list, h)
             \/ pc = "fire" /\ DueTime(list', h) = DueTime(list, h) - list[1].time
      ]_vars

(* Between interrupts the ring holds no frame, save one that arrived after *)
(* the handler's last look at the ring and before it cleared the status:   *)
(* that one waits for the next frame's interrupt.                          *)
RingDrained == isr = "off" /\ ~rs => E!Held <= IF burst = "clear" THEN 1 ELSE 0

(***************************************************************************)
(* However many packets and other calls there are, a call that was posted  *)
(* is answered, unless TCP leaves it unfinished for ever; and while calls  *)
(* are left to TCP, TCP's timer, which polls them, goes on firing.  (A     *)
(* caller of low priority may wait for the CPU before and after.)          *)
(***************************************************************************)
IsAnswered(a) == \/ sem[a] > 0
                 \/ app[a] = "idle"
                 \/ app[a] = "waiting" /\ tcb[a].rdy

CallsAnswered ==
    /\ \A a \in Apps : []<>(a \notin open) => (app[a] = "sem" ~> IsAnswered(a))
    /\ <>[](open # {}) => []<><<Fires("tcp")>>_vars

(* Cyclic timers go on firing, also under a load that never lets the       *)
(* thread wait.                                                            *)
TimersFire == \A h \in Cyclic : []<><<Fires(h)>>_vars
=============================================================================
