------------------------------- MODULE WebCam -------------------------------
(***************************************************************************)
(* One session of the web camera, APP/webcamera/webcamera.c: the DMA       *)
(* interrupt queues blocks of JPEG data, the send task (priority 2) writes *)
(* them to the TCP client, and webcam_run in the main task (priority 11)   *)
(* opens and closes the server, accepts and drops clients, and shuts       *)
(* everything down.  They share the FIFO, webcam_sendtask_status and the   *)
(* netconn webcamnet, with no lock.                                        *)
(*                                                                         *)
(* Scheduling.  Tasks are preemptive with fixed priorities: the main task  *)
(* takes a step only while the send task is blocked (in netconn_write, in  *)
(* delay_ms) or gone.  The interrupt comes anywhere.                       *)
(*                                                                         *)
(* netconn_*, OSTaskCreate and the DMA are external.  Every netconn        *)
(* operation posts a message to the TCP/IP thread and waits for the        *)
(* connection's one semaphore, so a close during another task's write      *)
(* wakes the writer, which has the higher priority, with no result, and    *)
(* itself waits until that write has ended.                                *)
(***************************************************************************)
EXTENDS Naturals

CONSTANTS NUM,          \* WEBCAM_FIFO_NUM
          Clients,      \* number of clients that may connect
          MaxBlocks,    \* bound: blocks the camera delivers
          MaxFatal,     \* bound: writes that end in ERR_ABRT, RST or CLSD
          CreateFails   \* may webcam_send_task_creat fail?

ASSUME WebCamAssumption ==
    /\ NUM \in Nat /\ NUM >= 2
    /\ Clients \in Nat /\ MaxBlocks \in Nat /\ MaxFatal \in Nat
    /\ CreateFails \in BOOLEAN

VARIABLES
    status,             \* webcam_sendtask_status
    rd, wr, slot,       \* webcamfifordpos, webcamfifowrpos, webcamfifobuf
    spc, tbuf,          \* the send task and its tbuf (a slot)
    mpc,                \* the main task in webcam_run
    tcpstatus, tcpconn, \* its locals
    listening,          \* netconnnew is open
    webcamnet,          \* the client's netconn, 0 for NULL
    conn,               \* external: the clients' netconns
    writing,            \* external: the netconn with a write in progress, or 0
    capture,            \* external: DCMI and its DMA run
    stack, mem,         \* the task's stack and the FIFO are allocated
    blocks, burst, fatals

fifo  == <<rd, wr, slot>>
net   == <<listening, webcamnet, conn, writing>>
local == <<tcpstatus, tcpconn>>
alloc == <<stack, mem>>
count == <<blocks, burst, fatals>>
vars  == <<status, fifo, spc, tbuf, mpc, local, net, capture, alloc, count>>

Slot    == 0 .. NUM - 1
REQUEST == 255                          \* 0xFF: delete the task

-----------------------------------------------------------------------------
(* The DMA interrupt.  No task runs between two instructions of it.        *)

After(p) == IF p + 1 >= NUM THEN 0 ELSE p + 1

(* webcam_fifo_write: a full FIFO drops the block.  Two blocks are 4096    *)
(* words apart, so at most one arrives within webcam_fifo_read.            *)
DmaBlock_full ==                        \* mutant: overwrites when full
    /\ capture /\ blocks < MaxBlocks
    /\ spc = "wrap" => burst = 0
    /\ blocks' = blocks + 1 /\ burst' = 1
    /\ wr' = After(wr) /\ slot' = [slot EXCEPT ![After(wr)] = blocks + 1]
    /\ UNCHANGED <<status, rd, spc, tbuf, mpc, local, net, capture, alloc, fatals>>

DmaBlock ==
    /\ capture /\ blocks < MaxBlocks
    /\ spc = "wrap" => burst = 0
    /\ blocks' = blocks + 1 /\ burst' = 1
    /\ IF rd = After(wr)
         THEN UNCHANGED <<wr, slot>>
         ELSE wr' = After(wr) /\ slot' = [slot EXCEPT ![After(wr)] = blocks + 1]
    /\ UNCHANGED <<status, rd, spc, tbuf, mpc, local, net, capture, alloc, fatals>>

-----------------------------------------------------------------------------
(* webcam_send_task.                                                       *)

Gone == status' = 0 /\ spc' = "dead"

SendIdle_deaf ==                        \* mutant: line 178 is missing
    /\ spc = "loop"
    /\ status # 0 /\ (status = 1 => rd = wr)
    /\ spc' = "delay" /\ UNCHANGED status
    /\ UNCHANGED <<fifo, tbuf, mpc, local, net, capture, alloc, count>>

(* Nothing to send: leave if asked to, or wait for the next tick.          *)
SendIdle ==
    /\ spc = "loop"
    /\ status = 1 => rd = wr
    /\ IF status \in {0, REQUEST} THEN Gone
                                  ELSE spc' = "delay" /\ UNCHANGED status
    /\ UNCHANGED <<fifo, tbuf, mpc, local, net, capture, alloc, count>>

Tick ==
    /\ spc = "delay"
    /\ spc' = "loop"
    /\ UNCHANGED <<status, fifo, tbuf, mpc, local, net, capture, alloc, count>>

(* webcam_fifo_read: the read position is one past the end until it is     *)
(* reset, and the interrupt can see it there.                              *)
ReadAdvance ==
    /\ spc = "loop"
    /\ status = 1 /\ rd # wr
    /\ rd' = rd + 1 /\ burst' = 0
    /\ spc' = "wrap"
    /\ UNCHANGED <<status, wr, slot, tbuf, mpc, local, net, capture, alloc,
                   blocks, fatals>>

ReadWrap ==
    /\ spc = "wrap"
    /\ rd' = IF rd >= NUM THEN 0 ELSE rd
    /\ tbuf' = rd'
    /\ spc' = "write" /\ writing' = webcamnet
    /\ UNCHANGED <<status, wr, slot, mpc, local, listening, webcamnet, conn,
                   capture, alloc, count>>

(* netconn_write returns; a fatal error stops the sending.                 *)
WriteReturns ==
    /\ spc = "write"
    /\ spc' = "loop" /\ writing' = 0
    /\ \/ UNCHANGED <<status, fatals>>
       \/ fatals < MaxFatal /\ fatals' = fatals + 1 /\ status' = 2
    /\ UNCHANGED <<fifo, tbuf, mpc, local, listening, webcamnet, conn, capture,
                   alloc, blocks, burst>>

(* A write whose caller was woken before ends: only the closer learns.     *)
WriteEnds ==
    /\ writing # 0 /\ spc # "write"
    /\ writing' = 0
    /\ UNCHANGED <<status, fifo, spc, tbuf, mpc, local, listening, webcamnet,
                   conn, capture, alloc, count>>

-----------------------------------------------------------------------------
(* webcam_run.  One action per shared access or blocking call.             *)

Blocked == spc \in {"write", "delay", "dead", "none"}

At(p) == mpc = p /\ Blocked

(* The task gets its stack and its first status; the loop, or straight to  *)
(* the end when that fails.                                                *)
Create ==
    /\ At("create")
    /\ \/ /\ status' = 2 /\ spc' = "loop" /\ stack' = TRUE
          /\ mpc' = "loop"
       \/ /\ CreateFails
          /\ \/ UNCHANGED <<status, stack>>             \* no memory
             \/ status' = 2 /\ stack' = TRUE            \* no task
          /\ mpc' = "stop" /\ UNCHANGED spc
    /\ UNCHANGED <<fifo, tbuf, local, net, capture, mem, count>>

(* The button that opens and closes the server.                            *)
NoPress == At("loop") /\ mpc' = "accept" /\ UNCHANGED <<local, listening>>

Open == /\ At("loop") /\ tcpstatus = 0
        /\ tcpconn' = 0 /\ listening' = TRUE
        /\ \/ tcpstatus' = 1 /\ mpc' = "accept"
           \/ tcpstatus' = 0 /\ mpc' = "off"            \* bind or listen fails

Close == /\ At("loop") /\ tcpstatus = 1
         /\ tcpstatus' = 0 /\ tcpconn' = 0 /\ mpc' = "off"
         /\ UNCHANGED listening

Button == /\ NoPress \/ Open \/ Close
          /\ UNCHANGED <<status, fifo, spc, tbuf, webcamnet, conn, writing,
                         capture, alloc, count>>

Off_only ==                             \* mutant: the task is not told
    /\ At("off")
    /\ mpc' = "offClient" /\ listening' = FALSE
    /\ UNCHANGED <<status, fifo, spc, tbuf, local, webcamnet, conn, writing,
                   capture, alloc, count>>

(* webcam_send_task_stop, and net_disconnect of the listening netconn.     *)
Off ==
    /\ At("off")
    /\ status' = 2
    /\ mpc' = "offClient" /\ listening' = FALSE
    /\ UNCHANGED <<fifo, spc, tbuf, local, webcamnet, conn, writing, capture,
                   alloc, count>>

(* net_disconnect(webcamnet): close and delete.  During a write the writer *)
(* is woken with whatever its result holds, and the closer waits.          *)
Waiting == [offClient |-> "offWait", drop |-> "dropWait", disc |-> "discWait"]
Next3   == [offClient |-> "accept", drop |-> "return", disc |-> "free",
            offWait |-> "accept", dropWait |-> "return", discWait |-> "free"]

Fate(p) == IF p \in {"drop", "dropWait"} THEN "left" ELSE "freed"

Pointer_kept(p) == webcamnet            \* mutant: never set to NULL
Pointer(p) == IF p \in {"drop", "dropWait"} THEN webcamnet ELSE 0

Disconnect ==
    /\ mpc \in DOMAIN Waiting /\ Blocked
    /\ IF webcamnet # 0 /\ writing = webcamnet
         THEN /\ mpc' = Waiting[mpc]
              /\ spc' = IF spc = "write" THEN "loop" ELSE spc
              /\ status' \in {status} \cup (IF spc = "write" THEN {2} ELSE {})
              /\ UNCHANGED <<webcamnet, conn>>
         ELSE /\ mpc' = Next3[mpc]
              /\ conn' = [c \in DOMAIN conn |-> IF c = webcamnet THEN Fate(mpc)
                                                                 ELSE conn[c]]
              /\ webcamnet' = Pointer(mpc)
              /\ UNCHANGED <<status, spc>>
    /\ tcpconn' = IF mpc = "drop" THEN 0 ELSE tcpconn
    /\ listening' = (listening /\ mpc # "disc")
    /\ UNCHANGED <<fifo, tbuf, tcpstatus, writing, capture, alloc, count>>

Disconnected ==
    /\ mpc \in {"offWait", "dropWait", "discWait"} /\ Blocked
    /\ writing = 0
    /\ mpc' = Next3[mpc]
    /\ conn' = [conn EXCEPT ![webcamnet] = Fate(mpc)]
    /\ webcamnet' = Pointer(mpc)
    /\ UNCHANGED <<status, fifo, spc, tbuf, local, listening, writing, capture,
                   alloc, count>>

(* netconn_accept clears webcamnet first and gives up after 10 ms.         *)
Accept ==
    /\ At("accept") /\ tcpconn = 0 /\ tcpstatus = 1
    /\ \/ webcamnet' = 0 /\ UNCHANGED <<conn, status, tcpconn>>
       \/ \E c \in DOMAIN conn :
            /\ conn[c] = "new" /\ \A d \in DOMAIN conn : conn[d] = "new" => c <= d
            /\ conn' = [conn EXCEPT ![c] = "open"]
            /\ webcamnet' = c /\ tcpconn' = 1
            /\ status' = 1
    /\ mpc' = "return"
    /\ UNCHANGED <<fifo, spc, tbuf, tcpstatus, listening, writing, capture,
                   alloc, count>>

(* A stopped task means the client left: net_disconnect(webcamnet), whose  *)
(* pointer stays as it is.                                                 *)
Watch ==
    /\ At("accept") /\ ~(tcpconn = 0 /\ tcpstatus = 1)
    /\ mpc' = IF status = 2 THEN "drop" ELSE "return"
    /\ UNCHANGED <<status, fifo, spc, tbuf, local, net, capture, alloc, count>>

(* The return key ends the loop.                                           *)
Return ==
    /\ At("return")
    /\ mpc' \in {"loop", "stop"}
    /\ UNCHANGED <<status, fifo, spc, tbuf, local, net, capture, alloc, count>>

Stop ==
    /\ At("stop")
    /\ status' = 2
    /\ mpc' = "delete"
    /\ capture' = FALSE
    /\ UNCHANGED <<fifo, spc, tbuf, local, net, alloc, count>>

Delete_nowait ==                        \* mutant: line 142 is missing
    /\ At("delete")
    /\ status' = REQUEST
    /\ mpc' = "disc" /\ stack' = FALSE
    /\ UNCHANGED <<fifo, spc, tbuf, local, net, capture, mem, count>>

(* webcam_send_task_delete: ask, wait for the answer, free the stack.      *)
Delete ==
    /\ At("delete")
    /\ IF status # 0 THEN status' = REQUEST /\ mpc' = "spin"
                     ELSE mpc' = "disc" /\ UNCHANGED status
    /\ UNCHANGED <<fifo, spc, tbuf, local, net, capture, alloc, count>>

Deleted ==
    /\ At("spin")
    /\ status = 0
    /\ stack' = FALSE
    /\ mpc' = "disc"
    /\ UNCHANGED <<status, fifo, spc, tbuf, local, net, capture, mem, count>>

FreeAll ==
    /\ At("free")
    /\ mem' = FALSE
    /\ mpc' = "done"
    /\ UNCHANGED <<status, fifo, spc, tbuf, local, net, capture, stack, count>>

-----------------------------------------------------------------------------

Init ==
    /\ status = 0 /\ rd = 0 /\ wr = 0 /\ slot = [s \in Slot |-> 0]
    /\ spc = "none" /\ tbuf = 0 /\ mpc = "create"
    /\ tcpstatus = 0 /\ tcpconn = 0
    /\ listening = FALSE /\ webcamnet = 0 /\ writing = 0
    /\ conn = [c \in 1 .. Clients |-> "new"]
    /\ capture = TRUE /\ stack = FALSE /\ mem = TRUE
    /\ blocks = 0 /\ burst = 0 /\ fatals = 0

Send == SendIdle \/ Tick \/ ReadAdvance \/ ReadWrap \/ WriteReturns
Main == Create \/ Button \/ Off \/ Disconnect \/ Disconnected \/ Accept \/ Watch
        \/ Return \/ Stop \/ Delete \/ Deleted \/ FreeAll

Next == DmaBlock \/ Send \/ WriteEnds \/ Main

Spec == Init /\ [][Next]_vars

(***************************************************************************)
(* Both tasks are scheduled (nothing of higher priority runs for ever),    *)
(* ticks come, and TCP ends every write: acknowledged, or given up.        *)
(***************************************************************************)
FairSpec == Spec /\ WF_vars(Send) /\ WF_vars(WriteEnds) /\ WF_vars(Main)

-----------------------------------------------------------------------------
(* Properties.                                                             *)

(* The blocks between the two positions, oldest first; the block at the    *)
(* read position is the one taken last.                                    *)
Position == rd % NUM
Queued   == (wr + NUM - Position) % NUM
Pending  == [i \in 1 .. Queued |-> slot[(Position + i) % NUM]]
Latest   == slot[Position]

FIFO == INSTANCE FrameQueue WITH
    Blocks <- 1 .. MaxBlocks, Capacity <- NUM - 1, Nothing <- 0, Kept <- TRUE,
    queue <- Pending, taken <- Latest

(***************************************************************************)
(* The ring written by the interrupt and read by the task without a lock   *)
(* is a queue, although the read position is out of range for a moment,    *)
(* and the block taken last, which netconn_write sends from its slot while *)
(* the interrupt goes on, is not overwritten until the next is taken.      *)
(***************************************************************************)
FifoIsQueue == FIFO!QSpec

(* What is freed is not used: the stack by the task, the FIFO by either.   *)
NothingUsesFreed ==
    /\ ~stack => spc \in {"none", "dead"}
    /\ ~mem => ~capture /\ spc \in {"none", "dead"}

(* The task only sends to a client that is connected.                      *)
SendsToClient == status = 1 => webcamnet # 0 /\ conn[webcamnet] = "open"

(***************************************************************************)
(* A client's netconn is closed and deleted once - except that of a client *)
(* that had left: line 417 keeps its pointer, and when the server is shut  *)
(* or the application ended before netconn_accept clears it (line 408),    *)
(* the memory is given back twice.                                         *)
(***************************************************************************)
DeletedOnceOtherwise ==
    mpc \in DOMAIN Waiting /\ webcamnet # 0 => conn[webcamnet] \in {"open", "left"}

(***************************************************************************)
(* The return key ends the application (webcamera.c:142 "wait until the    *)
(* task has been deleted") ...                                             *)
(***************************************************************************)
ExitEnds == mpc = "spin" ~> mpc = "done"

(***************************************************************************)
(* ... unless the task's own stop (line 173, after a fatal error) has      *)
(* overwritten the request, or there is no task to answer it.              *)
(***************************************************************************)
ExitUnlessOverwritten ==
    [](mpc = "spin" => status # 2 /\ spc # "none") => ExitEnds

=============================================================================
