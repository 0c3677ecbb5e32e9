---------------------------- MODULE WebCam_proofs ----------------------------
(***************************************************************************)
(* The invariants of a session of the web camera and the refinement of its *)
(* FIFO, for every size of the FIFO, any number of clients and of blocks.  *)
(* Life relates the status to the lives of the send task and its memory,   *)
(* Client to the pointer webcamnet, Room is about the moment in which the  *)
(* read position is out of range.                                          *)
(***************************************************************************)
EXTENDS WebCam, Sequences, TLAPS

Waits  == {"offWait", "dropWait", "discWait"}
Ending == {"disc", "discWait", "free", "done"}
Places == Waits \cup Ending \cup {"create", "loop", "accept", "off", "offClient",
                                  "drop", "return", "stop", "delete", "spin"}

Ranges ==
    /\ status \in {0, 1, 2, REQUEST}
    /\ rd \in 0 .. NUM /\ (rd = NUM => spc = "wrap") /\ wr \in Slot
    /\ slot \in [Slot -> Nat] /\ tbuf \in Slot
    /\ spc \in {"none", "loop", "delay", "wrap", "write", "dead"} /\ mpc \in Places
    /\ tcpstatus \in {0, 1} /\ tcpconn \in {0, 1}
    /\ webcamnet \in 0 .. Clients /\ writing \in 0 .. Clients
    /\ conn \in [1 .. Clients -> {"new", "open", "left", "freed"}]
    /\ blocks \in Nat /\ burst \in {0, 1} /\ fatals \in Nat

Flags  == /\ listening \in BOOLEAN /\ capture \in BOOLEAN
          /\ stack \in BOOLEAN /\ mem \in BOOLEAN
TypeOK == Ranges /\ Flags

(* Status 0 is the answer of a deleted task, or no task has been made.     *)
Life ==
    /\ spc = "dead" => status = 0 /\ mpc \in Ending \cup {"spin"}
    /\ spc = "none" => mpc \in {"create", "stop", "delete", "spin"}
    /\ status = 0 => spc = "dead" \/ (spc = "none" /\ mpc \in {"create", "stop"})
    /\ status = REQUEST => mpc = "spin"
    /\ mpc = "create" => spc = "none"
    /\ mpc = "delete" => status = 2
    /\ mpc \in Ending => status = 0
    /\ mpc \in Ending \cup {"delete", "spin"} => ~capture
    /\ ~stack => spc = "none" \/ mpc \in Ending
    /\ ~mem => mpc = "done"

(* Status 1 has a client behind it, from the accept to the next stop.      *)
Client ==
    /\ status = 1 => /\ mpc \in {"loop", "accept", "return", "off", "stop"}
                     /\ webcamnet # 0 /\ conn[webcamnet] = "open"
                     /\ mpc # "off" => tcpconn = 1 /\ tcpstatus = 1
    /\ mpc \in {"offClient", "drop", "offWait", "dropWait"} => status = 2
    /\ webcamnet # 0 => conn[webcamnet] \in {"open", "left"}
    /\ mpc \in Waits => webcamnet # 0

Pos         == IF rd = NUM THEN 0 ELSE rd
Ahead(p, i) == IF p + i < NUM THEN p + i ELSE p + i - NUM
Fill        == IF wr >= Pos THEN wr - Pos ELSE wr + NUM - Pos

Room == spc = "wrap" /\ burst = 0 => Fill <= NUM - 2

IInv == TypeOK /\ Life /\ Client /\ Room
-----------------------------------------------------------------------------

(* The two tables of net_disconnect. *)
LEMMA Tables ==
  /\ DOMAIN Waiting = {"offClient", "drop", "disc"}
  /\ Waiting["offClient"] = "offWait" /\ Waiting["drop"] = "dropWait"
  /\ Waiting["disc"] = "discWait"
  /\ Next3["offClient"] = "accept" /\ Next3["drop"] = "return" /\ Next3["disc"] = "free"
  /\ Next3["offWait"] = "accept" /\ Next3["dropWait"] = "return"
  /\ Next3["discWait"] = "free"
  BY DEF Waiting, Next3

LEMMA InitInv == Init => IInv
<1> SUFFICES ASSUME Init PROVE IInv
  OBVIOUS
<1>1. 0 \in Slot /\ 0 \in 0 .. Clients /\ 0 \in 0 .. NUM /\ NUM # 0
  BY WebCamAssumption DEF Slot
<1>2. Ranges
  BY <1>1 DEF Init, Ranges, Places, Waits, Ending
<1>3. Flags
  BY Zenon DEF Init, Flags
<1>4. Life /\ Client /\ Room
  BY DEF Init, Life, Client, Room, Waits, Ending, REQUEST
<1> QED
  BY <1>2, <1>3, <1>4 DEF IInv, TypeOK

LEMMA StepFlags == Flags /\ [Next]_vars => Flags'
<1> SUFFICES ASSUME Flags, [Next]_vars PROVE Flags'
  OBVIOUS
<1> USE Zenon DEF Flags
<1>1. CASE DmaBlock
  BY <1>1 DEF DmaBlock, fifo, net, local, alloc, count
<1>2. CASE SendIdle
  BY <1>2 DEF SendIdle, fifo, net, local, alloc, count
<1>3. CASE Tick
  BY <1>3 DEF Tick, fifo, net, local, alloc, count
<1>4. CASE ReadAdvance
  BY <1>4 DEF ReadAdvance, fifo, net, local, alloc, count
<1>5. CASE ReadWrap
  BY <1>5 DEF ReadWrap, fifo, net, local, alloc, count
<1>6. CASE WriteReturns
  BY <1>6 DEF WriteReturns, fifo, net, local, alloc, count
<1>7. CASE WriteEnds
  BY <1>7 DEF WriteEnds, fifo, net, local, alloc, count
<1>8. CASE Create
  BY <1>8 DEF Create, fifo, net, local, alloc, count
<1>9. CASE Button
  BY <1>9 DEF Button, NoPress, Open, Close, fifo, net, local, alloc, count
<1>10. CASE Off
  BY <1>10 DEF Off, fifo, net, local, alloc, count
<1>11. CASE Disconnect
  BY <1>11 DEF Disconnect, fifo, net, local, alloc, count
<1>12. CASE Disconnected
  BY <1>12 DEF Disconnected, fifo, net, local, alloc, count
<1>13. CASE Accept
  BY <1>13 DEF Accept, fifo, net, local, alloc, count
<1>14. CASE Watch
  BY <1>14 DEF Watch, fifo, net, local, alloc, count
<1>15. CASE Return
  BY <1>15 DEF Return, fifo, net, local, alloc, count
<1>16. CASE Stop
  BY <1>16 DEF Stop, fifo, net, local, alloc, count
<1>17. CASE Delete
  BY <1>17 DEF Delete, fifo, net, local, alloc, count
<1>18. CASE Deleted
  BY <1>18 DEF Deleted, fifo, net, local, alloc, count
<1>19. CASE FreeAll
  BY <1>19 DEF FreeAll, fifo, net, local, alloc, count
<1>20. CASE UNCHANGED vars
  BY <1>20 DEF vars, fifo, net, local, alloc, count
<1> QED
  BY <1>1, <1>2, <1>3, <1>4, <1>5, <1>6, <1>7, <1>8, <1>9, <1>10, <1>11,
     <1>12, <1>13, <1>14, <1>15, <1>16, <1>17, <1>18, <1>19, <1>20 DEF Next, Send, Main

LEMMA StepRanges == Ranges /\ [Next]_vars => Ranges'
<1> SUFFICES ASSUME Ranges, [Next]_vars PROVE Ranges'
  OBVIOUS
<1> USE WebCamAssumption DEF Ranges, Slot, Places, Waits, Ending, REQUEST
<1>0. After(wr) \in Slot
  BY DEF After
<1>1. CASE DmaBlock
  <2>1. wr' \in Slot /\ slot' \in [Slot -> Nat]
    <3>1. CASE rd = After(wr)
      BY <1>1, <3>1 DEF DmaBlock
    <3>2. CASE rd # After(wr)
      <4>1. wr' = After(wr) /\ slot' = [slot EXCEPT ![After(wr)] = blocks + 1]
        BY <1>1, <3>2 DEF DmaBlock
      <4> QED
        BY <1>0, <4>1
    <3> QED
      BY <3>1, <3>2
  <2> QED
    BY <1>1, <2>1 DEF DmaBlock, net, local, alloc
<1>2. CASE SendIdle
  BY <1>2 DEF SendIdle, Gone, fifo, net, local, alloc, count
<1>3. CASE Tick
  BY <1>3 DEF Tick, At, Blocked, fifo, net, local, alloc, count
<1>4. CASE ReadAdvance
  BY <1>4 DEF ReadAdvance, fifo, net, local, alloc, count
<1>5. CASE ReadWrap
  BY <1>5 DEF ReadWrap, At, Blocked, fifo, net, local, alloc, count
<1>6. CASE WriteReturns
  BY <1>6 DEF WriteReturns, At, Blocked, fifo, net, local, alloc, count
<1>7. CASE WriteEnds
  BY <1>7 DEF WriteEnds, At, Blocked, fifo, net, local, alloc, count
<1>8. CASE Create
  BY <1>8 DEF Create, At, Blocked, fifo, net, local, alloc, count
<1>9. CASE Button
  BY <1>9 DEF Button, NoPress, Open, Close, At, Blocked, fifo, net, local, alloc, count
<1>10. CASE Off
  BY <1>10 DEF Off, At, Blocked, fifo, net, local, alloc, count
<1>11. CASE Disconnect
  <2>1. mpc' \in Places
    BY <1>11, Tables DEF Disconnect
  <2>2. webcamnet' \in 0 .. Clients
    BY <1>11 DEF Disconnect, Pointer
  <2>3. conn' \in [1 .. Clients -> {"new", "open", "left", "freed"}]
    BY <1>11 DEF Disconnect, Fate
  <2> QED
    BY <1>11, <2>1, <2>2, <2>3 DEF Disconnect, fifo, net, local, alloc, count
<1>12. CASE Disconnected
  <2>1. mpc' \in Places
    BY <1>12, Tables DEF Disconnected
  <2>2. webcamnet' \in 0 .. Clients
    BY <1>12 DEF Disconnected, Pointer
  <2>3. conn' \in [1 .. Clients -> {"new", "open", "left", "freed"}]
    BY <1>12 DEF Disconnected, Fate
  <2> QED
    BY <1>12, <2>1, <2>2, <2>3 DEF Disconnected, fifo, net, local, alloc, count
<1>13. CASE Accept
  BY <1>13 DEF Accept, At, Blocked, fifo, net, local, alloc, count
<1>14. CASE Watch
  BY <1>14 DEF Watch, At, Blocked, fifo, net, local, alloc, count
<1>15. CASE Return
  BY <1>15 DEF Return, At, Blocked, fifo, net, local, alloc, count
<1>16. CASE Stop
  BY <1>16 DEF Stop, At, Blocked, fifo, net, local, alloc, count
<1>17. CASE Delete
  BY <1>17 DEF Delete, At, Blocked, fifo, net, local, alloc, count
<1>18. CASE Deleted
  BY <1>18 DEF Deleted, At, Blocked, fifo, net, local, alloc, count
<1>19. CASE FreeAll
  BY <1>19 DEF FreeAll, At, Blocked, fifo, net, local, alloc, count
<1>20. CASE UNCHANGED vars
  BY <1>20 DEF vars, fifo, net, local, alloc, count
<1> QED
  BY <1>1, <1>2, <1>3, <1>4, <1>5, <1>6, <1>7, <1>8, <1>9, <1>10, <1>11,
     <1>12, <1>13, <1>14, <1>15, <1>16, <1>17, <1>18, <1>19, <1>20 DEF Next, Send, Main

LEMMA StepLife ==
  ASSUME Ranges, Life, Client, [Next]_vars
  PROVE  Life'
<1> USE DEF Life, Ending, REQUEST
<1>1. CASE DmaBlock
  BY <1>1 DEF DmaBlock, At, Blocked, fifo, net, local, alloc, count
<1>2. CASE SendIdle
  BY <1>2 DEF SendIdle, Gone, fifo, net, local, alloc, count
<1>3. CASE Tick
  BY <1>3 DEF Tick, At, Blocked, fifo, net, local, alloc, count
<1>4. CASE ReadAdvance
  BY <1>4 DEF ReadAdvance, At, Blocked, fifo, net, local, alloc, count
<1>5. CASE ReadWrap
  BY <1>5 DEF ReadWrap, At, Blocked, fifo, net, local, alloc, count
<1>6. CASE WriteReturns
  BY <1>6 DEF WriteReturns, Ranges, fifo, net, local, alloc, count
<1>7. CASE WriteEnds
  BY <1>7 DEF WriteEnds, At, Blocked, fifo, net, local, alloc, count
<1>8. CASE Create
  BY <1>8 DEF Create, At, Blocked, fifo, net, local, alloc, count
<1>9. CASE Button
  BY <1>9 DEF Button, NoPress, Open, Close, At, Blocked, fifo, net, local, alloc, count
<1>10. CASE Off
  BY <1>10 DEF Off, At, Blocked, fifo, net, local, alloc, count
<1>11. CASE Disconnect
  <2>1. mpc \in {"offClient", "drop", "disc"} /\ Blocked
    BY <1>11, Tables DEF Disconnect
  <2>2. \/ mpc' \in {"offWait", "accept"} /\ mpc = "offClient"
        \/ mpc' \in {"dropWait", "return"} /\ mpc = "drop"
        \/ mpc' \in {"discWait", "free"} /\ mpc = "disc"
    BY <1>11, <2>1, Tables DEF Disconnect
  <2>3. /\ spc' = spc \/ (spc = "write" /\ spc' = "loop")
        /\ status' = status \/ (spc = "write" /\ status' = 2)
        /\ UNCHANGED <<capture, stack, mem>>
    BY <1>11 DEF Disconnect, alloc
  <2> QED
    BY <2>1, <2>2, <2>3 DEF Client
<1>12. CASE Disconnected
  <2>1. \/ mpc' = "accept" /\ mpc = "offWait"
        \/ mpc' = "return" /\ mpc = "dropWait"
        \/ mpc' = "free" /\ mpc = "discWait"
    BY <1>12, Tables DEF Disconnected
  <2> QED
    BY <1>12, <2>1 DEF Disconnected, Client, alloc
<1>13. CASE Accept
  BY <1>13 DEF Accept, At, Blocked, fifo, net, local, alloc, count
<1>14. CASE Watch
  BY <1>14 DEF Watch, At, Blocked, fifo, net, local, alloc, count
<1>15. CASE Return
  BY <1>15 DEF Return, At, Blocked, fifo, net, local, alloc, count
<1>16. CASE Stop
  BY <1>16 DEF Stop, At, Blocked, fifo, net, local, alloc, count
<1>17. CASE Delete
  BY <1>17 DEF Delete, At, Blocked, fifo, net, local, alloc, count
<1>18. CASE Deleted
  BY <1>18 DEF Deleted, At, Blocked, fifo, net, local, alloc, count
<1>19. CASE FreeAll
  BY <1>19 DEF FreeAll, At, Blocked, fifo, net, local, alloc, count
<1>20. CASE UNCHANGED vars
  BY <1>20 DEF vars, fifo, net, local, alloc, count
<1> QED
  BY <1>1, <1>2, <1>3, <1>4, <1>5, <1>6, <1>7, <1>8, <1>9, <1>10, <1>11,
     <1>12, <1>13, <1>14, <1>15, <1>16, <1>17, <1>18, <1>19, <1>20 DEF Next, Send, Main

LEMMA StepClient ==
  ASSUME Ranges, Life, Client, [Next]_vars
  PROVE  Client'
<1> USE DEF Client, Waits, REQUEST
<1>1. CASE DmaBlock
  BY <1>1 DEF DmaBlock, At, Blocked, fifo, net, local, alloc, count
<1>2. CASE SendIdle
  BY <1>2 DEF SendIdle, Gone, fifo, net, local, alloc, count
<1>3. CASE Tick
  BY <1>3 DEF Tick, At, Blocked, fifo, net, local, alloc, count
<1>4. CASE ReadAdvance
  BY <1>4 DEF ReadAdvance, At, Blocked, fifo, net, local, alloc, count
<1>5. CASE ReadWrap
  BY <1>5 DEF ReadWrap, At, Blocked, fifo, net, local, alloc, count
<1>6. CASE WriteReturns
  BY <1>6 DEF WriteReturns, At, Blocked, fifo, net, local, alloc, count
<1>7. CASE WriteEnds
  BY <1>7 DEF WriteEnds, At, Blocked, fifo, net, local, alloc, count
<1>8. CASE Create
  BY <1>8 DEF Create, At, Blocked, Life, fifo, net, local, alloc, count
<1>9. CASE Button
  BY <1>9 DEF Button, NoPress, Open, Close, At, Blocked, fifo, net, local, alloc, count
<1>10. CASE Off
  BY <1>10 DEF Off, At
<1>11. CASE Disconnect
  <2>1. mpc \in {"offClient", "drop", "disc"} /\ status # 1
    BY <1>11, Tables DEF Disconnect
  <2>2. status' # 1 /\ (status = 2 => status' = 2)
    BY <1>11, <2>1 DEF Disconnect
  <2>3. CASE webcamnet # 0 /\ writing = webcamnet
    BY <1>11, <2>1, <2>2, <2>3, Tables DEF Disconnect
  <2>4. CASE ~(webcamnet # 0 /\ writing = webcamnet)
    <3>1. \/ mpc \in {"offClient", "disc"} /\ webcamnet' = 0
          \/ mpc = "drop" /\ webcamnet' = webcamnet
      BY <1>11, <2>1, <2>4 DEF Disconnect, Pointer
    <3>2. mpc = "drop" /\ webcamnet # 0 => conn'[webcamnet] = "left"
      <4>1. DOMAIN conn = 1 .. Clients /\ (webcamnet # 0 => webcamnet \in 1 .. Clients)
        BY WebCamAssumption DEF Ranges
      <4> QED
        BY <1>11, <2>4, <4>1 DEF Disconnect, Fate
    <3>3. mpc' = Next3[mpc] /\ mpc' \in {"accept", "return", "free"}
      BY <1>11, <2>1, <2>4, Tables DEF Disconnect
    <3> QED
      BY <2>2, <3>1, <3>2, <3>3
  <2> QED
    BY <2>3, <2>4
<1>12. CASE Disconnected
  <2>1. \/ mpc' = "accept" /\ mpc = "offWait" /\ webcamnet' = 0
        \/ mpc' = "return" /\ mpc = "dropWait" /\ webcamnet' = webcamnet
        \/ mpc' = "free" /\ mpc = "discWait" /\ webcamnet' = 0
    BY <1>12, Tables DEF Disconnected, Pointer
  <2>2. mpc = "dropWait" => conn'[webcamnet] = "left"
    BY <1>12 DEF Disconnected, Fate, Ranges
  <2> QED
    BY <1>12, <2>1, <2>2 DEF Disconnected, Life, Ending
<1>13. CASE Accept
  <2>1. CASE webcamnet' = 0 /\ UNCHANGED <<conn, status, tcpconn>>
    BY <1>13, <2>1 DEF Accept, At
  <2>2. ASSUME NEW c \in 1 .. Clients, conn' = [conn EXCEPT ![c] = "open"],
               webcamnet' = c, tcpconn' = 1, status' = 1
        PROVE  Client'
    BY <1>13, <2>2 DEF Accept, At, Ranges
  <2> QED
    BY <1>13, <2>1, <2>2 DEF Accept, Ranges
<1>14. CASE Watch
  BY <1>14 DEF Watch, At, Blocked, fifo, net, local, alloc, count
<1>15. CASE Return
  BY <1>15 DEF Return, At, Blocked, fifo, net, local, alloc, count
<1>16. CASE Stop
  BY <1>16 DEF Stop, At, net
<1>17. CASE Delete
  BY <1>17 DEF Delete, At, Life, net
<1>18. CASE Deleted
  BY <1>18 DEF Deleted, At, net
<1>19. CASE FreeAll
  BY <1>19 DEF FreeAll, At, Blocked, fifo, net, local, alloc, count
<1>20. CASE UNCHANGED vars
  BY <1>20 DEF vars, fifo, net, local, alloc, count
<1> QED
  BY <1>1, <1>2, <1>3, <1>4, <1>5, <1>6, <1>7, <1>8, <1>9, <1>10, <1>11,
     <1>12, <1>13, <1>14, <1>15, <1>16, <1>17, <1>18, <1>19, <1>20 DEF Next, Send, Main

-----------------------------------------------------------------------------
(* The ring. *)

LEMMA RingType ==
  ASSUME Ranges
  PROVE  /\ Pos \in Slot /\ Fill \in 0 .. NUM - 1
         /\ \A k \in 0 .. NUM - 1 : Ahead(Pos, k) \in Slot
<1>1. Pos \in Slot /\ Fill \in 0 .. NUM - 1
  BY WebCamAssumption DEF Ranges, Pos, Fill, Slot
<1>2. \A k \in 0 .. NUM - 1 : Ahead(Pos, k) \in Slot
  BY <1>1, WebCamAssumption DEF Ahead, Slot
<1> QED
  BY <1>1, <1>2

LEMMA AheadInjective ==
  ASSUME NEW p \in Slot, NEW i \in 0 .. NUM - 1, NEW j \in 0 .. NUM - 1,
         Ahead(p, i) = Ahead(p, j)
  PROVE  i = j
  BY WebCamAssumption DEF Ahead, Slot

LEMMA Modulo ==
  ASSUME NEW x \in 0 .. 2 * NUM - 1
  PROVE  x % NUM = IF x < NUM THEN x ELSE x - NUM
  BY WebCamAssumption, SMT

LEMMA Positions ==
  ASSUME Ranges
  PROVE  /\ Position = Pos /\ Queued = Fill
         /\ \A i \in 0 .. NUM - 1 : (Position + i) % NUM = Ahead(Pos, i)
<1>1. rd \in 0 .. NUM /\ wr \in 0 .. NUM - 1 /\ NUM \in Nat /\ NUM >= 2
  BY WebCamAssumption DEF Ranges, Slot
<1>2. Position = Pos
  BY <1>1, Modulo DEF Position, Pos
<1>3. Pos \in 0 .. NUM - 1
  BY <1>1 DEF Pos
<1>4. (wr + NUM - Pos) % NUM = Fill
  BY <1>1, <1>3, Modulo DEF Fill
<1>5. \A i \in 0 .. NUM - 1 : (Pos + i) % NUM = Ahead(Pos, i)
  BY <1>1, <1>3, Modulo DEF Ahead
<1> QED
  BY <1>2, <1>4, <1>5 DEF Queued

(* The step of the task into the moment between the halves of the read. *)
LEMMA AdvanceStep ==
  ASSUME Ranges, ReadAdvance
  PROVE  /\ rd \in Slot /\ Pos = rd /\ Pos' = Ahead(Pos, 1) /\ Pos' \in Slot
         /\ Fill \in 1 .. NUM - 1 /\ Fill' = Fill - 1
         /\ \A i \in 0 .. NUM - 2 : Ahead(Pos', i) = Ahead(Pos, i + 1)
<1>1. /\ rd \in 0 .. NUM - 1 /\ wr \in 0 .. NUM - 1 /\ rd # wr /\ rd' = rd + 1 /\ wr' = wr
  BY WebCamAssumption DEF Ranges, ReadAdvance, Slot
<1> QED
  BY <1>1, WebCamAssumption DEF Pos, Ahead, Fill, Slot

(* The step of the interrupt, when there is room. *)
LEMMA DmaStep ==
  ASSUME Ranges, Room, DmaBlock, rd # After(wr)
  PROVE  /\ Fill < NUM - 1 /\ Fill' = Fill + 1 /\ Pos' = Pos
         /\ After(wr) = Ahead(Pos, Fill + 1) /\ After(wr) \in Slot
<1>1. /\ wr' = After(wr) /\ rd' = rd /\ (spc = "wrap" => burst = 0)
      /\ rd \in 0 .. NUM /\ wr \in 0 .. NUM - 1 /\ (rd = NUM => spc = "wrap")
  BY DEF DmaBlock, Ranges, Slot
<1>2. Fill < NUM - 1
  <2>1. CASE rd = NUM
    BY <1>1, <2>1, RingType, WebCamAssumption DEF Room
  <2>2. CASE rd # NUM
    BY <1>1, <2>2, WebCamAssumption DEF Fill, After, Pos
  <2> QED
    BY <2>1, <2>2
<1> QED
  BY <1>1, <1>2, WebCamAssumption DEF Fill, After, Pos, Ahead, Slot

LEMMA StepRoom ==
  ASSUME Ranges, Room, [Next]_vars
  PROVE  Room'
<1> USE DEF Room
<1>1. CASE DmaBlock
  BY <1>1 DEF DmaBlock
<1>2. CASE SendIdle
  BY <1>2 DEF SendIdle, Gone
<1>3. CASE Tick
  BY <1>3 DEF Tick, At, Blocked, Fill, Pos, fifo, net, local, alloc, count
<1>4. CASE ReadAdvance
  BY <1>4, AdvanceStep, WebCamAssumption
<1>5. CASE ReadWrap
  BY <1>5 DEF ReadWrap
<1>6. CASE WriteReturns
  BY <1>6 DEF WriteReturns, At, Blocked, Fill, Pos, fifo, net, local, alloc, count
<1>7. CASE WriteEnds
  BY <1>7 DEF WriteEnds, At, Blocked, Fill, Pos, fifo, net, local, alloc, count
<1>8. CASE Create
  BY <1>8 DEF Create, At, Blocked, Fill, Pos, fifo, net, local, alloc, count
<1>9. CASE Button
  BY <1>9 DEF Button, NoPress, Open, Close, At, Blocked, Fill, Pos, fifo, net, local, alloc, count
<1>10. CASE Off
  BY <1>10 DEF Off, At, Blocked, Fill, Pos, fifo, net, local, alloc, count
<1>11. CASE Disconnect
  BY <1>11 DEF Disconnect, At, Blocked, Fill, Pos, fifo, net, local, alloc, count
<1>12. CASE Disconnected
  BY <1>12 DEF Disconnected, At, Blocked, Fill, Pos, fifo, net, local, alloc, count
<1>13. CASE Accept
  BY <1>13 DEF Accept, At, Blocked, Fill, Pos, fifo, net, local, alloc, count
<1>14. CASE Watch
  BY <1>14 DEF Watch, At, Blocked, Fill, Pos, fifo, net, local, alloc, count
<1>15. CASE Return
  BY <1>15 DEF Return, At, Blocked, Fill, Pos, fifo, net, local, alloc, count
<1>16. CASE Stop
  BY <1>16 DEF Stop, At, Blocked, Fill, Pos, fifo, net, local, alloc, count
<1>17. CASE Delete
  BY <1>17 DEF Delete, At, Blocked, Fill, Pos, fifo, net, local, alloc, count
<1>18. CASE Deleted
  BY <1>18 DEF Deleted, At, Blocked, Fill, Pos, fifo, net, local, alloc, count
<1>19. CASE FreeAll
  BY <1>19 DEF FreeAll, At, Blocked, Fill, Pos, fifo, net, local, alloc, count
<1>20. CASE UNCHANGED vars
  BY <1>20 DEF vars, Fill, Pos, fifo, net, local, alloc, count
<1> QED
  BY <1>1, <1>2, <1>3, <1>4, <1>5, <1>6, <1>7, <1>8, <1>9, <1>10, <1>11,
     <1>12, <1>13, <1>14, <1>15, <1>16, <1>17, <1>18, <1>19, <1>20 DEF Next, Send, Main

-----------------------------------------------------------------------------
(* The refinement: the queue and the block taken last, without the modulo. *)

Window == [i \in 1 .. Fill |-> slot[Ahead(Pos, i)]]
InHand == slot[Pos]
Same   == Pending = Window /\ Latest = InHand

LEMMA Abstract == Ranges => Same
<1> SUFFICES ASSUME Ranges PROVE Same
  OBVIOUS
<1>1. Fill \in 0 .. NUM - 1
  BY RingType
<1>2. \A i \in 1 .. Fill : slot[(Position + i) % NUM] = slot[Ahead(Pos, i)]
  BY <1>1, Positions, WebCamAssumption
<1> QED
  BY <1>2, Positions DEF Pending, Latest, Window, InHand, Same

LEMMA AbstractNext == Ranges' => Same'
  BY Abstract, PTL

LEMMA Stutter ==
  ASSUME Ranges, Ranges', UNCHANGED <<wr, slot>>, Pos' = Pos
  PROVE  UNCHANGED FIFO!qvars
<1>1. Window' = Window /\ InHand' = InHand
  BY DEF Window, InHand, Fill, Ahead
<1> QED
  BY <1>1, Abstract, AbstractNext DEF Same, FIFO!qvars

LEMMA DmaAccepts ==
  ASSUME Ranges, Ranges', Room, DmaBlock
  PROVE  FIFO!Accept \/ UNCHANGED FIFO!qvars
<1>1. CASE rd = After(wr)
  <2>1. UNCHANGED <<rd, wr, slot>>
    BY <1>1 DEF DmaBlock
  <2> QED
    BY <2>1, Stutter DEF Pos
<1>2. CASE rd # After(wr)
  <2>1. /\ Fill < NUM - 1 /\ Fill' = Fill + 1 /\ Pos' = Pos
        /\ After(wr) = Ahead(Pos, Fill + 1) /\ After(wr) \in Slot
        /\ Pos \in Slot /\ Fill \in 0 .. NUM - 1
    BY <1>2, DmaStep, RingType
  <2>2. /\ slot' = [slot EXCEPT ![After(wr)] = blocks + 1] /\ blocks < MaxBlocks
        /\ DOMAIN slot = Slot /\ blocks \in Nat
    BY <1>2 DEF DmaBlock, Ranges
  <2>3. ASSUME NEW i \in 0 .. Fill
        PROVE  slot'[Ahead(Pos, i)] = slot[Ahead(Pos, i)]
    <3>1. /\ i \in 0 .. NUM - 1 /\ Fill + 1 \in 0 .. NUM - 1 /\ i # Fill + 1
      BY <2>1, WebCamAssumption
    <3>2. Ahead(Pos, i) # After(wr) /\ Ahead(Pos, i) \in Slot
      BY <2>1, <3>1, AheadInjective, RingType
    <3> QED
      BY <2>2, <3>2
  <2>4. slot'[Ahead(Pos, Fill + 1)] = blocks + 1
    BY <2>1, <2>2
  <2>5. Ahead(Pos, 0) = Pos
    BY <2>1, WebCamAssumption DEF Ahead, Slot
  <2>6. InHand' = InHand
    BY <2>1, <2>3, <2>5 DEF InHand
  <2>7. Window' = [i \in 1 .. Fill + 1 |-> slot'[Ahead(Pos, i)]]
    BY <2>1 DEF Window, Ahead
  <2>8. Len(Window) = Fill /\ Window' = Append(Window, blocks + 1)
    <3>1. /\ \A i \in 1 .. Fill : slot'[Ahead(Pos, i)] = Window[i]
          /\ Len(Window) = Fill
      BY <2>1, <2>3 DEF Window
    <3> QED
      BY <2>1, <2>4, <2>7, <3>1
  <2>9. blocks + 1 \in 1 .. MaxBlocks
    BY <2>2, WebCamAssumption
  <2> QED
    BY <2>1, <2>6, <2>8, <2>9, Abstract, AbstractNext DEF Same, FIFO!Accept
<1> QED
  BY <1>1, <1>2

LEMMA ReadTakes ==
  ASSUME Ranges, Ranges', ReadAdvance
  PROVE  FIFO!Take
<1>1. /\ Pos' = Ahead(Pos, 1) /\ Pos \in Slot
      /\ Fill \in 1 .. NUM - 1 /\ Fill' = Fill - 1 /\ slot' = slot
      /\ \A i \in 0 .. NUM - 2 : Ahead(Pos', i) = Ahead(Pos, i + 1)
  BY AdvanceStep DEF ReadAdvance
<1>2. InHand' = Window[1]
  BY <1>1 DEF InHand, Window
<1>3. /\ Len(Window) = Fill /\ Window # << >> /\ Head(Window) = Window[1]
      /\ Tail(Window) = [i \in 1 .. Fill - 1 |-> Window[i + 1]]
  BY <1>1 DEF Window
<1>4. \A i \in 1 .. Fill - 1 : slot[Ahead(Pos', i)] = Window[i + 1]
  BY <1>1, WebCamAssumption DEF Window
<1>5. Window' = [i \in 1 .. Fill - 1 |-> slot[Ahead(Pos', i)]]
  BY <1>1 DEF Window, Ahead
<1>6. Window' = Tail(Window)
  BY <1>3, <1>4, <1>5
<1> QED
  BY <1>2, <1>3, <1>6, Abstract, AbstractNext DEF Same, FIFO!Take

LEMMA Refines ==
  ASSUME Ranges, Ranges', Room, [Next]_vars
  PROVE  [FIFO!Accept \/ FIFO!Take]_(FIFO!qvars)
<1>1. CASE DmaBlock
  BY <1>1, DmaAccepts
<1>2. CASE SendIdle
  BY <1>2, Stutter DEF SendIdle, Pos, fifo
<1>3. CASE Tick
  BY <1>3, Stutter DEF Tick, Pos, fifo
<1>4. CASE ReadAdvance
  BY <1>4, ReadTakes
<1>5. CASE ReadWrap
  <2>1. Pos' = Pos /\ UNCHANGED <<wr, slot>>
    BY <1>5, WebCamAssumption DEF ReadWrap, Pos, Ranges
  <2> QED
    BY <2>1, Stutter
<1>6. CASE WriteReturns
  BY <1>6, Stutter DEF WriteReturns, Pos, fifo
<1>7. CASE WriteEnds
  BY <1>7, Stutter DEF WriteEnds, Pos, fifo
<1>8. CASE Create
  BY <1>8, Stutter DEF Create, Pos, fifo
<1>9. CASE Button
  BY <1>9, Stutter DEF Button, Pos, fifo
<1>10. CASE Off
  BY <1>10, Stutter DEF Off, Pos, fifo
<1>11. CASE Disconnect
  BY <1>11, Stutter DEF Disconnect, Pos, fifo
<1>12. CASE Disconnected
  BY <1>12, Stutter DEF Disconnected, Pos, fifo
<1>13. CASE Accept
  BY <1>13, Stutter DEF Accept, Pos, fifo
<1>14. CASE Watch
  BY <1>14, Stutter DEF Watch, Pos, fifo
<1>15. CASE Return
  BY <1>15, Stutter DEF Return, Pos, fifo
<1>16. CASE Stop
  BY <1>16, Stutter DEF Stop, Pos, fifo
<1>17. CASE Delete
  BY <1>17, Stutter DEF Delete, Pos, fifo
<1>18. CASE Deleted
  BY <1>18, Stutter DEF Deleted, Pos, fifo
<1>19. CASE FreeAll
  BY <1>19, Stutter DEF FreeAll, Pos, fifo
<1>20. CASE UNCHANGED vars
  BY <1>20, Stutter DEF vars, fifo, Pos
<1> QED
  BY <1>1, <1>2, <1>3, <1>4, <1>5, <1>6, <1>7, <1>8, <1>9, <1>10, <1>11,
     <1>12, <1>13, <1>14, <1>15, <1>16, <1>17, <1>18, <1>19, <1>20 DEF Next, Send, Main

-----------------------------------------------------------------------------
(* The theorems. *)

LEMMA Invariant == Spec => []IInv
<1>1. IInv /\ [Next]_vars => IInv'
  <2> SUFFICES ASSUME IInv, [Next]_vars PROVE IInv'
    OBVIOUS
  <2>1. Ranges /\ Flags /\ Life /\ Client /\ Room
    BY DEF IInv, TypeOK
  <2>2. Ranges' /\ Flags' /\ Life' /\ Client' /\ Room'
    BY <2>1, StepRanges, StepFlags, StepLife, StepClient, StepRoom
  <2> QED
    BY <2>2 DEF IInv, TypeOK
<1> QED
  BY <1>1, InitInv, PTL DEF Spec

(***************************************************************************)
(* The FIFO between the interrupt and the send task is a queue, without a  *)
(* lock and with a read position that is out of range between the two      *)
(* steps of webcam_fifo_read: each step is one of FrameQueue or none.      *)
(***************************************************************************)
THEOREM FifoRefines == Spec => FifoIsQueue
<1>1. Init => FIFO!QInit
  <2> SUFFICES ASSUME Init PROVE FIFO!QInit
    OBVIOUS
  <2>1. Ranges
    BY InitInv DEF IInv, TypeOK
  <2>2. Pos = 0 /\ Fill = 0 /\ slot[0] = 0
    BY WebCamAssumption DEF Init, Pos, Fill, Slot
  <2>3. Window = << >> /\ InHand = 0
    BY <2>2 DEF Window, InHand
  <2> QED
    BY <2>1, <2>3, Abstract DEF Same, FIFO!QInit
<1>2. IInv /\ IInv' /\ [Next]_vars => [FIFO!QNext]_(FIFO!qvars)
  BY Refines DEF IInv, TypeOK, FIFO!QNext
<1> QED
  BY <1>1, <1>2, Invariant, PTL DEF Spec, FifoIsQueue, FIFO!QSpec

(***************************************************************************)
(* The stack is freed only when the send task is gone or was never made,   *)
(* the FIFO only when the camera is stopped too (webcam_send_task_delete   *)
(* waits for the status that the task sets last).                          *)
(***************************************************************************)
THEOREM FreedUnused == Spec => []NothingUsesFreed
<1>1. IInv => NothingUsesFreed
  <2> SUFFICES ASSUME IInv PROVE NothingUsesFreed
    OBVIOUS
  <2>1. mpc \in Ending => spc \in {"none", "dead"} /\ ~capture
    BY DEF IInv, Life, Ending
  <2>2. ~stack => spc \in {"none", "dead"}
    BY <2>1 DEF IInv, Life
  <2>3. ~mem => mpc \in Ending
    BY DEF IInv, Life, Ending
  <2> QED
    BY <2>1, <2>2, <2>3 DEF NothingUsesFreed
<1> QED
  BY <1>1, Invariant, PTL

(***************************************************************************)
(* The send task sends only while a client is connected, whatever the main *)
(* task was doing when a client went.                                      *)
(***************************************************************************)
THEOREM SendsOnlyToClient == Spec => []SendsToClient
<1>1. IInv => SendsToClient
  BY DEF IInv, Client, SendsToClient
<1> QED
  BY <1>1, Invariant, PTL

(***************************************************************************)
(* net_disconnect is never called for a netconn already freed, but for one *)
(* whose client had left.                                                  *)
(***************************************************************************)
THEOREM DeletedOnce == Spec => []DeletedOnceOtherwise
<1>1. IInv => DeletedOnceOtherwise
  BY DEF IInv, Client, DeletedOnceOtherwise
<1> QED
  BY <1>1, Invariant, PTL
=============================================================================
