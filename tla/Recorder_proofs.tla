--------------------------- MODULE Recorder_proofs ---------------------------
(***************************************************************************)
(* The five invariants of the recorder, for every size of the FIFO and any *)
(* number of blocks and of sessions.  Control says what rec_sta and the    *)
(* file are at each place of recorder_play, Ring where the positions are,  *)
(* and Stream what the FIFO holds of the recording.                        *)
(***************************************************************************)
EXTENDS Recorder, TLAPS

Running  == {"loop", "wrap", "write", "buttons"}
Held     == Running \cup {"open", "stopped", "leave"}
Places   == Held \cup {"out", "ask", "save", "free"}
FileType == [open : BOOLEAN, data : Seq(Nat), size : Nat, good : BOOLEAN]

Ranges ==
    /\ rec_sta \in {OFF, ON, PAUSED}
    /\ rd \in 0 .. NUM /\ (rd = NUM => pc = "wrap") /\ wr \in Slot /\ slot \in [Slot -> Nat]
    /\ ptr \in [Slot -> {"null", "ours", "old"}]
    /\ pc \in Places /\ rval \in {0, 1, 254}
    /\ wavsize \in Nat /\ blocks \in Nat /\ burst \in {0, 1}
    /\ sessions \in Nat /\ begun \in Nat /\ idle \in 0 .. NUM - 1

Flags  == sai \in BOOLEAN /\ fresh \in BOOLEAN /\ dropped \in BOOLEAN
TypeOK == Ranges /\ file \in FileType /\ Flags

(* rec_sta is on exactly while a file is open, but for the two places in   *)
(* between, and but for a call that ran out of memory.                     *)
Control ==
    /\ sai <=> pc \in Held
    /\ pc \in Held => rval # 1
    /\ pc \in Running \/ (pc \in {"leave", "ask", "save"} /\ rval # 1)
         => (file.open <=> rec_sta # OFF)
    /\ pc \in {"open", "stopped"} => ~file.open
    /\ pc \in {"write", "save"} => rec_sta # OFF
    /\ pc = "open" => rec_sta = ON /\ wavsize = 0
    /\ pc = "out" \/ (pc \in {"ask", "save"} /\ rval = 1) => file = NoFile

(* The count of blocks is what the file holds, unless a write fell short.  *)
Counted == file.open /\ file.good => wavsize = Len(file.data)

Owned ==
    pc # "out" /\ rval # 1 => \A s \in Slot : ptr[s] = "ours"

IInv == TypeOK /\ Control /\ Counted /\ HeaderTrue /\ Owned
-----------------------------------------------------------------------------

(* What the calls of FatFs make of the file. *)
LEMMA NoFileType == NoFile \in FileType
  BY DEF NoFile, FileType

LEMMA ClosedStep ==
  ASSUME NEW f \in FileType, wavsize \in Nat, NEW g \in Closed(f)
  PROVE  /\ g \in FileType /\ g.open = FALSE /\ g.data = f.data
         /\ g.good => f.good /\ g.size = wavsize
<1>1. g \in FileType /\ g.open = FALSE /\ g.data = f.data
  BY DEF Closed, FileType
<1>2. ASSUME g.good PROVE f.good /\ g.size = wavsize
  BY <1>2 DEF Closed, FileType
<1> QED
  BY <1>1, <1>2

LEMMA Patched ==
  ASSUME NEW f \in FileType
  PROVE  /\ \A d \in Seq(Nat) : LET g == [f EXCEPT !.data = d]
                              IN  g \in FileType /\ g.data = d /\ g.open = f.open
                                  /\ g.size = f.size /\ g.good = f.good
         /\ LET g == [f EXCEPT !.good = FALSE]
            IN  g \in FileType /\ g.data = f.data /\ g.open = f.open
                /\ g.size = f.size /\ g.good = FALSE
  BY DEF FileType

LEMMA WriteStep ==
  ASSUME Ranges, file \in FileType, Write
  PROVE  /\ pc = "write" /\ pc' = "buttons" /\ rd \in Slot /\ slot[rd] \in Nat
         /\ file' \in FileType /\ file'.open = file.open
         /\ \/ file.good /\ file'.good /\ file'.data = Append(file.data, slot[rd])
            \/ ~file'.good /\ file'.data = file.data
         /\ wavsize' = wavsize + 1
         /\ UNCHANGED <<rec_sta, fifo, ptr, rval, sai, count, history>>
<1>1. pc = "write" /\ rd \in Slot /\ slot[rd] \in Nat
  BY RecorderAssumption DEF Write, Ranges, Slot
<1>2. Append(file.data, slot[rd]) \in Seq(Nat)
  BY <1>1 DEF FileType
<1>3. CASE file.good /\ file' = [file EXCEPT !.data = Append(@, slot[rd])]
  BY <1>1, <1>2, <1>3, Patched, Zenon DEF Write
<1>4. CASE file' = [file EXCEPT !.good = FALSE]
  BY <1>1, <1>4, Patched, Zenon DEF Write
<1> QED
  BY <1>3, <1>4, Zenon DEF Write

LEMMA InitInv == Init => IInv
<1> SUFFICES ASSUME Init PROVE IInv
  OBVIOUS
<1>1. 0 \in Slot /\ 0 \in 0 .. NUM - 1
  BY RecorderAssumption DEF Slot
<1>2. Ranges
  BY <1>1, RecorderAssumption DEF Init, Ranges, Places, Held, Running, OFF, ON, PAUSED
<1>4. Control /\ Counted /\ HeaderTrue /\ Owned
  BY DEF Init, Control, Counted, HeaderTrue, Owned, NoFile, Held, Running, OFF
<1> QED
  BY <1>2, <1>4, NoFileType, Zenon DEF IInv, TypeOK, Flags, Init

LEMMA OpenStep ==
  ASSUME Open
  PROVE  /\ pc = "open"
         /\ UNCHANGED <<rd, wr, slot, ptr, sai, wavsize, blocks, burst, sessions,
                        begun, fresh, dropped, idle>>
         /\ \/ /\ file' \in FileType /\ file'.open /\ file'.data = << >>
               /\ pc' = "loop" /\ UNCHANGED <<rec_sta, rval>>
            \/ rec_sta' = OFF /\ rval' = 254 /\ pc' = "leave" /\ UNCHANGED file
<1>1. ASSUME NEW g \in BOOLEAN, file' = [NoFile EXCEPT !.open = TRUE, !.good = g]
      PROVE  file' \in FileType /\ file'.open /\ file'.data = << >>
  <2>2. file' \in FileType
    BY <1>1, NoFileType, Zenon DEF FileType
  <2> QED
    BY <1>1, <2>2 DEF NoFile
<1> QED
  BY <1>1, Zenon DEF Open, fifo, count, history

LEMMA StepRanges == Ranges /\ [Next]_vars => Ranges'
<1> SUFFICES ASSUME Ranges, [Next]_vars PROVE Ranges'
  OBVIOUS
<1> USE RecorderAssumption DEF Ranges, Places, Held, Running, OFF, ON, PAUSED, Slot
<1>1. After(wr) \in Slot
  BY DEF After
<1>2. Turn \in 0 .. NUM - 1
  BY DEF Turn
<1>3. CASE SaiBlock
  <2>1. wr' \in Slot /\ slot' \in [Slot -> Nat]
    BY <1>1, <1>3 DEF SaiBlock
  <2> QED
    BY <1>3, <2>1 DEF SaiBlock
<1>4. CASE Enter
  <2>1. \A got \in 0 .. NUM : Alloc(got) \in [Slot -> {"null", "ours", "old"}]
    BY DEF Alloc
  <2> QED
    BY <1>4, <2>1 DEF Enter
<1>5. CASE NoRead
  BY <1>2, <1>5 DEF NoRead, fifo, count
<1>6. CASE ReadAdvance
  BY <1>6 DEF ReadAdvance, history, Reads
<1>7. CASE ReadWrap
  BY <1>2, <1>7 DEF ReadWrap, count
<1>8. CASE Write
  BY <1>8 DEF Write, fifo, count, history
<1>9. CASE NoPress
  BY <1>9 DEF NoPress, fifo, count, history
<1>10. CASE Pause
  BY <1>10 DEF Pause, fifo, count, history
<1>11. CASE Start
  BY <1>11 DEF Start, fifo, count
<1>12. CASE Open
  <2>1. /\ pc = "open" /\ rec_sta' \in {rec_sta, OFF}
        /\ pc' \in {"loop", "leave"} /\ rval' \in {rval, 254}
    BY <1>12, OpenStep, Zenon
  <2> QED
    BY <1>12, <2>1, OpenStep
<1>13. CASE Stop
  BY <1>13 DEF Stop, fifo, count, history
<1>14. CASE Stopped
  BY <1>14 DEF Stopped, fifo, count, history
<1>15. CASE Return
  BY <1>15 DEF Return, fifo, count, history
<1>16. CASE Leave
  BY <1>16 DEF Leave, fifo, count, history
<1>17. CASE Ask
  BY <1>17 DEF Ask, fifo, count, history
<1>18. CASE Save
  BY <1>18 DEF Save, fifo, count, history
<1>19. CASE Free
  BY <1>19 DEF Free, fifo, count, history
<1>20. CASE UNCHANGED vars
  BY <1>20 DEF vars, fifo, count, history
<1> QED
  BY <1>3, <1>4, <1>5, <1>6, <1>7, <1>8, <1>9, <1>10, <1>11, <1>12, <1>13, <1>14, <1>15, <1>16, <1>17, <1>18, <1>19, <1>20 DEF Next

LEMMA StepFile ==
  ASSUME Ranges, file \in FileType, [Next]_vars
  PROVE  file' \in FileType
<1>1. wavsize \in Nat /\ slot \in [Slot -> Nat] /\ (pc = "write" => rd \in Slot)
  BY RecorderAssumption DEF Ranges, Slot
<1>2. \A s \in Slot : slot[s] \in Nat
  BY <1>1
<1>0. \A g \in Closed(file) : g \in FileType
  BY <1>1, ClosedStep
<1>3. CASE SaiBlock
  BY <1>3 DEF SaiBlock, fifo, count, history
<1>4. CASE Enter
  BY <1>4 DEF Enter, fifo, count, history
<1>5. CASE NoRead
  BY <1>5 DEF NoRead, fifo, count, history
<1>6. CASE ReadAdvance
  BY <1>6 DEF ReadAdvance, fifo, count, history
<1>7. CASE ReadWrap
  BY <1>7 DEF ReadWrap, fifo, count, history
<1>8. CASE Write
  BY <1>8, WriteStep
<1>9. CASE NoPress
  BY <1>9 DEF NoPress, fifo, count, history
<1>10. CASE Pause
  BY <1>10 DEF Pause, fifo, count, history
<1>11. CASE Start
  BY <1>11 DEF Start, fifo, count, history
<1>12. CASE Open
  BY <1>12, OpenStep
<1>13. CASE Stop
  BY <1>0, <1>13 DEF Stop
<1>14. CASE Stopped
  BY <1>14 DEF Stopped, fifo, count, history
<1>15. CASE Return
  BY <1>15 DEF Return, fifo, count, history
<1>16. CASE Leave
  BY <1>16 DEF Leave, fifo, count, history
<1>17. CASE Ask
  BY <1>17 DEF Ask, fifo, count, history
<1>18. CASE Save
  BY <1>0, <1>18 DEF Save
<1>19. CASE Free
  BY <1>19, NoFileType DEF Free
<1>20. CASE UNCHANGED vars
  BY <1>20 DEF vars, fifo, count, history
<1> QED
  BY <1>3, <1>4, <1>5, <1>6, <1>7, <1>8, <1>9, <1>10, <1>11, <1>12, <1>13, <1>14,
     <1>15, <1>16, <1>17, <1>18, <1>19, <1>20 DEF Next


LEMMA StepFlags == Flags /\ [Next]_vars => Flags'
<1> SUFFICES ASSUME Flags, [Next]_vars PROVE Flags'
  OBVIOUS
<1> USE Zenon DEF Flags
<1>3. CASE SaiBlock
  BY <1>3 DEF SaiBlock, fifo, count, history
<1>4. CASE Enter
  BY <1>4 DEF Enter, fifo, count, history
<1>5. CASE NoRead
  BY <1>5 DEF NoRead, fifo, count, history
<1>6. CASE ReadAdvance
  BY <1>6 DEF ReadAdvance, fifo, count, history
<1>7. CASE ReadWrap
  BY <1>7 DEF ReadWrap, fifo, count, history
<1>8. CASE Write
  BY <1>8 DEF Write, fifo, count, history
<1>9. CASE NoPress
  BY <1>9 DEF NoPress, fifo, count, history
<1>10. CASE Pause
  BY <1>10 DEF Pause, fifo, count, history
<1>11. CASE Start
  BY <1>11 DEF Start, fifo, count, history
<1>12. CASE Open
  BY <1>12, OpenStep DEF history
<1>13. CASE Stop
  BY <1>13 DEF Stop, fifo, count, history
<1>14. CASE Stopped
  BY <1>14 DEF Stopped, fifo, count, history
<1>15. CASE Return
  BY <1>15 DEF Return, fifo, count, history
<1>16. CASE Leave
  BY <1>16 DEF Leave, fifo, count, history
<1>17. CASE Ask
  BY <1>17 DEF Ask, fifo, count, history
<1>18. CASE Save
  BY <1>18 DEF Save, fifo, count, history
<1>19. CASE Free
  BY <1>19 DEF Free, fifo, count, history
<1>20. CASE UNCHANGED vars
  BY <1>20 DEF vars, fifo, count, history
<1> QED
  BY <1>3, <1>4, <1>5, <1>6, <1>7, <1>8, <1>9, <1>10, <1>11, <1>12, <1>13, <1>14,
     <1>15, <1>16, <1>17, <1>18, <1>19, <1>20 DEF Next

LEMMA StepControl ==
  ASSUME TypeOK, Control, [Next]_vars
  PROVE  Control'
<1> USE DEF Control, Held, Running, OFF, ON, PAUSED
<1>1. file \in FileType /\ wavsize \in Nat
  BY DEF TypeOK, Ranges
<1>2. \A g \in Closed(file) : g.open = FALSE
  BY <1>1, ClosedStep
<1>3. CASE SaiBlock
  BY <1>3 DEF SaiBlock, Reads
<1>4. CASE Enter
  BY <1>4 DEF Enter, NoFile
<1>5. CASE NoRead
  BY <1>5 DEF NoRead, Reads
<1>6. CASE ReadAdvance
  BY <1>6 DEF ReadAdvance, Reads
<1>7. CASE ReadWrap
  BY <1>7 DEF ReadWrap, Reads
<1>8. CASE Write
  BY <1>8, WriteStep DEF TypeOK
<1>9. CASE NoPress
  BY <1>9 DEF NoPress, Reads
<1>10. CASE Pause
  BY <1>10 DEF Pause, Reads
<1>11. CASE Start
  BY <1>11 DEF Start, Reads
<1>12. CASE Open
  BY <1>12, OpenStep
<1>13. CASE Stop
  BY <1>2, <1>13 DEF Stop
<1>14. CASE Stopped
  BY <1>14 DEF Stopped, Reads
<1>15. CASE Return
  BY <1>15 DEF Return, Reads
<1>16. CASE Leave
  BY <1>16 DEF Leave, Reads
<1>17. CASE Ask
  BY <1>17 DEF Ask, Reads
<1>18. CASE Save
  BY <1>2, <1>18 DEF Save
<1>19. CASE Free
  BY <1>19 DEF Free, NoFile
<1>20. CASE UNCHANGED vars
  BY <1>20 DEF vars
<1> QED
  BY <1>3, <1>4, <1>5, <1>6, <1>7, <1>8, <1>9, <1>10, <1>11, <1>12, <1>13,
     <1>14, <1>15, <1>16, <1>17, <1>18, <1>19, <1>20 DEF Next

LEMMA ClosedHeader ==
  ASSUME TypeOK, Counted, file.good => file.open, file' \in Closed(file)
  PROVE  Counted' /\ HeaderTrue'
<1>1. file \in FileType /\ wavsize \in Nat
  BY DEF TypeOK, Ranges
<1>2. /\ file'.open = FALSE /\ file'.data = file.data
      /\ file'.good => file.good /\ file'.size = wavsize
  BY <1>1, ClosedStep
<1>3. file'.good => file'.size = Len(file.data)
  BY <1>2 DEF Counted
<1> QED
  BY <1>2, <1>3, Zenon DEF Counted, HeaderTrue

LEMMA StepSizes ==
  ASSUME TypeOK, Control, Counted, HeaderTrue, [Next]_vars
  PROVE  Counted' /\ HeaderTrue'
<1> USE DEF Counted, HeaderTrue
<1>1. file \in FileType /\ wavsize \in Nat
  BY DEF TypeOK, Ranges
<1>3. CASE SaiBlock
  BY <1>3 DEF SaiBlock, Reads
<1>4. CASE Enter
  BY <1>4 DEF Enter, Control, NoFile
<1>5. CASE NoRead
  BY <1>5 DEF NoRead, Reads
<1>6. CASE ReadAdvance
  BY <1>6 DEF ReadAdvance, Reads
<1>7. CASE ReadWrap
  BY <1>7 DEF ReadWrap, Reads
<1>8. CASE Write
  <2>1. file.open /\ file'.open
    BY <1>8, WriteStep DEF TypeOK, Control, Running
  <2>2. Len(Append(file.data, slot[rd])) = Len(file.data) + 1
    BY <1>8, <1>1, WriteStep DEF TypeOK, FileType
  <2> QED
    BY <1>1, <1>8, <2>1, <2>2, WriteStep DEF TypeOK
<1>9. CASE NoPress
  BY <1>9 DEF NoPress, Reads
<1>10. CASE Pause
  BY <1>10 DEF Pause, Reads
<1>11. CASE Start
  BY <1>11 DEF Start, Control, Running
<1>12. CASE Open
  BY <1>12, OpenStep DEF Control
<1>13. CASE Stop
  <2>1. CASE rec_sta = OFF
    BY <1>13, <2>1 DEF Stop
  <2>2. CASE rec_sta # OFF
    <3>1. file.open /\ file' \in Closed(file)
      BY <1>13, <2>2 DEF Stop, Control, Running
    <3> QED
      BY <3>1, ClosedHeader
  <2> QED
    BY <2>1, <2>2
<1>14. CASE Stopped
  BY <1>14 DEF Stopped, Reads
<1>15. CASE Return
  BY <1>15 DEF Return, Reads
<1>16. CASE Leave
  BY <1>16 DEF Leave, Reads
<1>17. CASE Ask
  BY <1>17 DEF Ask, Reads
<1>18. CASE Save
  <2>1. file' \in Closed(file) /\ (file.good => file.open)
    BY <1>18 DEF Save, Control, NoFile
  <2> QED
    BY <2>1, ClosedHeader
<1>19. CASE Free
  BY <1>19 DEF Free, NoFile
<1>20. CASE UNCHANGED vars
  BY <1>20 DEF vars
<1> QED
  BY <1>3, <1>4, <1>5, <1>6, <1>7, <1>8, <1>9, <1>10, <1>11, <1>12, <1>13,
     <1>14, <1>15, <1>16, <1>17, <1>18, <1>19, <1>20 DEF Next

LEMMA StepOwned ==
  ASSUME TypeOK, Control, Owned, [Next]_vars
  PROVE  Owned'
<1> USE DEF Owned
<1>1. CASE SaiBlock
  BY <1>1 DEF SaiBlock, Reads
<1>2. CASE Enter
  BY <1>2, RecorderAssumption DEF Enter, Alloc, Slot
<1>3. CASE NoRead
  BY <1>3 DEF NoRead, Reads
<1>4. CASE ReadAdvance
  BY <1>4 DEF ReadAdvance, Reads
<1>5. CASE ReadWrap
  BY <1>5 DEF ReadWrap, Reads
<1>6. CASE Write
  BY <1>6 DEF Write, Reads
<1>7. CASE NoPress
  BY <1>7 DEF NoPress, Reads
<1>8. CASE Pause
  BY <1>8 DEF Pause, Reads
<1>9. CASE Start
  BY <1>9 DEF Start, Reads
<1>10. CASE Open
  BY <1>10, OpenStep DEF Control, Held, Running
<1>11. CASE Stop
  BY <1>11 DEF Stop, Reads
<1>12. CASE Stopped
  BY <1>12 DEF Stopped, Reads
<1>13. CASE Return
  BY <1>13 DEF Return, Reads
<1>14. CASE Leave
  BY <1>14 DEF Leave, Reads
<1>15. CASE Ask
  BY <1>15 DEF Ask, Reads
<1>16. CASE Save
  BY <1>16 DEF Save, Reads
<1>17. CASE Free
  BY <1>17 DEF Free
<1>18. CASE UNCHANGED vars
  BY <1>18 DEF vars
<1> QED
  BY <1>1, <1>2, <1>3, <1>4, <1>5, <1>6, <1>7, <1>8, <1>9, <1>10, <1>11,
     <1>12, <1>13, <1>14, <1>15, <1>16, <1>17, <1>18 DEF Next

-----------------------------------------------------------------------------
(* The ring without the modulo: the block in hand is cell 0, the queue is  *)
(* cells 1 .. Waiting.                                                     *)

Pos         == IF rd = NUM THEN 0 ELSE rd
Ahead(p, i) == IF p + i < NUM THEN p + i ELSE p + i - NUM
Waiting     == IF wr >= Pos THEN wr - Pos ELSE wr + NUM - Pos
Cell(k)     == slot[Ahead(Pos, k)]
Hand        == IF pc \in {"wrap", "write"} THEN 1 ELSE 0
Live        == (1 - Hand) .. Waiting

(* The step between the two halves of a read leaves room for the one block *)
(* that may come while rd is out of range.                                 *)
Room == pc = "wrap" /\ burst = 0 => Waiting <= NUM - 2

(* Each turn of the loop while nothing is recorded shortens the queue.     *)
Drained ==
    /\ rec_sta # OFF => idle = 0
    /\ rec_sta = OFF /\ pc \in Running \cup {"stopped"} =>
          Waiting = 0 \/ Waiting + Hand + idle <= NUM - 1

Recording == fresh /\ (pc = "open" \/ file.open)
Stored    == IF file.open THEN Len(file.data) ELSE 0

(* The cells hold blocks of this recording, in order, and later ones than  *)
(* the file.                                                               *)
Ordered ==
    /\ begun <= blocks
    /\ Recording =>
         /\ \A k \in Live : begun < Cell(k) /\ Cell(k) <= blocks
         /\ \A k, l \in Live : k < l => Cell(k) < Cell(l)
    /\ Recording /\ file.open =>
         \A i \in 1 .. Len(file.data) :
            /\ file.data[i] > IF i = 1 THEN begun ELSE file.data[i - 1]
            /\ file.data[i] <= blocks
            /\ \A k \in Live : file.data[i] < Cell(k)

(* And all of them, if none was dropped and none fell short.               *)
Complete ==
    Recording /\ ~dropped /\ (file.open => file.good) =>
        /\ Stored + Hand + Waiting = blocks - begun
        /\ \A k \in Live : Cell(k) = begun + Stored + Hand + k
        /\ file.open => \A i \in 1 .. Stored : file.data[i] = begun + i

RingInv == Room /\ Drained /\ Ordered /\ Complete

-----------------------------------------------------------------------------
(* Arithmetic of the positions. *)

LEMMA RingType ==
  ASSUME Ranges
  PROVE  /\ Pos \in Slot /\ Waiting \in 0 .. NUM - 1 /\ Hand \in {0, 1}
         /\ \A k \in 0 .. NUM - 1 : Ahead(Pos, k) \in Slot
         /\ \A k \in 0 .. NUM - 1 : Cell(k) \in Nat
         /\ Live \subseteq 0 .. NUM - 1
<1>1. Pos \in Slot /\ Waiting \in 0 .. NUM - 1 /\ Hand \in {0, 1}
  BY RecorderAssumption DEF Ranges, Pos, Waiting, Hand, Slot
<1>2. \A k \in 0 .. NUM - 1 : Ahead(Pos, k) \in Slot
  BY <1>1, RecorderAssumption DEF Ahead, Slot
<1>3. \A k \in 0 .. NUM - 1 : Cell(k) \in Nat
  BY <1>2 DEF Cell, Ranges
<1>4. Live \subseteq 0 .. NUM - 1
  BY <1>1, RecorderAssumption DEF Live
<1> QED
  BY <1>1, <1>2, <1>3, <1>4

LEMMA AheadInjective ==
  ASSUME NEW p \in Slot, NEW i \in 0 .. NUM - 1, NEW j \in 0 .. NUM - 1,
         Ahead(p, i) = Ahead(p, j)
  PROVE  i = j
  BY RecorderAssumption DEF Ahead, Slot

(* The next position of the writer is the cell behind the queue; the FIFO  *)
(* is full when that is where the reader stands. *)
LEMMA Behind ==
  ASSUME Ranges
  PROVE  /\ Waiting < NUM - 1 => After(wr) = Ahead(Pos, Waiting + 1)
         /\ rd # NUM => (Full <=> Waiting = NUM - 1)
         /\ rd = wr <=> rd # NUM /\ Waiting = 0
<1>1. Pos \in Slot /\ wr \in Slot /\ rd \in 0 .. NUM
  BY RingType DEF Ranges
<1> QED
  BY <1>1, RecorderAssumption DEF Slot, After, Full, Waiting, Ahead, Pos

(* Nothing that the interrupt does not write moves by itself. *)
LEMMA Still ==
  ASSUME UNCHANGED <<wr, slot>>, Pos' = Pos
  PROVE  /\ Waiting' = Waiting /\ (Hand' = Hand => Live' = Live)
         /\ \A k : Cell(k)' = Cell(k)
<1>1. Waiting' = Waiting
  BY DEF Waiting
<1>2. Hand' = Hand => Live' = Live
  BY <1>1 DEF Live
<1>3. \A k : Ahead(Pos, k)' = Ahead(Pos, k)
  BY DEF Ahead
<1>4. \A k : Cell(k)' = Cell(k)
  BY <1>3 DEF Cell
<1> QED
  BY <1>1, <1>2, <1>4

LEMMA Quiet ==
  ASSUME UNCHANGED <<wr, slot, begun, blocks, file, fresh, dropped>>,
         Pos' = Pos, Hand' = Hand, Recording' => Recording,
         Ordered, Complete
  PROVE  Ordered' /\ Complete'
<1>1. Waiting' = Waiting /\ Live' = Live /\ \A k : Cell(k)' = Cell(k)
  BY Still
<1>2. Stored' = Stored
  BY DEF Stored
<1>3. Ordered'
  BY <1>1 DEF Ordered
<1>4. Complete'
  BY <1>1, <1>2 DEF Complete
<1> QED
  BY <1>3, <1>4

LEMMA NoRecording ==
  ASSUME ~Recording', Ordered, UNCHANGED <<begun, blocks>>
  PROVE  Ordered' /\ Complete'
  BY DEF Ordered, Complete

-----------------------------------------------------------------------------
(* The steps that move blocks. *)

LEMMA SaiStep ==
  ASSUME TypeOK, Room, Ordered, Complete, SaiBlock
  PROVE  Ordered' /\ Complete'
<1>1. /\ Pos' = Pos /\ Hand' = Hand /\ Stored' = Stored /\ (Recording' <=> Recording)
      /\ UNCHANGED <<begun, fresh, file, pc>> /\ blocks' = blocks + 1
  BY DEF SaiBlock, Pos, Hand, Stored, Recording
<1>2. /\ blocks \in Nat /\ begun \in Nat /\ wr \in Slot /\ slot \in [Slot -> Nat] /\ Ranges
  BY DEF TypeOK, Ranges
<1>3. /\ Pos \in Slot /\ Waiting \in 0 .. NUM - 1 /\ Hand \in {0, 1}
      /\ Live \subseteq 0 .. NUM - 1 /\ \A k \in Live : Cell(k) \in Nat
  BY <1>2, RingType
<1>4. file.open => file.data \in Seq(Nat)
  BY DEF TypeOK, FileType
<1>5. CASE Full
  <2>1. UNCHANGED <<wr, slot>> /\ dropped' = TRUE
    BY <1>5 DEF SaiBlock
  <2>2. Live' = Live /\ \A k : Cell(k)' = Cell(k)
    BY <1>1, <2>1, Still
  <2>3. Complete'
    BY <2>1 DEF Complete
  <2>4. ASSUME NEW i \in 1 .. Len(file.data), file.open
        PROVE  file.data[i] \in Nat
    BY <1>4, <2>4
  <2>5. Ordered'
    BY <1>1, <1>2, <1>3, <2>2, <2>4 DEF Ordered
  <2> QED
    BY <2>3, <2>5
<1>6. CASE ~Full
  <2>1. Waiting < NUM - 1
    <3>1. CASE rd = NUM
      <4>1. pc = "wrap" /\ burst = 0
        BY <1>2, <3>1 DEF Ranges, SaiBlock
      <4> QED
        BY <1>3, <4>1, RecorderAssumption DEF Room
    <3>2. CASE rd # NUM
      BY <1>2, <1>3, <1>6, <3>2, Behind, RecorderAssumption
    <3> QED
      BY <3>1, <3>2
  <2>0. PICK w \in 1 .. NUM - 1 : w = Waiting + 1
    BY <1>3, <2>1, RecorderAssumption
  <2>2. After(wr) = Ahead(Pos, w)
    BY <1>2, <2>0, <2>1, Behind
  <2>3. wr' = After(wr) /\ slot' = [slot EXCEPT ![After(wr)] = blocks + 1] /\ dropped' = dropped
    BY <1>6 DEF SaiBlock
  <2>4. Waiting' = Waiting + 1
    BY <1>1, <1>2, <1>3, <2>1, <2>3, RecorderAssumption DEF Waiting, After, Slot
  <2>5. \A k \in 0 .. NUM - 1 : Ahead(Pos, k)' = Ahead(Pos, k) /\ Ahead(Pos, k) \in Slot
    BY <1>1, <1>2, RingType DEF Ahead
  <2>6. Cell(w)' = blocks + 1
    <3>1. Ahead(Pos, w)' = After(wr) /\ After(wr) \in Slot
      BY <2>2, <2>5, RecorderAssumption
    <3> QED
      BY <1>2, <2>3, <3>1 DEF Cell
  <2>7. ASSUME NEW k \in 0 .. Waiting PROVE Cell(k)' = Cell(k)
    <3>1. k \in 0 .. NUM - 1 /\ w \in 0 .. NUM - 1 /\ k # w
      BY <1>3, <2>0, RecorderAssumption
    <3>2. Ahead(Pos, k) # After(wr) /\ Ahead(Pos, k) \in Slot /\ Ahead(Pos, k)' = Ahead(Pos, k)
      BY <1>3, <2>2, <2>5, <3>1, AheadInjective
    <3> QED
      BY <1>2, <2>3, <3>2 DEF Cell
  <2>8. Live' = Live \cup {w} /\ Live \subseteq 0 .. Waiting
    BY <1>1, <1>3, <2>0, <2>4 DEF Live
  <2>9. /\ \A k \in Live : Cell(k)' = Cell(k)
        /\ \A k \in Live : k < w
    BY <1>3, <2>0, <2>7, <2>8
  <2>10. Ordered'
    <3>1. begun' <= blocks'
      BY <1>1, <1>2 DEF Ordered
    <3>2. ASSUME Recording, NEW k \in Live'
          PROVE  (begun < Cell(k) /\ Cell(k) <= blocks)'
      BY <1>1, <1>2, <1>3, <2>6, <2>8, <2>9, <3>2 DEF Ordered
    <3>3. ASSUME Recording, NEW k \in Live', NEW l \in Live', k < l
          PROVE  (Cell(k) < Cell(l))'
      <4>1. CASE l = w
        BY <1>1, <1>2, <1>3, <2>6, <2>8, <2>9, <3>3, <4>1 DEF Ordered
      <4>2. CASE l # w
        BY <1>3, <2>6, <2>8, <2>9, <3>3, <4>2 DEF Ordered
      <4> QED
        BY <4>1, <4>2
    <3>4. ASSUME Recording, file.open, NEW i \in 1 .. Len(file.data)
          PROVE  /\ file.data[i] <= blocks'
                 /\ \A k \in Live' : file.data[i] < Cell(k)'
                 /\ file.data[i] > IF i = 1 THEN begun ELSE file.data[i - 1]
      <4>1. file.data[i] \in Nat
        BY <1>4, <3>4
      <4> QED
        BY <1>1, <1>2, <1>3, <2>6, <2>8, <2>9, <3>4, <4>1 DEF Ordered
    <3> QED
      BY <1>1, <3>1, <3>2, <3>3, <3>4 DEF Ordered
  <2>11. Complete'
    <3> SUFFICES ASSUME Recording, ~dropped, file.open => file.good
                 PROVE  /\ Stored + Hand + Waiting' = blocks' - begun
                        /\ \A k \in Live' : Cell(k)' = begun + Stored + Hand + k
                        /\ file.open => \A i \in 1 .. Stored : file.data[i] = begun + i
      BY <1>1, <2>3 DEF Complete
    <3>1. Stored \in Nat
      BY <1>4 DEF Stored
    <3>2. Stored + Hand + Waiting = blocks - begun /\ begun <= blocks
      BY DEF Complete, Ordered
    <3>3. begun + Stored + Hand + w = blocks + 1
      BY <1>2, <1>3, <2>0, <3>1, <3>2
    <3> QED
      BY <1>1, <1>2, <1>3, <2>4, <2>6, <2>8, <2>9, <3>1, <3>2, <3>3 DEF Complete
  <2> QED
    BY <2>10, <2>11
<1> QED
  BY <1>5, <1>6

LEMMA ReadStep ==
  ASSUME TypeOK, Ordered, Complete, ReadAdvance
  PROVE  /\ Waiting \in 1 .. NUM - 1 /\ Waiting' = Waiting - 1 /\ Hand = 0 /\ Hand' = 1
         /\ Ordered' /\ Complete'
<1>1. /\ Hand = 0 /\ Hand' = 1 /\ Stored' = Stored /\ rd # wr /\ rd' = rd + 1
      /\ (Recording' <=> Recording) /\ pc = "loop"
      /\ UNCHANGED <<begun, fresh, file, wr, slot, blocks, dropped>>
  BY DEF ReadAdvance, Reads, Hand, Stored, Recording, history
<1>2. /\ Ranges /\ wr \in Slot /\ rd \in 0 .. NUM - 1 /\ begun \in Nat /\ blocks \in Nat
  BY <1>1, RecorderAssumption DEF TypeOK, Ranges
<1>3. Waiting \in 1 .. NUM - 1 /\ Pos = rd
  <2>1. Waiting \in 0 .. NUM - 1 /\ Waiting # 0
    BY <1>1, <1>2, RingType, Behind, RecorderAssumption
  <2> QED
    BY <1>2, <2>1, RecorderAssumption DEF Pos
<1>4. /\ Pos' \in Slot /\ Waiting' = Waiting - 1
      /\ \A k \in 0 .. NUM - 2 : Ahead(Pos, k)' = Ahead(Pos, k + 1)
  BY <1>1, <1>2, RecorderAssumption DEF Slot, Waiting, Pos, Ahead
<1>5. \A k \in 0 .. NUM - 2 : Cell(k)' = Cell(k + 1)
  BY <1>1, <1>4 DEF Cell
<1>6. Live = 1 .. Waiting /\ Live' = 0 .. Waiting - 1
  BY <1>1, <1>3, <1>4 DEF Live
<1>7. \A k \in Live' : k \in Nat /\ k + 1 \in Live /\ Cell(k)' = Cell(k + 1)
  BY <1>3, <1>5, <1>6, RecorderAssumption
<1>8. \A k \in Live : Cell(k) \in Nat
  BY <1>2, <1>3, <1>6, RingType, RecorderAssumption
<1>9. Ordered'
  <2>1. begun' <= blocks'
    BY <1>1 DEF Ordered
  <2>2. ASSUME Recording
        PROVE  /\ \A k \in Live' : begun < Cell(k)' /\ Cell(k)' <= blocks
               /\ \A k, l \in Live' : k < l => Cell(k)' < Cell(l)'
    BY <1>6, <1>7, <2>2 DEF Ordered
  <2>3. ASSUME Recording, file.open, NEW i \in 1 .. Len(file.data)
        PROVE  /\ file.data[i] > IF i = 1 THEN begun ELSE file.data[i - 1]
               /\ file.data[i] <= blocks
               /\ \A k \in Live' : file.data[i] < Cell(k)'
    BY <1>7, <2>3 DEF Ordered
  <2> QED
    BY <1>1, <2>1, <2>2, <2>3 DEF Ordered
<1>10. Complete'
  <2> SUFFICES ASSUME Recording, ~dropped, file.open => file.good
               PROVE  /\ Stored + 1 + (Waiting - 1) = blocks - begun
                      /\ \A k \in Live' : Cell(k)' = begun + Stored + 1 + k
                      /\ file.open => \A i \in 1 .. Stored : file.data[i] = begun + i
    BY <1>1, <1>4 DEF Complete
  <2>1. Stored \in Nat
    BY DEF Stored, TypeOK, FileType
  <2>2. Stored + 1 + (Waiting - 1) = blocks - begun
    BY <1>1, <1>3, <2>1 DEF Complete
  <2>3. ASSUME NEW k \in Live'
        PROVE  Cell(k)' = begun + Stored + 1 + k
    <3>1. k \in Nat /\ k + 1 \in Live /\ Cell(k)' = Cell(k + 1)
      BY <1>7
    <3>2. Cell(k + 1) = begun + Stored + 0 + (k + 1)
      BY <1>1, <3>1 DEF Complete
    <3> QED
      BY <1>2, <2>1, <3>1, <3>2
  <2> QED
    BY <2>2, <2>3 DEF Complete
<1> QED
  BY <1>1, <1>3, <1>4, <1>9, <1>10

LEMMA WriteStream ==
  ASSUME TypeOK, Control, Ordered, Complete, Write
  PROVE  Ordered' /\ Complete'
<1>1. /\ pc = "write" /\ pc' = "buttons" /\ rd \in Slot
      /\ UNCHANGED <<rd, wr, slot, blocks, begun, fresh, dropped>>
  BY WriteStep DEF TypeOK, fifo, count, history
<1>2. /\ file.open /\ file'.open /\ file.data \in Seq(Nat)
      /\ \/ file.good /\ file'.good /\ file'.data = Append(file.data, slot[rd])
         \/ ~file'.good /\ file'.data = file.data
  BY <1>1, WriteStep DEF TypeOK, Control, Running, FileType
<1>3. /\ Ranges /\ wr \in Slot /\ begun \in Nat /\ blocks \in Nat
  BY DEF TypeOK, Ranges
<1>4. Pos' = Pos /\ Pos = rd /\ Hand = 1 /\ Hand' = 0 /\ Recording' = Recording
  BY <1>1, <1>2, RecorderAssumption DEF Pos, Hand, Recording, Slot
<1>5. Waiting' = Waiting /\ \A k : Cell(k)' = Cell(k)
  BY <1>1, <1>4, Still
<1>6. Live = 0 .. Waiting /\ Live' = 1 .. Waiting /\ Waiting \in 0 .. NUM - 1
  BY <1>3, <1>4, <1>5, RingType DEF Live
<1>7. Cell(0) = slot[rd] /\ \A k \in Live : Cell(k) \in Nat
  <2>1. Ahead(rd, 0) = rd
    BY <1>1, RecorderAssumption DEF Ahead, Slot
  <2> QED
    BY <1>3, <1>4, <1>6, <2>1, RingType DEF Cell
<1>8. CASE ~file'.good /\ file'.data = file.data
  <2>1. Complete'
    BY <1>2, <1>8 DEF Complete
  <2>2. Ordered'
    <3>1. Live' \subseteq Live /\ begun <= blocks
      BY <1>6 DEF Ordered
    <3>2. ASSUME Recording
          PROVE  /\ \A k \in Live' : begun < Cell(k) /\ Cell(k) <= blocks
                 /\ \A k, l \in Live' : k < l => Cell(k) < Cell(l)
      BY <3>1, <3>2 DEF Ordered
    <3>3. ASSUME Recording, NEW i \in 1 .. Len(file.data)
          PROVE  /\ file.data[i] > IF i = 1 THEN begun ELSE file.data[i - 1]
                 /\ file.data[i] <= blocks
                 /\ \A k \in Live' : file.data[i] < Cell(k)
      BY <1>2, <3>1, <3>3 DEF Ordered
    <3> QED
      BY <1>1, <1>4, <1>5, <1>8, <3>1, <3>2, <3>3 DEF Ordered
  <2> QED
    BY <2>1, <2>2
<1>9. CASE file.good /\ file'.good /\ file'.data = Append(file.data, Cell(0))
  <2> DEFINE n == Len(file.data)
  <2>1. /\ n \in Nat /\ Len(file'.data) = n + 1 /\ file'.data[n + 1] = Cell(0)
        /\ \A i \in 1 .. n : file'.data[i] = file.data[i] /\ file.data[i] \in Nat
    BY <1>2, <1>6, <1>7, <1>9
  <2>2. Ordered'
    <3>1. ASSUME Recording
          PROVE  /\ \A k \in Live' : begun < Cell(k) /\ Cell(k) <= blocks
                 /\ \A k, l \in Live' : k < l => Cell(k) < Cell(l)
      BY <1>6, <3>1 DEF Ordered
    <3>2. ASSUME Recording, NEW i \in 1 .. n + 1
          PROVE  /\ file'.data[i] > IF i = 1 THEN begun ELSE file'.data[i - 1]
                 /\ file'.data[i] <= blocks
                 /\ \A k \in Live' : file'.data[i] < Cell(k)
      <4>1. CASE i \in 1 .. n
        <5>1. i # 1 => i - 1 \in 1 .. n
          BY <2>1, <4>1
        <5>2. /\ file.data[i] > IF i = 1 THEN begun ELSE file.data[i - 1]
              /\ file.data[i] <= blocks
              /\ \A k \in Live : file.data[i] < Cell(k)
          BY <1>2, <3>2, <4>1 DEF Ordered
        <5>3. i # 1 => file'.data[i - 1] = file.data[i - 1]
          BY <2>1, <5>1
        <5> QED
          BY <1>6, <2>1, <4>1, <5>2, <5>3
      <4>2. CASE i = n + 1
        <5>1. /\ begun < Cell(0) /\ Cell(0) <= blocks /\ 0 \in Live
              /\ \A k \in Live' : Cell(0) < Cell(k)
              /\ n # 0 => n \in 1 .. n /\ file.data[n] < Cell(0)
          BY <1>2, <1>6, <2>1, <3>2 DEF Ordered
        <5>2. CASE n = 0
          BY <1>3, <1>7, <2>1, <4>2, <5>1, <5>2
        <5>3. CASE n # 0
          BY <1>3, <1>7, <2>1, <4>2, <5>1, <5>3
        <5> QED
          BY <5>2, <5>3
      <4> QED
        BY <2>1, <4>1, <4>2
    <3>3. begun <= blocks
      BY DEF Ordered
    <3> QED
      BY <1>1, <1>4, <1>5, <2>1, <3>1, <3>2, <3>3 DEF Ordered
  <2>3. Complete'
    <3> SUFFICES ASSUME Recording, ~dropped
                 PROVE  /\ (n + 1) + 0 + Waiting = blocks - begun
                        /\ \A k \in Live' : Cell(k) = begun + (n + 1) + 0 + k
                        /\ \A i \in 1 .. n + 1 : file'.data[i] = begun + i
      BY <1>1, <1>2, <1>4, <1>5, <2>1 DEF Complete, Stored
    <3>1. /\ n + 1 + Waiting = blocks - begun
          /\ \A k \in Live : Cell(k) = begun + n + 1 + k
          /\ \A i \in 1 .. n : file.data[i] = begun + i
      BY <1>2, <1>4, <1>9 DEF Complete, Stored
    <3>2. Cell(0) = begun + n + 1
      BY <1>3, <1>6, <2>1, <3>1
    <3>3. \A k \in Live' : Cell(k) = begun + (n + 1) + 0 + k
      BY <1>3, <1>6, <2>1, <3>1
    <3>4. \A i \in 1 .. n + 1 : i \in 1 .. n \/ i = n + 1
      BY <2>1
    <3>5. ASSUME NEW i \in 1 .. n + 1
          PROVE  file'.data[i] = begun + i
      <4>1. CASE i \in 1 .. n
        BY <2>1, <3>1, <4>1
      <4>2. CASE i = n + 1
        BY <1>3, <2>1, <3>2, <4>2
      <4> QED
        BY <3>4, <4>1, <4>2
    <3> QED
      BY <1>3, <1>6, <2>1, <3>1, <3>3, <3>5
  <2> QED
    BY <2>2, <2>3
<1> QED
  BY <1>2, <1>7, <1>8, <1>9

LEMMA StartStep ==
  ASSUME TypeOK, Control, Drained, Start
  PROVE  Ordered' /\ Complete'
<1>1. /\ pc = "buttons" /\ pc' = "open" /\ rec_sta = OFF /\ begun' = blocks
      /\ fresh' = (idle = NUM - 1) /\ UNCHANGED <<rd, wr, slot, blocks, file>>
  BY DEF Start, fifo, count
<1>2. ~file.open /\ Hand = 0 /\ Hand' = 0 /\ Ranges /\ blocks \in Nat
  BY <1>1 DEF Control, Running, Hand, TypeOK, Ranges
<1>3. CASE ~fresh'
  BY <1>1, <1>2, <1>3 DEF Ordered, Complete, Recording
<1>4. CASE fresh'
  <2>1. Waiting = 0
    <3>1. Waiting \in 0 .. NUM - 1 /\ idle = NUM - 1
      BY <1>1, <1>2, <1>4, RingType
    <3>2. Waiting = 0 \/ Waiting + 0 + idle <= NUM - 1
      BY <1>1, <1>2 DEF Drained, Running
    <3> QED
      BY <3>1, <3>2, RecorderAssumption
  <2>2. Waiting' = 0
    BY <1>1, <2>1 DEF Waiting, Pos
  <2>3. Live' = {} /\ Stored' = 0
    BY <1>1, <1>2, <2>2 DEF Live, Stored
  <2> QED
    BY <1>1, <1>2, <2>2, <2>3 DEF Ordered, Complete
<1> QED
  BY <1>3, <1>4

LEMMA OpenStream ==
  ASSUME TypeOK, Control, Ordered, Complete, Open
  PROVE  Ordered' /\ Complete'
<1>1. /\ pc = "open" /\ ~file.open /\ UNCHANGED <<rd, wr, slot, begun, blocks, fresh, dropped>>
      /\ Ranges /\ begun \in Nat /\ blocks \in Nat
  BY OpenStep DEF Control, TypeOK, Ranges
<1>2. Pos' = Pos /\ Hand' = Hand
  BY <1>1, OpenStep DEF Pos, Hand
<1>3. Waiting' = Waiting /\ Live' = Live /\ \A k : Cell(k)' = Cell(k)
  BY <1>1, <1>2, Still
<1>4. CASE ~file'.open
  <2>1. ~Recording'
    BY <1>1, <1>4, OpenStep DEF Recording
  <2> QED
    BY <1>1, <2>1, NoRecording
<1>5. CASE file'.open
  <2>1. file'.data = << >> /\ Stored = 0 /\ Stored' = 0 /\ (Recording' => Recording)
    BY <1>1, <1>5, OpenStep DEF Stored, Recording
  <2>2. Ordered'
    BY <1>1, <1>3, <2>1 DEF Ordered
  <2>3. Complete'
    BY <1>1, <1>2, <1>3, <2>1 DEF Complete
  <2> QED
    BY <2>2, <2>3
<1> QED
  BY <1>4, <1>5

LEMMA StepStream ==
  ASSUME TypeOK, Control, Room, Drained, Ordered, Complete, [Next]_vars
  PROVE  Ordered' /\ Complete'
<1>0. file \in FileType /\ wavsize \in Nat
  BY DEF TypeOK, Ranges
<1>1. \A g \in Closed(file) : g.open = FALSE
  BY <1>0, ClosedStep
<1>2. CASE SaiBlock
  BY <1>2, SaiStep
<1>3. CASE Enter
  <2>1. ~file.open /\ UNCHANGED <<file, begun, blocks>> /\ pc' # "open"
    BY <1>3 DEF Enter, Control, NoFile
  <2> QED
    BY <2>1, NoRecording DEF Recording
<1>4. CASE NoRead
  BY <1>4, Quiet DEF NoRead, fifo, count, history, Pos, Hand, Recording
<1>5. CASE ReadAdvance
  BY <1>5, ReadStep
<1>6. CASE ReadWrap
  <2>1. /\ pc = "wrap" /\ UNCHANGED <<wr, slot, begun, blocks, file, fresh, dropped>>
        /\ rd' = (IF rd >= NUM THEN 0 ELSE rd) /\ rd \in 0 .. NUM
    BY <1>6 DEF ReadWrap, count, TypeOK, Ranges
  <2>2. Pos' = Pos
    BY <2>1, RecorderAssumption DEF Pos
  <2>3. CASE rec_sta = OFF
    <3>1. ~file.open /\ pc' = "buttons"
      BY <1>6, <2>1, <2>3 DEF Control, Running, ReadWrap
    <3> QED
      BY <2>1, <3>1, NoRecording DEF Recording
  <2>4. CASE rec_sta # OFF
    <3>1. pc' = "write"
      BY <1>6, <2>4 DEF ReadWrap
    <3> QED
      BY <2>1, <2>2, <3>1, Quiet DEF Hand, Recording
  <2> QED
    BY <2>3, <2>4
<1>7. CASE Write
  BY <1>7, WriteStream
<1>8. CASE NoPress
  BY <1>8, Quiet DEF NoPress, fifo, count, history, Pos, Hand, Recording
<1>9. CASE Pause
  BY <1>9, Quiet DEF Pause, fifo, count, history, Pos, Hand, Recording
<1>10. CASE Start
  BY <1>10, StartStep
<1>11. CASE Open
  BY <1>11, OpenStream
<1>12. CASE Stop
  <2>1. ~file'.open /\ pc' = "stopped" /\ UNCHANGED <<begun, blocks>>
    BY <1>1, <1>12 DEF Stop, Control, Running, count, history
  <2> QED
    BY <2>1, NoRecording DEF Recording
<1>13. CASE Stopped
  BY <1>13, Quiet DEF Stopped, fifo, count, history, Pos, Hand, Recording
<1>14. CASE Return
  BY <1>14, Quiet DEF Return, fifo, count, history, Pos, Hand, Recording
<1>15. CASE Leave
  BY <1>15, Quiet DEF Leave, fifo, count, history, Pos, Hand, Recording
<1>16. CASE Ask
  BY <1>16, Quiet DEF Ask, fifo, count, history, Pos, Hand, Recording
<1>17. CASE Save
  <2>1. ~file'.open /\ pc' = "free" /\ UNCHANGED <<begun, blocks>>
    BY <1>1, <1>17 DEF Save, count, history
  <2> QED
    BY <2>1, NoRecording DEF Recording
<1>18. CASE Free
  <2>1. ~file'.open /\ pc' = "out" /\ UNCHANGED <<begun, blocks>>
    BY <1>18 DEF Free, NoFile, count, history
  <2> QED
    BY <2>1, NoRecording DEF Recording
<1>19. CASE UNCHANGED vars
  BY <1>19, Quiet DEF vars, fifo, count, history, Pos, Hand, Recording
<1> QED
  BY <1>2, <1>3, <1>4, <1>5, <1>6, <1>7, <1>8, <1>9, <1>10, <1>11, <1>12,
     <1>13, <1>14, <1>15, <1>16, <1>17, <1>18, <1>19 DEF Next

LEMMA StepRoom ==
  ASSUME TypeOK, Ordered, Complete, Room, [Next]_vars
  PROVE  Room'
<1> USE DEF Room
<1>1. CASE SaiBlock
  BY <1>1 DEF SaiBlock
<1>2. CASE Enter
  BY <1>2 DEF Enter
<1>3. CASE NoRead
  BY <1>3 DEF NoRead
<1>4. CASE ReadAdvance
  BY <1>4, ReadStep, RecorderAssumption
<1>5. CASE ReadWrap
  BY <1>5 DEF ReadWrap
<1>6. CASE Write
  BY <1>6 DEF Write
<1>7. CASE NoPress
  BY <1>7 DEF NoPress
<1>8. CASE Pause
  BY <1>8 DEF Pause
<1>9. CASE Start
  BY <1>9 DEF Start
<1>10. CASE Open
  BY <1>10, OpenStep
<1>11. CASE Stop
  BY <1>11 DEF Stop
<1>12. CASE Stopped
  BY <1>12 DEF Stopped
<1>13. CASE Return
  BY <1>13 DEF Return
<1>14. CASE Leave
  BY <1>14 DEF Leave
<1>15. CASE Ask
  BY <1>15 DEF Ask
<1>16. CASE Save
  BY <1>16 DEF Save
<1>17. CASE Free
  BY <1>17 DEF Free
<1>18. CASE UNCHANGED vars
  BY <1>18 DEF vars, fifo, count, Waiting, Pos
<1> QED
  BY <1>1, <1>2, <1>3, <1>4, <1>5, <1>6, <1>7, <1>8, <1>9, <1>10, <1>11,
     <1>12, <1>13, <1>14, <1>15, <1>16, <1>17, <1>18 DEF Next

LEMMA StepDrained ==
  ASSUME TypeOK, Ordered, Complete, Control, Drained, [Next]_vars
  PROVE  Drained'
<1> USE RecorderAssumption DEF Drained, OFF, ON, PAUSED, Running, Hand
<1>1. Waiting \in 0 .. NUM - 1 /\ idle \in 0 .. NUM - 1 /\ Ranges
  BY RingType DEF TypeOK, Ranges
<1>2. UNCHANGED <<rd, wr>> => Waiting' = Waiting
  BY DEF Waiting, Pos
<1>3. CASE SaiBlock
  BY <1>1, <1>2, <1>3 DEF SaiBlock, fifo, count, history
<1>4. CASE Enter
  BY <1>1, <1>2, <1>4 DEF Enter
<1>5. CASE NoRead
  <2>1. Waiting = 0 /\ Waiting' = 0
    BY <1>1, <1>2, <1>5, Behind DEF NoRead, Reads, fifo
  <2> QED
    BY <1>5, <2>1 DEF NoRead, Turn
<1>6. CASE ReadAdvance
  BY <1>1, <1>6, ReadStep DEF ReadAdvance, history
<1>7. CASE ReadWrap
  <2>1. Waiting' = Waiting
    BY <1>1, <1>7 DEF ReadWrap, Ranges, Waiting, Pos
  <2> QED
    BY <1>1, <1>7, <2>1 DEF ReadWrap, Turn
<1>8. CASE Write
  BY <1>1, <1>2, <1>8 DEF Write, fifo, count, history
<1>9. CASE NoPress
  BY <1>1, <1>2, <1>9 DEF NoPress, fifo, count, history
<1>10. CASE Pause
  BY <1>1, <1>2, <1>10 DEF Pause, fifo, count, history
<1>11. CASE Start
  BY <1>1, <1>2, <1>11 DEF Start, fifo, count, history
<1>12. CASE Open
  BY <1>12, OpenStep DEF Control
<1>13. CASE Stop
  BY <1>1, <1>2, <1>13 DEF Stop, fifo, count, history
<1>14. CASE Stopped
  BY <1>1, <1>2, <1>14 DEF Stopped, fifo, count, history
<1>15. CASE Return
  BY <1>1, <1>2, <1>15 DEF Return, fifo, count, history
<1>16. CASE Leave
  BY <1>1, <1>2, <1>16 DEF Leave, fifo, count, history
<1>17. CASE Ask
  BY <1>1, <1>2, <1>17 DEF Ask, fifo, count, history
<1>18. CASE Save
  BY <1>1, <1>2, <1>18 DEF Save, fifo, count, history
<1>19. CASE Free
  BY <1>1, <1>2, <1>19 DEF Free, fifo, count, history
<1>20. CASE UNCHANGED vars
  BY <1>2, <1>20 DEF vars, fifo, history
<1> QED
  BY <1>3, <1>4, <1>5, <1>6, <1>7, <1>8, <1>9, <1>10, <1>11, <1>12, <1>13,
     <1>14, <1>15, <1>16, <1>17, <1>18, <1>19, <1>20 DEF Next

-----------------------------------------------------------------------------
(* What the properties say, from the ring. *)

LEMMA Modulo ==
  ASSUME NEW x \in 0 .. 2 * NUM - 1
  PROVE  x % NUM = IF x < NUM THEN x ELSE x - NUM
  BY RecorderAssumption, SMT

LEMMA Positions ==
  ASSUME Ranges
  PROVE  /\ Position = Pos /\ (wr + NUM - Position) % NUM = Waiting
         /\ \A i \in 0 .. NUM - 1 : (Position + i) % NUM = Ahead(Pos, i)
<1>1. rd \in 0 .. NUM /\ wr \in 0 .. NUM - 1 /\ NUM \in Nat /\ NUM >= 2
  BY RecorderAssumption DEF Ranges, Slot
<1>2. Position = Pos
  BY <1>1, Modulo DEF Position, Pos
<1>3. Pos \in 0 .. NUM - 1
  BY <1>1 DEF Pos
<1>4. (wr + NUM - Pos) % NUM = Waiting
  BY <1>1, <1>3, Modulo DEF Waiting
<1>5. \A i \in 0 .. NUM - 1 : (Pos + i) % NUM = Ahead(Pos, i)
  BY <1>1, <1>3, Modulo DEF Ahead
<1> QED
  BY <1>2, <1>4, <1>5

LEMMA QueueIs ==
  ASSUME Ranges
  PROVE  /\ Queue = [i \in 1 .. Waiting |-> Cell(i)]
         /\ InHand = IF Hand = 1 THEN <<Cell(0)>> ELSE << >>
<1>1. Pos \in Slot /\ Waiting \in 0 .. NUM - 1
  BY RingType
<1>2. \A i \in 1 .. Waiting : slot[(Position + i) % NUM] = Cell(i)
  BY <1>1, Positions, RecorderAssumption DEF Cell
<1>3. Ahead(Pos, 0) = Pos
  BY <1>1, RecorderAssumption DEF Ahead, Slot
<1> QED
  BY <1>2, <1>3, Positions DEF Queue, InHand, Hand, Cell

(* Two runs of consecutive blocks make one. *)
Run(s, b) == s \in Seq(Nat) /\ \A i \in 1 .. Len(s) : s[i] = b + i

LEMMA Joined ==
  ASSUME NEW s, NEW q, NEW b \in Nat, Run(s, b), Run(q, b + Len(s))
  PROVE  Run(s \o q, b) /\ Len(s \o q) = Len(s) + Len(q)
<1>1. /\ s \in Seq(Nat) /\ q \in Seq(Nat) /\ Len(s) \in Nat /\ Len(q) \in Nat
      /\ \A i \in 1 .. Len(s) : s[i] = b + i
      /\ \A i \in 1 .. Len(q) : q[i] = b + Len(s) + i
  BY DEF Run
<1>2. s \o q \in Seq(Nat)
  BY <1>1
<1>3. Len(s \o q) = Len(s) + Len(q)
  BY <1>1
<1>4. ASSUME NEW i \in 1 .. Len(s) + Len(q)
      PROVE  (s \o q)[i] = b + i
  <2>1. CASE i \in 1 .. Len(s)
    BY <1>1, <2>1
  <2>2. CASE i \notin 1 .. Len(s)
    <3>1. i - Len(s) \in 1 .. Len(q) /\ (s \o q)[i] = q[i - Len(s)]
      BY <1>1, <2>2
    <3>2. q[i - Len(s)] = b + Len(s) + (i - Len(s))
      BY <1>1, <3>1
    <3> QED
      BY <1>1, <3>1, <3>2
  <2> QED
    BY <2>1, <2>2
<1> QED
  BY <1>2, <1>3, <1>4 DEF Run

LEMMA Lossless ==
  ASSUME TypeOK, Control, Complete
  PROVE  NothingLost
<1> SUFFICES ASSUME file.open, file.good, fresh, ~dropped
             PROVE  file.data \o InHand \o Queue = [i \in 1 .. blocks - begun |-> begun + i]
  BY DEF NothingLost
<1> DEFINE n == Len(file.data)
<1>1. /\ Ranges /\ file.data \in Seq(Nat) /\ n \in Nat /\ begun \in Nat /\ blocks \in Nat
      /\ Waiting \in 0 .. NUM - 1 /\ Hand \in {0, 1}
  BY RingType DEF TypeOK, Ranges, FileType
<1>2. /\ n + Hand + Waiting = blocks - begun
      /\ \A k \in (1 - Hand) .. Waiting : Cell(k) = begun + n + Hand + k
      /\ \A i \in 1 .. n : file.data[i] = begun + i
  BY DEF Complete, Recording, Stored, Live
<1>3. Queue = [i \in 1 .. Waiting |-> begun + n + Hand + i]
  BY <1>1, <1>2, QueueIs
<1>4. InHand = [i \in 1 .. Hand |-> begun + n + i]
  <2>1. CASE Hand = 1
    <3>1. Cell(0) = begun + n + 1
      BY <1>1, <1>2, <2>1
    <3> QED
      BY <1>1, <2>1, <3>1, QueueIs
  <2>2. CASE Hand = 0
    BY <1>1, <2>2, QueueIs
  <2> QED
    BY <1>1, <2>1, <2>2
<1>5. Run(file.data, begun)
  BY <1>1, <1>2 DEF Run
<1>6. Run(InHand, begun + n) /\ Len(InHand) = Hand
  BY <1>1, <1>4 DEF Run
<1>7. Run(file.data \o InHand, begun) /\ Len(file.data \o InHand) = n + Hand
  BY <1>1, <1>5, <1>6, Joined
<1> DEFINE u == file.data \o InHand
<1> DEFINE t == u \o Queue
<1> HIDE DEF u, t
<1>8. Run(u, begun) /\ Len(u) = n + Hand
  BY <1>7 DEF u
<1>9. Run(Queue, begun + Len(u)) /\ Len(Queue) = Waiting
  BY <1>1, <1>3, <1>8 DEF Run
<1>10. Run(t, begun) /\ Len(t) = blocks - begun
  <2>1. Run(t, begun) /\ Len(t) = Len(u) + Len(Queue)
    BY <1>1, <1>8, <1>9, Joined DEF t
  <2> QED
    BY <1>2, <1>8, <1>9, <2>1
<1>11. t = [i \in 1 .. blocks - begun |-> begun + i]
  <2>1. t = [i \in 1 .. Len(t) |-> begun + i]
    BY <1>10 DEF Run
  <2> QED
    BY <1>10, <2>1
<1> QED
  BY <1>11 DEF t, u

-----------------------------------------------------------------------------
(* The theorems. *)

FullInv == IInv /\ RingInv

LEMMA Invariant == Spec => []FullInv
<1>1. Init => FullInv
  <2> SUFFICES ASSUME Init PROVE FullInv
    OBVIOUS
  <2>1. IInv
    BY InitInv
  <2>2. /\ pc = "out" /\ ~file.open /\ rec_sta = OFF /\ idle = 0 /\ begun = 0 /\ blocks = 0
        /\ fresh = FALSE
    BY DEF Init, NoFile
  <2>3. RingInv
    BY <2>2 DEF RingInv, Room, Drained, Ordered, Complete, Recording, Running
  <2> QED
    BY <2>1, <2>3 DEF FullInv
<1>2. FullInv /\ [Next]_vars => FullInv'
  <2> SUFFICES ASSUME FullInv, [Next]_vars PROVE FullInv'
    OBVIOUS
  <2>1. /\ TypeOK /\ Ranges /\ file \in FileType /\ Flags /\ Control /\ Counted
        /\ HeaderTrue /\ Owned /\ Room /\ Drained /\ Ordered /\ Complete
    BY DEF FullInv, IInv, RingInv, TypeOK
  <2>2. TypeOK'
    BY <2>1, StepRanges, StepFile, StepFlags DEF TypeOK
  <2>3. Control' /\ Counted' /\ HeaderTrue' /\ Owned'
    BY <2>1, StepControl, StepSizes, StepOwned
  <2>4. Room' /\ Drained' /\ Ordered' /\ Complete'
    BY <2>1, StepRoom, StepDrained, StepStream
  <2> QED
    BY <2>2, <2>3, <2>4 DEF FullInv, IInv, RingInv
<1> QED
  BY <1>1, <1>2, PTL DEF Spec

(***************************************************************************)
(* Nothing is lost or doubled on the way from the interrupt of the DMA to  *)
(* the file, while no block is dropped and every f_write is whole          *)
(* (rec_sai_fifo_write, rec_sai_fifo_read and the loop of recorder_play).  *)
(***************************************************************************)
THEOREM RecordingComplete == Spec => []NothingLost
<1>1. FullInv => NothingLost
  BY Lossless DEF FullInv, IInv, RingInv
<1> QED
  BY <1>1, Invariant, PTL

(***************************************************************************)
(* Even with blocks dropped, a recording's file holds its own blocks only, *)
(* in the order of capture, once the loop has emptied the FIFO of what the *)
(* recording before left there (line 528).                                 *)
(***************************************************************************)
THEOREM RecordingIsOwn == Spec => []FileIsOwn
<1>1. FullInv => FileIsOwn
  <2> SUFFICES ASSUME FullInv, file.open, fresh, NEW i \in 1 .. Len(file.data)
               PROVE  file.data[i] > IF i = 1 THEN begun ELSE file.data[i - 1]
    BY DEF FileIsOwn
  <2> QED
    BY DEF FullInv, RingInv, Ordered, Recording
<1> QED
  BY <1>1, Invariant, PTL

(***************************************************************************)
(* The size patched into the header of a closed file is the file's length, *)
(* unless a write fell short.                                              *)
(***************************************************************************)
THEOREM HeaderIsTrue == Spec => []HeaderTrue
<1>1. FullInv => HeaderTrue
  BY DEF FullInv, IInv
<1> QED
  BY <1>1, Invariant, PTL

(***************************************************************************)
(* What is saved at the end of recorder_play is an open file, except when  *)
(* the call found no memory and rec_sta is another session's.              *)
(***************************************************************************)
THEOREM SavedIsOpen == Spec => []SavesOpenFile
<1>1. FullInv => SavesOpenFile
  BY DEF FullInv, IInv, Control, SavesOpenFile
<1> QED
  BY <1>1, Invariant, PTL

(***************************************************************************)
(* While the DMA runs, and where memory is freed, the FIFO's pointers are  *)
(* the ones this session allocated.                                        *)
(***************************************************************************)
THEOREM BuffersAreOwned == Spec => []BuffersOwned
<1>1. FullInv => BuffersOwned
  BY DEF FullInv, IInv, Control, Owned, BuffersOwned, Held, Running
<1> QED
  BY <1>1, Invariant, PTL
=============================================================================
