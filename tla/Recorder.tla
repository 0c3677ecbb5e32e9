------------------------------ MODULE Recorder ------------------------------
(***************************************************************************)
(* The voice recorder, APP/recoder/recorder.c.  The SAI DMA interrupt puts *)
(* a block of samples into a FIFO while rec_sta says so; recorder_play, a  *)
(* loop of one task, takes a block per turn and writes it to a WAV file,   *)
(* looks at the buttons, and patches the sizes into the file's header when *)
(* the recording stops.  rec_sta, the FIFO's positions and its pointers    *)
(* are global and outlive a call of recorder_play, which may be called     *)
(* again.                                                                  *)
(*                                                                         *)
(* FatFs is external: f_open fails or not; f_write stores all it is given, *)
(* or falls short (a full disk, with FR_OK) or fails (and the file's error *)
(* sticks), which `good' remembers.  Sizes are counted in blocks.  The     *)
(* sample rate, the gain and the display are left out.                     *)
(***************************************************************************)
EXTENDS Naturals, Sequences

CONSTANTS NUM,          \* SAI_RX_FIFO_SIZE
          MaxBlocks,    \* bound: blocks captured while recording
          Sessions      \* bound: calls of recorder_play

ASSUME RecorderAssumption ==
    NUM \in Nat /\ NUM >= 2 /\ MaxBlocks \in Nat /\ Sessions \in Nat

VARIABLES
    rec_sta,            \* 0 off, 0x80 recording, 0x81 paused
    rd, wr, slot,       \* sairecfifordpos, sairecfifowrpos, sairecfifobuf[]
    ptr,                \* the pointers sairecfifobuf: null, ours or old
    pc, rval,           \* the task in recorder_play, and its result
    sai,                \* external: SAI and its DMA run
    file,               \* external: the file of f_rec
    wavsize,            \* blocks counted for the header
    blocks, burst, sessions,
    begun, fresh, dropped, idle     \* history, for the properties

fifo    == <<rd, wr, slot>>
count   == <<blocks, burst, sessions>>
history == <<begun, fresh, dropped, idle>>
vars    == <<rec_sta, fifo, ptr, pc, rval, sai, file, wavsize, count, history>>

Slot   == 0 .. NUM - 1
OFF    == 0
ON     == 128
PAUSED == 129
NoFile == [open |-> FALSE, data |-> << >>, size |-> 0, good |-> FALSE]

-----------------------------------------------------------------------------
(* The DMA interrupt: rec_sai_dma_rx_callback and rec_sai_fifo_write.      *)

After(p) == IF p + 1 >= NUM THEN 0 ELSE p + 1

Full_never == FALSE                     \* mutant: line 121 is missing
Full == rd = After(wr)

(* Two blocks are 20 ms apart or more, so at most one comes between the    *)
(* two steps of rec_sai_fifo_read.                                         *)
SaiBlock ==
    /\ sai /\ rec_sta = ON /\ blocks < MaxBlocks
    /\ pc = "wrap" => burst = 0
    /\ blocks' = blocks + 1 /\ burst' = 1
    /\ IF Full THEN dropped' = TRUE /\ UNCHANGED <<wr, slot>>
               ELSE /\ wr' = After(wr) /\ slot' = [slot EXCEPT ![After(wr)] = blocks + 1]
                    /\ UNCHANGED dropped
    /\ UNCHANGED <<rec_sta, rd, ptr, pc, rval, sai, file, wavsize, sessions,
                   begun, fresh, idle>>

-----------------------------------------------------------------------------
(* recorder_play.                                                          *)

Alloc_short(got) ==                     \* mutant: the last buffer is not
    [s \in Slot |-> IF s < got /\ s < NUM - 1 THEN "ours"    \* asked for
                    ELSE IF s = got /\ s < NUM - 1 THEN "null" ELSE ptr[s]]

(* The loop over mymalloc: it ends at the first failure, and what comes    *)
(* after keeps the pointer of the session before.                          *)
Alloc(got) ==
    [s \in Slot |-> IF s < got THEN "ours" ELSE IF s = got THEN "null" ELSE ptr[s]]

(* Memory and the screen's font, or straight to the end; recording mode.   *)
Enter ==
    /\ pc = "out" /\ sessions < Sessions
    /\ sessions' = sessions + 1
    /\ \E got \in 0 .. NUM :
         /\ ptr' = Alloc(got)
         /\ \/ /\ got = NUM
               /\ rval' = 0 /\ rec_sta' = OFF /\ wavsize' = 0 /\ sai' = TRUE
               /\ slot' = [s \in Slot |-> 0] /\ pc' = "loop"
            \/ /\ rval' = 1 /\ pc' = "ask"
               /\ UNCHANGED <<rec_sta, wavsize, sai, slot>>
    /\ idle' = 0
    /\ UNCHANGED <<rd, wr, file, blocks, burst, begun, fresh, dropped>>

Reads_recording == rec_sta # OFF /\ rd # wr     \* mutant: operands of line
Reads == rd # wr                                \* 528 exchanged

Turn == IF rec_sta = OFF /\ idle < NUM - 1 THEN idle + 1 ELSE idle

NoRead ==
    /\ pc = "loop" /\ ~Reads
    /\ pc' = "buttons" /\ idle' = Turn
    /\ UNCHANGED <<rec_sta, fifo, ptr, rval, sai, file, wavsize, count, begun,
                   fresh, dropped>>

ReadAdvance ==
    /\ pc = "loop" /\ Reads
    /\ pc' = "wrap" /\ rd' = rd + 1 /\ burst' = 0
    /\ UNCHANGED <<rec_sta, wr, slot, ptr, rval, sai, file, wavsize, blocks,
                   sessions, history>>

(* A block taken while nothing is recorded is thrown away.                 *)
ReadWrap ==
    /\ pc = "wrap"
    /\ rd' = IF rd >= NUM THEN 0 ELSE rd
    /\ IF rec_sta # OFF THEN pc' = "write" /\ UNCHANGED idle
                        ELSE pc' = "buttons" /\ idle' = Turn
    /\ UNCHANGED <<rec_sta, wr, slot, ptr, rval, sai, file, wavsize, count,
                   begun, fresh, dropped>>

Write_unpaused ==                       \* mutant: not counted in a pause
    /\ pc = "write" /\ pc' = "buttons"
    /\ \/ file.good /\ file' = [file EXCEPT !.data = Append(@, slot[rd])]
       \/ file' = [file EXCEPT !.good = FALSE]
    /\ wavsize' = IF rec_sta = ON THEN wavsize + 1 ELSE wavsize
    /\ UNCHANGED <<rec_sta, fifo, ptr, rval, sai, count, history>>

(* The block is counted whether it was written or not.                     *)
Write ==
    /\ pc = "write" /\ pc' = "buttons"
    /\ \/ file.good /\ file' = [file EXCEPT !.data = Append(@, slot[rd])]
       \/ file' = [file EXCEPT !.good = FALSE]
    /\ wavsize' = wavsize + 1
    /\ UNCHANGED <<rec_sta, fifo, ptr, rval, sai, count, history>>

NoPress ==
    /\ pc = "buttons" /\ pc' = "loop"
    /\ UNCHANGED <<rec_sta, fifo, ptr, rval, sai, file, wavsize, count, history>>

(* The record button pauses and resumes ...                                *)
Pause ==
    /\ pc = "buttons" /\ rec_sta # OFF
    /\ rec_sta' = IF rec_sta = PAUSED THEN ON ELSE PAUSED
    /\ pc' = "loop"
    /\ UNCHANGED <<fifo, ptr, rval, sai, file, wavsize, count, history>>

(* ... and starts: the interrupt may queue blocks before the file is open. *)
Start ==
    /\ pc = "buttons" /\ rec_sta = OFF
    /\ rec_sta' = ON /\ wavsize' = 0
    /\ pc' = "open"
    /\ begun' = blocks /\ dropped' = FALSE /\ fresh' = (idle = NUM - 1)
    /\ idle' = 0
    /\ UNCHANGED <<fifo, ptr, rval, sai, file, count>>

Open_armed ==                           \* mutant: line 620 is missing
    /\ pc = "open"
    /\ \/ \E g \in BOOLEAN : file' = [NoFile EXCEPT !.open = TRUE, !.good = g]
          /\ pc' = "loop" /\ UNCHANGED <<rec_sta, rval>>
       \/ rval' = 254 /\ pc' = "leave" /\ UNCHANGED <<file, rec_sta>>
    /\ UNCHANGED <<fifo, ptr, sai, wavsize, count, history>>

(* f_open and the header without sizes, or no recording and the way out.   *)
Open ==
    /\ pc = "open"
    /\ \/ /\ \E g \in BOOLEAN : file' = [NoFile EXCEPT !.open = TRUE, !.good = g]
          /\ pc' = "loop" /\ UNCHANGED <<rec_sta, rval>>
       \/ /\ rec_sta' = OFF /\ rval' = 254 /\ pc' = "leave"
          /\ UNCHANGED file
    /\ UNCHANGED <<fifo, ptr, sai, wavsize, count, history>>

(* The sizes into the header, and f_close.                                 *)
Closed(f) ==
    { [f EXCEPT !.open = FALSE, !.size = wavsize],
      [f EXCEPT !.open = FALSE, !.good = FALSE] }

Stop ==
    /\ pc = "buttons" /\ pc' = "stopped"
    /\ IF rec_sta # OFF THEN file' \in Closed(file) /\ wavsize' = 0
                        ELSE UNCHANGED <<file, wavsize>>
    /\ UNCHANGED <<rec_sta, fifo, ptr, rval, sai, count, history>>

Stopped ==
    /\ pc = "stopped" /\ pc' = "loop"
    /\ rec_sta' = OFF
    /\ UNCHANGED <<fifo, ptr, rval, sai, file, wavsize, count, history>>

(* The return button, or the touch pad.                                    *)
Return ==
    /\ pc = "buttons" /\ pc' = "leave"
    /\ UNCHANGED <<rec_sta, fifo, ptr, rval, sai, file, wavsize, count, history>>

Leave ==
    /\ pc = "leave" /\ pc' = "ask"
    /\ sai' = FALSE
    /\ UNCHANGED <<rec_sta, fifo, ptr, rval, file, wavsize, count, history>>

(* "Do you want to save?"                                                  *)
Ask ==
    /\ pc = "ask"
    /\ pc' \in {"free"} \cup (IF rec_sta # OFF THEN {"save"} ELSE {})
    /\ UNCHANGED <<rec_sta, fifo, ptr, rval, sai, file, wavsize, count, history>>

Save ==
    /\ pc = "save" /\ pc' = "free"
    /\ file' \in Closed(file)
    /\ UNCHANGED <<rec_sta, fifo, ptr, rval, sai, wavsize, count, history>>

(* Neither the pointers, nor rec_sta, nor the positions are cleared.       *)
Free ==
    /\ pc = "free" /\ pc' = "out"
    /\ ptr' = [s \in Slot |-> IF ptr[s] = "null" THEN "null" ELSE "old"]
    /\ file' = NoFile
    /\ UNCHANGED <<rec_sta, fifo, rval, sai, wavsize, count, history>>

-----------------------------------------------------------------------------

Init ==
    /\ rec_sta = OFF /\ rd = 0 /\ wr = 0 /\ slot = [s \in Slot |-> 0]
    /\ ptr = [s \in Slot |-> "null"] /\ pc = "out" /\ rval = 0
    /\ sai = FALSE /\ file = NoFile /\ wavsize = 0
    /\ blocks = 0 /\ burst = 0 /\ sessions = 0
    /\ begun = 0 /\ fresh = FALSE /\ dropped = FALSE /\ idle = 0

Next == SaiBlock \/ Enter \/ NoRead \/ ReadAdvance \/ ReadWrap \/ Write
        \/ NoPress \/ Pause \/ Start \/ Open \/ Stop \/ Stopped \/ Return
        \/ Leave \/ Ask \/ Save \/ Free

Spec == Init /\ [][Next]_vars

-----------------------------------------------------------------------------
(* Properties.                                                             *)

Position == rd % NUM
Queue    == [i \in 1 .. (wr + NUM - Position) % NUM |-> slot[(Position + i) % NUM]]
InHand   == IF pc \in {"wrap", "write"} THEN <<slot[Position]>> ELSE << >>

(***************************************************************************)
(* Nothing is lost or doubled between the interrupt and the file: when no  *)
(* block had to be dropped and every write was whole, the blocks captured  *)
(* since the start are those in the file, then the one being written, then *)
(* the queue, although the interrupt starts before the file is open, the   *)
(* queue is emptied across pauses, and the read position is out of range   *)
(* for a moment.  (fresh: see FileIsOwn.)                                  *)
(***************************************************************************)
NothingLost ==
    file.open /\ file.good /\ fresh /\ ~dropped =>
        file.data \o InHand \o Queue = [i \in 1 .. blocks - begun |-> begun + i]

(***************************************************************************)
(* A recording holds blocks of its own only, in the order of capture, even *)
(* when some were dropped: what the one before left in the FIFO has been   *)
(* read and thrown away (line 528 reads first, then looks at rec_sta) once *)
(* the loop has made SAI_RX_FIFO_SIZE - 1 turns in between.                *)
(***************************************************************************)
FileIsOwn ==
    file.open /\ fresh =>
        \A i \in 1 .. Len(file.data) :
            file.data[i] > IF i = 1 THEN begun ELSE file.data[i - 1]

(***************************************************************************)
(* The size in the header of a closed file is what was written to it,      *)
(* unless a write fell short (lines 530-535 count the block all the same). *)
(***************************************************************************)
HeaderTrue == ~file.open /\ file.good => file.size = Len(file.data)

(***************************************************************************)
(* A file is saved that is open: rec_sta (bit 7 "recording is on", lines   *)
(* 35 and 660) tells the truth at the end, however recorder_play got there *)
(* - except when it ran out of memory at once: then rec_sta is what an     *)
(* earlier session left, and there is no file.                             *)
(***************************************************************************)
SavesOpenFile == pc = "save" /\ rval # 1 => file.open

(***************************************************************************)
(* The interrupt and the loop use this session's buffers only, and these   *)
(* are what is freed - again except when memory ran out, where line 675    *)
(* frees the pointers an earlier session left behind the first failure.    *)
(***************************************************************************)
BuffersOwned ==
    sai \/ (pc = "free" /\ rval # 1) => \A s \in Slot : ptr[s] = "ours"
=============================================================================
