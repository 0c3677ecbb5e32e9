------------------------------- MODULE Audio -------------------------------
(***************************************************************************)
(* The music player: the player task (APP/audio/audioplay.c, priority 2)   *)
(* plays the WAV files of a folder (AUDIOCODEC/wav/wavplay.c), the main    *)
(* task (priority 11) shows the player and the other applications, and the *)
(* DMA interrupt sends two buffers in turn.  The tasks share the bits of   *)
(* audiodev.status, the folder's path and index table, the mailbox         *)
(* audiombox, and the interrupt two flags; there is no lock.               *)
(*                                                                         *)
(* Scheduling.  The main task runs only while the player is blocked: in    *)
(* OSMboxPend, or in delay_ms in a loop that polls.  So the player's own   *)
(* updates of status are whole, but the main task's are a load and a store *)
(* with the player's steps possibly between them.                          *)
(*                                                                         *)
(* FatFs, the memory manager, the DMA and the user are external.  The time *)
(* one buffer plays is longer than the player needs to notice and refill   *)
(* the other (23 ms and a tick of 1 ms).  The DMA interrupts only if a     *)
(* song has set it up so: a file of a depth but 16 and 24 bits leaves it   *)
(* as it was, and a rate that the SAI does not know leaves it off.  The    *)
(* other decoders, the display, lyrics, volume and seeking are left out.   *)
(***************************************************************************)
EXTENDS Naturals

CONSTANTS Songs,        \* files of the folder: 1 .. Songs
          Length        \* bound: buffers a song fills

ASSUME AudioAssumption == Songs \in Nat \ {0} /\ Length \in Nat /\ Length >= 2

VARIABLES
    status,             \* audiodev.status: the bits run 7, req 6, new 5,
                        \* play 4, open 1, on 0
    mbox, index,        \* audiombox (0 for empty) and audiodev.curindex
    apc, read, short,   \* the player: where, buffers read, fillnum # size
    flag, witch,        \* wavtransferend, wavwitchbuf
    dma, ct, buf, due,  \* external: DMA runs and interrupts, buffer sent,
                        \* contents, deadline
    mpc, from, op, reg, \* the main task: where, caller, update under way
    ptr, stack,         \* path and mfindextbl; AUDIO_PLAY_TASK_STK
    good, mode,         \* external: which files play; systemset.audiomode
    last, odd,          \* history: buffer heard last; this song began with
                        \* the flag set, or with no DMA set up for it;
    oom, twice          \* file list out of memory; double free before that

player == <<apc, read, short>>
sound  == <<flag, witch, dma, ct, buf, due>>
main   == <<mpc, from, op, reg>>
memory == <<ptr, stack, oom, twice>>
world  == <<good, mode>>
vars   == <<status, mbox, index, player, sound, main, memory, world, last, odd>>

Song == 1 .. Songs

-----------------------------------------------------------------------------
(* wav_sai_dma_tx_callback: the buffer that has been sent is free; in a    *)
(* pause it is silenced.  0 stands for silence.                            *)

Silence_never(b, paused) == b           \* mutant: lines 134-140 missing
Silence(b, paused) == IF paused THEN 0 ELSE b

Irq ==
    /\ dma /\ ~due /\ apc \in {"wait", "paused"} /\ ~(apc = "wait" /\ flag)
    /\ witch' = ct /\ flag' = TRUE
    /\ buf' = [buf EXCEPT ![ct] = Silence(@, "on" \notin status)]
    /\ ct' = 1 - ct
    /\ last' = IF buf[1 - ct] = 0 THEN last ELSE buf[1 - ct]
    /\ due' = ("on" \in status)
    /\ UNCHANGED <<status, mbox, index, player, dma, main, memory, world, odd>>

-----------------------------------------------------------------------------
(* audio_play_task and wav_play_song.                                      *)

(* OSMboxPend returns the index; the folder opens or not.                  *)
Fetch ==
    /\ apc = "mbox" /\ mbox # 0
    /\ mbox' = 0 /\ index' = mbox
    /\ apc' \in {"song", "over"}
    /\ UNCHANGED <<status, read, short, sound, main, memory, world, last, odd>>

(* The directory entry and the file's name, or no more music.              *)
NextSong ==
    /\ apc = "song"
    /\ \/ apc' = "start" /\ status' = status \cup {"new", "play"}
       \/ apc' = "over" /\ UNCHANGED status
    /\ UNCHANGED <<mbox, index, read, short, sound, main, memory, world, last, odd>>

(* The file's parameters (of one that is no WAV: those of the file before  *)
(* it, wav_decode_init never fails), both buffers filled, audio_start.     *)
(* The DMA is set up for 16 and for 24 bits, and runs unless the SAI does  *)
(* not know the rate; at another depth it is as some song or the recorder  *)
(* has left it.                                                            *)
WavStart ==
    /\ apc = "start" /\ good[index]
    /\ dma' \in BOOLEAN /\ odd' \in {flag, TRUE} /\ ct' = 0
    /\ status' = status \cup {"open", "on"}
    /\ apc' = "wait" /\ read' = 2 /\ short' = FALSE
    /\ buf' = [b \in {0, 1} |-> b + 1] /\ due' = FALSE
    /\ last' = 1
    /\ UNCHANGED <<mbox, index, flag, witch, main, memory, world>>

(* No memory, no decoder for the file, or it does not open: at once.       *)
WavRefused ==
    /\ apc = "start" /\ ~good[index]
    /\ apc' = "ended"
    /\ status' \in {status, status \ {"open", "on"}}
    /\ UNCHANGED <<mbox, index, read, short, sound, main, memory, world, last, odd>>

(* A buffer has been sent: read the next part of the file into it.         *)
Fill ==
    /\ apc = "wait" /\ flag
    /\ flag' = FALSE /\ due' = FALSE
    /\ short' = (read >= Length) /\ read' = IF short' THEN read ELSE read + 1
    /\ buf' = [buf EXCEPT ![witch] = IF short' THEN 0 ELSE read + 1]
    /\ apc' = "check"
    /\ UNCHANGED <<status, mbox, index, witch, dma, ct, main, memory, world, last, odd>>

Go(status_) == "open" \in status_ /\ "on" \in status_

(* Lines 235-249: pause, go on, or stop.                                   *)
Check ==
    /\ apc = "check" \/ (apc = "paused" /\ (Go(status) \/ "open" \notin status))
    /\ apc' = IF "open" \in status /\ "on" \notin status THEN "paused"
              ELSE IF "open" \notin status \/ short THEN "stop" ELSE "wait"
    /\ UNCHANGED <<status, mbox, index, read, short, sound, main, memory, world, last,
                   odd>>

(* audio_stop; the buffers are freed and the locals gone.                  *)
WavStop ==
    /\ apc = "stop" /\ apc' = "ended"
    /\ status' = status \ {"open", "on"}
    /\ dma' = FALSE /\ ct' = 0 /\ buf' = [b \in {0, 1} |-> 0] /\ due' = FALSE
    /\ read' = 0 /\ short' = FALSE /\ last' = 0 /\ odd' = FALSE
    /\ UNCHANGED <<mbox, index, flag, witch, main, memory, world>>

After_stuck(i) ==                       \* mutant: stays at the last
    IF mode = "one" THEN i ELSE IF i < Songs THEN i + 1 ELSE i

After(i) == IF mode = "one" THEN i ELSE IF i < Songs THEN i + 1 ELSE 1

Ended_on ==                             \* mutant: line 146 is missing
    /\ apc = "ended"
    /\ apc' = "song" /\ index' = After(index)
    /\ UNCHANGED <<status, mbox, read, short, sound, main, memory, world, last, odd>>

(* The next file unless asked to end.                                      *)
Ended ==
    /\ apc = "ended"
    /\ IF "req" \in status THEN apc' = "over" /\ UNCHANGED index
                           ELSE apc' = "song" /\ index' = After(index)
    /\ UNCHANGED <<status, mbox, read, short, sound, main, memory, world, last, odd>>

Over ==
    /\ apc = "over"
    /\ status' = status \ {"req", "play"}
    /\ apc' = IF "run" \in status THEN "mbox" ELSE "return"
    /\ UNCHANGED <<mbox, index, read, short, sound, main, memory, world, last, odd>>

-----------------------------------------------------------------------------
(* The main task.                                                          *)

Blocked == apc \in {"none", "wait", "paused"} \/ (apc = "mbox" /\ mbox = 0)
At(p)   == mpc = p /\ Blocked

AfterAsk_once == "stopped"              \* mutant: if for while, line 170
AfterAsk == "test"

(* Its updates of status: the bits cleared and set, and where it goes on.  *)
Update == [halt   |-> [clear |-> {"open"}, set |-> {},      next |-> "load"],
           ask    |-> [clear |-> {},       set |-> {"req"}, next |-> AfterAsk],
           done   |-> [clear |-> {"req"},  set |-> {},      next |-> "stopped"],
           pause  |-> [clear |-> {"on"},   set |-> {},      next |-> "ui"],
           resume |-> [clear |-> {},       set |-> {"on"},  next |-> "ui"],
           mark   |-> [clear |-> {},       set |-> {"new"}, next |-> "ui"],
           shown  |-> [clear |-> {"new"},  set |-> {},      next |-> "ui"]]

Load ==
    /\ At("load")
    /\ reg' = status /\ mpc' = "store"
    /\ UNCHANGED <<status, mbox, index, player, sound, from, op, memory, world,
                   last, odd>>

Store ==
    /\ At("store")
    /\ status' = (reg \ Update[op].clear) \cup Update[op].set
    /\ reg' = {}
    /\ IF op = "halt" THEN op' = "ask" /\ mpc' = "load"
                      ELSE op' = "mark" /\ mpc' = Update[op].next
    /\ UNCHANGED <<mbox, index, player, sound, from, memory, world, last, odd>>

(* audio_stop_req: while music plays, ask it to end and wait 10 ms.        *)
Test ==
    /\ At("test")
    /\ mpc' = "load" /\ op' = IF "play" \in status THEN "halt" ELSE "done"
    /\ UNCHANGED <<status, mbox, index, player, sound, from, reg, memory, world,
                   last, odd>>

StopReq(caller) == mpc' = "test" /\ from' = caller /\ op' = "mark"

Released(ps) ==
    /\ ptr' = [p \in DOMAIN ptr |->
                 IF p \in ps /\ ptr[p] # "null" THEN "freed" ELSE ptr[p]]
    /\ twice' = (twice \/ (~oom /\ \E p \in ps : ptr[p] = "freed"))

(* audio_play for the first time: audiodev is cleared and the task made.   *)
Create_keep ==                          \* mutant: line 695 is missing
    /\ At("menu") /\ "run" \notin status
    /\ status' = {"run"} /\ stack' = TRUE
    /\ apc' = "mbox" /\ mpc' = "list" /\ from' = "menu"
    /\ UNCHANGED <<mbox, index, read, short, sound, op, reg, ptr, oom, twice,
                   world, last, odd>>

Create ==
    /\ At("menu") /\ "run" \notin status
    /\ ptr' = [p \in DOMAIN ptr |-> "null"]
    /\ status' = {"run"} /\ stack' = TRUE
    /\ apc' = "mbox" /\ mpc' = "list" /\ from' = "menu"
    /\ UNCHANGED <<mbox, index, read, short, sound, op, reg, oom, twice, world,
                   last, odd>>

(* ... and again, while the music plays on; or an application that wants   *)
(* the codec for itself, such as recorder_play.                            *)
Menu ==
    /\ At("menu") /\ "run" \in status
    /\ \/ mpc' = "load" /\ op' = "mark" /\ UNCHANGED from
       \/ StopReq("other")
    /\ UNCHANGED <<status, mbox, index, player, sound, reg, memory, world, last, odd>>

(* audio_info_upd: the name of a new song that is open is shown.           *)
Show ==
    /\ At("ui") /\ {"new", "open"} \subseteq status
    /\ mpc' = "load" /\ op' = "shown"
    /\ UNCHANGED <<status, mbox, index, player, sound, from, reg, memory, world,
                   last, odd>>

(* The buttons: file list, previous and next, pause, return.               *)
Button ==
    /\ At("ui")
    /\ \/ mpc' = "list" /\ from' = "ui" /\ UNCHANGED op
       \/ StopReq("next")
       \/ /\ mpc' = "load" /\ op' = IF "on" \in status THEN "pause" ELSE "resume"
          /\ UNCHANGED from
       \/ "on" \notin status /\ StopReq("quit")
       \/ "on" \in status /\ mpc' = "menu" /\ UNCHANGED <<from, op>>
    /\ UNCHANGED <<status, mbox, index, player, sound, reg, memory, world, last, odd>>

(* audio_filelist: left, short of memory, or a file chosen.                *)
Listed == IF from = "menu" THEN "listed" ELSE "ui"

ListLeft ==
    /\ At("list") /\ mpc' = Listed
    /\ from' = "menu"
    /\ UNCHANGED <<status, mbox, index, player, sound, op, reg, memory,
                   world, last, odd>>

ListFails ==
    /\ At("list")
    /\ Released({"path", "table"}) /\ oom' = TRUE
    /\ mpc' = IF from = "menu" THEN "delete" ELSE "ui"
    /\ from' = "menu"
    /\ UNCHANGED <<status, mbox, index, player, sound, op, reg, stack,
                   world, last, odd>>

Chosen ==
    /\ At("list")
    /\ mpc' = "test" /\ op' = "mark" /\ from' = IF from = "menu" THEN "first" ELSE "list"
    /\ UNCHANGED <<status, mbox, index, player, sound, reg, memory, world, last, odd>>

(* What audio_stop_req was called for.                                     *)
Stopped ==
    /\ At("stopped")
    /\ mpc' = CASE from \in {"first", "list"} -> "choose" [] from = "next" -> "post"
                [] OTHER -> "delete"
    /\ UNCHANGED <<status, mbox, index, player, sound, from, op, reg, memory,
                   world, last, odd>>

(* The folder's path and table are replaced, or (no memory) left in part   *)
(* and freed once more.                                                    *)
Choose ==
    /\ At("choose")
    /\ \/ /\ Released({"path", "table"}) /\ mpc' = "held" /\ UNCHANGED <<from, oom>>
       \/ /\ \/ ptr' = [path |-> "null",
                        table |-> IF ptr["table"] = "null" THEN "null" ELSE "freed"]
             \/ ptr' = [path |-> "freed", table |-> "null"]
          /\ oom' = TRUE /\ UNCHANGED twice
          /\ mpc' = IF from = "first" THEN "delete" ELSE "ui"
          /\ from' = "menu"
    /\ UNCHANGED <<status, mbox, index, player, sound, op, reg, stack,
                   world, last, odd>>

Held ==
    /\ At("held") /\ mpc' = "post"
    /\ ptr' = [p \in DOMAIN ptr |-> "held"]
    /\ UNCHANGED <<status, mbox, index, player, sound, from, op, reg, stack, oom,
                   twice, world, last, odd>>

(* OSMboxPost: a full mailbox refuses, and nobody looks.                   *)
Post ==
    /\ At("post")
    /\ \E i \in Song : mbox' = IF mbox = 0 THEN i ELSE mbox
    /\ mpc' = IF from = "first" THEN "listed" ELSE "ui"
    /\ from' = "menu"
    /\ UNCHANGED <<status, index, player, sound, op, reg, memory, world,
                   last, odd>>

(* Nothing chosen (or no file to be had): the player is not kept.          *)
AfterList ==
    /\ At("listed")
    /\ mpc' = IF status = {"run"} THEN "delete" ELSE "ui"
    /\ UNCHANGED <<status, mbox, index, player, sound, from, op, reg, memory,
                   world, last, odd>>

(* audio_task_delete.                                                      *)
Delete ==
    /\ At("delete") /\ mpc' = "menu"
    /\ IF status = {} THEN UNCHANGED <<status, apc, ptr, twice, stack>>
       ELSE /\ status' = {} /\ apc' = "none" /\ stack' = FALSE
            /\ Released({"path", "table"})
    /\ from' = "menu"
    /\ UNCHANGED <<mbox, index, read, short, sound, op, reg, oom, world,
                   last, odd>>

-----------------------------------------------------------------------------

Init ==
    /\ status = {} /\ mbox = 0 /\ index = 1
    /\ apc = "none" /\ read = 0 /\ short = FALSE
    /\ flag = FALSE /\ witch = 0 /\ dma = FALSE /\ ct = 0
    /\ buf = [b \in {0, 1} |-> 0] /\ due = FALSE
    /\ mpc = "menu" /\ from = "menu" /\ op = "mark" /\ reg = {}
    /\ ptr = [p \in {"path", "table"} |-> "null"] /\ stack = FALSE
    /\ good \in [Song -> BOOLEAN] /\ mode \in {"all", "one"}
    /\ last = 0 /\ odd = FALSE /\ oom = FALSE /\ twice = FALSE

Player  == Fetch \/ NextSong \/ WavStart \/ WavRefused \/ Fill \/ Check
           \/ WavStop \/ Ended \/ Over
Request == Load \/ Store \/ Test
Main    == Request \/ Create \/ Menu \/ Show \/ Button \/ ListLeft \/ ListFails \/ Chosen
           \/ Stopped \/ Choose \/ Held \/ Post \/ AfterList \/ Delete

Next == Irq \/ Player \/ Main

Spec == Init /\ [][Next]_vars

(***************************************************************************)
(* The DMA goes on if it runs; the player, of the highest priority, is     *)
(* scheduled; the main task gets on, again and again interrupted, while    *)
(* the player sleeps.                                                      *)
(***************************************************************************)
FairSpec == Spec /\ WF_vars(Irq) /\ WF_vars(Player) /\ SF_vars(Request)

-----------------------------------------------------------------------------
(* Properties.                                                             *)

(***************************************************************************)
(* When audio_stop_req has returned, and when the task is to be deleted,   *)
(* the player waits for a message: no file is open, the DMA is off, the    *)
(* mailbox can take the next index, and nothing runs on the freed stack.   *)
(***************************************************************************)
StoppedIsIdle ==
    /\ mpc \in {"stopped", "choose", "held", "post", "delete"}
         => apc = "mbox" /\ mbox = 0 /\ ~dma
    /\ apc # "none" => stack
    /\ apc # "return"

(***************************************************************************)
(* The folder's path and table are allocated while the player uses them,   *)
(* and freed once - until the file list has run out of memory: its clean-  *)
(* up frees them while the player may read them, and leaves the pointers   *)
(* for the next one to free again (lines 287 and 664).                     *)
(***************************************************************************)
FolderOwned ==
    /\ ~twice
    /\ apc \notin {"none", "mbox"} /\ ~oom => \A p \in DOMAIN ptr : ptr[p] = "held"

(***************************************************************************)
(* The buffers of a song are heard in order, none twice and none skipped,  *)
(* with silence where it is paused.  Not of a song that follows one that   *)
(* was stopped in a pause: wavtransferend is still set, and its first or   *)
(* second buffer is refilled before it has been heard.  Nor of a song for  *)
(* which the DMA is not set up (it sends another's buffers).  The last     *)
(* buffers are never heard: line 246 stops after the fill that is short.   *)
(***************************************************************************)
HeardInOrder ==
    [][dma /\ dma' /\ ct' # ct /\ ~odd => buf[ct'] \in {0, last + 1}]_vars

(***************************************************************************)
(* audio_stop_req ("wait until it has ended", line 170) returns, but for   *)
(* two cases, in which the main task waits for ever.  The player's         *)
(* clearing of bit 4 fell between the load and the store of an update by   *)
(* the main task.  Or no DMA interrupt comes for a song, because no one    *)
(* has set the DMA up for it: the loop of line 228 in wavplay.c waits for  *)
(* the interrupt and does not look at the bit that asks it to end.         *)
(***************************************************************************)
LostUpdate == apc = "mbox" /\ mbox = 0 /\ "play" \in status

Mute == apc = "wait" /\ ~dma /\ ~flag

StopReturns == mpc = "test" ~> mpc = "stopped"

StopReturnsOtherwise == []~(LostUpdate \/ Mute) => StopReturns

(***************************************************************************)
(* The player, which has the highest priority but one, gives way to the    *)
(* other tasks again and again - unless every file it will come to is      *)
(* refused (none opens, none is of a type with a decoder, or there is no   *)
(* memory): wav_play_song returns at once and the loop of lines 114-157    *)
(* goes on without a delay.                                                *)
(***************************************************************************)
Hopeless == /\ apc = "start"
            /\ IF mode = "one" THEN ~good[index] ELSE \A s \in Song : ~good[s]

PlayerYieldsOtherwise == []~Hopeless => []<>Blocked
=============================================================================
