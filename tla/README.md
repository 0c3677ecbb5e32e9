# A formal model of the STM32F429 multimedia firmware

The repository is the firmware of an STM32F429 board (ALIENTEK Apollo) under
uC/OS-II: a touch-screen shell that starts applications (audio, video, web
camera, GSM, e-book, ...) over drivers for NAND and NOR flash, camera, audio
codec, Ethernet and USB, with FatFs and lwIP. Most of it is vendored code or
screen handling. The logic that is hard to test is in storage (nothing may be lost), in
the tasks and interrupts that share buffers without locks, in the network side,
where an interrupt, the TCP/IP thread and its callers meet in one mailbox, and
in the start and stop sequences.

This directory holds TLA+ modules for that logic, TLC configurations that check
them on small instances, and TLAPS proofs. `PROJECT.json` lists components,
runs, mutants (a plausible bug per property, which TLC must catch), the source
lines behind every definition, findings, hazards and theorems.

## 1. Inventory

| Component | State it keeps | Operations | Interacts with | Hard part |
|---|---|---|---|---|
| NAND driver `HARDWARE/NAND/nand.c` | the chip: pages, spare bytes, ECC codes | page/spare read and program, copy-back, erase, ECC correction | called by the FTL | codes of blank and re-programmed sectors, time-outs |
| FTL `HARDWARE/NAND/ftl.c` | tags in the spare area; `nand_dev.lut`, `valid_blocknum`, `curblock` in RAM | init, format, write, read with repair | FatFs (`diskio.c`), USB storage | power failure, failing blocks, retries, table against tags |
| SPI flash `HARDWARE/W25QXX/w25qxx.c` | 32 MB of NOR flash | read, write (read-erase-program), erase | FatFs disk `1:`, fonts | writes that straddle sectors, power failure |
| Fonts `TEXT/fontupd.c` | header and fonts behind 25 MB of the SPI flash; `ftinfo` | `font_init`, `update_font` | FatFs, SPI flash | the header must be the last thing written |
| Web camera `APP/webcamera/webcamera.c` | JPEG FIFO, `webcam_sendtask_status`, `webcamnet` | interrupt, send task, `webcam_run` | DCMI DMA, lwIP netconn | three contexts and no lock |
| Recorder `APP/recoder/recorder.c` | FIFO, `rec_sta`, `wavsize`, the open file | interrupt, loop: start, pause, stop, save | SAI DMA, FatFs | the FIFO outlives a recording, the globals a session |
| Audio player `APP/audio/audioplay.c`, `AUDIOCODEC/wav/wavplay.c` | `audiodev.status`, folder, mailbox, two buffers | player task, main task, interrupt | FatFs, SAI DMA, recorder | stop by polling a byte three contexts write |
| Memory manager `MALLOC/malloc.c` | block map per memory | malloc, free, realloc | everyone | called from several tasks without a lock |
| Ethernet reception `HARDWARE/ETHERNET/lan8720.c`, `netif/ethernetif.c` | descriptor ring, pool of messages | interrupt | DMA, TCP/IP thread | frames that come while the interrupt ends |
| lwIP port, TCP/IP thread `LWIP/arch/sys_arch.c`, `tcpip.c`, `timers.c` | mailbox, semaphores, time-out list | post, try-post, fetch with time-out, timers | Ethernet interrupt, applications, uC/OS-II | busy wait, time-out arithmetic |
| uC/OS-II `os_core.c`, `os_q.c`, `os_sem.c` | TCBs, wait lists, queues | pend, post, tick | everyone | a time-out that meets a post |
| lwIP start-up `lwip_comm.c` | network state | init, DHCP polling | Ethernet, lwIP | error paths |
| USB application `USB/USB_APP` | mode, device state | mode start/stop, storage read/write | FTL and W25QXX from the USB interrupt | the same disks are mounted by FatFs |
| `os_api`, `USER/main.c` | threads and their stacks, `system_task_return` | create, exit, key task | applications | flags without locks |
| GSM, GUI, T9, other applications | screens | screen handling | - | sequential |
| HAL, lwIP protocols, FatFs core, USB library, codecs | - | vendored | - | not modelled |

What makes each component correct:

* NAND and ECC: one flipped bit is repaired, two are reported, good data is
  left alone.
* FTL: it is a block device; acknowledged data survives power failure; the table
  agrees with the tags; no two logical blocks share a block; calls return.
* SPI flash: a write changes its range and nothing else. Fonts: a header that
  says "good" is true, also after a power failure; the neighbours are left alone.
* Web camera: the FIFO is a queue, the block being sent is not overwritten,
  nothing freed is used, data only goes to a live client, the return key ends
  the application.
* Network: the mailbox is a queue that never refuses a call, packets use a
  bounded pool that leaks nothing, the ring is emptied, timers fire when due and
  keep firing, every call is answered.
* Recorder: the file holds the blocks captured, once, in order, and its header
  tells their number; only an open file is saved; only own memory is freed.
* Audio player: songs are heard in order, a stop really stops the player before
  its memory goes, and the player leaves the CPU to the others.

## 2. Modules

| Module | Models | State and actions |
|---|---|---|
| `Nand` | the medium: sectors, codes, tags (constant level) | `Program`, `LooksBlank`, `Decode`, `RunStatus`, `CopiedPage`, as used by `nand.c` |
| `FTL` | `ftl.c`, all of it that is compiled in | `cell`, `tag` are the chip; `lut`, `valid`, `cur` the RAM; `pc` and the rest the active call. One action per NAND command with the assignments around it: `WriteDirect`, `Mark`, `Find`, `CopyPage`, `Condemn`, `MarkCopy`, `EraseSource`, `FixLUT`, `ReadRun`, `CompareFF`, ..., `FormatErase`, `FormatTag`, `Boot`, and the failures that the code overlooks: half of a bad mark (`BadBlockMark`), the number of a format (`FormatUnnumbered`); `Crash`, `Flip` are the environment |
| `BlockDevice` | the drive FatFs and USB storage expect | abstract: `Call`, `Scribble`, `Succeed`, `Fail` |
| `FTLProps` | properties and the refinement mapping `Device` | `Disk` is what a correct reader would get; `Reliable`, `MarksReliable` |
| `FTLCrash` | history of acknowledged writes, and when durability is promised | `acked`; `Steady` |
| `MCFTL`, `MCFTLCrash`, `MCFTLFaults` | small instances; the last evaluates `Reliable` and `MarksReliable` | |
| `Ecc` | the Hamming code bit by bit, as `nand.c:616-661` and `:339-394` use it | a sector with its code, beside the cell `Nand` has for it |
| `FrameQueue` | a bounded queue that drops when full | abstract; `GiveUp`: a message has been handled (not for the FIFO, whose block stays in its slot: `Kept`) |
| `WebCam` | `webcamera.c`, one session | `rd`, `wr`, `slot` the FIFO; `spc` the send task; `mpc` the main task; `conn`, `writing` external lwIP |
| `UcosKernel` | wait lists, pends, the tick of uC/OS-II | `tcb`, `wait`; one operator per critical section |
| `UcosQueue` | the ring of message pointers in `os_q.c` | constant level: `Put`, `First`, `Rest` |
| `LwipTimers` | the list of `timers.c` with relative times | constant level: `sys_timeout`, `Elapse` |
| `EthRing` | the receive descriptors, DMA against interrupt | `own`, `cur`, `get`, `isr` |
| `Network`, `MCNetwork` | the four above composed with `sys_arch.c`, `tcpip.c` and callers | `Arrive`, `Packet` the interrupt; `Fetch`, `Pend`, `Pended`, `Got`, `Handle`, `Complete`, `Fire` the thread; `open` the calls that TCP has not finished; `Call`, `Post`, `SemPend`, `Answered` a caller; `Tick` |
| `NetTimers` | `Network` with the age of every timer | `age`, a history variable |
| `Recorder` | `recorder_play` over several sessions, with the SAI interrupt | `rd`, `wr`, `slot` the FIFO; `pc` the loop: one action per step of a turn and per button |
| `Audio` | `audio_play_task` with `wav_play_song`, `audio_play` with `audio_filelist`, the DMA interrupt | `apc` the player; `mpc` the main task, whose updates of `status` are `Load` and `Store`; `buf`, `ct` the DMA, `dma` whether it runs and interrupts; `WavStart` a song that plays or is mute, `WavRefused` one that is refused |
| `SpiFlash` | `W25QXX_Write` and erase | one action per erase or programmed unit |
| `Fonts`, `MCFonts` | `fontupd.c` over `SpiFlash`, with disk writes beside it | one action per call or loop iteration |
| `FTL_proofs`, `FTLCrash_proofs`, `Ecc_proofs`, `WebCam_proofs`, `Network_proofs`, `Recorder_proofs`, `Audio_proofs`, `Fonts_proofs` | theorems about the module of that name | the inductive invariants and the lemmas on its operators |

`FTL` EXTENDS `Nand`; `Fonts` EXTENDS `SpiFlash`; `Network` EXTENDS `LwipTimers`
and instantiates `UcosKernel`, `UcosQueue` and `EthRing`. `FTLProps` (of
`BlockDevice`), `WebCam` and `Network` (both of `FrameQueue`) instantiate their
abstract specifications with a refinement mapping; `Ecc` instantiates `Nand` and shows that `Decode` is what the code computes.

### Abstractions

* A sector's contents are one value. What the FTL can tell apart is whether they
  are all 0xFF, whether the stored code matches, whether the number of one bits
  is odd and whether a bit has flipped, and only that is kept. Two different
  values programmed over each other give `Junk`, and the code of every value but
  0xFF is taken to be non-zero.
* A NAND command that fails has done its work or nothing, or for the block test
  some of it. A failed copy-back never reports success. Tag reads do not time
  out, and the loop of `FTL_BlockCompare` is one step.
* `FTL_BadBlockMark` writes two marks, to page 0 and to page 1. `FTL_CreateLUT`
  and `FTL_CheckBadBlock` read both, `FTL_FindUnusedBlock` only page 0. The tag of
  a block keeps them apart as far as that matters: `bad` is either mark, and
  page 0's shows in `used` and the number as well. So both marks, none, or only
  the second one can be there. `PageCopied` takes the source's page 1 mark
  along with the tag of page 0, not with page 1: of a source that has a number
  there is none.
* `FTL_Init` gets the memory for its table (`ftl.c:46` returns 1 otherwise, before
  it has touched anything), and the chip is identified: the fallback
  chip of `nand.c:66` is erased without the block's number being shifted
  (`nand.c:590`), which the model leaves out. `W25QXX_Write` gets its sector buffer
  (`w25qxx.c:240` does not look whether it did).
* A bit flips between two calls, in a sector whose code matches.
* One call of the FTL at a time. That is how FatFs uses it; mass storage from the
  USB interrupt beside FatFs would break it and is listed as a hazard.
* Power fails between two NAND commands, or between two SPI flash erases and
  programs, not inside one.
* The web camera: one session, one `webcam_run`; the tasks have fixed
  priorities, so the main task runs only while the send task is blocked, and the
  interrupt comes anywhere; at most one block arrives within `webcam_fifo_read`.
  A netconn has one semaphore, so a close during another task's write wakes the
  writer, and itself waits for the write to end.
* Network: a step of a task is a critical section or the code up to the next
  one, taken by the ready task of highest priority while the Ethernet interrupt
  does not run; the tick interrupt does not nest into it. At most one frame
  comes while the handler runs (a frame takes at least 6.7 us). A packet may find
  no pbuf. What a message does to the TCP connections is left open. So is
  when a call is answered: in the step that handles it, or later. In `api_msg.c`
  `do_connect`, `do_writemore` and `do_close_internal` return without a signal
  when they have to wait for the peer, for room or for memory; `do_connected`,
  `sent_tcp`, `poll_tcp` and `err_tcp` signal then, while the thread handles a
  packet or fires TCP's timer. `Handle` puts such a call into `open` and `Complete`
  answers it. A connection with an open call is in TCP's lists, so that TCP's
  timer has something to do (`open # {} => pcbs`). That a peer answers, or that TCP
  gives up, is a matter of the protocols and assumed nowhere. Of the clock
  only the time waited for the current message is kept, up to the longest period,
  and for the fairness of ticks its last bit. `sys_timeout` finds an element: `MEMP_SYS_TIMEOUT` has one
  for every timer.
* Recorder: sizes count blocks; a write is whole, short or fails; at most one
  block arrives between the two steps of the FIFO read.
* Audio: the main task runs only while the player is blocked, so only the main
  task's updates of `status` can be torn; the player notices a buffer and
  refills it before the other has been played; file names, decoders other than
  WAV, volume, seeking and lyrics are left out; random order is not modelled.
  What a song does is a choice when it starts. It is refused if there is no memory,
  no decoder for its type, or it does not open. Otherwise it plays, with the
  DMA set up for it (16 or 24 bits) or left as some song or the recorder had it
  (another depth; a file that is no WAV keeps the parameters of the one before,
  because `wav_decode_init` returns 0 whatever it finds), and the DMA may not run:
  the rate is not in `SAI_PSC_TBL` (`sai.c:253`, result ignored), the recorder
  has taken the interrupt away (`recorder.c:166`), or nobody has set it up. In
  the last case `SAI_Play_Start` uses a handle without an instance; the model takes
  this to have no effect. A double free is recorded until the file list has
  run out of memory (`twice`).
* Fonts: the header is one unit; a blank header reads as all ones, and addresses
  wrap at the end of the chip; one buffer is missing at most; fonts are read
  again as whole files.

## 3. Runs

| Run | Expect | Shows | Bounds and why they are enough |
|---|---|---|---|
| `FTLFaults` | pass | `IsBlockDevice`, `CapacityKept`, `UsedIsMarked`, `RepairsAreReal` under one failing program, mark, copy-back or test and one flipped bit | 4 blocks of 2 pages of 2 sectors, two logical blocks on different planes: partial pages, merges with a column offset; requests of 1-2 sectors that straddle a page and the two blocks; two contents of which one is 0xFF. Each plane has one spare, so a second copy runs out; 67 % of the good blocks are numbered: two of four, and still two when one block is bad. `MCFTLFaults` has TLC evaluate `Reliable` and `MarksReliable` on this instance |
| `FTLCrash` | pass | `Durable`, `LutTagged` across a power failure | one power failure at any step, and one failing command (program, mark, copy, erase, format erase, time-out) at any other, in any sequence of writes and reads; 5 blocks, so that a condemned one leaves a spare; no flipped bit and no failing page behind the caller's first (findings 13 and 1) |
| `FTLProgress` | pass | `TypeOK`, `CallsReturn` | every command may fail, twice in all, so that a bad mark can fail, or half of it, after what it is for; the chip may come with a bad block; contents of odd parity start repairs; power fails once; spare blocks do run out |
| `FTLRetry` | violation | a retried copy loses data | the failure after data was consumed, 5 blocks |
| `WebCam` | pass | five properties of all interleavings | FIFO of 3, 6 blocks (so that it fills, wraps and drops), three clients, two fatal writes, creation may fail |
| `Ecc` | pass | correction, detection, `DecodeAgrees` | 8-bit sectors (K = 3): all 256 contents, two programs in a row, all pairs of flips |
| `Fonts` | pass | exact writes, header, neighbours | two files, one a multiple of the chunk; 2 editions; one power failure, one disk write, one missing buffer; sectors of 3 units |
| `Network` | pass | mailbox, pool, ring, time-out list | mailbox of 4 for two packet messages (of 8) and two callers, so that it fills to the last slot (the code: 20 for 8 packets and at most 10 tasks); ring of 2; one cyclic timer of 2 ms and TCP's of 1 ms, so that they meet, overtake each other, and a message can come before, at and after a timer |
| `NetworkLive` | pass | `CallsAnswered`, `TimersFire` | mailbox of 3, one packet message, one descriptor, and both timers of period 1 (`MCPeriod1`): the load is not bounded, and that is what liveness needs; calls may be left to TCP and be answered in any later step of it |
| `NetTimers` | violation | a timer that fires early | as `NetworkLive`, ring of 2 |
| `Recorder` | pass | file, header, save, memory | FIFO of 3 (of 10), 7 blocks, so that it wraps twice and drops; two sessions, so that globals of the first meet the second |
| `Audio` | pass | stopping, folder, order of sound, liveness | two songs of which any may be refused, each of which may be mute or play on a DMA that was not set up for it, three buffers each (the two DMA buffers and one refill); the main task is not bounded |

Deadlock is checked everywhere but in `WebCam` and `Recorder`, whose sessions end,
and `Audio`, where a lost update of `status` stops the player for good, and a mute
song the main task.

Fairness. `FTL`: weak fairness of the steps of the active call, because the
calling task runs it to the end and no step waits for anything but the chip,
whose waits are bounded by time-outs. `WebCam`: weak fairness of both tasks
(tick and scheduler) and of the end of a write (TCP acknowledges or gives up);
not of the camera, the clients or the user, so "the return key ends the
application" starts from the moment it was pressed and the delete request sent.
`NetworkLive`: weak fairness of the Ethernet handler (an interrupt that is
pending is served and ends), strong fairness of the tick (it stays pending while
the handler runs) and of the tasks' steps together (interrupts do not take the
whole CPU; which task runs is fixed by the priorities, so a starving task is not
helped by this). No frame has to come, nobody has to call, and no call that is
left to TCP has to be completed: `CallsAnswered` says that a caller TCP
does not leave unanswered for ever gets its signal through, under any load, and
that TCP's timer, which polls the open ones, goes on firing. `Audio`: weak
fairness of the DMA interrupt, if the DMA has been set up, and of the player, which
has the higher priority;
strong fairness of the steps of `audio_stop_req` in the main task, which gets on
again and again between the player's steps. The user does nothing that has to
happen.

### Findings

Shown by a run:

1. `ftl.c:180`: after a failed copy the retry starts with the data pointer
   already advanced; the block is written without that data and the call returns
   success (`FTLRetry`).
2. `sys_arch.c:150`: a message fetched in the same tick is reported to have taken
   4294967 ms, and the next lwIP timer fires at once (`NetTimers`). Timers still
   go on firing (`TimersFire`); with a correct result that rounds down they would
   stop under load, which is the mutant of that property.

Excluded by the premise of a property, which says what does hold. Each can be
seen by checking the weaker definition named here under the same cfg:

3. `nand.c:649`: data of odd parity in a sector that was once programmed with
   0xFF is taken for a 1-bit error at every read, corrected wrongly in the
   buffer, and the block is moved (`RepairsAreReal` with `Odd = {a}`).
4. `webcamera.c:173`: a fatal send error after the delete request overwrites it
   and the user interface hangs (`ExitEnds` instead of `ExitUnlessOverwritten`).
5. `webcamera.c:417`: the client's netconn is deleted once more when the server
   is closed before the next accept (the exception in `DeletedOnceOtherwise`).
6. `fontupd.c:142`: a font whose buffer cannot be allocated is left out while
   the header says that the fonts are good (`FontsGood`).
7. `audioplay.c:172`: an update of `status` by the main task undoes the player's
   clearing of bit 4, and `audio_stop_req` never returns (`StopReturns`, or
   `StopReturnsOtherwise` with `Mute` only).
8. `audioplay.c:114`: a folder of which every file is refused makes the player, of
   high priority, loop without a delay (`[]<>Blocked`).
9. `audioplay.c:287`: a file list that runs out of memory frees the folder's path
   and table, which the player may be using, and leaves the pointers to be freed
   again (`FolderOwned` without `oom`).
10. `wavplay.c:226`: `wavtransferend` is not cleared when a song starts; after a
    stop in a pause the next song skips a buffer (`HeardInOrder` without `odd`).
11. `recorder.c:660`, `:675`: a session without memory may offer to save a file
    that does not exist and frees pointers of the session before (the exceptions
    `rval # 1` in `SavesOpenFile` and `BuffersOwned`).
12. `recorder.c:528`: blocks left in the FIFO go into the next recording when it
    starts too soon after (`FileIsOwn` without `fresh`).
13. `ftl.c:368`: the zero test of a repair programs zeros into the main area only
   (`nand.c:402`). Power that fails before the erase behind it leaves a block
   of zeros whose tag is blank. After the next start `FTL_FindUnusedBlock` takes it
   for a free block and a copy is programmed over the zeros, after which the
   source is erased: acknowledged data is lost (`Durable` with `MaxFlips = 1`).
14. `ftl.c:74`: when the first of the two bad marks fails and the second does not,
    the retry finds the same block free, writes it, erases the source, and the
    next `FTL_CreateLUT` leaves the block out as bad. TLC finds that with two faults
    (`LutTagged`, and `Durable` after 22 steps, with `MaxFaults = 2` and
    `FaultOps = {"copy", "halfmark"}` in `FTLCrash.cfg`). The proofs assume
    `WholeMarks`, that it does not happen.
15. `wavplay.c:228`: the player waits for the DMA interrupt and looks at the stop
    bit only after it. A file of a depth but 16 and 24 bits, or of a rate the SAI does
    not know, may set up no interrupt: the stop request never returns
    (`StopReturnsOtherwise` with `LostUpdate` only).

## 4. Proofs

The proofs hold for every value of the constants that satisfies the ASSUMEs
(geometry, at least two pages per block; 0xFF among the contents; for the code a
sector of at least 8 bits and a code word longer than 2K bits; a FIFO of at least
two blocks; a mailbox for as many messages as there are packets and callers).

`FTL_proofs`:

* `TypeCorrect`: `Spec => []TypeOK`. `TypeOK` alone is not inductive: that the
  run of a page fits the buffer, that a copy's destination exists and that the
  format counters stay in range depends on where the call is. `Shape` says so,
  and `TypeInv == TypeOK /\ Shape` is preserved by each action.
* `TableCorrect`: `ASSUME WholeMarks PROVE Spec => []LutTagged`, every entry of the
  table names a good block that carries its number, through copies, retries, repairs,
  formats, power failures and any number of failing commands, until a repair or a
  format has run out of blocks. `WholeMarks` (no block is left with the
  second of its two bad marks only, or there is at most one fault) is needed:
  finding 14. `WholeInvariance` draws from it what the rest uses: `Whole`, a
  block with a bad mark is not free for `FTL_FindUnusedBlock`. The
  strengthening is `CopyInv`: the destination of a copy is not in the table, it
  is free until page 0 arrives and carries the source's number from then on, and
  a block under test is not in the table. `LutInv` joins the two.
* `NothingShared`: two logical blocks never share a physical block, a
  consequence of the above, and under the same hypothesis.

`FTLCrash_proofs`:

* `Durability`: `ASSUME Steady PROVE HSpec => []Durable`, for any number of power
  failures and of failing commands but for those `Steady` excludes. Each of its
  hypotheses is about a way in which the code does lose data: `WholeMarks` the
  half-written bad mark (14), `"fmttag" \notin FaultOps` a format whose numbers are
  not all written and `ErasesMarked` one that neither erases a block nor marks it
  bad (after either the next `FTL_Init` may format the chip again), `Odd = {}` data that reads as a one-bit error
  for ever (finding 3), `MaxFlips = 0` the zero test (13), `"merge" \notin
  FaultOps` the retry with the advanced pointer (1), and `EnoughBlocks` a chip so
  bad that a format gives fewer than `MinBlocks` numbers (`FTL_Init` would format
  it again and again) or every number. `TypeInv` and `LutInv` say nothing of
  contents; `HoldInv` does. `Kept`: what is promised is held by a good block that
  carries its number and is not the destination of a copy; in the middle of a
  write the sectors the loop has passed count as promised (`Promise`), those it
  was asked to change and has not reached do not (`Closed`). `Copying` and
  `Underway`: the pages copied so far are the source's with the caller's data in
  them, and ColNum, pBuffer and NumByteToWrite agree with the page; the lemmas
  `PlanTakes` and `PlanLeaves` are that arithmetic. `FreeBlank`: a free block is
  blank, for nobody erases it before a copy. `Numbers` and `Formatting`: once
  something is promised every number below `MinBlocks` is on a good block, so that
  no later `FTL_Init` formats the chip; the format's two loops number as many blocks
  as they have counted. `FewBad`: every bad block was shipped bad or cost a fault.
  `HoldInv` was checked by TLC on the bounds of the run before it was proved.
* `BlockDeviceImplemented`: `ASSUME Reliable PROVE Spec => IsBlockDevice`: the
  initial states map to the initial state of `BlockDevice` and each action to a
  step of it or a stutter, as long as no repair or format has run out of blocks;
  bits may flip and any command but the excluded ones may fail. The hypotheses of
  `Reliable` are again ways in which the code is no block device: besides those of
  `Steady` (but flipped bits are allowed), a power failure (two blocks may carry a
  number, and `FTL_CreateLUT` takes the higher), a source that could not be erased, and
  the mark of a condemned copy that fails or is half-written, which needs a second
  fault: they leave a second block with the number, which the next rebuilt table
  may prefer, or a block that is found free and bad.
  `DevInv` is the invariant. `Sole`: the block the table names is the only good one
  with its number, but for the destination of a copy, so that every rebuilt table is
  the same (`SoleRebuilt`). `Blanked`: free blocks are blank, but for the one under
  test. `Serviceable`: a format runs only on a chip that is still blank
  (`Virgin`), by `Stocked` and the capacity. `Ok`: the sectors the loop has passed
  are on the medium for a write, in the buffer for a read, and how much further
  that is true at each place of the call (`Ready`). `Copying`, `Formatting` and
  `FewBad` are shared with `HoldInv`.
* `MarksAreKept`: `ASSUME MarksReliable PROVE Spec => []UsedIsMarked`, with flipped
  bits and, within `MarksReliable`, any failing command. The mark is a second program
  after the first, skipped for the block `markdpbn` names, and carried by every
  copy; nobody looks at the result of `FTL_UsedBlockMark` after a copy. `MarkInv` is
  the invariant. `Marked`: a numbered block that is programmed, or that `markdpbn`
  names, is marked, or the step that marks or moves it is due (`Excused`), or it
  can go nowhere (`Stuck`). The last is a state of the code, not of the proof: a
  write whose program fails when the plane has no free block returns 3 and leaves
  the block with data and no mark, which `UsedIsMarked` excepts. `SourceMarked` and
  `CopyMarked`: a block is moved with its mark unless a fault was spent, and page 0
  takes the mark along, so that a failing mark of the copy does no harm;
  `FailedMarked` says the same of a copy that is to be condemned. After a failed
  program the block has no mark to carry: then a failing mark of the copy or erase
  of the source, or a failed copy of which the condemnation fails too, leaves a
  block with data unmarked. TLC shows each with two and three faults on six
  blocks. `MarksReliable` excludes these, half-written bad marks (`WholeMarks`) and
  formats that neither erase nor mark (`ErasesMarked`). `Cleared`: a format leaves nothing
  programmed.
* `CapacityIsKept`: `ASSUME WholeMarks`, the capacity never shrinks, although a
  format may leave out numbers it could not write (`FormatUnnumbered`).
  `CapInv`: below `valid_blocknum` every number is in the table, and at a restart
  within a session on a block; a format runs only below `MinBlocks`.
* `RepairsExplained` names the cause of every repair: a flipped bit, or odd parity over
  0xFF (finding 3). `RepairsReal` is the property of the run for `Odd = {}`.

`Ecc_proofs`: a flip of the bit at place p changes the odd half of the code by p
and the even half by its complement, which is what `Check` and `ErrorPos` look
for. The lemmas on the parity of finite sets give `OneFlip` (any content, any
place, any K), `OneFlipCorrect` and `TwoFlipsCorrect`; the invariant `IInv` says
that the main area is the programmed content with the flipped bits inverted.
`CodeFlipCorrect`: a flipped code bit changes one half in one digit, so the halves
are neither equal nor complements. `DecodeFaithful` ties the two models of the
chip together: what the code computes from the bits is what `Decode`, on which the
FTL stands, says of the cell. It needs that the hardware's code of an erased sector is
zero (`ErasedCode`: toggling a digit pairs the places off, so that no induction
over K is needed), that a sector programmed with 0xFF keeps this zero code
whatever is programmed over it (`ZeroInv`), and that a cell counts as flipped
when its bits are (`FlagInv`).

`Recorder_proofs`: all five properties of the run, for any FIFO and any number
of blocks and sessions, from one invariant, `FullInv`. `Control` says for each
place of `recorder_play` what `rec_sta`, the file and the buffers are (`Owned`);
`Counted` and `HeaderTrue` tie `wavsize` to the file; `Room` is about the moment in
which the read position has been incremented and not yet wrapped; `Drained`,
`Ordered` and `Complete` say that the file followed by what waits in the FIFO is
ascending, its own, and without gaps unless a block was dropped.

`WebCam_proofs`: the three safety invariants and `FifoIsQueue`, step by step:
every step is a step of `FrameQueue` or a stutter under the mapping, for every
`NUM`. `Life` relates the status byte to the lives of the send task, its stack and the
interrupt; `Client` says which netconn `webcamnet` names and whether it is
still one; `Room` is as in the recorder.

`Network_proofs`:

* `PostsAtOnce` and `PoolIsKept`, from `MailInv`: every message is in one place
  (`OnceInv`: the queue, the hand-over to a pending task, the thread or its
  owner), so a full mailbox holds all of them. `ThreadInv` and
  `CallerInv` say where each task is when it is in a wait list, time-outs included,
  and that a call left to TCP is in no other place.
* `MailRefines`: `MailIsQueue`, for every size of the ring of `os_q.c`. The lemmas on
  `Put`, `First` and `Rest` say what they do to the sequence of messages.
* `RingIsDrained`, from `RingInv`: what the DMA owns and what the handler has seen.
* `TimersAreKept`, from `TimersInv`, and `NonePostponed`. They rest on
  lemmas about `LwipTimers`: an insertion leaves the due times of all others and puts
  the new one where it belongs, and the passing of time moves all due times
  alike, whatever elapsed time `sys_arch.c` reports.

`Audio_proofs`: `StoppedTaskIdle`, `FolderIsOwned`, `OrderIsHeard`, from `IInv`:
`Playing` and `Stopping` say what the bits of `status` mean for the player's place
although updates can be torn, `Owned` who has the folder's memory, `Buffers`
which of the two DMA buffers holds the next piece, in a song for which the DMA
has been set up and that began with `wavtransferend` clear (`odd` is false).

`Fonts_proofs`: all five properties of the run, for every size of the chip, its
sectors, the area and the files. The first two need no hypothesis: `RamIsFlash`,
and `WritesExactly` from `Exact`: the flash with the rest of the write under way
over it (`Target`) is the goal at every erase and program. `FontsAreGood`,
`DiskIsKept` and `OverrunBounded` assume `FilesFit`, that the files fit the area;
`fontupd.c:24` computes the area so, and TLC evaluates `FilesFit` for the run. The
invariant, `FontInv(at)`, speaks of the addresses `at` at which the files belong:
`Unmarked`, the header is blank from the first erase until the fonts are
written, and no write under way touches it; `Progress`, the fonts before the
current one and the current one up to the chunk under way are in `Target`;
`Saving`, what the header will say is true before its first unit is programmed;
`Whole`, a header that says "good" stands before complete fonts of one edition;
`InArea`, no write leaves the area by more than a sector.

Inductions over data (the time-out list, the number of good blocks, finite sets
of bits) are by the least counterexample: the prover cannot instantiate the
library's induction rules, but it can show that the set of failing numbers
has no least element.

Only model-checked:

* liveness (`CallsReturn`, `CallsAnswered`, `TimersFire`, `StopReturnsOtherwise`,
  `ExitUnlessOverwritten`, `PlayerYieldsOtherwise`): out of the prover's reach.

## 5. Plan

All components whose logic is concurrent are modelled, and the safety of each is
proved. What is left is of the model: time-outs of the tag reads in
`FTL_CreateLUT`, two callers in the memory manager.

## 6. Not modelled

The HAL, the protocols of lwIP, the FatFs core, the USB library and the codecs
(vendored, most of the repository's lines); the screen-driven applications;
drivers that are fixed sequences of register accesses; start-up code that runs
once and in sequence (`lwip_comm_init`, `main.c`, `os_api`); the memory manager,
whose allocation is one step here; within the modelled files, chip identification and
timing, progress display, the `FTL_SearchBadBlock` scan (compiled out), camera
set-up and statistics. A chip that reports a failed program only in status bit
0 is outside the model because `NAND_WaitForReady` never looks at that bit.
