---------------------------- MODULE Audio_proofs ----------------------------
(***************************************************************************)
(* Proofs about the music player, for every number of files and any length *)
(* of theirs: what the main task may rely on once the player has been      *)
(* stopped, who owns the folder's memory, and what is heard.               *)
(***************************************************************************)
EXTENDS Audio, Integers, TLAPS

Bits    == {"run", "req", "new", "play", "open", "on"}
Pointer == {"path", "table"}

(* The player has a WAV file open and the DMA may run; it is in a song.    *)
Sounding == {"wait", "check", "paused", "stop"}
InSong   == Sounding \cup {"start", "ended"}

TypeOK ==
    /\ status \in SUBSET Bits /\ reg \in SUBSET Bits
    /\ mbox \in 0 .. Songs /\ index \in Song
    /\ apc \in InSong \cup {"none", "mbox", "song", "over"}
    /\ read \in Nat /\ last \in Nat
    /\ witch \in {0, 1} /\ ct \in {0, 1} /\ buf \in [{0, 1} -> Nat]
    /\ mpc \in {"menu", "load", "store", "test", "list", "listed", "ui", "stopped",
                "choose", "held", "post", "delete"}
    /\ from \in {"menu", "ui", "other", "next", "quit", "first", "list"}
    /\ op \in {"halt", "ask", "done", "pause", "resume", "mark", "shown"}
    /\ DOMAIN ptr = Pointer

Flags ==
    /\ short \in BOOLEAN /\ flag \in BOOLEAN /\ dma \in BOOLEAN /\ due \in BOOLEAN
    /\ stack \in BOOLEAN /\ odd \in BOOLEAN /\ oom \in BOOLEAN /\ twice \in BOOLEAN

(* The player waits for a message and there is none: it stays there while  *)
(* the main task sends none.                                               *)
Idle == apc = "mbox" /\ mbox = 0

(* The bits that say the task exists and plays are never missing: not even *)
(* a stale load leaves one of them out.                                    *)
Existing ==
    /\ "run" \in status <=> apc # "none"
    /\ stack = TRUE <=> apc # "none"
    /\ apc = "none" => mpc = "menu" /\ mbox = 0
    /\ mpc = "store" => "run" \in reg

Playing ==
    /\ apc \in InSong => "play" \in status
    /\ mpc = "store" => "play" \in reg \/ Idle
    /\ dma = TRUE => apc \in Sounding

Stopping ==
    /\ mpc \in {"stopped", "choose", "held", "post", "delete"} => Idle
    /\ mpc \in {"load", "store"} /\ op = "done" => Idle
    /\ mpc = "list" /\ from = "menu" => Idle

(* The pointers, while the file list has had the memory it needs.  They    *)
(* are not allocated before a folder has been chosen, and between the      *)
(* release of one folder and the next: the player is idle then, and the    *)
(* main task on its way from the first list, or to the deletion.           *)
Unfilled ==
    \/ apc = "none"
    \/ /\ Idle
       /\ \/ mpc \in {"list", "listed"} /\ status = {"run"}
             /\ (mpc = "list" => from = "menu")
          \/ mpc = "test" /\ from = "first"
          \/ mpc \in {"load", "store"} /\ from = "first" /\ op \in {"halt", "ask", "done"}
          \/ mpc \in {"stopped", "choose"} /\ from = "first"
          \/ mpc \in {"held", "delete"}

Owned ==
    /\ twice = FALSE
    /\ oom = FALSE =>
      /\ \/ \A p \in Pointer : ptr[p] = "held"
         \/ (\A p \in Pointer : ptr[p] # "held") /\ Unfilled
      /\ mpc # "held" /\ apc # "none" => \A p \in Pointer : ptr[p] # "freed"

(* The two buffers of a song: what has been read and what has been heard.  *)
Buffers ==
    /\ apc = "check" => flag = FALSE
    /\ apc \in {"wait", "check", "paused"} /\ odd = FALSE =>
         /\ flag = TRUE => /\ witch = 1 - ct /\ last = read
                           /\ due = TRUE \/ buf[1 - ct] = 0
         /\ flag = FALSE => \/ read = last + 1 /\ buf[1 - ct] = read
                            \/ read = last /\ buf[1 - ct] = 0

IInv == TypeOK /\ Flags /\ Existing /\ Playing /\ Stopping /\ Owned /\ Buffers

-----------------------------------------------------------------------------
(* The table of the updates. *)
LEMMA Updates ==
  /\ \A o \in {"halt", "ask", "done", "pause", "resume", "mark", "shown"} :
       /\ Update[o].clear \subseteq {"open", "req", "on", "new"}
       /\ Update[o].set \subseteq {"req", "on", "new"}
       /\ Update[o].next \in {"load", "test", "stopped", "ui"}
  /\ Update["ask"].next = "test" /\ Update["done"].next = "stopped"
  /\ \A o \in {"ask", "pause", "resume", "mark", "shown"} : Update[o].next \in {"test", "ui"}
BY DEF Update, AfterAsk

LEMMA InitInv == Init => IInv
<1> SUFFICES ASSUME Init
             PROVE  IInv
  OBVIOUS
<1>1. TypeOK
  <2>1. 0 \in 0 .. Songs /\ 1 \in Song
    BY AudioAssumption DEF Song
  <2> QED
    BY <2>1 DEF Init, TypeOK, Bits, InSong, Sounding, Pointer
<1>2. Flags
  BY Zenon DEF Init, Flags
<1>3. Existing /\ Playing /\ Stopping /\ Owned /\ Buffers
  BY DEF Init, Existing, Playing, Stopping, Owned, Unfilled, Buffers, InSong,
         Sounding, Idle, Pointer
<1> QED
  BY <1>1, <1>2, <1>3 DEF IInv

(* The conditions that the player and the interrupt store. *)
LEMMA Conditions ==
  /\ Irq => due' \in BOOLEAN
  /\ Fill => short' \in BOOLEAN
<1>1. ASSUME Irq
      PROVE  due' \in BOOLEAN
  <2>1. due' = ("on" \in status)
    BY <1>1, Zenon DEF Irq
  <2>2. ("on" \in status) \in BOOLEAN
    OBVIOUS
  <2> QED
    BY <2>1, <2>2, Zenon
<1>2. ASSUME Fill
      PROVE  short' \in BOOLEAN
  <2>1. short' = (read >= Length)
    BY <1>2, Zenon DEF Fill
  <2>2. (read >= Length) \in BOOLEAN
    OBVIOUS
  <2> QED
    BY <2>1, <2>2, Zenon
<1> QED
  BY <1>1, <1>2

LEMMA FlagsNext == Flags /\ [Next]_vars => Flags'
<1> SUFFICES ASSUME Flags, [Next]_vars
             PROVE  Flags'
  OBVIOUS
<1> USE Zenon DEF Flags
<1>1. CASE Irq
  BY <1>1, Conditions DEF Irq, player, main, memory, world
<1>2. CASE Fetch
  BY <1>2 DEF Fetch, player, sound, main, memory, world
<1>3. CASE NextSong
  BY <1>3 DEF NextSong, player, sound, main, memory, world
<1>4. CASE WavStart
  BY <1>4 DEF WavStart, player, sound, main, memory, world
<1>5. CASE WavRefused
  BY <1>5 DEF WavRefused, player, sound, main, memory, world
<1>6. CASE Fill
  BY <1>6, Conditions DEF Fill, main, memory, world
<1>7. CASE Check
  BY <1>7 DEF Check, Go, player, sound, main, memory, world
<1>8. CASE WavStop
  BY <1>8 DEF WavStop, player, sound, main, memory, world
<1>9. CASE Ended
  BY <1>9 DEF Ended, After, player, sound, main, memory, world
<1>10. CASE Over
  BY <1>10 DEF Over, player, sound, main, memory, world
<1>11. CASE Load
  BY <1>11 DEF Load, At, player, sound, main, memory, world
<1>12. CASE Store
  BY <1>12 DEF Store, Update, AfterAsk, At, player, sound, main, memory, world
<1>13. CASE Test
  BY <1>13 DEF Test, At, player, sound, main, memory, world
<1>14. CASE Create
  BY <1>14 DEF Create, At, player, sound, main, memory, world
<1>15. CASE Menu
  BY <1>15 DEF Menu, StopReq, At, player, sound, main, memory, world
<1>16. CASE Button
  BY <1>16 DEF Button, StopReq, At, player, sound, main, memory, world
<1>27. CASE Show
  BY <1>27 DEF Show, At, player, sound, main, memory, world
<1>17. CASE ListLeft
  BY <1>17 DEF ListLeft, Listed, At, player, sound, main, memory, world
<1>18. CASE ListFails
  BY <1>18 DEF ListFails, Released, At, player, sound, main, memory, world
<1>19. CASE Chosen
  BY <1>19 DEF Chosen, At, player, sound, main, memory, world
<1>20. CASE Stopped
  BY <1>20 DEF Stopped, At, player, sound, main, memory, world
<1>21. CASE Choose
  BY <1>21 DEF Choose, Released, At, player, sound, main, memory, world
<1>22. CASE Held
  BY <1>22 DEF Held, At, player, sound, main, memory, world
<1>23. CASE Post
  BY <1>23 DEF Post, At, player, sound, main, memory, world
<1>24. CASE AfterList
  BY <1>24 DEF AfterList, At, player, sound, main, memory, world
<1>25. CASE Delete
  BY <1>25 DEF Delete, Released, At, player, sound, main, memory, world
<1>26. CASE UNCHANGED vars
  BY <1>26 DEF vars, player, sound, main, memory, world
<1> QED
  BY <1>1, <1>2, <1>3, <1>4, <1>5, <1>6, <1>7, <1>8, <1>9, <1>10, <1>11,
     <1>12, <1>13, <1>14, <1>15, <1>16, <1>17, <1>18, <1>19, <1>20, <1>21, <1>22,
     <1>23, <1>24, <1>25, <1>26, <1>27
     DEF Next, Player, Request, Main

LEMMA TypeNext == TypeOK /\ Existing /\ [Next]_vars => TypeOK'
<1> SUFFICES ASSUME TypeOK /\ Existing, [Next]_vars
             PROVE  TypeOK'
  OBVIOUS
<1> USE DEF TypeOK, Bits, InSong, Sounding, Song
<1>1. CASE Irq
  BY <1>1 DEF Irq, Silence, player, sound, main, memory, world
<1>2. CASE Fetch
  <2>1. mbox' \in 0 .. Songs /\ index' \in Song
    BY <1>2, AudioAssumption DEF Fetch
  <2>2. apc' \in {"song", "over"}
    BY <1>2 DEF Fetch
  <2> QED
    BY <1>2, <2>1, <2>2 DEF Fetch, sound, main, memory, world
<1>3. CASE NextSong
  <2>1. apc' \in {"start", "over"} /\ status' \in SUBSET Bits
    BY <1>3 DEF NextSong
  <2> QED
    BY <1>3, <2>1 DEF NextSong, sound, main, memory, world
<1>4. CASE WavStart
  BY <1>4 DEF WavStart, player, sound, main, memory, world
<1>5. CASE WavRefused
  BY <1>5 DEF WavRefused, player, sound, main, memory, world
<1>6. CASE Fill
  BY <1>6 DEF Fill, player, sound, main, memory, world
<1>7. CASE Check
  BY <1>7 DEF Check, Go, player, sound, main, memory, world
<1>8. CASE WavStop
  BY <1>8 DEF WavStop, player, sound, main, memory, world
<1>9. CASE Ended
  <2>1. After(index) \in Song
    BY AudioAssumption DEF After
  <2>2. apc' \in {"song", "over"} /\ index' \in {index, After(index)}
    BY <1>9 DEF Ended
  <2> QED
    BY <1>9, <2>1, <2>2 DEF Ended, sound, main, memory, world
<1>10. CASE Over
  <2>1. apc = "over" /\ apc' = "mbox" /\ status' \in SUBSET Bits
    BY <1>10 DEF Over, Existing
  <2> QED
    BY <1>10, <2>1 DEF Over, sound, main, memory, world
<1>11. CASE Load
  BY <1>11 DEF Load, At, player, sound, main, memory, world
<1>12. CASE Store
  <2>1. status' = (reg \ Update[op].clear) \cup Update[op].set /\ reg' = {}
        /\ op' \in {"ask", "mark"} /\ (mpc' = "load" \/ mpc' = Update[op].next)
    BY <1>12 DEF Store
  <2>2. status' \in SUBSET Bits /\ mpc' \in {"load", "test", "stopped", "ui"}
    BY <2>1, Updates DEF Bits
  <2> QED
    BY <1>12, <2>1, <2>2 DEF Store, player, sound, memory, world
<1>13. CASE Test
  BY <1>13 DEF Test, At, player, sound, main, memory, world
<1>14. CASE Create
  BY <1>14 DEF Create, At, player, sound, main, memory, world
<1>15. CASE Menu
  BY <1>15 DEF Menu, StopReq, At, player, sound, main, memory, world
<1>16. CASE Button
  BY <1>16 DEF Button, StopReq, At, player, sound, main, memory, world
<1>27. CASE Show
  BY <1>27 DEF Show, At, player, sound, main, memory, world
<1>17. CASE ListLeft
  BY <1>17 DEF ListLeft, Listed, At, player, sound, main, memory, world
<1>18. CASE ListFails
  BY <1>18 DEF ListFails, Released, At, player, sound, main, memory, world
<1>19. CASE Chosen
  BY <1>19 DEF Chosen, At, player, sound, main, memory, world
<1>20. CASE Stopped
  BY <1>20 DEF Stopped, At, player, sound, main, memory, world
<1>21. CASE Choose
  <2>1. DOMAIN ptr' = Pointer
    BY <1>21 DEF Choose, Released, Pointer
  <2>2. mpc' \in {"held", "delete", "ui"} /\ from' \in {from, "menu"}
    BY <1>21 DEF Choose
  <2> QED
    BY <1>21, <2>1, <2>2 DEF Choose, player, sound, world
<1>22. CASE Held
  BY <1>22 DEF Held, At, player, sound, main, memory, world
<1>23. CASE Post
  BY <1>23 DEF Post, At, player, sound, main, memory, world
<1>24. CASE AfterList
  BY <1>24 DEF AfterList, At, player, sound, main, memory, world
<1>25. CASE Delete
  BY <1>25 DEF Delete, Released, At, player, sound, main, memory, world
<1>26. CASE UNCHANGED vars
  BY <1>26 DEF vars, player, sound, main, memory, world
<1> QED
  BY <1>1, <1>2, <1>3, <1>4, <1>5, <1>6, <1>7, <1>8, <1>9, <1>10, <1>11,
     <1>12, <1>13, <1>14, <1>15, <1>16, <1>17, <1>18, <1>19, <1>20, <1>21, <1>22,
     <1>23, <1>24, <1>25, <1>26, <1>27
     DEF Next, Player, Request, Main

(* A store of the main task takes neither run nor play from the value it   *)
(* has loaded, and goes to what asked for it.                              *)
LEMMA Stored ==
  ASSUME TypeOK, Store
  PROVE  /\ status' = (reg \ Update[op].clear) \cup Update[op].set
         /\ "run" \in reg => "run" \in status'
         /\ "play" \in reg => "play" \in status'
         /\ mpc' \in {"load", "test", "stopped", "ui"}
         /\ mpc' = "stopped" => op = "done"
         /\ mpc' = "load" => op' = "ask"
         /\ mpc = "store" /\ Blocked
         /\ UNCHANGED <<mbox, index, player, sound, from, memory, last, odd>>
<1>1. status' = (reg \ Update[op].clear) \cup Update[op].set /\ mpc = "store" /\ Blocked
  BY DEF Store, At
<1>2. \/ op = "halt" /\ op' = "ask" /\ mpc' = "load"
      \/ op # "halt" /\ op' = "mark" /\ mpc' = Update[op].next
  BY DEF Store
<1>3. UNCHANGED <<mbox, index, player, sound, from, memory, last, odd>>
  BY DEF Store
<1>4. /\ op \in {"halt", "ask", "done", "pause", "resume", "mark", "shown"}
      /\ Update[op].clear \subseteq {"open", "req", "on", "new"}
  BY Updates DEF TypeOK
<1>5. /\ mpc' \in {"load", "test", "stopped", "ui"}
      /\ mpc' = "stopped" => op = "done"
      /\ mpc' = "load" => op' = "ask"
  BY <1>2, <1>4, Updates
<1>6. ("run" \in reg => "run" \in status') /\ ("play" \in reg => "play" \in status')
  BY <1>1, <1>4
<1> QED
  BY <1>1, <1>3, <1>5, <1>6

LEMMA ExistingNext == TypeOK /\ Existing /\ Stopping /\ [Next]_vars => Existing'
<1> SUFFICES ASSUME TypeOK /\ Existing /\ Stopping, [Next]_vars
             PROVE  Existing'
  OBVIOUS
<1> USE DEF Existing, Stopping, Idle
<1>1. CASE Irq
  BY <1>1 DEF Irq, Silence, player, sound, main, memory, world
<1>2. CASE Fetch
  BY <1>2 DEF Fetch, player, sound, main, memory, world
<1>3. CASE NextSong
  BY <1>3 DEF NextSong, player, sound, main, memory, world
<1>4. CASE WavStart
  BY <1>4 DEF WavStart, player, sound, main, memory, world
<1>5. CASE WavRefused
  BY <1>5 DEF WavRefused, player, sound, main, memory, world
<1>6. CASE Fill
  BY <1>6 DEF Fill, player, sound, main, memory, world
<1>7. CASE Check
  BY <1>7 DEF Check, Go, player, sound, main, memory, world
<1>8. CASE WavStop
  BY <1>8 DEF WavStop, player, sound, main, memory, world
<1>9. CASE Ended
  BY <1>9 DEF Ended, After, player, sound, main, memory, world
<1>10. CASE Over
  BY <1>10 DEF Over, player, sound, main, memory, world
<1>11. CASE Load
  BY <1>11 DEF Load, At, player, sound, main, memory, world
<1>12. CASE Store
  BY <1>12, Stored DEF player, sound, memory
<1>13. CASE Test
  BY <1>13 DEF Test, At, player, sound, main, memory, world
<1>14. CASE Create
  BY <1>14 DEF Create, At, player, sound, main, memory, world
<1>15. CASE Menu
  BY <1>15 DEF Menu, StopReq, At, player, sound, main, memory, world
<1>16. CASE Button
  BY <1>16 DEF Button, StopReq, At, player, sound, main, memory, world
<1>27. CASE Show
  BY <1>27 DEF Show, At, player, sound, main, memory, world
<1>17. CASE ListLeft
  BY <1>17 DEF ListLeft, Listed, At, player, sound, main, memory, world
<1>18. CASE ListFails
  BY <1>18 DEF ListFails, Released, At, player, sound, main, memory, world
<1>19. CASE Chosen
  BY <1>19 DEF Chosen, At, player, sound, main, memory, world
<1>20. CASE Stopped
  BY <1>20 DEF Stopped, At, player, sound, main, memory, world
<1>21. CASE Choose
  BY <1>21 DEF Choose, Released, At, player, sound, main, memory, world
<1>22. CASE Held
  BY <1>22 DEF Held, At, player, sound, main, memory, world
<1>23. CASE Post
  BY <1>23 DEF Post, At, player, sound, main, memory, world
<1>24. CASE AfterList
  BY <1>24 DEF AfterList, At, player, sound, main, memory, world
<1>25. CASE Delete
  BY <1>25 DEF Delete, Released, At, player, sound, main, memory, world
<1>26. CASE UNCHANGED vars
  BY <1>26 DEF vars, player, sound, main, memory, world
<1> QED
  BY <1>1, <1>2, <1>3, <1>4, <1>5, <1>6, <1>7, <1>8, <1>9, <1>10, <1>11,
     <1>12, <1>13, <1>14, <1>15, <1>16, <1>17, <1>18, <1>19, <1>20, <1>21, <1>22,
     <1>23, <1>24, <1>25, <1>26, <1>27
     DEF Next, Player, Request, Main

LEMMA PlayingNext == TypeOK /\ Flags /\ Existing /\ Playing /\ Stopping /\ [Next]_vars => Playing'
<1> SUFFICES ASSUME TypeOK /\ Flags /\ Existing /\ Playing /\ Stopping, [Next]_vars
             PROVE  Playing'
  OBVIOUS
<1> USE DEF Playing, Existing, Stopping, Idle, InSong, Sounding
<1>1. CASE Irq
  BY <1>1 DEF Irq, Silence, player, sound, main, memory, world
<1>2. CASE Fetch
  BY <1>2 DEF Fetch, player, sound, main, memory, world
<1>3. CASE NextSong
  BY <1>3 DEF NextSong, player, sound, main, memory, world
<1>4. CASE WavStart
  BY <1>4 DEF WavStart, player, sound, main, memory, world
<1>5. CASE WavRefused
  BY <1>5 DEF WavRefused, player, sound, main, memory, world
<1>6. CASE Fill
  BY <1>6 DEF Fill, player, sound, main, memory, world
<1>7. CASE Check
  BY <1>7 DEF Check, Go, player, sound, main, memory, world
<1>8. CASE WavStop
  BY <1>8 DEF WavStop, player, sound, main, memory, world
<1>9. CASE Ended
  BY <1>9 DEF Ended, After, player, sound, main, memory, world
<1>10. CASE Over
  BY <1>10 DEF Over, player, sound, main, memory, world
<1>11. CASE Load
  BY <1>11 DEF Load, At, Blocked, player, sound
<1>12. CASE Store
  BY <1>12, Stored DEF player, sound, memory
<1>13. CASE Test
  BY <1>13 DEF Test, At, player, sound, main, memory, world
<1>14. CASE Create
  BY <1>14 DEF Create, At, player, sound, main, memory, world
<1>15. CASE Menu
  BY <1>15 DEF Menu, StopReq, At, player, sound, main, memory, world
<1>16. CASE Button
  BY <1>16 DEF Button, StopReq, At, player, sound, main, memory, world
<1>27. CASE Show
  BY <1>27 DEF Show, At, player, sound, main, memory, world
<1>17. CASE ListLeft
  BY <1>17 DEF ListLeft, Listed, At, player, sound, main, memory, world
<1>18. CASE ListFails
  BY <1>18 DEF ListFails, Released, At, player, sound, main, memory, world
<1>19. CASE Chosen
  BY <1>19 DEF Chosen, At, player, sound, main, memory, world
<1>20. CASE Stopped
  BY <1>20 DEF Stopped, At, player, sound, main, memory, world
<1>21. CASE Choose
  BY <1>21 DEF Choose, Released, At, player, sound, main, memory, world
<1>22. CASE Held
  BY <1>22 DEF Held, At, player, sound, main, memory, world
<1>23. CASE Post
  BY <1>23 DEF Post, At, player, sound, main, memory, world
<1>24. CASE AfterList
  BY <1>24 DEF AfterList, At, player, sound, main, memory, world
<1>25. CASE Delete
  BY <1>25 DEF Delete, Released, At, player, sound, main, memory, world
<1>26. CASE UNCHANGED vars
  BY <1>26 DEF vars, player, sound, main, memory, world
<1> QED
  BY <1>1, <1>2, <1>3, <1>4, <1>5, <1>6, <1>7, <1>8, <1>9, <1>10, <1>11,
     <1>12, <1>13, <1>14, <1>15, <1>16, <1>17, <1>18, <1>19, <1>20, <1>21, <1>22,
     <1>23, <1>24, <1>25, <1>26, <1>27
     DEF Next, Player, Request, Main

LEMMA StoppingNext == TypeOK /\ Existing /\ Playing /\ Stopping /\ [Next]_vars => Stopping'
<1> SUFFICES ASSUME TypeOK /\ Existing /\ Playing /\ Stopping, [Next]_vars
             PROVE  Stopping'
  OBVIOUS
<1> USE DEF Existing, Playing, Stopping, Idle, InSong, Sounding, Blocked
<1>1. CASE Irq
  BY <1>1 DEF Irq, Silence, player, sound, main, memory, world
<1>2. CASE Fetch
  BY <1>2 DEF Fetch, player, sound, main, memory, world
<1>3. CASE NextSong
  BY <1>3 DEF NextSong, player, sound, main, memory, world
<1>4. CASE WavStart
  BY <1>4 DEF WavStart, player, sound, main, memory, world
<1>5. CASE WavRefused
  BY <1>5 DEF WavRefused, player, sound, main, memory, world
<1>6. CASE Fill
  BY <1>6 DEF Fill, player, sound, main, memory, world
<1>7. CASE Check
  BY <1>7 DEF Check, Go, player, sound, main, memory, world
<1>8. CASE WavStop
  BY <1>8 DEF WavStop, player, sound, main, memory, world
<1>9. CASE Ended
  BY <1>9 DEF Ended, After, player, sound, main, memory, world
<1>10. CASE Over
  BY <1>10 DEF Over, player, sound, main, memory, world
<1>11. CASE Load
  BY <1>11 DEF Load, At, player, sound, main, memory, world
<1>12. CASE Store
  BY <1>12, Stored DEF player, sound, memory
<1>13. CASE Test
  BY <1>13 DEF Test, At, player, sound, main, memory, world
<1>14. CASE Create
  BY <1>14 DEF Create, At, player, sound, main, memory, world
<1>15. CASE Menu
  BY <1>15 DEF Menu, StopReq, At, player, sound, main, memory, world
<1>16. CASE Button
  BY <1>16 DEF Button, StopReq, At, player, sound, main, memory, world
<1>27. CASE Show
  BY <1>27 DEF Show, At, player, sound, main, memory, world
<1>17. CASE ListLeft
  BY <1>17 DEF ListLeft, Listed, At, player, sound, main, memory, world
<1>18. CASE ListFails
  BY <1>18 DEF ListFails, Released, At, player, sound, main, memory, world
<1>19. CASE Chosen
  BY <1>19 DEF Chosen, At, player, sound, main, memory, world
<1>20. CASE Stopped
  BY <1>20 DEF Stopped, At, player, sound, main, memory, world
<1>21. CASE Choose
  BY <1>21 DEF Choose, Released, At, player, sound, main, memory, world
<1>22. CASE Held
  BY <1>22 DEF Held, At, player, sound, main, memory, world
<1>23. CASE Post
  BY <1>23 DEF Post, At, player, sound, main, memory, world
<1>24. CASE AfterList
  BY <1>24 DEF AfterList, At, player, sound, main, memory, world
<1>25. CASE Delete
  BY <1>25 DEF Delete, Released, At, player, sound, main, memory, world
<1>26. CASE UNCHANGED vars
  BY <1>26 DEF vars, player, sound, main, memory, world
<1> QED
  BY <1>1, <1>2, <1>3, <1>4, <1>5, <1>6, <1>7, <1>8, <1>9, <1>10, <1>11,
     <1>12, <1>13, <1>14, <1>15, <1>16, <1>17, <1>18, <1>19, <1>20, <1>21, <1>22,
     <1>23, <1>24, <1>25, <1>26, <1>27
     DEF Next, Player, Request, Main

(* Memory is released that has not been released before.                   *)
LEMMA Releasing ==
  ASSUME TypeOK, Flags, Released(Pointer), twice = FALSE,
         oom = FALSE => \A p \in Pointer : ptr[p] # "freed"
  PROVE  twice' = FALSE /\ \A p \in Pointer : ptr'[p] # "held"
<1>1. \A p \in Pointer : ptr'[p] = IF ptr[p] # "null" THEN "freed" ELSE ptr[p]
  BY DEF TypeOK, Released
<1>2. twice' = FALSE
  <2>1. twice' = (twice \/ (~oom /\ \E p \in Pointer : ptr[p] = "freed"))
    BY Zenon DEF Released
  <2>2. ~(~oom /\ \E p \in Pointer : ptr[p] = "freed")
    BY Zenon DEF Flags
  <2> QED
    BY <2>1, <2>2, Zenon
<1> QED
  BY <1>1, <1>2

LEMMA OwnedNext ==
  TypeOK /\ Flags /\ Existing /\ Playing /\ Stopping /\ Owned /\ [Next]_vars => Owned'
<1> SUFFICES ASSUME TypeOK /\ Flags /\ Existing /\ Playing /\ Stopping /\ Owned, [Next]_vars
             PROVE  Owned'
  OBVIOUS
<1> USE DEF Owned, Unfilled, Idle
<1>1. CASE Irq
  BY <1>1 DEF Irq, Silence, player, sound, main, memory, world
<1>2. CASE Fetch
  BY <1>2 DEF Fetch, player, sound, main, memory, world
<1>3. CASE NextSong
  BY <1>3 DEF NextSong, player, sound, main, memory, world
<1>4. CASE WavStart
  BY <1>4 DEF WavStart, player, sound, main, memory, world
<1>5. CASE WavRefused
  BY <1>5 DEF WavRefused, player, sound, main, memory, world
<1>6. CASE Fill
  BY <1>6 DEF Fill, player, sound, main, memory, world
<1>7. CASE Check
  BY <1>7 DEF Check, Go, player, sound, main, memory, world
<1>8. CASE WavStop
  BY <1>8 DEF WavStop, player, sound, main, memory, world
<1>9. CASE Ended
  BY <1>9 DEF Ended, After, player, sound, main, memory, world
<1>10. CASE Over
  BY <1>10 DEF Over, player, sound, main, memory, world
<1>11. CASE Load
  BY <1>11 DEF Load, At, player, sound, main, memory, world
<1>12. CASE Store
  <2>1. /\ UNCHANGED <<mbox, player, from, memory>> /\ mpc = "store"
        /\ mpc' \in {"load", "test", "stopped", "ui"}
        /\ mpc' = "load" => op' = "ask"
    BY <1>12, Stored
  <2>2. op \in {"halt", "ask", "done"} => mpc' # "ui"
    BY <1>12, Updates DEF Store
  <2> QED
    BY <2>1, <2>2 DEF player, memory
<1>13. CASE Test
  BY <1>13 DEF Test, At, player, sound, main, memory, world
<1>14. CASE Create
  <2>1. \A p \in Pointer : ptr'[p] = "null"
    BY <1>14 DEF Create, TypeOK
  <2>2. mbox = 0 /\ UNCHANGED <<mbox, oom, twice>> /\ apc' = "mbox" /\ mpc' = "list"
        /\ status' = {"run"} /\ from' = "menu"
    BY <1>14 DEF Create, Existing, At
  <2> QED
    BY <2>1, <2>2
<1>15. CASE Menu
  BY <1>15 DEF Menu, StopReq, At, player, sound, main, memory, world
<1>16. CASE Button
  BY <1>16 DEF Button, StopReq, At, player, sound, main, memory, world
<1>27. CASE Show
  BY <1>27 DEF Show, At, player, sound, main, memory, world
<1>17. CASE ListLeft
  BY <1>17 DEF ListLeft, Listed, At, player, sound, main, memory, world
<1>18. CASE ListFails
  <2>1. oom' = TRUE /\ mpc = "list" /\ Released(Pointer)
    BY <1>18, Zenon DEF ListFails, At, Pointer
  <2>2. twice' = FALSE
    BY <2>1, Releasing DEF Existing
  <2> QED
    BY <2>1, <2>2
<1>19. CASE Chosen
  BY <1>19 DEF Chosen, At, player, sound, main, memory, world
<1>20. CASE Stopped
  BY <1>20 DEF Stopped, At, player, sound, main, memory, world
<1>21. CASE Choose
  <2>1. CASE oom' = TRUE /\ twice' = twice
    BY <2>1
  <2>2. CASE oom' = oom /\ Released(Pointer) /\ mpc' = "held" /\ mpc = "choose"
    <3>1. Idle /\ UNCHANGED <<mbox, apc>>
      BY <1>21, <2>2 DEF Choose, player, Stopping
    <3>2. twice' = FALSE /\ \A p \in Pointer : ptr'[p] # "held"
      BY <2>2, <3>1, Releasing
    <3> QED
      BY <2>2, <3>1, <3>2
  <2>3. \/ oom' = TRUE /\ twice' = twice
        \/ Released(Pointer) /\ mpc' = "held" /\ oom' = oom
    BY <1>21, Zenon DEF Choose, Pointer
  <2>4. mpc = "choose"
    BY <1>21 DEF Choose, At
  <2> QED
    BY <2>1, <2>2, <2>3, <2>4
<1>22. CASE Held
  <2>1. \A p \in Pointer : ptr'[p] = "held"
    BY <1>22 DEF Held, TypeOK
  <2> QED
    BY <1>22, <2>1 DEF Held, player
<1>23. CASE Post
  BY <1>23 DEF Post, At, player, sound, main, memory, world
<1>24. CASE AfterList
  BY <1>24 DEF AfterList, At, player, sound, main, memory, world
<1>25. CASE Delete
  <2>1. Idle /\ status # {} /\ mpc = "delete"
    BY <1>25 DEF Delete, At, Stopping, Existing
  <2>2. /\ apc' = "none" /\ mpc' = "menu" /\ UNCHANGED <<mbox, oom>> /\ Released(Pointer)
    BY <1>25, <2>1 DEF Delete, Pointer
  <2>3. twice' = FALSE /\ \A p \in Pointer : ptr'[p] # "held"
    BY <2>1, <2>2, Releasing
  <2> QED
    BY <2>2, <2>3
<1>26. CASE UNCHANGED vars
  BY <1>26 DEF vars, player, sound, main, memory, world
<1> QED
  BY <1>1, <1>2, <1>3, <1>4, <1>5, <1>6, <1>7, <1>8, <1>9, <1>10, <1>11,
     <1>12, <1>13, <1>14, <1>15, <1>16, <1>17, <1>18, <1>19, <1>20, <1>21, <1>22,
     <1>23, <1>24, <1>25, <1>26, <1>27
     DEF Next, Player, Request, Main

LEMMA BuffersNext == TypeOK /\ Flags /\ Existing /\ Stopping /\ Buffers /\ [Next]_vars => Buffers'
<1> SUFFICES ASSUME TypeOK /\ Flags /\ Existing /\ Stopping /\ Buffers, [Next]_vars
             PROVE  Buffers'
  OBVIOUS
<1> USE DEF Buffers
<1>1. CASE Irq
  <2>1. /\ apc \in {"wait", "paused"} /\ apc' = apc /\ odd' = odd /\ read' = read
        /\ witch' = ct /\ ct' = 1 - ct /\ flag' = TRUE /\ due = FALSE
        /\ (apc = "wait" => flag = FALSE)
    BY <1>1, Zenon DEF Irq, player, Flags
  <2>2. last' = IF buf[1 - ct] = 0 THEN last ELSE buf[1 - ct]
    BY <1>1 DEF Irq
  <2>3. due' = TRUE \/ buf'[ct] = 0
    <3>1. CASE "on" \in status
      BY <1>1, <3>1 DEF Irq
    <3>2. CASE "on" \notin status
      <4>1. buf' = [buf EXCEPT ![ct] = 0]
        BY <1>1, <3>2 DEF Irq, Silence
      <4>2. ct \in {0, 1} /\ DOMAIN buf = {0, 1}
        BY DEF TypeOK
      <4> QED
        BY <4>1, <4>2
    <3> QED
      BY <3>1, <3>2
  <2>4. 1 - (1 - ct) = ct /\ 1 - ct \in {0, 1} /\ buf[1 - ct] \in Nat
    BY DEF TypeOK
  <2>5. CASE odd = FALSE
    <3>1. last' = read
      <4>1. CASE flag = TRUE
        BY <2>1, <2>2, <2>5, <4>1
      <4>2. CASE flag = FALSE
        <5>1. \/ read = last + 1 /\ buf[1 - ct] = read
              \/ read = last /\ buf[1 - ct] = 0
          BY <2>1, <2>5, <4>2
        <5>2. last + 1 # 0
          BY DEF TypeOK
        <5> QED
          BY <2>2, <5>1, <5>2
      <4> QED
        BY <4>1, <4>2 DEF Flags
    <3> QED
      BY <2>1, <2>3, <2>4, <3>1
  <2>6. CASE odd = TRUE
    BY <2>1, <2>6
  <2> QED
    BY <2>5, <2>6 DEF Flags
<1>2. CASE Fetch
  BY <1>2 DEF Fetch, player, sound, main, memory, world
<1>3. CASE NextSong
  BY <1>3 DEF NextSong, player, sound, main, memory, world
<1>4. CASE WavStart
  <2>1. /\ apc = "start" /\ apc' = "wait" /\ read' = 2 /\ ct' = 0 /\ last' = 1
        /\ buf' = [b \in {0, 1} |-> b + 1] /\ flag' = flag
    BY <1>4 DEF WavStart
  <2>2. buf'[1] = 2
    BY <2>1
  <2>3. odd' = FALSE => flag = FALSE
    BY <1>4, Zenon DEF WavStart, Flags
  <2> QED
    BY <2>1, <2>2, <2>3
<1>5. CASE WavRefused
  BY <1>5 DEF WavRefused, player, sound, main, memory, world
<1>6. CASE Fill
  <2>1. /\ apc = "wait" /\ apc' = "check" /\ flag = TRUE /\ flag' = FALSE
        /\ ct' = ct /\ last' = last /\ odd' = odd
    BY <1>6, Zenon DEF Fill, Flags
  <2>2. /\ short' = TRUE => read' = read /\ buf' = [buf EXCEPT ![witch] = 0]
        /\ short' = FALSE => read' = read + 1 /\ buf' = [buf EXCEPT ![witch] = read + 1]
    BY <1>6, Zenon DEF Fill
  <2>3. short' \in BOOLEAN
    BY <1>6, Conditions
  <2>4. DOMAIN buf = {0, 1} /\ witch \in {0, 1}
    BY DEF TypeOK
  <2>5. odd = FALSE => witch = 1 - ct /\ last = read
    BY <2>1
  <2> QED
    BY <2>1, <2>2, <2>3, <2>4, <2>5
<1>7. CASE Check
  BY <1>7 DEF Check, sound
<1>8. CASE WavStop
  BY <1>8 DEF WavStop, player, sound, main, memory, world
<1>9. CASE Ended
  BY <1>9 DEF Ended, After, player, sound, main, memory, world
<1>10. CASE Over
  BY <1>10 DEF Over, player, sound, main, memory, world
<1>11. CASE Load
  BY <1>11 DEF Load, At, player, sound, main, memory, world
<1>12. CASE Store
  BY <1>12, Stored DEF player, sound
<1>13. CASE Test
  BY <1>13 DEF Test, At, player, sound, main, memory, world
<1>14. CASE Create
  BY <1>14 DEF Create
<1>15. CASE Menu
  BY <1>15 DEF Menu, StopReq, At, player, sound, main, memory, world
<1>16. CASE Button
  BY <1>16 DEF Button, StopReq, At, player, sound, main, memory, world
<1>27. CASE Show
  BY <1>27 DEF Show, At, player, sound, main, memory, world
<1>17. CASE ListLeft
  BY <1>17 DEF ListLeft, Listed, At, player, sound, main, memory, world
<1>18. CASE ListFails
  BY <1>18 DEF ListFails, Released, At, player, sound, main, memory, world
<1>19. CASE Chosen
  BY <1>19 DEF Chosen, At, player, sound, main, memory, world
<1>20. CASE Stopped
  BY <1>20 DEF Stopped, At, player, sound, main, memory, world
<1>21. CASE Choose
  BY <1>21 DEF Choose, Released, At, player, sound, main, memory, world
<1>22. CASE Held
  BY <1>22 DEF Held, At, player, sound, main, memory, world
<1>23. CASE Post
  BY <1>23 DEF Post, At, player, sound, main, memory, world
<1>24. CASE AfterList
  BY <1>24 DEF AfterList, At, player, sound, main, memory, world
<1>25. CASE Delete
  <2>1. apc = "mbox" /\ apc' \in {"mbox", "none"}
    BY <1>25 DEF Delete, At, Stopping, Idle
  <2> QED
    BY <2>1
<1>26. CASE UNCHANGED vars
  BY <1>26 DEF vars, player, sound, main, memory, world
<1> QED
  BY <1>1, <1>2, <1>3, <1>4, <1>5, <1>6, <1>7, <1>8, <1>9, <1>10, <1>11,
     <1>12, <1>13, <1>14, <1>15, <1>16, <1>17, <1>18, <1>19, <1>20, <1>21, <1>22,
     <1>23, <1>24, <1>25, <1>26, <1>27
     DEF Next, Player, Request, Main

LEMMA InvAlways == Spec => []IInv
<1>1. IInv /\ [Next]_vars => IInv'
  BY TypeNext, FlagsNext, ExistingNext, PlayingNext, StoppingNext, OwnedNext,
     BuffersNext DEF IInv
<1> QED
  BY <1>1, InitInv, PTL DEF Spec

-----------------------------------------------------------------------------
(* The theorems.                                                           *)

(* After audio_stop_req the player is idle, although neither side locks    *)
(* the status byte and the main task stores what it has loaded before.     *)
THEOREM StoppedTaskIdle == Spec => []StoppedIsIdle
<1>1. IInv => StoppedIsIdle
  <2> SUFFICES ASSUME IInv
               PROVE  StoppedIsIdle
    OBVIOUS
  <2>1. /\ mpc \in {"stopped", "choose", "held", "post", "delete"} => Idle
        /\ apc # "none" => stack = TRUE
        /\ Idle => dma # TRUE
    BY DEF IInv, Stopping, Existing, Playing, Idle, Sounding
  <2>2. apc # "return"
    BY DEF IInv, TypeOK, InSong, Sounding
  <2>3. stack \in BOOLEAN /\ dma \in BOOLEAN
    BY DEF IInv, Flags
  <2> QED
    BY <2>1, <2>2, <2>3, Zenon DEF StoppedIsIdle, Idle
<1> QED
  BY <1>1, InvAlways, PTL

(* The player never reads a folder that has been freed, and nothing is     *)
(* freed twice, as long as the file list gets its memory.                  *)
THEOREM FolderIsOwned == Spec => []FolderOwned
<1>1. IInv => FolderOwned
  <2> SUFFICES ASSUME IInv
               PROVE  FolderOwned
    OBVIOUS
  <2>1. twice \in BOOLEAN /\ oom \in BOOLEAN
    BY DEF IInv, Flags
  <2>2. twice = FALSE
    BY DEF IInv, Owned
  <2>3. apc \notin {"none", "mbox"} /\ oom = FALSE => \A p \in DOMAIN ptr : ptr[p] = "held"
    BY DEF IInv, Owned, Unfilled, Idle, TypeOK
  <2> QED
    BY <2>1, <2>2, <2>3, Zenon DEF FolderOwned
<1> QED
  BY <1>1, InvAlways, PTL

(* What is heard is the file, in order, after any number of buffers and    *)
(* pauses, unless the song before was stopped in a pause.                  *)
THEOREM OrderIsHeard == Spec => HeardInOrder
<1>1. ASSUME IInv, [Next]_vars, dma, dma', ct' # ct, ~odd
      PROVE  buf[ct'] \in {0, last + 1}
  <2>1. dma = TRUE /\ dma' = TRUE /\ odd = FALSE
    <3>1. dma \in BOOLEAN /\ odd \in BOOLEAN /\ dma' \in BOOLEAN
      BY <1>1, FlagsNext, Zenon DEF IInv, Flags
    <3> QED
      BY <1>1, <3>1, Zenon
  <2>2. CASE Irq
    <3>1. /\ apc \in {"wait", "paused"} /\ ct' = 1 - ct /\ due = FALSE
      BY <1>1, <2>2, Zenon DEF Irq, IInv, Flags
    <3>2. flag = TRUE => buf[1 - ct] = 0
      BY <1>1, <2>1, <3>1 DEF IInv, Buffers
    <3>3. flag = FALSE => buf[1 - ct] = 0 \/ buf[1 - ct] = last + 1
      BY <1>1, <2>1, <3>1 DEF IInv, Buffers
    <3>4. flag = TRUE \/ flag = FALSE
      BY <1>1 DEF IInv, Flags
    <3> QED
      BY <3>1, <3>2, <3>3, <3>4
  <2>3. CASE WavStart
    BY <1>1, <2>1, <2>3 DEF WavStart, IInv, Playing, Sounding
  <2>4. CASE WavStop
    BY <2>1, <2>4 DEF WavStop
  <2>5. ASSUME ~Irq, ~WavStart, ~WavStop
        PROVE  ct' = ct
    <3>1. CASE Player
      BY <2>5, <3>1 DEF Player, Fetch, NextSong, WavRefused, Fill, Check, Ended, Over, sound
    <3>2. CASE Main
      BY <3>2 DEF Main, Request, Load, Store, Test, Create, Menu, Button, Show, ListLeft,
                  ListFails, Chosen, Stopped, Choose, Held, Post, AfterList, Delete, sound
    <3>3. CASE UNCHANGED vars
      BY <3>3 DEF vars, sound
    <3> QED
      BY <1>1, <2>5, <3>1, <3>2, <3>3 DEF Next
  <2> QED
    BY <1>1, <2>2, <2>3, <2>4, <2>5
<1>2. IInv /\ [Next]_vars => [dma /\ dma' /\ ct' # ct /\ ~odd => buf[ct'] \in {0, last + 1}]_vars
  BY <1>1
<1> QED
  BY <1>2, InvAlways, PTL DEF Spec, HeardInOrder

=============================================================================
