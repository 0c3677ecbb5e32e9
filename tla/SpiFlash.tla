------------------------------ MODULE SpiFlash ------------------------------
(***************************************************************************)
(* The SPI flash of HARDWARE/W25QXX/w25qxx.c and its one writing routine,  *)
(* W25QXX_Write: sector by sector it programs where the range is blank,    *)
(* and otherwise erases the sector and programs it again from a buffer.    *)
(* The power may fail between any two commands to the chip, so an erase    *)
(* and each programmed unit is a step.                                     *)
(*                                                                         *)
(* An address counts units.  A unit is what one page program writes whole; *)
(* an erase sector has SECT of them.  The chip ignores the address bits it *)
(* has no room for.                                                        *)
(***************************************************************************)
EXTENDS Integers, Sequences

CONSTANTS SECT,         \* units per sector
          Size,         \* units of the chip
          FF            \* a blank unit

ASSUME SpiFlashAssumption ==
    /\ SECT \in Nat \ {0}
    /\ Size \in Nat /\ Size % SECT = 0

VARIABLES flash,        \* the chip
          w,            \* what W25QXX_Write has left: from where, which data
          todo,         \* what W25QXX_Write_NoCheck has left
          goal          \* history: what the write should make of the chip

flashvars == <<flash, w, todo, goal>>

Addr      == 0 .. Size - 1
Nothing   == [at |-> 0, data |-> << >>]
Idle      == w = Nothing /\ todo = Nothing
Sector(s) == s * SECT .. s * SECT + SECT - 1

Over(f, at, data) ==
    [a \in Addr |-> LET k == 1 + ((a - at) % Size)
                    IN  IF k <= Len(data) THEN data[k] ELSE f[a]]

W25QXX_Erase_Sector(s) ==
    flash' = [a \in Addr |-> IF a \in Sector(s) THEN FF ELSE flash[a]]

(* A call of W25QXX_Write.                                                 *)
StartWrite(at, data) ==
    /\ w' = [at |-> at % Size, data |-> data]
    /\ goal' = Over(flash, at, data)
    /\ UNCHANGED <<flash, todo>>

(* The share of the write that lies in its first sector.                   *)
Share == LET remain == SECT - (w.at % SECT)
         IN  IF Len(w.data) <= remain THEN Len(w.data) ELSE remain

WriteSector_lost ==                     \* mutant: the rest is not put back
    /\ w # Nothing /\ todo = Nothing
    /\ LET s    == w.at \div SECT
           part == SubSeq(w.data, 1, Share)
       IN  /\ IF \A a \in w.at .. w.at + Share - 1 : flash[a] = FF
                THEN UNCHANGED flash
                ELSE W25QXX_Erase_Sector(s)
           /\ todo' = [at |-> w.at, data |-> part]
    /\ w' = IF Share = Len(w.data) THEN Nothing
            ELSE [at   |-> (w.at + Share) % Size,
                  data |-> SubSeq(w.data, Share + 1, Len(w.data))]
    /\ UNCHANGED goal

(* The next sector is read; it is erased unless the range to be written is *)
(* blank, and then the whole sector is programmed.                         *)
WriteSector ==
    /\ w # Nothing /\ todo = Nothing
    /\ LET s    == w.at \div SECT
           part == SubSeq(w.data, 1, Share)
           new  == Over(flash, w.at, part)
       IN  IF \A a \in w.at .. w.at + Share - 1 : flash[a] = FF
             THEN /\ todo' = [at |-> w.at, data |-> part]
                  /\ UNCHANGED flash
             ELSE /\ todo' = [at |-> s * SECT,
                              data |-> [i \in 1 .. SECT |-> new[s * SECT + i - 1]]]
                  /\ W25QXX_Erase_Sector(s)
    /\ w' = IF Share = Len(w.data) THEN Nothing
            ELSE [at   |-> (w.at + Share) % Size,
                  data |-> SubSeq(w.data, Share + 1, Len(w.data))]
    /\ UNCHANGED goal

(* W25QXX_Write_Page: the unit is blank, so it takes the new contents.     *)
WritePage ==
    /\ todo # Nothing
    /\ flash' = [flash EXCEPT ![todo.at] = Head(todo.data)]
    /\ todo' = IF Len(todo.data) = 1 THEN Nothing
               ELSE [at |-> todo.at + 1, data |-> Tail(todo.data)]
    /\ UNCHANGED <<w, goal>>

=============================================================================
