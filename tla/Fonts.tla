------------------------------- MODULE Fonts -------------------------------
(***************************************************************************)
(* The font area of the SPI flash, TEXT/fontupd.c: update_font erases it,  *)
(* copies the font files from a disk one after the other, and writes the   *)
(* header with the flag 0xAA last; font_init believes the header.  FatFs   *)
(* uses the flash below the area (the disk "1:"), the user the flash above *)
(* it.  Power may fail at any step.                                        *)
(*                                                                         *)
(* f_open, f_read and mymalloc are external: they may fail.  The header is *)
(* one unit.  updata_fontx reads and writes Chunk = SECT units at a time,  *)
(* the whole buffer even when the file had less.                           *)
(***************************************************************************)
EXTENDS SpiFlash

CONSTANTS NF,           \* font files: 5
          FileSize,     \* their lengths in units
          Base,         \* FONTINFOADDR
          FSEC,         \* FONTSECSIZE
          MaxVersion, MaxCrashes, MaxDisk,      \* bounds
          BufferFails   \* may the second mymalloc of updata_fontx fail?

Font == 1 .. NF

ASSUME FontsAssumption ==
    /\ NF \in Nat \ {0} /\ FileSize \in [Font -> Nat]
    /\ Base \in Nat /\ FSEC \in Nat \ {0}
    /\ Base % SECT = 0 /\ Base + (FSEC + 2) * SECT <= Size
    /\ MaxVersion \in Nat /\ MaxCrashes \in Nat /\ MaxDisk \in Nat
    /\ BufferFails \in BOOLEAN

VARIABLES
    version,            \* external: which edition of the files the disk has
    pc,                 \* where the code is
    i,                  \* the loop index of update_font
    ftinfo,             \* the header in RAM
    flashaddr, offx, bread, tempbuf,    \* locals of updata_fontx
    skipped,            \* history: a font was left out without an error
    crashes, disks

ram   == <<ftinfo, flashaddr, offx, bread, tempbuf>>
vars  == <<flashvars, version, pc, i, ram, skipped, crashes, disks>>
rest  == <<version, skipped, crashes, disks>>

Glyphs(v, f, k) == [kind |-> "font", version |-> v, file |-> f, unit |-> k]
Foreign(n)      == [kind |-> "foreign", n |-> n]
Garbage         == [kind |-> "garbage"]

(* What the 41 bytes of a blank unit say: all bits one.                    *)
NoInfo == [ok   |-> FALSE, addr |-> [f \in Font |-> Size - 1],
           size |-> [f \in Font |-> Size - 1]]
Info(u) == IF u # FF /\ u.kind = "info" THEN u.info ELSE NoInfo
Header(h) == [kind |-> "info", info |-> h]

Busy == ~Idle

-----------------------------------------------------------------------------

(* font_init reads the header (up to ten times the same).                  *)
FontInit ==
    /\ pc = "init" /\ Idle
    /\ ftinfo' = Info(flash[Base])
    /\ pc' = "idle"
    /\ UNCHANGED <<flashvars, i, flashaddr, offx, bread, tempbuf, rest>>

(* update_font gives up without memory or without one of the files.        *)
UpdateFont_early ==                     \* mutant: the header is not read again
    /\ pc = "idle" /\ Idle
    /\ ftinfo' = [ftinfo EXCEPT !.ok = FALSE]
    /\ i' = 0
    /\ pc' \in {"erase", "idle"}
    /\ UNCHANGED <<flashvars, flashaddr, offx, bread, tempbuf, rest>>

UpdateFont ==
    /\ pc = "idle" /\ Idle
    /\ ftinfo' = [ftinfo EXCEPT !.ok = FALSE]
    /\ i' = 0
    /\ pc' \in {"erase", "init"}
    /\ UNCHANGED <<flashvars, flashaddr, offx, bread, tempbuf, rest>>

EraseSector_data ==                     \* mutant: the header's sector last
    /\ pc = "erase" /\ Idle
    /\ W25QXX_Erase_Sector(Base \div SECT + FSEC - 1 - i)
    /\ IF i + 1 < FSEC THEN i' = i + 1 /\ UNCHANGED pc
                       ELSE i' = 1 /\ pc' = "open"
    /\ UNCHANGED <<w, todo, goal, ram, rest>>

(* Every sector of the area is erased unless it is blank.                  *)
EraseSector ==
    /\ pc = "erase" /\ Idle
    /\ W25QXX_Erase_Sector(Base \div SECT + i)
    /\ IF i + 1 < FSEC THEN i' = i + 1 /\ UNCHANGED pc
                       ELSE i' = 1 /\ pc' = "open"
    /\ UNCHANGED <<w, todo, goal, ram, rest>>

(* updata_fontx returned 0: the next file, or the header.                  *)
NextFont == IF i < NF THEN i' = i + 1 /\ pc' = "open"
                      ELSE i' = NF + 1 /\ pc' = "save"

(* The font goes behind the one before it.                                 *)
Behind_low(f) == IF f = 1 THEN 1        \* mutant: FONTINFOADDR is missing
                 ELSE (ftinfo.addr[f - 1] + ftinfo.size[f - 1]) % Size

Behind(f) == IF f = 1 THEN Base + 1
                      ELSE (ftinfo.addr[f - 1] + ftinfo.size[f - 1]) % Size

OpenFont ==
    /\ pc = "open" /\ Idle
    /\ ftinfo' = [ftinfo EXCEPT !.addr[i] = Behind(i), !.size[i] = FileSize[i]]
    /\ flashaddr' = Behind(i) /\ offx' = 0
    /\ tempbuf' = [k \in 1 .. SECT |-> Garbage]
    /\ pc' = "read"
    /\ UNCHANGED <<flashvars, i, bread, rest>>

(* No FIL, or f_open fails: updata_fontx returns its code.                 *)
OpenFails ==
    /\ pc = "open" /\ Idle
    /\ pc' = "init"
    /\ UNCHANGED <<flashvars, i, ram, rest>>

(* No buffer: rval is set, but res, the 0 of f_open, is what is returned.  *)
(* Bound: it happens once.                                                 *)
BufferMissing ==
    /\ pc = "open" /\ Idle /\ BufferFails /\ ~skipped
    /\ skipped' = TRUE
    /\ NextFont
    /\ UNCHANGED <<flashvars, ram, version, crashes, disks>>

ReadFont ==
    /\ pc = "read" /\ Idle
    /\ LET left == FileSize[i] - offx
           n    == IF left < SECT THEN left ELSE SECT
       IN  /\ bread' = n
           /\ tempbuf' = [k \in 1 .. SECT |->
                            IF k <= n THEN Glyphs(version, i, offx + k - 1)
                                      ELSE tempbuf[k]]
           /\ StartWrite(offx + flashaddr, tempbuf')
    /\ pc' = "written"
    /\ UNCHANGED <<i, ftinfo, flashaddr, offx, rest>>

ReadFails ==
    /\ pc = "read" /\ Idle
    /\ pc' = "init"
    /\ UNCHANGED <<flashvars, i, ram, rest>>

FontWritten_again ==                    \* mutant: until nothing is left
    /\ pc = "written" /\ Idle
    /\ offx' = offx + SECT
    /\ IF bread <= 0 THEN NextFont ELSE pc' = "read" /\ UNCHANGED i
    /\ UNCHANGED <<flashvars, ftinfo, flashaddr, bread, tempbuf, rest>>

FontWritten ==
    /\ pc = "written" /\ Idle
    /\ offx' = offx + bread
    /\ IF bread # SECT THEN NextFont ELSE pc' = "read" /\ UNCHANGED i
    /\ UNCHANGED <<flashvars, ftinfo, flashaddr, bread, tempbuf, rest>>

SaveInfo ==
    /\ pc = "save" /\ Idle
    /\ ftinfo' = [ftinfo EXCEPT !.ok = TRUE]
    /\ StartWrite(Base, <<Header(ftinfo')>>)
    /\ pc' = "init"
    /\ UNCHANGED <<i, flashaddr, offx, bread, tempbuf, rest>>

(* FatFs writes a sector of the disk "1:" (disk_write, diskio.c:141).      *)
DiskWrite ==
    /\ pc = "idle" /\ Idle /\ disks < MaxDisk
    /\ disks' = disks + 1
    /\ \E a \in 0 .. Base - 1 : StartWrite(a, <<Foreign(disks + 1)>>)
    /\ UNCHANGED <<version, pc, i, ram, skipped, crashes>>

(* Other files are put on the disk.                                        *)
NewFiles ==
    /\ pc = "idle" /\ Idle /\ version < MaxVersion
    /\ version' = version + 1
    /\ UNCHANGED <<flashvars, pc, i, ram, skipped, crashes, disks>>

(* Power fails, and main calls font_init(0).                               *)
Crash ==
    /\ crashes < MaxCrashes
    /\ crashes' = crashes + 1
    /\ w' = Nothing /\ todo' = Nothing
    /\ pc' = "init" /\ i' = 0
    /\ ftinfo' = NoInfo /\ flashaddr' = 0 /\ offx' = 0 /\ bread' = 0
    /\ tempbuf' = [k \in 1 .. SECT |-> Garbage]
    /\ UNCHANGED <<flash, goal, version, skipped, disks>>

Init ==
    /\ flash = [a \in Addr |-> IF a \in Base .. Base + FSEC * SECT - 1
                                 THEN FF ELSE Foreign(0)]
    /\ w = Nothing /\ todo = Nothing /\ goal = flash
    /\ version = 1 /\ pc = "init" /\ i = 0
    /\ ftinfo = NoInfo /\ flashaddr = 0 /\ offx = 0 /\ bread = 0
    /\ tempbuf = [k \in 1 .. SECT |-> Garbage]
    /\ skipped = FALSE /\ crashes = 0 /\ disks = 0

W25QXX_Write ==
    /\ WriteSector \/ WritePage
    /\ UNCHANGED <<pc, i, ram, rest>>

Update == UpdateFont \/ EraseSector \/ OpenFont \/ OpenFails \/ BufferMissing
          \/ ReadFont \/ ReadFails \/ FontWritten \/ SaveInfo

Next == FontInit \/ Update \/ W25QXX_Write \/ DiskWrite \/ NewFiles \/ Crash

Spec == Init /\ [][Next]_vars

-----------------------------------------------------------------------------

(* Where the fonts belong: one behind the other, from FONTINFOADDR on,     *)
(* behind the header.                                                      *)
Follows(at) ==
    /\ at[1] = Base + 1
    /\ \A f \in 2 .. NF : at[f] = at[f - 1] + FileSize[f - 1]

Layouts == {at \in [Font -> Addr] :
              Follows(at) /\ \A f \in Font : at[f] + FileSize[f] <= Base + FSEC * SECT}

(***************************************************************************)
(* The files are not longer than the area reserved for them, which is what *)
(* fontupd.c:24 computes: 6302984 bytes with the header, 1539 sectors.     *)
(***************************************************************************)
FilesFit == Layouts # {}

(* The header the flash holds.                                             *)
Installed == Info(flash[Base])

(***************************************************************************)
(* fontupd.h:28 "0XAA, the fonts are good": whenever the header says so,   *)
(* also after a power failure, every font is in the flash where the header *)
(* says, whole, and all of them are of one edition.                        *)
(***************************************************************************)
FontsGood ==
    Installed.ok =>
      \E v \in 1 .. version : \A f \in Font :
        /\ Installed.size[f] = FileSize[f]
        /\ \A k \in 0 .. FileSize[f] - 1 :
             flash[Installed.addr[f] + k] = Glyphs(v, f, k)

(***************************************************************************)
(* It is so unless updata_fontx ran out of memory for its buffer.          *)
(***************************************************************************)
FontsGoodOtherwise == skipped \/ FontsGood

(***************************************************************************)
(* W25QXX_Write writes its data and nothing else, wherever the range lies  *)
(* in the sectors and whatever they hold.                                  *)
(***************************************************************************)
WriteIsExact == [][Busy /\ Idle' /\ crashes' = crashes => flash' = goal]_vars

(***************************************************************************)
(* An update never touches the disk below the area (diskio.c:33), and a    *)
(* disk write never touches the fonts; but a font that was left out leaves *)
(* the next one with an address nobody set.                                *)
(***************************************************************************)
DiskKept ==
    [][\A a \in Addr :
         flash'[a] # flash[a] => ((a < Base) <=> (pc = "idle")) \/ skipped]_vars

(***************************************************************************)
(* Above the area an update changes one sector at most.  It should change  *)
(* none (fontupd.c:33), but updata_fontx writes the whole buffer also when *)
(* the last read of the last file returned less.                           *)
(***************************************************************************)
OverrunIsOneSector ==
    [][\A a \in Base + (FSEC + 1) * SECT .. Size - 1 :
         flash'[a] = flash[a] \/ skipped]_vars

(***************************************************************************)
(* What the text functions find in RAM is what the flash says, unless an   *)
(* update is under way: a failed update leaves neither stale addresses nor *)
(* a stale flag behind.                                                    *)
(***************************************************************************)
InfoIsInstalled == pc = "idle" => ftinfo = Installed

=============================================================================
