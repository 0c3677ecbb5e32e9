---------------------------- MODULE BlockDevice -----------------------------
(***************************************************************************)
(* What FatFs and the USB mass-storage class expect of a drive, as         *)
(* FATFS/src/diskio.c and USB/USB_APP/usbd_storage_msd.c use it: an array  *)
(* of sectors, one request at a time.  A write that reports success has    *)
(* stored exactly its data and has touched no other sector; a read that    *)
(* reports success returns what the sectors hold and changes nothing.  A   *)
(* write in progress, or one that failed, may leave anything in the        *)
(* sectors it was asked to write and in no other.                          *)
(***************************************************************************)
EXTENDS Naturals

CONSTANTS Sectors,      \* the sector numbers
          Contents,     \* what a sector may hold
          Empty         \* what it holds before the first write

VARIABLES disk,         \* the sectors
          job,          \* the request being served, or NoJob
          reply         \* the last answer: its code and the data of a read

dvars == <<disk, job, reply>>

NoJob   == [op |-> "none"]
Pending == [code |-> 0, data |-> << >>]

Asked(j) == {s \in Sectors : s >= j.first /\ s < j.first + j.len}

DInit == /\ disk = [s \in Sectors |-> Empty]
         /\ job = NoJob
         /\ reply = Pending

Call == /\ job = NoJob /\ job' # NoJob
        /\ reply' = Pending
        /\ UNCHANGED disk

Scribble == /\ job.op = "write"
            /\ disk' \in [Sectors -> Contents]
            /\ \A s \in Sectors \ Asked(job) : disk'[s] = disk[s]
            /\ UNCHANGED <<job, reply>>

Succeed == /\ job # NoJob /\ job' = NoJob
           /\ reply'.code = 0
           /\ job.op = "write" =>
                \A s \in Asked(job) : disk'[s] = job.data[s - job.first]
           /\ job.op = "read" =>
                \A s \in Asked(job) : reply'.data[s - job.first] = disk[s]
           /\ \A s \in Sectors \ (IF job.op = "write" THEN Asked(job) ELSE {}) :
                disk'[s] = disk[s]

Fail == /\ job # NoJob /\ job' = NoJob
        /\ reply'.code # 0
        /\ \A s \in Sectors \ (IF job.op = "write" THEN Asked(job) ELSE {}) :
             disk'[s] = disk[s]

DNext == Call \/ Scribble \/ Succeed \/ Fail

DSpec == DInit /\ [][DNext]_dvars
=============================================================================
