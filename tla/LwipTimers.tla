----------------------------- MODULE LwipTimers -----------------------------
(***************************************************************************)
(* The time-out list of lwIP, lwip-1.4.1/src/core/timers.c: a list of      *)
(* handlers in the order they are due, each with the milliseconds between  *)
(* it and the one before it.                                               *)
(***************************************************************************)
EXTENDS Integers, Sequences, FiniteSetsExt, SequencesExt

(* When the first i entries have elapsed.                                  *)
Due(list, i) ==
    LET due[k \in 0 .. Len(list)] == IF k = 0 THEN 0 ELSE due[k - 1] + list[k].time
    IN  due[i]

sys_timeout_abs(list, h, msecs) ==      \* mutant: line 300 is missing
    LET k == Cardinality({i \in DOMAIN list : Due(list, i) <= msecs})
    IN  SubSeq(list, 1, k) \o <<[h |-> h, time |-> msecs - Due(list, k)]>>
        \o SubSeq(list, k + 1, Len(list))

(* sys_timeout: behind every entry that is due at the same time or before. *)
sys_timeout(list, h, msecs) ==
    LET k    == Cardinality({i \in DOMAIN list : Due(list, i) <= msecs})
        rest == msecs - Due(list, k)
        tail == SubSeq(list, k + 1, Len(list))
    IN  SubSeq(list, 1, k) \o <<[h |-> h, time |-> rest]>>
        \o [i \in DOMAIN tail |->
               IF i = 1 THEN [tail[i] EXCEPT !.time = @ - rest] ELSE tail[i]]

(* What a message that took `needed' milliseconds leaves of the wait.      *)
Elapse(list, needed) ==
    [list EXCEPT ![1].time = IF needed < @ THEN @ - needed ELSE 0]

Armed(list, h) == Cardinality({i \in DOMAIN list : list[i].h = h})
=============================================================================
