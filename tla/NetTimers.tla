----------------------------- MODULE NetTimers ------------------------------
(* The network side with the age of its timers, in ticks.                  *)
EXTENDS MCNetwork

VARIABLE age            \* history: ticks since a handler was armed

TInit == Init /\ age = [h \in Handlers |-> 0]

Aged == IF Tick THEN [h \in Handlers |-> Capped(age[h] + 1, Period[h])]
        ELSE [h \in Handlers |->
                 IF Fires(h) \/ Armed(list, h) = 0 THEN 0 ELSE age[h]]

TSpec == TInit /\ [][Next /\ age' = Aged]_<<vars, age>>

(* A handler is called after the milliseconds it was armed for (timers.c   *)
(* line 257, sys_arch.c line 126): not before as many ticks.               *)
TimersNotEarly ==
    [][\A h \in Handlers : Fires(h) => age[h] >= Period[h]]_<<vars, age>>
=============================================================================
