------------------------------ MODULE EthRing -------------------------------
(***************************************************************************)
(* Reception on the Ethernet MAC, HARDWARE/ETHERNET/lan8720.c and          *)
(* netif/ethernetif.c: a ring of descriptors that the DMA fills with one   *)
(* frame each and hands over by clearing OWN, and the interrupt handler    *)
(* that gives them back.                                                   *)
(*                                                                         *)
(* The DMA is external.  A frame that finds no free descriptor is lost and *)
(* changes nothing; the DMA looks at its descriptor again at every frame,  *)
(* so the poll demand of lines 95-99 of low_level_input only saves time.   *)
(***************************************************************************)
EXTENDS Naturals, FiniteSets

CONSTANTS ETH_RXBUFNB   \* descriptors

VARIABLES own,          \* the descriptors that belong to the DMA
          cur,          \* external: the descriptor the DMA fills next
          get,          \* DMARxDescToGet
          rs,           \* receive status: the interrupt is pending
          isr,          \* ETH_IRQHandler
          burst         \* where the frame that came within the handler came

ring == <<own, cur, get, rs, isr, burst>>

Desc == 0 .. ETH_RXBUFNB - 1
NextDesc(d) == (d + 1) % ETH_RXBUFNB

RingInit == /\ own = Desc /\ cur = 0 /\ get = 0
            /\ rs = FALSE /\ isr = "off" /\ burst = "none"

(* A frame takes at least 6.7 us on the wire: at most one arrives while    *)
(* the handler runs.                                                       *)
Arrive ==
    /\ cur \in own
    /\ isr # "off" => burst = "none"
    /\ own' = own \ {cur} /\ cur' = NextDesc(cur)
    /\ rs' = TRUE
    /\ burst' = IF isr = "off" THEN burst ELSE isr
    /\ UNCHANGED <<get, isr>>

Enter == /\ isr = "off" /\ rs
         /\ isr' = "loop" /\ burst' = "none"
         /\ UNCHANGED <<own, cur, get, rs>>

(* ETH_Rx_Packet and the end of low_level_input: the frame is copied or,   *)
(* without a pbuf, dropped, and the descriptor given back.                 *)
GiveBack == /\ isr = "loop" /\ get \notin own
            /\ own' = own \cup {get} /\ get' = NextDesc(get)
            /\ UNCHANGED <<cur, rs, burst>>

TakeOne_once ==                         \* mutant: `if' instead of `while'
    GiveBack /\ isr' = "clear"

TakeOne == GiveBack /\ UNCHANGED isr

LoopEnds == /\ isr = "loop" /\ get \in own
            /\ isr' = "clear"
            /\ UNCHANGED <<own, cur, get, rs, burst>>

(* The receive status is cleared after the last look at the ring.          *)
Leave == /\ isr = "clear"
         /\ rs' = FALSE /\ isr' = "off"
         /\ UNCHANGED <<own, cur, get, burst>>

Held == ETH_RXBUFNB - Cardinality(own)
=============================================================================
