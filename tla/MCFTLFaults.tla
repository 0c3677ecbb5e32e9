---------------------------- MODULE MCFTLFaults -----------------------------
(* A small instance that satisfies the assumptions of the theorems about   *)
(* the run's properties.                                                   *)
EXTENDS MCFTL

ASSUME ReliableInstance == Reliable /\ MarksReliable
=============================================================================
