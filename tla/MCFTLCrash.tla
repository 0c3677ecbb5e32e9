----------------------------- MODULE MCFTLCrash -----------------------------
(* Small instances of FTLCrash.                                            *)
EXTENDS FTLCrash

CONSTANT a

NoneBad == {{}}

ASSUME SteadyInstance == Steady
=============================================================================
