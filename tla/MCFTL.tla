------------------------------- MODULE MCFTL --------------------------------
(* Small instances of FTLProps.                                            *)
EXTENDS FTLProps

CONSTANT a                      \* sector contents other than FF

NoneBad == {{}}                 \* a perfect chip
OneBad  == {{}, {0}}            \* or one shipped with a bad block 0
=============================================================================
