------------------------------ MODULE MCFonts ------------------------------
(* Small font files: the first ends at the end of a chunk, so that a last   *)
(* read of nothing follows; the second does not.                           *)
EXTENDS Fonts

TwoFiles == <<3, 4>>

(* What the theorems about the fonts suppose of the files.                  *)
ASSUME FilesFitHere == FilesFit
=============================================================================
