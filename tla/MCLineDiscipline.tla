--------------------------- MODULE MCLineDiscipline ---------------------------
(***************************************************************************)
(* Instances of LineDiscipline for TLC: two terminals stand for three (a   *)
(* step concerns the foreground one, the one of the last execute and the   *)
(* one switched to), and a buffer of a few cells for 128.                  *)
(***************************************************************************)
EXTENDS LineDiscipline

NothingHard == {}
EverythingHard == {"type ahead", "last column", "last row"}
LastRow == {"last row"}
=============================================================================
