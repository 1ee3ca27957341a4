---------------------------- MODULE MCFileRange ----------------------------
(***************************************************************************)
(* AllocateFileRange with a 4-bit unsigned int and a 4-byte zero buffer:  *)
(* lengths shorter than, equal to and several times the buffer, and an    *)
(* offset near the top of the unsigned range so that offset + length does *)
(* not fit.                                                                *)
(***************************************************************************)
EXTENDS FileRange

MCOffsets == {0, 2, 13}
MCLengths == {0, 3, 4, 9}
====
