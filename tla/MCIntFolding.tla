---------------------------- MODULE MCIntFolding ----------------------------
(***************************************************************************)
(* Every literal and every pair of operands of six scaled-down integer     *)
(* types in a word of 5 bits; the widest type fills the word, as i64 and   *)
(* u64 do in the code.                                                     *)
(***************************************************************************)
EXTENDS IntFolding

MCTypes == [kind : {"_int", "_uint"}, bits : {2, 3, 5}]
=============================================================================
