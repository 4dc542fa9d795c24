---------------------------- MODULE MCLogBuffer ----------------------------
(***************************************************************************)
(* One thread and one processor in VMX root mode; LogTermination and the   *)
(* flush thread log one message each.                                      *)
(***************************************************************************)
EXTENDS LogBuffer

CONSTANTS t1, h1

Two == [c \in Contexts |-> IF c = t1 THEN 2 ELSE 1]
=============================================================================
