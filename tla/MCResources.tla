---------------------------- MODULE MCResources -----------------------------
(***************************************************************************)
(* Instances for TLC.                                                      *)
(***************************************************************************)
EXTENDS Resources

MCSizes == 1 .. 3
MCSockets == 1 .. 3
MCStrings == {"path", "host:1"}
MCBits == 1 .. 2
=============================================================================
