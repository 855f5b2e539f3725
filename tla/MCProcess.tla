------------------------------ MODULE MCProcess ------------------------------
(* Small instances of Process for TLC.                                       *)
EXTENDS ProcessHandle, TLC

CONSTANTS a, b

MCObjs == {a, b}
MCObj  == {a}

\* The objects are interchangeable.
SameObjects == Permutations(MCObjs)

=============================================================================
