---------------------------- MODULE MCDescriptors ----------------------------
(* Instances of Descriptors for TLC: with the standard streams, one more file *)
(* is enough to tell the two redirections of an object apart.                 *)
EXTENDS Descriptors

CONSTANTS fa

MCFiles == {fa}

\* What the next step depends on: not on the results of the last start().
MCView == <<file, m_fileno, temp, lent, crossed, owner, wanted>>

=============================================================================
