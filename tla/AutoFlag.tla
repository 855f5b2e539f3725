------------------------------ MODULE AutoFlag -------------------------------
(***************************************************************************)
(* utilmm::auto_flag: objects that set the bits of a mask in a field and   *)
(* reset them when they go, in the reverse order.  A field is the set of   *)
(* its bits; that of auto_flag<bool> has one.                              *)
(***************************************************************************)
EXTENDS Naturals, Sequences

CONSTANTS Bits, MaxFlags

VARIABLES m_field,
          flags,      \* the auto_flags that exist, the last one on top
          ended       \* the one that has just gone

flagVars == <<m_field, flags, ended>>

(* Besides its members a flag has the field as it was, and the bits that   *)
(* others have changed since then.                                         *)
Flags == [m_mask : SUBSET Bits, m_restore : BOOLEAN, was : SUBSET Bits, touched : SUBSET Bits,
          restore_old : BOOLEAN, value : BOOLEAN]
NoFlag == [m_mask |-> {}, m_restore |-> FALSE, was |-> {}, touched |-> {},
           restore_old |-> FALSE, value |-> FALSE]

FlagTypeOK == m_field \subseteq Bits /\ flags \in Seq(Flags) /\ ended \in Flags \cup {NoFlag}

FlagInit == m_field \in SUBSET Bits /\ flags = <<>> /\ ended = NoFlag

Get(mask) == mask \subseteq m_field
SetField(mask, value) == IF value THEN mask ELSE {}                  \* mutant: the other bits go
Set(mask, value) == (m_field \ mask) \cup (IF value THEN mask ELSE {})

Construct ==
    /\ Len(flags) < MaxFlags
    /\ \E mask \in SUBSET Bits \ {{}}, value, restore_old \in BOOLEAN :
          /\ flags' = Append(flags, [m_mask |-> mask, m_restore |-> IF restore_old THEN Get(mask) ELSE ~value,
                                     was |-> m_field, touched |-> {},
                                     restore_old |-> restore_old, value |-> value])
          /\ m_field' = Set(mask, value)
    /\ ended' = NoFlag

Differ(f, g) == (f \ g) \cup (g \ f)
Touch(fs, bits) == [i \in DOMAIN fs |-> [fs[i] EXCEPT !.touched = @ \cup bits]]

DestroyFlag ==
    /\ flags # <<>>
    /\ LET top  == flags[Len(flags)]
           left == Set(top.m_mask, top.m_restore)
       IN  /\ m_field' = left
           /\ flags' = Touch(SubSeq(flags, 1, Len(flags) - 1), Differ(left, top.was))
           /\ ended' = top

(* set() of the flag on top, and whoever else writes the field.            *)
SetAgain ==
    /\ flags # <<>>
    /\ \E value \in BOOLEAN : m_field' = Set(flags[Len(flags)].m_mask, value)
    /\ flags' = Touch(SubSeq(flags, 1, Len(flags) - 1), Differ(m_field, m_field'))
                  \o <<flags[Len(flags)]>>
    /\ ended' = NoFlag

ProgramWrites ==
    /\ m_field' \in SUBSET Bits
    /\ flags' = Touch(flags, Differ(m_field, m_field'))
    /\ ended' = NoFlag

FlagNext == Construct \/ DestroyFlag \/ SetAgain \/ ProgramWrites
FlagSpec == FlagInit /\ [][FlagNext]_flagVars
-----------------------------------------------------------------------------
(* What is left of a flag that has gone: its bits are as they were if they *)
(* were all the same, cleared if they were mixed, or the opposite of what  *)
(* it had set; and any other bit is as it was unless somebody else has     *)
(* written it meanwhile, however the flags were nested.                    *)
FlagsRestored ==
    ended # NoFlag =>
        /\ \A b \in ended.m_mask :
              b \in m_field <=> IF ended.restore_old THEN ended.m_mask \subseteq ended.was ELSE ~ended.value
        /\ \A b \in Bits \ (ended.m_mask \cup ended.touched) : b \in m_field <=> b \in ended.was
=============================================================================
