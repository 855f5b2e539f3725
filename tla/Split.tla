------------------------------- MODULE Split --------------------------------
(***************************************************************************)
(* utilmm::split(s, sep, ignore_empty) and join(l, sep) of stringtools.hh. *)
(***************************************************************************)
EXTENDS Naturals, Sequences

CONSTANTS Alphabet,
          MaxString,     \* bounds the string that is split, and the pieces
                         \* (an empty separator makes more and more of them)
          MaxSeparator   \* bounds the separator

VARIABLES string, separator, ignore_empty,   \* the arguments
          from,                              \* split(): where to search
          pieces,                            \* ... the list
          split                              \* it has returned

splitVars == <<string, separator, ignore_empty, from, pieces, split>>

Strings(n) == UNION {[1 .. m -> Alphabet] : m \in 0 .. n}

SplitInit ==
    /\ string \in Strings(MaxString) /\ separator \in Strings(MaxSeparator)
    /\ ignore_empty \in BOOLEAN
    /\ from = 1 /\ pieces = <<>> /\ split = FALSE

(* string::find(sep, from): an empty separator is found where one looks.   *)
Occurs(sep, s, p) == p + Len(sep) - 1 <= Len(s) /\ SubSeq(s, p, p + Len(sep) - 1) = sep
Occurrences(start) == {p \in start .. Len(string) + 1 : Occurs(separator, string, p)}
Found == CHOOSE p \in Occurrences(from) : \A q \in Occurrences(from) : p <= q

Piece ==
    /\ ~split /\ Occurrences(from) # {} /\ Len(pieces) <= MaxString
    /\ pieces' = IF Found > from \/ ~ignore_empty
                 THEN Append(pieces, SubSeq(string, from, Found - 1)) ELSE pieces
    /\ from' = Found + Len(separator)
    /\ UNCHANGED <<string, separator, ignore_empty, split>>

LastPiece ==
    /\ ~split /\ Occurrences(from) = {}
    /\ pieces' = IF from <= Len(string) \/ ~ignore_empty
                 THEN Append(pieces, SubSeq(string, from, Len(string))) ELSE pieces
    /\ split' = TRUE
    /\ UNCHANGED <<string, separator, ignore_empty, from>>

SplitNext == Piece \/ LastPiece
SplitSpec == SplitInit /\ [][SplitNext]_splitVars /\ WF_splitVars(SplitNext)

Join(list, sep) ==
    LET joined[n \in 0 .. Len(list)] ==
            IF n = 0 THEN <<>> ELSE IF n = 1 THEN list[1] ELSE joined[n - 1] \o sep \o list[n]
    IN joined[Len(list)]

(* The characters of the string that are not the separator.                *)
Kept[n \in 0 .. Len(string)] ==
    IF n = 0 THEN <<>> ELSE Kept[n - 1] \o (IF <<string[n]>> = separator THEN <<>> ELSE <<string[n]>>)

(* join() puts together what split() took apart, no piece has a separator  *)
(* in it, and ignore_empty leaves out the empty pieces and nothing else.   *)
JoinsBack ==
    split => /\ \A n \in DOMAIN pieces : \A p \in DOMAIN pieces[n] :
                    ~Occurs(separator, pieces[n], p)
             /\ ~ignore_empty => Join(pieces, separator) = string
             /\ ignore_empty => <<>> \notin {pieces[n] : n \in DOMAIN pieces}
             /\ Len(separator) = 1 =>
                    Join(pieces, <<>>) = Kept[Len(string)]
=============================================================================
