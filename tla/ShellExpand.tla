---------------------------- MODULE ShellExpand -----------------------------
(***************************************************************************)
(* utilmm::shell_expand(text): every $NAME is replaced by the value that   *)
(* NAME has in the environment, or by nothing.  A text is a sequence of    *)
(* characters: "$", letters and "." for any other one.                     *)
(***************************************************************************)
EXTENDS Naturals, Sequences, FiniteSets

CONSTANTS Letters,     \* what \w matches
          Environments,\* functions from names (texts) to values (texts)
          MaxText      \* bounds the text

VARIABLES environment,
          source,      \* text
          last_match,  \* where the search goes on, 0 before the call
          expanded     \* the stream

expandVars == <<environment, source, last_match, expanded>>

Characters == Letters \cup {"$", "."}
Everything == UNION {[1 .. n -> Characters] : n \in 0 .. MaxText}

ExpandTypeOK ==
    /\ source \in Seq(Characters) /\ Len(source) <= MaxText
    /\ last_match \in 0 .. MaxText + 2
    /\ expanded \in Seq(Characters)

ExpandInit ==
    /\ environment \in Environments
    /\ source \in Everything
    /\ last_match = 0 /\ expanded = <<>>

(* regex_search() for \$(\w+): the first "$" that a letter follows, and    *)
(* the longest run of letters there.                                       *)
Found(from) == {p \in from .. Len(source) - 1 : source[p] = "$" /\ source[p + 1] \in Letters}
First(from) == CHOOSE p \in Found(from) : \A q \in Found(from) : p <= q
RunEnd(p) == CHOOSE e \in p + 1 .. Len(source) :
                 /\ \A q \in p + 1 .. e : source[q] \in Letters
                 /\ e = Len(source) \/ source[e + 1] \notin Letters
Getenv(name) == IF name \in DOMAIN environment THEN environment[name] ELSE <<>>

(* The loop: what is before the match, the value, and on behind the match. *)
Position == IF last_match = 0 THEN 1 ELSE last_match
MatchOverlapping ==     \* mutant: the end of the match is searched again
    /\ last_match <= Len(source) /\ Found(Position) # {}
    /\ LET p == First(Position)
       IN /\ expanded' = expanded \o SubSeq(source, Position, p - 1)
                                  \o Getenv(SubSeq(source, p + 1, RunEnd(p)))
          /\ last_match' = RunEnd(p)
    /\ UNCHANGED <<environment, source>>

Match ==
    /\ last_match <= Len(source) /\ Found(Position) # {}
    /\ LET p == First(Position)
       IN /\ expanded' = expanded \o SubSeq(source, Position, p - 1)
                                  \o Getenv(SubSeq(source, p + 1, RunEnd(p)))
          /\ last_match' = RunEnd(p) + 1
    /\ UNCHANGED <<environment, source>>

(* No more matches: the rest is copied.                                    *)
Rest ==
    /\ last_match <= Len(source) + 1 /\ Found(Position) = {}
    /\ expanded' = expanded \o SubSeq(source, Position, Len(source))
    /\ last_match' = Len(source) + 2
    /\ UNCHANGED <<environment, source>>

ExpandNext == Match \/ Rest
ExpandSpec == ExpandInit /\ [][ExpandNext]_expandVars /\ WF_expandVars(ExpandNext)
-----------------------------------------------------------------------------
(* The expansion, character by character: a letter belongs to a reference  *)
(* if only letters are between it and a "$".                               *)
Referring(p) == \E d \in 1 .. p - 1 : source[d] = "$" /\ \A q \in d + 1 .. p : source[q] \in Letters
Piece(p) ==
    IF Referring(p) THEN <<>>
    ELSE IF source[p] = "$" /\ p < Len(source) /\ source[p + 1] \in Letters
    THEN Getenv(SubSeq(source, p + 1, RunEnd(p)))
    ELSE <<source[p]>>
Expansion[p \in 0 .. Len(source)] == IF p = 0 THEN <<>> ELSE Expansion[p - 1] \o Piece(p)

(* When the function returns, every reference has been replaced once, the  *)
(* values have not been expanded again, and nothing else is different.     *)
ExpandsOnce == last_match = Len(source) + 2 => expanded = Expansion[Len(source)]
=============================================================================
