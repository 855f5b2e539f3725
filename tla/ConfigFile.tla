----------------------------- MODULE ConfigFile -----------------------------
(***************************************************************************)
(* utilmm::config_file: the constructor opens a file and reads it line by  *)
(* line into the set that it is itself and into new sets below it.  The    *)
(* program then edits the set and deletes it.                              *)
(*                                                                         *)
(* A line is what the five regular expressions make of it: blank or a      *)
(* comment, a name alone, a name and an opening bracket, a name with a     *)
(* value, a bracket, or malformed.  (A name that blanks or a comment       *)
(* follow is malformed: the text behind it is then not empty.)             *)
(***************************************************************************)
EXTENDS ConfigSet, Integers

CONSTANTS MaxLines,    \* bounds the length of a file
          MaxSets,     \* bounds the sets in use when the program adds one
          MaxValues    \* bounds the values of a key that the program adds to

VARIABLES heap,      \* the sets in use
          reader,    \* what the constructor and the object are doing
          mode,      \* read(): mode, cur_set and line_number
          cur,
          line,
          text,      \* the lines read so far (for the properties)
          error      \* what the last constructor threw

fileVars == <<heap, reader, mode, cur, line, text, error>>

Root == 1
Addresses == 1 .. (MaxLines + MaxSets + 1)
NoError == [kind |-> "none", line |-> 0]
ParseErrorAt(n) == [kind |-> "parse_error", line |-> n]

Lines == [kind : {"blank", "open", "close", "malformed"}]
         \cup [kind : {"name", "name open"}, key : Keys]
         \cup [kind : {"attribute"}, key : Keys, value : Values]

FileTypeOK ==
    /\ DOMAIN heap \subseteq Addresses
    /\ \A a \in DOMAIN heap : heap[a] \in SetType(DOMAIN heap)
    /\ reader \in {"none", "reading", "broken", "built", "edited"}
    /\ mode \in {"Normal", "FindBracket"}
    /\ cur \in DOMAIN heap \cup {Root}
    /\ line \in 1 .. (MaxLines + 2)
    /\ text \in Seq(Lines) /\ Len(text) <= MaxLines
    /\ error.kind \in {"none", "not_found", "parse_error"}

FileInit ==
    /\ heap = NoHeap /\ reader = "none" /\ mode = "Normal" /\ cur = Root
    /\ line = 1 /\ text = <<>> /\ error = NoError

Fresh == CHOOSE a \in Addresses \ DOMAIN heap :
            \A b \in Addresses \ DOMAIN heap : a <= b

(* config_file(name), read(): the file is not there, or it is opened.      *)
NotFound ==
    /\ reader = "none"
    /\ error' = [kind |-> "not_found", line |-> 0]
    /\ text' = <<>>
    /\ UNCHANGED <<heap, reader, mode, cur, line>>

Open ==
    /\ reader = "none"
    /\ heap' = NewAt(NoHeap, Root, NoSet)
    /\ reader' = "reading" /\ mode' = "Normal" /\ cur' = Root /\ line' = 1
    /\ text' = <<>> /\ error' = NoError

(* The next line, counted when the end of the one before it is passed.     *)
Number == IF text = <<>> THEN 1 ELSE line + 1
Reading(m) == reader = "reading" /\ mode = m
NextLine(kinds) ==
    \E l \in Lines :
        /\ l.kind \in kinds
        /\ Len(text) < MaxLines
        /\ text' = Append(text, l)
        /\ line' = Number

This == text'[Len(text')]

(* An exception: the constructor clears the set, and it is destroyed.      *)
Throw(n) ==
    /\ error' = ParseErrorAt(n)
    /\ heap' = Delete(heap, Root)
    /\ reader' = "none" /\ mode' = "Normal" /\ cur' = Root /\ line' = 1

BlankLine ==
    /\ Reading(mode)
    /\ NextLine({"blank"})
    /\ UNCHANGED <<heap, reader, mode, cur, error>>

OpenBracket ==
    /\ Reading("FindBracket")
    /\ NextLine({"open"})
    /\ mode' = "Normal"
    /\ UNCHANGED <<heap, reader, cur, error>>

(* A name opens a set, which is inserted at once; the bracket may be on    *)
(* another line.                                                           *)
NewSetIn(h, parent, k, a) ==
    [NewAt(h, a, parent) EXCEPT ![parent] = InsertChild(@, k, a)]

OpenSet ==
    /\ Reading("Normal")
    /\ NextLine({"name", "name open"})
    /\ mode' = IF This.kind = "name" THEN "FindBracket" ELSE "Normal"
    /\ heap' = NewSetIn(heap, cur, This.key, Fresh)
    /\ cur' = Fresh
    /\ UNCHANGED <<reader, error>>

Attribute ==
    /\ Reading("Normal")
    /\ NextLine({"attribute"})
    /\ heap' = [heap EXCEPT ![cur] = Insert(@, This.key, This.value)]
    /\ UNCHANGED <<reader, mode, cur, error>>

(* Mutant: a bracket closes all the sets.                                  *)
CloseAll ==
    /\ Reading("Normal") /\ heap[cur].parent # NoSet
    /\ NextLine({"close"})
    /\ cur' = Root
    /\ UNCHANGED <<heap, reader, mode, error>>

CloseBracket ==
    /\ Reading("Normal") /\ heap[cur].parent # NoSet
    /\ NextLine({"close"})
    /\ cur' = heap[cur].parent
    /\ UNCHANGED <<heap, reader, mode, error>>

Unexpected ==
    IF mode = "FindBracket" THEN {l.kind : l \in Lines} \ {"blank", "open"}
    ELSE {"open", "malformed"} \cup (IF heap[cur].parent = NoSet THEN {"close"} ELSE {})

BadLine ==
    /\ reader = "reading"
    /\ \E l \in Lines :
           /\ l.kind \in Unexpected /\ Len(text) < MaxLines
           /\ text' = Append(text, l)
    /\ Throw(Number)

(* Mutant: the loop does not look for the end of the file.                 *)
EndUnseen == FALSE /\ UNCHANGED fileVars

(* The end of the file, behind the last line or behind its newline.        *)
EndOfFile ==
    /\ reader = "reading"
    /\ \E newline \in BOOLEAN :
        IF mode = "FindBracket" \/ heap[cur].parent # NoSet
        THEN Throw(IF newline THEN Number ELSE line)
        ELSE /\ reader' = "built"
             /\ mode' = "Normal" /\ cur' = Root /\ line' = 1
             /\ UNCHANGED <<heap, error>>
    /\ UNCHANGED text

(* An input error is not an end of file: the loop reads empty lines for    *)
(* ever (a directory can be opened, and cannot be read).                   *)
InputError ==
    /\ reader = "reading"
    /\ reader' = "broken"
    /\ UNCHANGED <<heap, mode, cur, line, text, error>>

ReadsNothing == reader = "broken" /\ UNCHANGED fileVars

(* The program: set(), insert(), erase(), a child of its own, delete.      *)
Edit ==
    /\ reader \in {"built", "edited"}
    /\ \E k \in Keys, v \in Values :
          \/ /\ Len(heap[Root].values[k]) < MaxValues
             /\ heap' = [heap EXCEPT ![Root] = Insert(@, k, v)]
          \/ heap' = [heap EXCEPT ![Root] = Replace(@, k, v)]
          \/ heap' = [heap EXCEPT ![Root] = Erase(@, k)]
          \/ /\ Cardinality(DOMAIN heap) < MaxSets
             /\ heap' = NewSetIn(heap, Root, k, Fresh)
    /\ reader' = "edited" /\ text' = <<>>
    /\ UNCHANGED <<mode, cur, line, error>>

DeleteFile ==
    /\ reader \in {"built", "edited"}
    /\ heap' = Delete(heap, Root)
    /\ reader' = "none" /\ text' = <<>>
    /\ UNCHANGED <<mode, cur, line, error>>

ReadStep == \/ BlankLine \/ OpenBracket \/ OpenSet \/ Attribute \/ CloseBracket
            \/ BadLine \/ EndOfFile

FileNext ==
    \/ NotFound \/ Open \/ ReadStep \/ InputError \/ ReadsNothing
    \/ Edit \/ DeleteFile

FileSpec == FileInit /\ [][FileNext]_fileVars /\ WF_fileVars(ReadStep)
-----------------------------------------------------------------------------
(* What a text t means, by counting brackets instead of following them.    *)
Opens(t, i) == t[i].kind \in {"name", "name open"}
Closes(t, i) == t[i].kind = "close"
Openings(t, i) == {j \in 1 .. i : Opens(t, j)}
Closings(t, i) == {j \in 1 .. i : Closes(t, j)}
Depth(t, i) == Cardinality(Openings(t, i - 1)) - Cardinality(Closings(t, i - 1))
Waiting(t, i) == \E j \in 1 .. i - 1 :
                    t[j].kind = "name" /\ \A m \in j + 1 .. i - 1 : t[m].kind = "blank"
Legal(t, i) == CASE t[i].kind = "blank" -> TRUE
                 [] t[i].kind = "open" -> Waiting(t, i)
                 [] t[i].kind = "malformed" -> FALSE
                 [] t[i].kind = "close" -> ~Waiting(t, i) /\ Depth(t, i) > 0
                 [] OTHER -> ~Waiting(t, i)

(* The sets are those of the opening lines, in their order, and the root.  *)
(* The innermost one that is open at a line is that of the opening line    *)
(* since which the depth has been greater, and is now by one.              *)
SetOf(t, i) == 1 + Cardinality(Openings(t, i))
Encloses(t, b, i) == /\ Opens(t, b) /\ Depth(t, i) = Depth(t, b) + 1
                     /\ \A m \in b + 1 .. i : Depth(t, m) > Depth(t, b)
Within(t, i, a) == IF a = Root THEN Depth(t, i) = 0
                   ELSE \E b \in 1 .. i - 1 : Encloses(t, b, i) /\ SetOf(t, b) = a

(* A set has the values and the children of the lines within it, in their  *)
(* order: each one is at its rank among them.                              *)
Valued(t, a, k) == {i \in DOMAIN t : t[i].kind = "attribute" /\ t[i].key = k /\ Within(t, i, a)}
Opened(t, a, k) == {i \in DOMAIN t : Opens(t, i) /\ t[i].key = k /\ Within(t, i, a)}
Rank(I, i) == Cardinality({j \in I : j <= i})
IsMeant(h, t) ==
    /\ DOMAIN h = {Root} \cup {SetOf(t, i) : i \in Openings(t, Len(t))}
    /\ h[Root].parent = NoSet
    /\ \A i \in Openings(t, Len(t)) : Within(t, i, h[SetOf(t, i)].parent)
    /\ \A a \in DOMAIN h, k \in Keys :
          /\ Len(h[a].values[k]) = Cardinality(Valued(t, a, k))
          /\ \A i \in Valued(t, a, k) : h[a].values[k][Rank(Valued(t, a, k), i)] = t[i].value
          /\ Len(h[a].children[k]) = Cardinality(Opened(t, a, k))
          /\ \A i \in Opened(t, a, k) : h[a].children[k][Rank(Opened(t, a, k), i)] = SetOf(t, i)

(* A constructor that returns has read a text whose brackets match, and    *)
(* the sets are nested as the brackets are; one that throws a parse_error  *)
(* names the first line that is wrong, or the last one if the end is       *)
(* missing (or the empty line behind it), and leaves no set behind.        *)
FileIsTree ==
    LET n == Len(text)
    IN  /\ reader = "built" => /\ \A i \in 1 .. n : Legal(text, i)
                               /\ Depth(text, n + 1) = 0 /\ ~Waiting(text, n + 1)
                               /\ IsMeant(heap, text)
        /\ reader = "none" /\ error.kind = "parse_error" /\ text # <<>> =>
               \/ \E i \in 1 .. n : /\ ~Legal(text, i) /\ error.line = i
                                    /\ \A j \in 1 .. i - 1 : Legal(text, j)
               \/ /\ \A i \in 1 .. n : Legal(text, i)
                  /\ Depth(text, n + 1) > 0 \/ Waiting(text, n + 1)
                  /\ error.line \in {n, n + 1}

(* Every set but the root is a child of its parent, once, and of no other  *)
(* set: the destructor of the root frees all of them, each one once.       *)
Places(a) == UNION {{<<b, k, i>> : i \in {j \in DOMAIN heap[b].children[k] :
                                              heap[b].children[k][j] = a}} :
                    b \in DOMAIN heap, k \in Keys}
ParentsOwn ==
    /\ reader = "none" => heap = NoHeap
    /\ \A a \in DOMAIN heap :
          IF a = Root THEN Places(a) = {}
          ELSE \E at \in Places(a) : at[1] = heap[a].parent /\ Places(a) = {at}
=============================================================================
