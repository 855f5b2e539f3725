--------------------------- MODULE Configuration -----------------------------
(***************************************************************************)
(* The parts of utilmm that read what users write, side by side.  They do  *)
(* not act on each other, so each behaviour is of one of them (part), and  *)
(* the variables of the others are Off.                                    *)
(***************************************************************************)
EXTENDS CommandLine

CONSTANTS FileKeys, FileValues, MaxLines, MaxSets, MaxValues,   \* of ConfigFile
          Sampled,                                              \* of OptionForms
          ShellLetters, Environments, MaxText,                  \* of ShellExpand
          Entries, Directories, MaxPath, Files, Systems,          \* of ConfigurationFinder
          Alphabet, MaxString, MaxSeparator                     \* of Split

VARIABLES part,
          heap, reader, mode, cur, line, text, error,
          parts, option,
          environment, source, last_match, expanded,
          disk, path, wanted, system, answer,
          string, separator, ignore_empty, from, pieces, split

Reader == INSTANCE ConfigFile WITH Keys <- FileKeys, Values <- FileValues
Forms == INSTANCE OptionForms
Expand == INSTANCE ShellExpand WITH Letters <- ShellLetters
Finder == INSTANCE ConfigurationFinder
Pieces == INSTANCE Split

ASSUME FileAssumption == MaxLines \in Nat /\ MaxSets \in Nat /\ MaxValues \in Nat

ASSUME FormsAssumption == Sampled \subseteq Words

ASSUME ExpandAssumption ==
    /\ {"$", "."} \cap ShellLetters = {} /\ MaxText \in Nat
    /\ \A e \in Environments : \A name \in DOMAIN e : e[name] \in Seq(Expand!Characters)

ASSUME SplitAssumption == MaxString \in Nat /\ MaxSeparator \in Nat

(* A file has a name, and a system id is BASE_ID.                          *)
ASSUME FinderAssumption ==
    /\ Directories \cup {"."} \subseteq Entries /\ MaxPath \in Nat
    /\ Files \subseteq Seq(Entries) \ {<<>>}
    /\ \A id \in Systems : id \in Seq(Entries) /\ Len(id) >= 2

Off == "off"
OffFile == heap = Off /\ reader = Off /\ mode = Off /\ cur = Off /\ line = Off /\ text = Off /\ error = Off
OffForms == parts = Off /\ option = Off
OffLine == /\ options = Off /\ config = Off /\ stage = Off /\ argv = Off /\ i = Off /\ next = Off
           /\ remains = Off /\ m_remaining = Off /\ outcome = Off /\ before = Off /\ parses = Off
OffExpand == environment = Off /\ source = Off /\ last_match = Off /\ expanded = Off
OffFinder == disk = Off /\ path = Off /\ wanted = Off /\ system = Off /\ answer = Off
OffPieces == /\ string = Off /\ separator = Off /\ ignore_empty = Off
             /\ from = Off /\ pieces = Off /\ split = Off

Init ==
    \/ /\ part = "config_file" /\ Reader!FileInit
       /\ OffForms /\ OffLine /\ OffExpand /\ OffFinder /\ OffPieces
    \/ /\ part = "cmdline_option" /\ Forms!OptionInit
       /\ OffFile /\ OffLine /\ OffExpand /\ OffFinder /\ OffPieces
    \/ /\ part = "command_line" /\ LineInit
       /\ OffFile /\ OffForms /\ OffExpand /\ OffFinder /\ OffPieces
    \/ /\ part = "shell_expand" /\ Expand!ExpandInit
       /\ OffFile /\ OffForms /\ OffLine /\ OffFinder /\ OffPieces
    \/ /\ part = "finder" /\ Finder!FinderInit
       /\ OffFile /\ OffForms /\ OffLine /\ OffExpand /\ OffPieces
    \/ /\ part = "split" /\ Pieces!SplitInit
       /\ OffFile /\ OffForms /\ OffLine /\ OffExpand /\ OffFinder

fileVars == <<heap, reader, mode, cur, line, text, error>>
otherVars == <<parts, option, environment, source, last_match, expanded,
               disk, path, wanted, system, answer>>
pieceVars == <<string, separator, ignore_empty, from, pieces, split>>

Next ==
    \/ /\ part = "config_file" /\ Reader!FileNext
       /\ UNCHANGED <<part, lineVars, otherVars, pieceVars>>
    \/ /\ part = "cmdline_option" /\ Forms!Construct
       /\ UNCHANGED <<part, fileVars, lineVars, environment, source, last_match, expanded,
                      disk, path, wanted, system, answer, pieceVars>>
    \/ /\ part = "command_line" /\ LineNext
       /\ UNCHANGED <<part, fileVars, otherVars, pieceVars>>
    \/ /\ part = "shell_expand" /\ Expand!ExpandNext
       /\ UNCHANGED <<part, fileVars, lineVars, parts, option,
                      disk, path, wanted, system, answer, pieceVars>>
    \/ /\ part = "finder" /\ Finder!Ask
       /\ UNCHANGED <<part, fileVars, lineVars, parts, option,
                      environment, source, last_match, expanded, pieceVars>>
    \/ /\ part = "split" /\ Pieces!SplitNext
       /\ UNCHANGED <<part, fileVars, lineVars, otherVars>>

allVars == <<part, fileVars, lineVars, otherVars, pieceVars>>
Spec == /\ Init /\ [][Next]_allVars
          /\ WF_allVars(part = "config_file" /\ Reader!ReadStep
                        /\ UNCHANGED <<part, lineVars, otherVars, pieceVars>>)
          /\ WF_allVars(part = "split" /\ Pieces!SplitNext
                        /\ UNCHANGED <<part, fileVars, lineVars, otherVars>>)
-----------------------------------------------------------------------------
(* The constructor of config_file makes the tree that the text describes,  *)
(* or throws and leaves nothing, and every set is owned once.              *)
FileIsTree ==
    part = "config_file" => Reader!FileTypeOK /\ Reader!FileIsTree /\ Reader!ParentsOwn

(* A description of an option means what its parts mean.                   *)
OptionMeansParts == part = "cmdline_option" => Forms!OptionMeansParts

(* parse() stores what the arguments say, and nothing else.                *)
CommandLineObeyed == part = "command_line" => LineTypeOK /\ ParseObeys

(* shell_expand() replaces every reference once, and join() undoes split().*)
TextsExact == /\ part = "shell_expand" => Expand!ExpandTypeOK /\ Expand!ExpandsOnce
              /\ part = "split" => Pieces!JoinsBack

(* A file is looked for in the current directory first.                    *)
PriorityKept == part = "finder" => Finder!PriorityKept

(* The constructor of config_file comes to an end unless the input fails,  *)
(* and split() does unless its separator is empty.                         *)
CallsReturn ==
    /\ (part = "config_file" /\ reader = "reading") ~> (reader \in {"none", "built", "broken"})
    /\ (part = "split" /\ separator # <<>>) ~> (part = "split" /\ split)
=============================================================================
