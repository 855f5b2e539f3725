------------------------ MODULE ConfigurationFinder -------------------------
(***************************************************************************)
(* utilmm::ConfigurationFinder: find() looks for a file in the current     *)
(* directory and then in the directories of ROCK_CONFIG_PATH, or in a      *)
(* directory of the same name in each of them; findSystemConfig() calls it *)
(* for BASE/ID and for BASE.  A path is a sequence of names, "." is the    *)
(* current directory and <<>> the empty string.                            *)
(***************************************************************************)
EXTENDS Naturals, Sequences, FiniteSets

CONSTANTS Entries,      \* of files and directories
          Directories,  \* the names in ROCK_CONFIG_PATH
          MaxPath,      \* bounds their number
          Files,        \* names of files, possibly below a directory (texts)
          Systems       \* system ids, split at "_"

VARIABLES disk,         \* the paths that exist
          path,         \* ROCK_CONFIG_PATH, split at ":", <<>> if it is not set
          wanted,       \* the file
          system,       \* the system id
          answer        \* what findSystemConfig() returned, Pending before

finderVars == <<disk, path, wanted, system, answer>>

Pending == <<"pending">>
Here(file) == <<".">> \o file
Nowhere == <<>>

(* Mutant: the last directory counts.                                      *)
SearchLast(file, directories) ==
    LET having == {n \in DOMAIN directories : directories[n] \o file \in disk}
    IN CASE file = <<>> -> Nowhere
         [] file # <<>> /\ Here(file) \in disk -> Here(file)
         [] file # <<>> /\ Here(file) \notin disk /\ having # {} ->
               directories[CHOOSE n \in having : \A m \in having : m <= n] \o file
         [] OTHER -> Nowhere

(* search(): the current directory first, then the first directory that    *)
(* has the file.                                                           *)
Search(file, directories) ==
    LET having == {n \in DOMAIN directories : directories[n] \o file \in disk}
    IN CASE file = <<>> -> Nowhere
         [] file # <<>> /\ Here(file) \in disk -> Here(file)
         [] file # <<>> /\ Here(file) \notin disk /\ having # {} ->
               directories[CHOOSE n \in having : \A m \in having : n <= m] \o file
         [] OTHER -> Nowhere

Find(file, package) == Search(file, [n \in DOMAIN path |-> path[n] \o package])

(* findSystemConfig(): the directories of the file are looked for below    *)
(* BASE/ID and BASE, but not in the current directory.                     *)
Last(s) == s[Len(s)]
Before(s) == SubSeq(s, 1, Len(s) - 1)
FindSystemConfig(file, id) ==
    LET base == <<id[1]>> \o Before(file)
        systemDir == <<id[1], id[2]>> \o Before(file)
        systemConfig == Find(<<Last(file)>>, systemDir)
    IN IF systemConfig # Nowhere THEN systemConfig ELSE Find(<<Last(file)>>, base)

(* Where the file can be.                                                  *)
Candidates(file, id, paths) ==
    <<Here(<<Last(file)>>)>>
    \o [n \in DOMAIN paths |-> paths[n] \o <<id[1], id[2]>> \o file]
    \o [n \in DOMAIN paths |-> paths[n] \o <<id[1]>> \o file]

FinderInit ==
    /\ path \in UNION {[1 .. n -> {<<d>> : d \in Directories}] : n \in 0 .. MaxPath}
    /\ wanted \in Files /\ system \in Systems
    /\ LET c == Candidates(wanted, system, path)
       IN disk \in SUBSET ({c[n] : n \in DOMAIN c} \cup {Here(wanted)})
    /\ answer = Pending

Ask ==
    /\ answer = Pending
    /\ answer' = FindSystemConfig(wanted, system)
    /\ UNCHANGED <<disk, path, wanted, system>>

(* The first place that has the file: BASE/ID in every directory of the    *)
(* path, then BASE in every one of them, and before all of them the current*)
(* directory, although the documentation has BASE/ID first                 *)
(* (configuration_finder.hh:38-41): a file of the same name that lies there*)
(* hides that of the system.                                               *)
PriorityKept ==
    answer # Pending =>
        LET c == Candidates(wanted, system, path)
            there == {n \in DOMAIN c : c[n] \in disk}
        IN answer = IF there = {} THEN Nowhere
                    ELSE c[CHOOSE n \in there : \A m \in there : n <= m]
=============================================================================
