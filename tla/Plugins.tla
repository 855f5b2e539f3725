------------------------------- MODULE Plugins -------------------------------
(***************************************************************************)
(* utilmm::plugin: dll, plugin_factory, concrete_factory, plugin_wrapper   *)
(* and BOOST_EXPORT_PLUGIN, as they use dlopen(3) with RTLD_GLOBAL.  Every *)
(* library has a list of the classes that can be made, and an exporter     *)
(* that enters its own class when it is loaded.                            *)
(***************************************************************************)
EXTENDS Naturals, FiniteSets

CONSTANTS Libraries, MaxLoads, MaxKept, NoLibrary

ASSUME PluginsAssumption ==
    MaxLoads \in Nat \ {0} /\ MaxKept \in Nat /\ NoLibrary \notin Libraries

VARIABLES order,      \* which library has been loaded before which, of those that
                      \* are there; each counts as before itself
          handles,    \* how often each has been opened and not closed
          loads,      \* how often each has been loaded
          lists,      \* the library in whose list each has entered its class
          classes,    \* the list of each: who is in it, from which of its loads
          plugins,    \* the live plugins: the library whose handle each has, its
                      \* class, and from which load the code of that is
          kept,       \* how many handles the program has itself
          mislaid,    \* ... and how many nobody has any more
          making,     \* create(): the library whose handle it holds
          crashed     \* the library whose code the program has jumped to when it
                      \* was no longer there

pluginVars == <<order, handles, loads, lists, classes, plugins, kept, mislaid, making, crashed>>

Loaded == {l \in Libraries : <<l, l>> \in order}
Ready == crashed = NoLibrary /\ making = NoLibrary

PluginsTypeOK ==
    /\ order \subseteq Loaded \X Loaded
    /\ handles \in [Libraries -> Nat] /\ loads \in [Libraries -> 0 .. MaxLoads]
    /\ lists \in [Libraries -> Libraries]
    /\ classes \in [Libraries -> [Libraries -> 0 .. MaxLoads]]
    /\ plugins \subseteq Libraries \X Libraries \X (1 .. MaxLoads)
    /\ kept \in [Libraries -> 0 .. MaxKept] /\ mislaid \in [Libraries -> 0 .. MaxKept]
    /\ making \in Libraries \cup {NoLibrary} /\ crashed \in Libraries \cup {NoLibrary}

Zero == [l \in Libraries |-> 0]
PluginsInit ==
    /\ order = {} /\ handles = Zero /\ loads = Zero
    /\ lists = [l \in Libraries |-> l]
    /\ classes = [l \in Libraries |-> Zero]
    /\ plugins = {} /\ kept = Zero /\ mislaid = Zero
    /\ making = NoLibrary /\ crashed = NoLibrary

Plus(counts, l) == [counts EXCEPT ![l] = @ + 1]
Minus(counts, l) == [counts EXCEPT ![l] = @ - 1]
There(c, load) == c \in Loaded /\ loads[c] = load
-----------------------------------------------------------------------------
(* The exporter calls boost_exported_plugins_list(), which the linker      *)
(* finds in the library that was loaded first, and insert(), which does    *)
(* not touch a name that is there.                                         *)
First(l) ==
    IF Loaded = {} THEN l ELSE CHOOSE m \in Loaded : \A k \in Loaded : <<m, k>> \in order
Enter(l) ==
    LET first == First(l)
    IN  /\ lists' = [lists EXCEPT ![l] = first]
        /\ classes' = [classes EXCEPT ![first][l] = IF @ = 0 THEN loads[l] + 1 ELSE @]

(* dlopen(): a library that is there is not loaded again.                  *)
Open(l) ==
    /\ handles' = Plus(handles, l)
    /\ IF l \in Loaded THEN UNCHANGED <<order, loads, lists, classes>>
       ELSE /\ loads[l] < MaxLoads
            /\ order' = order \cup ((Loaded \cup {l}) \X {l}) /\ loads' = Plus(loads, l)
            /\ Enter(l)

(* dlclose(): a library without handles goes, and its list with it, unless *)
(* another one that stays uses that list.                                  *)
Gone(l) ==
    LET unheld == {m \in Loaded : handles[m] = IF m = l THEN 1 ELSE 0}
        users(m) == {k \in Loaded \ {m} : lists[k] = m}
    IN  {m \in unheld : \A k \in users(m) : k \in unheld /\ users(k) = {}}
CloseHandle(l) ==
    /\ handles' = Minus(handles, l)
    /\ order' = order \cap ((Loaded \ Gone(l)) \X (Loaded \ Gone(l)))
    /\ classes' = [m \in Libraries |-> IF m \in Gone(l) THEN Zero ELSE classes[m]]
    /\ UNCHANGED <<loads, lists>>

(* dll::get() for the program itself; a symbol that is not there throws    *)
(* and leaves the handle with nobody.                                      *)
GetSymbol(l) ==
    /\ Ready /\ kept[l] < MaxKept /\ Open(l)
    /\ kept' = Plus(kept, l)
    /\ UNCHANGED <<plugins, mislaid, making, crashed>>

NoSymbol(l) ==
    /\ Ready /\ mislaid[l] < MaxKept /\ Open(l)
    /\ mislaid' = Plus(mislaid, l)
    /\ UNCHANGED <<plugins, kept, making, crashed>>

DropSymbol(l) ==
    /\ Ready /\ kept[l] > 0 /\ CloseHandle(l)
    /\ kept' = Minus(kept, l)
    /\ UNCHANGED <<plugins, mislaid, making, crashed>>

(* plugin_factory::create() of the factory of library l.                   *)
CallCreate(l) ==
    /\ Ready /\ Open(l)
    /\ making' = l
    /\ UNCHANGED <<plugins, kept, mislaid, crashed>>

(* There is no such class in the list, it is one of another base class, or *)
(* its constructor throws.                                                 *)
CreateFails ==
    /\ crashed = NoLibrary /\ making # NoLibrary
    /\ CloseHandle(making)
    /\ making' = NoLibrary
    /\ UNCHANGED <<plugins, kept, mislaid, crashed>>

(* The plugin keeps the handle, which is that of the factory.              *)
HolderForgets(l) == CloseHandle(l)     \* mutant: the holder is a temporary
HolderKeeps(l) == UNCHANGED <<order, handles, loads, lists, classes>>

CreateMakes(c) ==
    /\ crashed = NoLibrary /\ making # NoLibrary
    /\ There(c, classes[making][c])
    /\ <<making, c, loads[c]>> \notin plugins
    /\ plugins' = plugins \cup {<<making, c, loads[c]>>}
    /\ HolderKeeps(making)
    /\ making' = NoLibrary
    /\ UNCHANGED <<kept, mislaid, crashed>>

Crash(c) == crashed' = c /\ UNCHANGED <<order, handles, loads, lists, classes, plugins, kept, mislaid, making>>

CreateCrashes(c) ==
    /\ crashed = NoLibrary /\ making # NoLibrary
    /\ classes[making][c] # 0 /\ ~There(c, classes[making][c])
    /\ Crash(c)

(* The destructor of plugin_wrapper is code of the library, as the methods *)
(* are, and ends with that of the holder, which closes the handle: if the  *)
(* library goes with it there is no code to return to.                     *)
UseCrashes(p) == Ready /\ ~There(p[2], p[3]) /\ Crash(p[2])

DeletePlugin(p) ==
    /\ Ready /\ There(p[2], p[3])
    /\ CloseHandle(p[1])
    /\ plugins' = plugins \ {p}
    /\ crashed' = IF p[2] \in Gone(p[1]) THEN p[2] ELSE NoLibrary
    /\ UNCHANGED <<kept, mislaid, making>>

PluginsNext ==
    \/ CreateFails
    \/ \E l \in Libraries : \/ GetSymbol(l) \/ NoSymbol(l) \/ DropSymbol(l)
                            \/ CallCreate(l) \/ CreateMakes(l) \/ CreateCrashes(l)
    \/ \E p \in plugins : UseCrashes(p) \/ DeletePlugin(p)

PluginsSpec == PluginsInit /\ [][PluginsNext]_pluginVars
-----------------------------------------------------------------------------
(* A library is loaded as long as somebody has a handle of it or another   *)
(* library uses its list, and no longer; a plugin has that of its factory. *)
(* So every plugin can be used whose class the factory of its own library  *)
(* has made, and nothing keeps the code of another one there.              *)
HandlesCounted ==
    \A l \in Libraries : handles[l] = kept[l] + mislaid[l] + (IF making = l THEN 1 ELSE 0)
                                      + Cardinality({p \in plugins : p[1] = l})
LoadedWhileUsed ==
    \A l \in Libraries : l \in Loaded <=> (handles[l] > 0 \/ \E k \in Loaded \ {l} : lists[k] = l)
OwnPluginsUsable == \A p \in plugins : p[1] = p[2] => There(p[2], p[3])

(* The factory of a library finds the class of that library, as it is now, *)
(* or not at all: when another library was loaded first.                   *)
OwnClassFound ==
    \A l \in Loaded : classes[l][l] = IF lists[l] = l THEN loads[l] ELSE 0

(* The destructor of such a plugin unloads its own code exactly when       *)
(* nobody else keeps the library: the last plugin cannot be deleted.       *)
KeepsToo(p) ==
    LET l == p[1]
    IN  \/ kept[l] > 0 \/ mislaid[l] > 0 \/ making = l
        \/ \E q \in plugins \ {p} : q[1] = l
        \/ \E k \in Loaded \ {l} : lists[k] = l
LastDeletesItsCode == \A p \in plugins : p[1] = p[2] => (p[2] \in Gone(p[1]) <=> ~KeepsToo(p))

(* plugins: what keeps the code of a library there, whose code can be      *)
(* called, and which plugin takes its own away.                            *)
PluginsUsable == /\ PluginsTypeOK
                 /\ HandlesCounted /\ LoadedWhileUsed /\ OwnPluginsUsable
                 /\ OwnClassFound /\ LastDeletesItsCode
=============================================================================
