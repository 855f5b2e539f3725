----------------------------- MODULE Resources ------------------------------
(***************************************************************************)
(* The parts of utilmm that hold something for a program.  They do not act *)
(* on each other, so each behaviour is of one of them (part), and the      *)
(* variables of the others are Off or as they began.                       *)
(***************************************************************************)
EXTENDS DynamicPool, ObjectPool, PkgConfig, AutoFlag, Endian, Sockets, Plugins

VARIABLE part

otherVars == <<socketVars, pluginVars, pkgVars, flagVars>>
allVars == <<part, poolVars, objectVars, endianVars, otherVars>>

Off == "off"
OffEndian == /\ number = Off /\ bytes = Off /\ sender = Off /\ receiver = Off
             /\ agreed = Off /\ wire = Off /\ got = Off
OffFlags == m_field = Off /\ flags = Off /\ ended = Off

OnlyPool == ObjectInit /\ OffEndian /\ SocketsInit /\ PluginsInit /\ PkgInit /\ OffFlags
OnlyObjects == PoolInit /\ OffEndian /\ SocketsInit /\ PluginsInit /\ PkgInit /\ OffFlags
OnlyEndian == PoolInit /\ ObjectInit /\ SocketsInit /\ PluginsInit /\ PkgInit /\ OffFlags
OnlySockets == PoolInit /\ ObjectInit /\ OffEndian /\ PluginsInit /\ PkgInit /\ OffFlags
OnlyPlugins == PoolInit /\ ObjectInit /\ OffEndian /\ SocketsInit /\ PkgInit /\ OffFlags
OnlyPkg == PoolInit /\ ObjectInit /\ OffEndian /\ SocketsInit /\ PluginsInit /\ OffFlags
OnlyFlags == PoolInit /\ ObjectInit /\ OffEndian /\ SocketsInit /\ PluginsInit /\ PkgInit

Init ==
    \/ part = "dynamic_pool" /\ PoolInit /\ OnlyPool
    \/ part = "object_pool" /\ ObjectInit /\ OnlyObjects
    \/ part = "endian" /\ EndianInit /\ OnlyEndian
    \/ part = "socket" /\ SocketsInit /\ OnlySockets
    \/ part = "plugin" /\ PluginsInit /\ OnlyPlugins
    \/ part = "pkgconfig" /\ PkgInit /\ OnlyPkg
    \/ part = "auto_flag" /\ FlagInit /\ OnlyFlags

Next ==
    \/ /\ part = "dynamic_pool" /\ PoolNext
       /\ UNCHANGED <<part, objectVars, endianVars, otherVars>>
    \/ /\ part = "object_pool" /\ ObjectNext
       /\ UNCHANGED <<part, poolVars, endianVars, otherVars>>
    \/ /\ part = "endian" /\ EndianNext
       /\ UNCHANGED <<part, poolVars, objectVars, otherVars>>
    \/ /\ part = "socket" /\ SocketsNext
       /\ UNCHANGED <<part, poolVars, objectVars, endianVars,
                      pluginVars, pkgVars, flagVars>>
    \/ /\ part = "plugin" /\ PluginsNext
       /\ UNCHANGED <<part, poolVars, objectVars, endianVars,
                      socketVars, pkgVars, flagVars>>
    \/ /\ part = "pkgconfig" /\ PkgNext
       /\ UNCHANGED <<part, poolVars, objectVars, endianVars,
                      socketVars, pluginVars, flagVars>>
    \/ /\ part = "auto_flag" /\ FlagNext
       /\ UNCHANGED <<part, poolVars, objectVars, endianVars,
                      socketVars, pluginVars, pkgVars>>

(* The thread that has the mutex of an object_pool goes on, and so do a    *)
(* question to pkg-config and the child that answers it.                   *)
Spec ==
    /\ Init /\ [][Next]_allVars
    /\ WF_allVars(part = "object_pool" /\ ObjectStep
                  /\ UNCHANGED <<part, poolVars, endianVars, otherVars>>)
    /\ WF_allVars(part = "pkgconfig" /\ PkgStep
                  /\ UNCHANGED <<part, poolVars, objectVars, endianVars,
                                 socketVars, pluginVars, flagVars>>)
-----------------------------------------------------------------------------
(* auto_flag and endian: a field is put back, and a number arrives.        *)
ValuesKept == /\ part = "auto_flag" => FlagTypeOK /\ FlagsRestored
              /\ part = "endian" => BytesArrive

(* Whoever has the mutex of an object_pool returns it, and a question to   *)
(* pkg-config comes to an end.                                             *)
CallsReturn == MutexReturned /\ QuestionEnds
=============================================================================
