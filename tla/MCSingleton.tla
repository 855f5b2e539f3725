----------------------------- MODULE MCSingleton -----------------------------
(* Instances of Singleton for TLC: a chain Log <- Config <- App, where every  *)
(* App holds a use<Config> and a use<Log> and every Config a use<Log>.        *)
EXTENDS Singleton

CONSTANTS x, y

MCThreads == {x, y}
OneThread == {x}
MCTypes == {"App", "Config", "Log"}

Nothing == [t \in MCTypes |-> <<>>]
Log(ts) == [t \in MCTypes |-> IF t \in ts THEN <<"Log">> ELSE <<>>]

\* A chain: every App holds a use<Config> and a use<Log>, every Config a
\* use<Log>; the constructors of App and Config may throw.
Chain == [Nothing EXCEPT !["App"] = <<"Config", "Log">>, !["Config"] = <<"Log">>]
Holders == [members |-> Chain, ctorUses |-> Nothing, dtorUses |-> Nothing,
            throwing |-> {"App", "Config"}]

\* The destructor of App uses a Log for a moment, which never throws.
Closers == [members |-> Log({"Config"}), ctorUses |-> Nothing, dtorUses |-> Log({"App"}),
            throwing |-> {"App", "Config"}]

\* The constructor of Config uses a Log, too.
Openers == [members |-> Nothing, ctorUses |-> Log({"Config"}), dtorUses |-> Log({"App"}),
            throwing |-> {}]

\* The destructor of App uses a Log that may throw.
Enders == [members |-> Nothing, ctorUses |-> Nothing, dtorUses |-> Log({"App"}),
           throwing |-> {"Log"}]

MCPrograms == {Holders, Closers, Openers, Enders}
OpenersOnly == {Openers}

=============================================================================
