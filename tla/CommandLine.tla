---------------------------- MODULE CommandLine -----------------------------
(***************************************************************************)
(* utilmm::command_line: parse() of one argument vector after another into *)
(* a config_set that may hold something already, and remaining().          *)
(*                                                                         *)
(* An argument is plain, "-" and a short name, "--" and a long name,       *)
(* "--long=value", or "-short=value", which commandline.hh:147 shows and   *)
(* which no option matches; a plain one is what does not begin with "-".   *)
(* A text is a sequence of tokens as in OptionDescription.                 *)
(***************************************************************************)
EXTENDS OptionDescription, FiniteSets

CONSTANTS Keys, Values,  \* of the config_set
          OptionLists,   \* the lists of options that a program declares
          Plain,         \* the texts of plain arguments
          MaxArguments,  \* bounds the arguments of two calls in a row
          MaxParses      \* bounds the calls on one object

True == <<"true">>
ASSUME OptionAssumption ==
    /\ Plain \cup {True} \subseteq Values
    /\ MaxArguments \in Nat /\ MaxParses \in Nat
    /\ \A list \in OptionLists :
          /\ Len(list) \in Nat /\ DOMAIN list = 1 .. Len(list)
          /\ \A n \in DOMAIN list :
                /\ list[n].valid /\ list[n].key \in Keys
                /\ list[n].hasDefault => list[n].default \in Values
                /\ list[n].argument \/ list[n].type = ""

C == INSTANCE ConfigSet WITH Keys <- Keys, Values <- Values

VARIABLES options,     \* m_options
          config,      \* the config_set that parse() writes to
          stage,       \* parse(): which of its loops runs
          argv, i,     \* ... the arguments, and the one it looks at
          next,        \* ... the option whose default it looks at
          remains,
          m_remaining,
          outcome,     \* of the last call
          before,      \* the config_set before it (for the properties)
          parses       \* how many calls there were

lineVars == <<options, config, stage, argv, i, next, remains, m_remaining,
              outcome, before, parses>>

Unknown == <<"unknown">>
Arguments(list) ==
    LET longs == {list[n].long : n \in DOMAIN list}
        shorts == {list[n].short : n \in DOMAIN list}
    IN [kind : {"plain"}, text : Plain]
       \cup [kind : {"short"}, name : shorts \cup {<<>>}]
       \cup [kind : {"long"}, name : longs \cup {Unknown}]
       \cup [kind : {"long="}, name : longs, text : Plain]
       \cup [kind : {"short="}, name : shorts, text : Plain]
Vectors(list, n) == UNION {[1 .. m -> Arguments(list)] : m \in 0 .. n}

LineTypeOK ==
    /\ \A n \in DOMAIN options : options[n].valid /\ options[n].key \in Keys
    /\ config \in C!SetType({1, 2}) /\ before \in C!SetType({1, 2})
    /\ stage \in {"idle", "arguments", "defaults"}
    /\ Len(argv) <= MaxArguments /\ \A p \in DOMAIN argv : argv[p] \in Arguments(options)
    /\ i \in 1 .. Len(argv) + 1 /\ next \in 1 .. Len(options) + 1
    /\ remains \in Seq(Plain) /\ m_remaining \in Seq(Plain)
    /\ outcome \in {"none", "parsed", "commandline_error"}
    /\ parses \in 0 .. MaxParses

(* The program may hand over a set with a child, which exists() finds too. *)
LineInit ==
    /\ options \in OptionLists
    /\ config \in {C!EmptySet(C!NoSet)}
                  \cup {C!InsertChild(C!EmptySet(C!NoSet), k, 2) : k \in Keys}
    /\ before = config
    /\ stage = "idle" /\ argv = <<>> /\ i = 1 /\ next = 1
    /\ remains = <<>> /\ m_remaining = <<>> /\ outcome = "none" /\ parses = 0

Parse ==
    /\ stage = "idle" /\ parses < MaxParses
    /\ argv' \in Vectors(options, MaxArguments - Len(argv))
    /\ i' = 1 /\ next' = 1 /\ remains' = <<>>
    /\ stage' = "arguments" /\ outcome' = "none"
    /\ before' = config /\ parses' = parses + 1
    /\ UNCHANGED <<options, config, m_remaining>>

Leave(result) ==
    /\ outcome' = result
    /\ stage' = "idle" /\ argv' = argv /\ next' = 1 /\ remains' = <<>>

(* option_match(): the argument names the option; the first one counts.    *)
(* An option without a short name has the empty one: "-" matches it.       *)
(* "-x=value" names none.                                                  *)
Names(a, o) ==
    \/ a.kind = "short" /\ a.name = o.short
    \/ a.kind \in {"long", "long="} /\ a.name = o.long
Matching(a) == {n \in DOMAIN options : Names(a, options[n])}
Match(a) == options[CHOOSE n \in Matching(a) : \A m \in Matching(a) : n <= m]

Followed == i < Len(argv) /\ argv[i + 1].kind = "plain"
TakesNext(a, o) == a.kind = "short" /\ o.argument /\ Followed
Wrong(a, o) ==
    CASE a.kind = "short" -> o.argument /\ ~o.optional /\ ~Followed
      [] a.kind = "long" -> o.argument /\ ~o.optional
      [] a.kind = "long=" -> ~o.argument
DefaultValue(o) == IF o.hasDefault THEN o.default ELSE True
ValueOf(a, o) ==
    IF TakesNext(a, o) THEN argv[i + 1].text
    ELSE IF a.kind = "long=" THEN a.text ELSE DefaultValue(o)

(* Mutant: also an option that is not multiple adds up.                    *)
AddedAlways(set, o, v) == C!Insert(set, o.key, v)

(* add_argument(): insert() for a multiple option, otherwise set().        *)
Added(set, o, v) == IF o.multiple THEN C!Insert(set, o.key, v) ELSE C!Replace(set, o.key, v)

PlainArgument ==
    /\ stage = "arguments" /\ i <= Len(argv) /\ argv[i].kind = "plain"
    /\ remains' = Append(remains, argv[i].text)
    /\ i' = i + 1
    /\ UNCHANGED <<options, config, stage, argv, next, m_remaining, outcome, before, parses>>

IsOption == stage = "arguments" /\ i <= Len(argv) /\ argv[i].kind # "plain"
Fits(a, o) == ~Wrong(a, o) /\ CheckArgument(o.type, ValueOf(a, o))

OptionArgument ==
    /\ IsOption /\ Matching(argv[i]) # {}
    /\ LET o == Match(argv[i])
       IN /\ Fits(argv[i], o)
          /\ config' = Added(config, o, ValueOf(argv[i], o))
          /\ i' = IF TakesNext(argv[i], o) THEN i + 2 ELSE i + 1
    /\ UNCHANGED <<options, stage, argv, next, remains, m_remaining, outcome, before, parses>>

(* A commandline_error leaves what was set so far in the config_set, and   *)
(* the remaining arguments of the call before.                             *)
BadArgument ==
    /\ IsOption
    /\ Matching(argv[i]) # {} => ~Fits(argv[i], Match(argv[i]))
    /\ Leave("commandline_error")
    /\ UNCHANGED <<options, config, i, m_remaining, before, parses>>

ArgumentsDone ==
    /\ stage = "arguments" /\ i > Len(argv)
    /\ stage' = "defaults"
    /\ UNCHANGED <<options, config, argv, i, next, remains, m_remaining, outcome, before, parses>>

(* The second loop: what is not there gets its default.                    *)
Missing(o) == ~C!Exists(config, o.key)

SetDefault ==
    /\ stage = "defaults" /\ next <= Len(options)
    /\ LET o == options[next]
       IN /\ ~(Missing(o) /\ o.required)
          /\ config' = IF Missing(o) /\ o.hasDefault
                       THEN C!Replace(config, o.key, DefaultValue(o)) ELSE config
    /\ next' = next + 1
    /\ UNCHANGED <<options, stage, argv, i, remains, m_remaining, outcome, before, parses>>

RequiredMissing ==
    /\ stage = "defaults" /\ next <= Len(options)
    /\ Missing(options[next]) /\ options[next].required
    /\ Leave("commandline_error")
    /\ UNCHANGED <<options, config, i, m_remaining, before, parses>>

Parsed ==
    /\ stage = "defaults" /\ next > Len(options)
    /\ m_remaining' = remains
    /\ Leave("parsed")
    /\ UNCHANGED <<options, config, i, before, parses>>

LineNext ==
    \/ Parse \/ PlainArgument \/ OptionArgument \/ BadArgument
    \/ ArgumentsDone \/ SetDefault \/ RequiredMissing \/ Parsed

LineSpec == LineInit /\ [][LineNext]_lineVars /\ WF_lineVars(LineNext)
-----------------------------------------------------------------------------
(* What a call means, stated over the positions of the arguments.          *)
IsPlain(p) == argv[p].kind = "plain"
Consumed(p) == /\ IsPlain(p) /\ p > 1 /\ argv[p - 1].kind = "short"
               /\ Match(argv[p - 1]).argument
Uses(k, p) == ~IsPlain(p) /\ Match(argv[p]).key = k
Given(p) == IF argv[p].kind = "long=" THEN argv[p].text
            ELSE IF p < Len(argv) /\ Consumed(p + 1) THEN argv[p + 1].text
            ELSE DefaultValue(Match(argv[p]))

(* The values of a key after the arguments up to m: those of a multiple    *)
(* option add up, any other use replaces what was there.                   *)
Replaces(k, m) == {p \in 1 .. m : Uses(k, p) /\ ~Match(argv[p]).multiple}
Counts(k, m, p) == Uses(k, p) /\ \A q \in Replaces(k, m) : q <= p
After(k, m) ==
    LET added[p \in 0 .. m] ==
            IF p = 0 THEN <<>>
            ELSE added[p - 1] \o (IF Counts(k, m, p) THEN <<Given(p)>> ELSE <<>>)
    IN (IF Replaces(k, m) = {} THEN before.values[k] ELSE <<>>) \o added[m]

Known(k) == (\E p \in DOMAIN argv : Uses(k, p)) \/ C!Exists(before, k)
Defaults(k) == {n \in DOMAIN options : options[n].key = k /\ options[n].hasDefault}
FirstDefault(k) == options[CHOOSE n \in Defaults(k) : \A m \in Defaults(k) : n <= m].default

(* The plain arguments that no option takes.                               *)
Left[p \in 0 .. Len(argv)] ==
    IF p = 0 THEN <<>>
    ELSE Left[p - 1] \o (IF IsPlain(p) /\ ~Consumed(p) THEN <<argv[p].text>> ELSE <<>>)

Refused(p) == /\ ~IsPlain(p)
              /\ \/ Matching(argv[p]) = {}
                 \/ /\ Match(argv[p]).argument /\ ~Match(argv[p]).optional
                    /\ argv[p].kind = "long" \/ (argv[p].kind = "short"
                                                /\ (p = Len(argv) \/ ~IsPlain(p + 1)))
                 \/ ~Match(argv[p]).argument /\ argv[p].kind = "long="
                 \/ /\ Match(argv[p]).argument /\ Match(argv[p]).type # "string"
                    /\ ~CheckArgument(Match(argv[p]).type, Given(p))

(* A call that returns has given every key the arguments of its options,   *)
(* in their order, or what it had, or the first default there is; and has  *)
(* left every plain argument that no option took.  A call that throws has  *)
(* met an argument that is wrong, and has done what is before it, or misses*)
(* a required option.  "-x=value" is always wrong (commandline.hh:147).    *)
ParseObeys ==
    /\ stage = "idle" /\ outcome = "parsed" =>
          /\ \A p \in DOMAIN argv : ~Refused(p)
          /\ \A k \in Keys : config.values[k] =
                IF Known(k) \/ Defaults(k) = {} THEN After(k, Len(argv))
                ELSE <<FirstDefault(k)>>
          /\ \A n \in DOMAIN options : options[n].required => C!Exists(config, options[n].key)
          /\ m_remaining = Left[Len(argv)]
    /\ stage = "idle" /\ outcome = "commandline_error" =>
          \/ /\ i <= Len(argv) /\ Refused(i)
             /\ \A p \in 1 .. i - 1 : ~Refused(p)
             /\ \A k \in Keys : config.values[k] = After(k, i - 1)
          \/ /\ \A p \in DOMAIN argv : ~Refused(p)
             /\ \E n \in DOMAIN options :
                   options[n].required /\ ~C!Exists(config, options[n].key)
    /\ config.children = before.children
=============================================================================
