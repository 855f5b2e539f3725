------------------------- MODULE OptionDescription --------------------------
(***************************************************************************)
(* cmdline_option::cmdline_option(description): the scanner that turns     *)
(*   [!*][config_key]:long[,short][=type[,default]|?type,default][:help]   *)
(* into an option, or throws bad_syntax.  A description is a sequence of   *)
(* tokens: the separators : , = ? and ! * are tokens, and so is every      *)
(* word in between.                                                        *)
(***************************************************************************)
EXTENDS Naturals, Sequences

CONSTANTS Words,        \* the words that [\w-]+ matches
          Letters,      \* those of one character
          Numbers,      \* those that [0-9]+ matches
          Booleans      \* those that 1|0|false|true matches

Separators == {":", ",", "=", "?"}
Types == {"int", "string", "bool"}

ASSUME WordAssumption ==
    /\ Letters \cup Numbers \cup Booleans \subseteq Words
    /\ Words \cap (Separators \cup {"!", "*", "|"}) = {}

BadSyntax == [valid |-> FALSE]

(* advance(): the text up to the next of some separators, which is there   *)
(* (delim) or not; `at' is where to go on.                                 *)
Advance(source, allowed, current) ==
    LET found == {i \in current .. Len(source) : source[i] \in allowed}
        next == CHOOSE i \in found : \A j \in found : i <= j
    IN IF found = {} THEN [text |-> SubSeq(source, current, Len(source)),
                           delim |-> "", at |-> Len(source)]
       ELSE [text |-> SubSeq(source, current, next - 1),
             delim |-> source[next], at |-> next]

Identifier(t) == t # <<>> /\ \A i \in DOMAIN t : t[i] \in Words \cup Types
OneCharacter(t) == t \in {<<c>> : c \in Letters}

(* checkArgument() of a value, for an option of this type.                 *)
CheckArgument(type, t) ==
    CASE type = "int" -> Len(t) = 1 /\ t[1] \in Numbers
      [] type = "bool" -> Len(t) = 1 /\ t[1] \in Booleans
      [] OTHER -> TRUE

(* The stages of the scanner, each from where the one before it stopped.   *)
Flags(d) ==
    LET required == Len(d) > 0 /\ d[1] = "!"
        c == IF required THEN 2 ELSE 1
        multiple == Len(d) >= c /\ d[c] = "*"
    IN [required |-> required, multiple |-> multiple, at |-> IF multiple THEN c + 1 ELSE c]

Key(d) == Advance(d, {":"}, Flags(d).at)
Long(d) == Advance(d, {",", "=", "?", ":"}, Key(d).at + 1)
Short(d) == IF Long(d).delim = "," THEN Advance(d, {"=", "?", ":"}, Long(d).at + 1)
            ELSE [Long(d) EXCEPT !.text = <<>>]
Argument(d) == IF Short(d).delim \in {"=", "?"}
               THEN Advance(d, {",", ":"}, Short(d).at + 1)
               ELSE [Short(d) EXCEPT !.text = <<>>]
HasArgument(d) == Short(d).delim \in {"=", "?"}
Optional(d) == Short(d).delim = "?"
Type(d) == IF HasArgument(d) THEN Argument(d).text[1] ELSE ""
HasDefault(d) == HasArgument(d) /\ Argument(d).delim = ","
Default(d) == IF HasDefault(d) THEN Advance(d, {":"}, Argument(d).at + 1).text ELSE <<>>

(* Mutant: a required option has no default, not even for an optional      *)
(* argument.                                                               *)
RejectedDefaults(d) ==
    \/ Key(d).delim = ""
    \/ ~Identifier(Long(d).text)
    \/ Long(d).delim = "," /\ ~OneCharacter(Short(d).text)
    \/ HasArgument(d) /\ Argument(d).text \notin {<<t>> : t \in Types}
    \/ HasDefault(d) /\ Flags(d).required
    \/ HasDefault(d) /\ ~CheckArgument(Type(d), Default(d))
    \/ ~HasDefault(d) /\ Optional(d)

(* The checks of the constructor, in its order.                            *)
Rejected(d) ==
    \/ Key(d).delim = ""
    \/ ~Identifier(Long(d).text)
    \/ /\ Long(d).delim = ","
       /\ ~OneCharacter(Short(d).text)
    \/ /\ HasArgument(d)
       /\ \/ Argument(d).text \notin {<<t>> : t \in Types}
          \/ HasDefault(d) /\ Flags(d).required /\ ~Optional(d)
          \/ HasDefault(d) /\ ~CheckArgument(Type(d), Default(d))
          \/ ~HasDefault(d) /\ Optional(d)

(* getConfigKey() is the long name if no key is given.                     *)
Option(d) ==
    IF Rejected(d) THEN BadSyntax
    ELSE [valid |-> TRUE, required |-> Flags(d).required, multiple |-> Flags(d).multiple,
          key |-> IF Key(d).text = <<>> THEN Long(d).text ELSE Key(d).text,
          long |-> Long(d).text, short |-> Short(d).text,
          argument |-> HasArgument(d), optional |-> Optional(d), type |-> Type(d),
          hasDefault |-> HasDefault(d), default |-> Default(d)]
=============================================================================
