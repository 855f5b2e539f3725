---------------------------- MODULE OptionForms -----------------------------
(***************************************************************************)
(* The constructor of cmdline_option on every form of a description, and   *)
(* what the form means.                                                    *)
(***************************************************************************)
EXTENDS OptionDescription

CONSTANT Sampled   \* the words that descriptions are made of (a bound)

(* One constructor at a time, on a description put together of parts: a    *)
(* part that is left out is Absent, and may be empty or wrong.             *)
VARIABLES parts,     \* the parts of the description
          option     \* what the constructor made of it, NotYet before

optionVars == <<parts, option>>

Absent == <<"absent">>
NotYet == [valid |-> TRUE]
Some(w) == {Absent, <<>>, <<w>>}

(* A part with a text behind a bar: this is how the examples of            *)
(* commandline.hh:146-163 write the help.  The bar separates nothing.      *)
Bar == "|"
Barred(t, w) == <<t, Bar, w>>

Parts(w, c, n) ==
    [required : BOOLEAN, multiple : BOOLEAN, key : {<<>>, <<w>>}, long : {<<>>, <<w>>, Barred(w, w)},
     short : {Absent, <<>>, <<c>>, <<w>>, Barred(c, w)},
     sign : {"=", "?"}, type : {Absent, <<>>, <<w>>, Barred("int", w)} \cup {<<t>> : t \in Types},
     default : Some(w) \cup {<<n>>, <<"true">>, Barred(n, w)}, help : {Absent, <<>>, <<w, ",", w>>}]

Then(separator, part) == IF part = Absent THEN <<>> ELSE <<separator>> \o part
Spelled(p) ==
    (IF p.required THEN <<"!">> ELSE <<>>) \o (IF p.multiple THEN <<"*">> ELSE <<>>)
    \o p.key \o <<":">> \o p.long \o Then(",", p.short)
    \o Then(p.sign, p.type) \o (IF p.type = Absent THEN <<>> ELSE Then(",", p.default))
    \o Then(":", p.help)

OptionInit ==
    /\ option = NotYet
    /\ \E w \in Sampled, c \in Sampled \cap Letters, n \in Sampled \cap Numbers :
          parts \in Parts(w, c, n)

Construct ==
    /\ option = NotYet
    /\ option' = Option(Spelled(parts))
    /\ UNCHANGED parts

(* What these parts mean: the syntax of commandline.hh:95, and the checks  *)
(* of the constructor.                                                     *)
Meant(p) ==
    LET typed == p.type # Absent
        known == p.type \in {<<t>> : t \in Types}
        given == typed /\ p.default # Absent
    IN IF \/ Len(p.long) # 1
          \/ p.short # Absent /\ (Len(p.short) # 1 \/ p.short[1] \notin Letters)
          \/ typed /\ ~known
          \/ typed /\ p.sign = "?" /\ ~given
          \/ given /\ p.sign = "=" /\ p.required
          \/ given /\ p.type = <<"int">> /\ p.default \notin {<<n>> : n \in Numbers}
          \/ given /\ p.type = <<"bool">> /\ p.default \notin {<<b>> : b \in Booleans}
       THEN BadSyntax
       ELSE [valid |-> TRUE, required |-> p.required, multiple |-> p.multiple,
             key |-> IF p.key = <<>> THEN p.long ELSE p.key, long |-> p.long,
             short |-> IF p.short = Absent THEN <<>> ELSE p.short,
             argument |-> typed, optional |-> typed /\ p.sign = "?",
             type |-> IF typed THEN p.type[1] ELSE "",
             hasDefault |-> given, default |-> IF given THEN p.default ELSE <<>>]

(* A description is read part by part as commandline.hh:95 has it,         *)
(* whichever parts are left out: a separator belongs to the part that it   *)
(* introduces only.  The constructor throws on every other one, although   *)
(* commandline.hh:62-63 has it return; also on one whose help stands behind*)
(* a bar, as in the examples, unless the bar is in the default of a string,*)
(* which it becomes a part of; and on a required option with a default for *)
(* its required argument, which the documentation does not forbid.         *)
OptionMeansParts == option # NotYet => option = Meant(parts)
=============================================================================
