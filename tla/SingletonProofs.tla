--------------------------- MODULE SingletonProofs ---------------------------
(***************************************************************************)
(* Proofs about the singletons, for any program and any number of threads: *)
(* the reference counts are right, and instances and the server live as    *)
(* long as they should.                                                    *)
(***************************************************************************)
EXTENDS Singleton, FiniteSetTheorems, SequenceTheorems, TLAPS

(* The calls in the order in which they were made: the outermost is 1.     *)
Up(s) == [j \in 1 .. Len(s) |-> s[Len(s) + 1 - j]]
Frames == Up(stack)

CallType == {Call(op, t, keep) : op \in {"attach", "detach"}, t \in Types, keep \in BOOLEAN}
FrameType ==
  [op : {"attach", "detach"}, type : Types, keep : BOOLEAN, entered : BOOLEAN,
   todo : Seq(CallType), held : Seq(Types), throwing : BOOLEAN, stale : BOOLEAN]

-----------------------------------------------------------------------------
(* Types, in every program.                                                  *)

\* The outermost call acts for a use<> of the thread that holds the mutex.
Bottom(fr) ==
  fr # <<>> =>
    /\ holder \in Threads
    /\ fr[1].op = "attach" => clients[holder][fr[1].type] < MaxUses
    /\ fr[1].op = "detach" => clients[holder][fr[1].type] > 0

\* The instances that are being destroyed have left the map, but still live.
Destroyed(f, t) == f.op = "detach" /\ f.entered /\ f.type = t
Dying(fr, t) == {j \in 1 .. Len(fr) : Destroyed(fr[j], t)}
DyingLive(fr) ==
  \A t \in Types : live[t] >= Cardinality(Dying(fr, t)) + (IF t \in mapped THEN 1 ELSE 0)

BaseInv ==
  /\ program \in Programs /\ TypeOK
  /\ stack \in Seq(FrameType)
  /\ Bottom(Frames) /\ DyingLive(Frames)

-----------------------------------------------------------------------------
(* What a call has done and has still to do, if Lasting.                     *)

Constructs(f) == f.op = "attach" /\ f.entered /\ ~f.throwing
DetachCall(c) == c = Call("detach", c.type, FALSE)

\* A call that has not begun has nothing to do.
Waits(f) == f.todo = <<>> /\ f.held = <<>> /\ ~f.throwing /\ ~f.stale

\* A constructor keeps the members so far; calls of it are being made: 0 or 1.
Constructing(f, calls) ==
  LET n == Len(f.held) + calls
  IN  /\ n + Len(f.todo) = Len(Members[f.type])
      /\ \A i \in DOMAIN f.held : f.held[i] = Members[f.type][i]
      /\ \A i \in DOMAIN f.todo : f.todo[i] = Call("attach", Members[f.type][n + i], TRUE)

\* One that has thrown only detaches.
Unwinds(f) == f.entered /\ f.held = <<>> /\ \A i \in DOMAIN f.todo : DetachCall(f.todo[i])

\* A destructor detaches what it attaches at once.
Destructs(f) ==
  /\ ~f.throwing /\ ~f.keep /\ f.held = <<>>
  /\ \A i \in DOMAIN f.todo :
       IF f.todo[i].op = "detach" THEN DetachCall(f.todo[i])
       ELSE /\ f.todo[i] = Call("attach", f.todo[i].type, FALSE)
            /\ f.todo[i].type \in ToSet(DtorUses[f.type])
            /\ i + 1 \in DOMAIN f.todo
            /\ f.todo[i + 1] = Call("detach", f.todo[i].type, FALSE)

OwnShape(f, calls) ==
  /\ ~f.entered => Waits(f)
  /\ Constructs(f) => Constructing(f, calls)
  /\ f.op = "attach" /\ f.throwing => Unwinds(f)
  /\ f.op = "detach" => Destructs(f)
  /\ \A i \in DOMAIN f.todo : f.todo[i].type \in Uses(f.type)

\* The call that a call is making.
CallShape(f, op, type, keep) ==
  /\ f.entered /\ type \in Uses(f.type)
  /\ keep = Constructs(f)
  /\ Constructs(f) => /\ op = "attach" /\ Len(f.held) < Len(Members[f.type])
                      /\ type = Members[f.type][Len(f.held) + 1]
  /\ f.throwing => op = "detach"
  /\ f.op = "detach" /\ op = "attach" =>
       /\ type \in ToSet(DtorUses[f.type])
       /\ f.todo # <<>> /\ Head(f.todo) = Call("detach", type, FALSE)

Shape(fr) ==
  /\ fr # <<>> => ~fr[1].keep /\ OwnShape(fr[Len(fr)], 0)
  /\ \A j \in 1 .. Len(fr) - 1 :
       /\ OwnShape(fr[j], 1)
       /\ CallShape(fr[j], fr[j + 1].op, fr[j + 1].type, fr[j + 1].keep)

-----------------------------------------------------------------------------
(* The use<> objects that a call has attached for an instance that is not in *)
(* the map: members of one that is being constructed, and what is still to   *)
(* be detached.  They are known by their place, in what must be done counted *)
(* from the end.                                                             *)

Due(f, i, moment, t) ==
  LET p == Len(f.todo) + 1 - i
  IN  /\ f.todo[p].op = "detach" /\ f.todo[p].type = t
      /\ IF p = 1 THEN moment = 0 ELSE f.todo[p - 1].op = "detach"
FrameUses(f, moment, t) ==
  Entries(f.held, t) \cup {i \in DOMAIN f.todo : Due(f, i, moment, t)}

\* The call attaches for a moment, and the one that the frame j makes: 0 or 1.
Moment(f) == IF f.op = "attach" /\ ~f.keep THEN 1 ELSE 0
MomentAbove(fr, j) == IF j < Len(fr) THEN Moment(fr[j + 1]) ELSE 0
CallUses(fr, t) ==
  UNION {{j} \X FrameUses(fr[j], MomentAbove(fr, j), t) : j \in 1 .. Len(fr)}

\* An outermost detach() that has begun, and a nested one that has not.
LastUse(fr, t) == IF fr # <<>> /\ Destroyed(fr[1], t) THEN 1 ELSE 0
NextUse(fr, t) ==
  IF Len(fr) > 1 /\ fr[Len(fr)].op = "detach" /\ ~fr[Len(fr)].entered /\ fr[Len(fr)].type = t
  THEN 1 ELSE 0

\* The references that clients, n of them, and calls need.
Needs(n, fr, t) == n + Cardinality(CallUses(fr, t)) + NextUse(fr, t) - LastUse(fr, t)
Counted(fr) ==
  \A t \in Types :
    /\ ref[t] = Needs(Cardinality(ClientUses(t)), fr, t) + Cardinality(MemberUses(t))
    /\ ref[t] > 0 <=> t \in mapped

\* The types whose constructors run are not in the map, if they may succeed.
NotYet(fr, known) ==
  \A j \in 1 .. Len(fr) :
    (\A i \in j .. Len(fr) : fr[i].op = "attach" /\ ~fr[i].throwing) /\ fr[j].entered
    => fr[j].type \notin known

\* Among any singletons there is one that is no member of the others.
Rooted(known) ==
  \A ts \in SUBSET known : ts # {} => \E u \in ts : \A v \in ts : u \notin ToSet(Members[v])

\* The server is deleted when no call below uses anything: then those that
\* construct will see an exception.
StaleUnused(fr) ==
  \A j \in 1 .. Len(fr) : fr[j].stale =>
    /\ j > 1 => fr[j - 1].stale
    /\ Constructs(fr[j]) => j < Len(fr) /\ fr[j + 1].stale
    /\ \A t \in Types :
         /\ Cardinality(ClientUses(t)) = LastUse(fr, t)
         /\ \A i \in 1 .. j - 1 : FrameUses(fr[i], MomentAbove(fr, i), t) = {}

CountInv ==
  Counted(Frames) /\ NotYet(Frames, mapped) /\ Rooted(mapped) /\ StaleUnused(Frames)

-----------------------------------------------------------------------------
(* The server, and how many instances there are.                             *)

\* A constructor or a destructor runs on the server; one has failed there.
OnServer(fr) == \E j \in 1 .. Len(fr) : fr[j].entered /\ ~fr[j].stale
Failed(fr) ==
  fr # <<>> /\ LET f == fr[Len(fr)] IN f.throwing /\ f.todo = <<>> /\ ~f.stale

ServerThere(fr) ==
  /\ OnServer(fr) \/ mapped # {} => server
  /\ (\A t \in Throwing : Members[t] # <<>>) =>
       /\ server => OnServer(fr) \/ mapped # {}
       /\ Failed(fr) => mapped # {}

OneInstance(fr) ==
  Acyclic => \A t \in Types :
    /\ t \in mapped => Dying(fr, t) = {}
    /\ live[t] = IF t \in mapped \/ Dying(fr, t) # {} THEN 1 ELSE 0

ThrowsNot(fr) ==
  /\ \A ts \in SUBSET Types : Nothrow(ts) =>
       \A j \in 1 .. Len(fr) : fr[j].throwing => fr[j].type \notin ts
  /\ undefined /\ Quiet => AsksDeletedMap /\ mapped = {}

LastingInv == Shape(Frames) /\ CountInv
SingletonInv ==
  /\ BaseInv
  /\ Lasting => /\ LastingInv /\ ServerThere(Frames) /\ OneInstance(Frames)
                /\ ThrowsNot(Frames)

-----------------------------------------------------------------------------
(* The stack of calls, seen from the outermost one.                          *)

LEMMA UpFacts ==
  ASSUME NEW S, NEW s \in Seq(S)
  PROVE  /\ Up(s) \in Seq(S) /\ Len(Up(s)) = Len(s) /\ Len(s) \in Nat
         /\ \A j \in 1 .. Len(s) : Up(s)[j] = s[Len(s) + 1 - j] /\ Up(s)[j] \in S
         /\ Up(s) = <<>> <=> s = <<>>
         /\ s # <<>> => Len(s) > 0 /\ Head(s) = Up(s)[Len(s)]
<1>1. Len(s) \in Nat /\ \A i \in 1 .. Len(s) : s[i] \in S
  OBVIOUS
<1>2. \A j \in 1 .. Len(s) : s[Len(s) + 1 - j] \in S
  BY <1>1
<1>3. Up(s) \in Seq(S) /\ Len(Up(s)) = Len(s)
  BY <1>1, <1>2 DEF Up
<1>4. s # <<>> => Len(s) > 0 /\ Head(s) = s[1]
  BY <1>1
<1> QED
  BY <1>1, <1>2, <1>3, <1>4 DEF Up

(* What the steps do to it: the innermost call is another one (it has gone *)
(* on), it has made one more, or it has returned to one that has gone on.  *)
TopIs(fr, g, fr2) ==
  /\ Len(fr2) = Len(fr) /\ fr2[Len(fr)] = g
  /\ \A j \in 1 .. Len(fr) - 1 : fr2[j] = fr[j]
Pushed(fr, g, f, fr2) ==
  /\ Len(fr2) = Len(fr) + 1 /\ fr2[Len(fr)] = g /\ fr2[Len(fr) + 1] = f
  /\ \A j \in 1 .. Len(fr) - 1 : fr2[j] = fr[j]
Popped(fr, g, fr2) ==
  /\ Len(fr2) = Len(fr) - 1 /\ fr2[Len(fr) - 1] = g
  /\ \A j \in 1 .. Len(fr) - 2 : fr2[j] = fr[j]

LEMMA TopUp ==
  ASSUME NEW S, NEW s \in Seq(S), s # <<>>, NEW g \in S
  PROVE  /\ <<g>> \o Tail(s) \in Seq(S)
         /\ TopIs(Up(s), g, Up(<<g>> \o Tail(s)))
<1> DEFINE s2 == <<g>> \o Tail(s)
<1>1. s2 \in Seq(S) /\ Len(s2) = Len(s) /\ Len(s) \in Nat \ {0}
  OBVIOUS
<1>2. s2[1] = g /\ \A i \in 2 .. Len(s) : s2[i] = s[i]
  OBVIOUS
<1>3. \A j \in 1 .. Len(s) : Up(s)[j] = s[Len(s) + 1 - j]
  BY UpFacts
<1>4. \A j \in 1 .. Len(s2) : Up(s2)[j] = s2[Len(s2) + 1 - j]
  BY <1>1, UpFacts
<1>5. Len(Up(s)) = Len(s) /\ Len(Up(s2)) = Len(s)
  BY <1>1, UpFacts
<1> HIDE DEF s2
<1>6. ASSUME NEW j \in 1 .. Len(s) - 1 PROVE Up(s2)[j] = Up(s)[j]
  <2>1. PICK i : i = Len(s) + 1 - j
    OBVIOUS
  <2>2. i \in 2 .. Len(s) /\ j \in 1 .. Len(s) /\ j \in 1 .. Len(s2)
    BY <1>1, <2>1
  <2>3. Up(s2)[j] = s2[i] /\ Up(s)[j] = s[i]
    BY <1>1, <1>3, <1>4, <2>1, <2>2
  <2> QED
    BY <1>2, <2>2, <2>3
<1>7. Up(s2)[Len(s)] = g
  BY <1>1, <1>2, <1>4
<1> QED
  BY <1>1, <1>5, <1>6, <1>7 DEF TopIs, s2

LEMMA PushedUp ==
  ASSUME NEW S, NEW s \in Seq(S), s # <<>>, NEW f \in S, NEW g \in S
  PROVE  /\ <<f, g>> \o Tail(s) \in Seq(S)
         /\ Pushed(Up(s), g, f, Up(<<f, g>> \o Tail(s)))
<1> DEFINE s2 == <<f, g>> \o Tail(s)
<1>1. s2 \in Seq(S) /\ Len(s2) = Len(s) + 1 /\ Len(s) \in Nat \ {0}
  OBVIOUS
<1>2. s2[1] = f /\ s2[2] = g /\ \A i \in 3 .. Len(s) + 1 : s2[i] = s[i - 1]
  OBVIOUS
<1>3. \A j \in 1 .. Len(s) : Up(s)[j] = s[Len(s) + 1 - j]
  BY UpFacts
<1>4. \A j \in 1 .. Len(s2) : Up(s2)[j] = s2[Len(s2) + 1 - j]
  BY <1>1, UpFacts
<1>5. Len(Up(s)) = Len(s) /\ Len(Up(s2)) = Len(s) + 1
  BY <1>1, UpFacts
<1> HIDE DEF s2
<1>6. ASSUME NEW j \in 1 .. Len(s) - 1 PROVE Up(s2)[j] = Up(s)[j]
  <2>1. PICK i : i = Len(s) + 2 - j
    OBVIOUS
  <2>2. i \in 3 .. Len(s) + 1 /\ j \in 1 .. Len(s) /\ j \in 1 .. Len(s2)
    BY <1>1, <2>1
  <2>3. Up(s2)[j] = s2[i] /\ Up(s)[j] = s[i - 1]
    BY <1>1, <1>3, <1>4, <2>1, <2>2
  <2> QED
    BY <1>2, <2>2, <2>3
<1>7. Up(s2)[Len(s)] = g /\ Up(s2)[Len(s) + 1] = f
  BY <1>1, <1>2, <1>4
<1> QED
  BY <1>1, <1>5, <1>6, <1>7 DEF Pushed, s2

LEMMA PoppedUp ==
  ASSUME NEW S, NEW s \in Seq(S), Len(s) > 1, NEW g \in S
  PROVE  /\ <<g>> \o Tail(Tail(s)) \in Seq(S) /\ <<g>> \o Tail(Tail(s)) # <<>>
         /\ Popped(Up(s), g, Up(<<g>> \o Tail(Tail(s))))
<1> DEFINE s1 == Tail(s)
           s2 == <<g>> \o Tail(s1)
<1>1. s1 \in Seq(S) /\ Len(s1) = Len(s) - 1 /\ Len(s) \in Nat /\ s1 # <<>>
  OBVIOUS
<1>2. \A i \in 1 .. Len(s1) : s1[i] = s[i + 1]
  OBVIOUS
<1> HIDE DEF s1
<1>3. s2 \in Seq(S) /\ TopIs(Up(s1), g, Up(s2))
  BY <1>1, TopUp
<1>4. \A j \in 1 .. Len(s) : Up(s)[j] = s[Len(s) + 1 - j]
  BY UpFacts
<1>5. \A j \in 1 .. Len(s1) : Up(s1)[j] = s1[Len(s1) + 1 - j]
  BY <1>1, UpFacts
<1>6. ASSUME NEW j \in 1 .. Len(s) - 1 PROVE Up(s1)[j] = Up(s)[j]
  <2>1. PICK i : i = Len(s) - j
    OBVIOUS
  <2>2. i \in 1 .. Len(s1) /\ j \in 1 .. Len(s) /\ j \in 1 .. Len(s1)
    BY <1>1, <2>1
  <2>3. Up(s1)[j] = s1[i] /\ Up(s)[j] = s[i + 1]
    BY <1>1, <1>4, <1>5, <2>1, <2>2
  <2> QED
    BY <1>2, <2>2, <2>3
<1>7. Len(Up(s)) = Len(s) /\ Len(Up(s1)) = Len(s) - 1
  BY <1>1, UpFacts
<1>8. s2 # <<>>
  BY <1>1
<1> HIDE DEF s2
<1>9. Popped(Up(s), g, Up(s2))
  BY <1>1, <1>3, <1>6, <1>7 DEF Popped, TopIs
<1> QED
  BY <1>3, <1>8, <1>9 DEF s1, s2

-----------------------------------------------------------------------------
(* Types of the operators.                                                   *)

LEMMA ProgramTyped ==
  ASSUME program \in Programs
  PROVE  /\ Members \in [Types -> Seq(Types)] /\ CtorUses \in [Types -> Seq(Types)]
         /\ DtorUses \in [Types -> Seq(Types)] /\ Throwing \in SUBSET Types
  BY SingletonAssumption DEF Members, CtorUses, DtorUses, Throwing

LEMMA CallTyped ==
  ASSUME NEW op \in {"attach", "detach"}, NEW t \in Types, NEW keep \in BOOLEAN
  PROVE  /\ Call(op, t, keep) \in FrameType /\ Call(op, t, keep) \in CallType
         /\ Call(op, t, keep).op = op /\ Call(op, t, keep).type = t
         /\ Call(op, t, keep).keep = keep /\ ~Call(op, t, keep).entered
         /\ Waits(Call(op, t, keep))
<1>1. Call(op, t, keep) \in CallType
  BY DEF CallType
<1>2. <<>> \in Seq(CallType) /\ <<>> \in Seq(Types)
  OBVIOUS
<1>3. Call(op, t, keep) \in FrameType
  BY <1>2 DEF Call, FrameType
<1> QED
  BY <1>1, <1>3 DEF Call, Waits

\* A function on 1..n is a sequence.
LEMMA FunctionIsSeq ==
  ASSUME NEW S, NEW n \in Nat, NEW f \in [1 .. n -> S]
  PROVE  f \in Seq(S) /\ Len(f) = n
  OBVIOUS

LEMMA CallsAreFrames == CallType \subseteq FrameType
  BY CallTyped DEF CallType

LEMMA CallOfType ==
  ASSUME NEW c \in CallType
  PROVE  /\ c = Call(c.op, c.type, c.keep) /\ c.op \in {"attach", "detach"}
         /\ c.type \in Types /\ c.keep \in BOOLEAN /\ ~c.entered /\ Waits(c)
<1>1. PICK op \in {"attach", "detach"}, t \in Types, keep \in BOOLEAN : c = Call(op, t, keep)
  BY DEF CallType
<1> QED
  BY <1>1, CallTyped

LEMMA ReverseTyped ==
  ASSUME NEW ts \in Seq(Types)
  PROVE  \A i \in 1 .. Len(ts) : /\ Reverse(ts)[i] = ts[Len(ts) + 1 - i]
                                 /\ Reverse(ts)[i] \in Types
  BY DEF Reverse

LEMMA AttachesTyped ==
  ASSUME NEW ts \in Seq(Types)
  PROVE  /\ Attaches(ts) \in Seq(CallType) /\ Len(Attaches(ts)) = Len(ts)
         /\ \A i \in 1 .. Len(ts) : Attaches(ts)[i] = Call("attach", ts[i], TRUE)
<1>1. DOMAIN ts = 1 .. Len(ts) /\ Len(ts) \in Nat /\ \A i \in 1 .. Len(ts) : ts[i] \in Types
  OBVIOUS
<1>2. \A i \in 1 .. Len(ts) : Call("attach", ts[i], TRUE) \in CallType
  BY <1>1, CallTyped
<1>3. Attaches(ts) \in [1 .. Len(ts) -> CallType]
  BY <1>1, <1>2, Zenon DEF Attaches
<1> QED
  BY <1>1, <1>3, FunctionIsSeq DEF Attaches

LEMMA DetachesTyped ==
  ASSUME NEW ts \in Seq(Types)
  PROVE  /\ Detaches(ts) \in Seq(CallType) /\ Len(Detaches(ts)) = Len(ts)
         /\ \A i \in 1 .. Len(ts) :
              Detaches(ts)[i] = Call("detach", ts[Len(ts) + 1 - i], FALSE)
<1>1. DOMAIN ts = 1 .. Len(ts) /\ Len(ts) \in Nat
  OBVIOUS
<1>2. \A i \in 1 .. Len(ts) : Call("detach", Reverse(ts)[i], FALSE) \in CallType
  BY ReverseTyped, CallTyped
<1>5. Detaches(ts) \in [1 .. Len(ts) -> CallType]
  BY <1>1, <1>2, Zenon DEF Detaches
<1>3. Detaches(ts) \in Seq(CallType) /\ Len(Detaches(ts)) = Len(ts)
  BY <1>1, <1>5, FunctionIsSeq
<1>4. \A i \in 1 .. Len(ts) : Detaches(ts)[i] = Call("detach", Reverse(ts)[i], FALSE)
  BY <1>1 DEF Detaches
<1> QED
  BY <1>3, <1>4, ReverseTyped

LEMMA Halves ==
  ASSUME NEW n \in Nat, NEW i \in 1 .. 2 * n
  PROVE  (i + 1) \div 2 \in 1 .. n
  OBVIOUS

LEMMA Pairs ==
  ASSUME NEW n \in Nat, NEW i \in 1 .. 2 * n
  PROVE  /\ 2 * n \in Nat /\ (2 * n) % 2 = 0
         /\ i % 2 = 1 => /\ i + 1 \in 1 .. 2 * n /\ (i + 1) % 2 # 1
                         /\ ((i + 1) + 1) \div 2 = (i + 1) \div 2
  OBVIOUS

LEMMA MomentsTyped ==
  ASSUME NEW ts \in Seq(Types)
  PROVE  /\ Moments(ts) \in Seq(CallType) /\ Len(Moments(ts)) = 2 * Len(ts)
         /\ \A i \in 1 .. 2 * Len(ts) :
              Moments(ts)[i] = Call(IF i % 2 = 1 THEN "attach" ELSE "detach",
                                    ts[(i + 1) \div 2], FALSE)
<1>1. Len(ts) \in Nat /\ \A i \in 1 .. Len(ts) : ts[i] \in Types
  OBVIOUS
<1>2. \A i \in 1 .. 2 * Len(ts) : ts[(i + 1) \div 2] \in Types
  BY <1>1, Halves
<1>3. \A i \in 1 .. 2 * Len(ts) :
        Call(IF i % 2 = 1 THEN "attach" ELSE "detach", ts[(i + 1) \div 2], FALSE) \in CallType
  BY <1>2, CallTyped
<1>4. Moments(ts) \in [1 .. 2 * Len(ts) -> CallType]
  BY <1>3, Zenon DEF Moments
<1>5. 2 * Len(ts) \in Nat
  BY <1>1
<1> QED
  BY <1>4, <1>5, FunctionIsSeq DEF Moments

LEMMA BodiesTyped ==
  ASSUME program \in Programs, NEW t \in Types
  PROVE  Construction(t) \in Seq(CallType) /\ Destruction(t) \in Seq(CallType)
<1>1. Members[t] \in Seq(Types) /\ CtorUses[t] \in Seq(Types) /\ DtorUses[t] \in Seq(Types)
  BY ProgramTyped
<1>2. /\ Attaches(Members[t]) \in Seq(CallType) /\ Moments(CtorUses[t]) \in Seq(CallType)
      /\ Moments(DtorUses[t]) \in Seq(CallType) /\ Detaches(Members[t]) \in Seq(CallType)
  BY <1>1, AttachesTyped, DetachesTyped, MomentsTyped
<1> QED
  BY <1>2, ConcatProperties DEF Construction, Destruction

-----------------------------------------------------------------------------
(* What the steps make of the innermost calls.                               *)

\* A caller when the call f has returned.
Continues(c, f) == [c EXCEPT !.held = IF f.keep THEN Append(@, f.type) ELSE @]
Staled(s) == [i \in DOMAIN s |-> [s[i] EXCEPT !.stale = TRUE]]
Entered(f, body) == [f EXCEPT !.entered = TRUE, !.todo = body]
Proceeds(f) == [f EXCEPT !.todo = Tail(@)]

LEMMA FramesTyped ==
  ASSUME NEW f \in FrameType, NEW g \in FrameType, NEW body \in Seq(CallType)
  PROVE  /\ Continues(f, g) \in FrameType
         /\ Entered(f, body) \in FrameType
         /\ Unwinding(f) \in FrameType
         /\ f.todo # <<>> => Proceeds(f) \in FrameType /\ Head(f.todo) \in FrameType
         /\ [f EXCEPT !.stale = TRUE] \in FrameType
<1>1. f.held \in Seq(Types) /\ g.type \in Types /\ f.todo \in Seq(CallType)
  BY DEF FrameType
<1>2. Append(f.held, g.type) \in Seq(Types) /\ Detaches(f.held) \in Seq(CallType)
  BY <1>1, DetachesTyped, AppendProperties
<1>3. f.todo # <<>> => Tail(f.todo) \in Seq(CallType) /\ Head(f.todo) \in CallType
  BY <1>1
<1>4. Continues(f, g) \in FrameType
  BY <1>1, <1>2 DEF FrameType, Continues
<1>5. Entered(f, body) \in FrameType
  BY DEF FrameType, Entered
<1>6. Unwinding(f) \in FrameType
  <2>1. PICK d : d = Detaches(f.held)
    OBVIOUS
  <2>2. d \in Seq(CallType) /\ <<>> \in Seq(Types)
    BY <1>2, <2>1
  <2>3. Unwinding(f) = [f EXCEPT !.throwing = TRUE, !.todo = d, !.held = <<>>]
    BY <2>1 DEF Unwinding
  <2> QED
    BY <2>2, <2>3 DEF FrameType
<1>7. f.todo # <<>> => Proceeds(f) \in FrameType
  BY <1>3 DEF FrameType, Proceeds
<1>8. [f EXCEPT !.stale = TRUE] \in FrameType
  BY DEF FrameType
<1> QED
  BY <1>3, <1>4, <1>5, <1>6, <1>7, <1>8, CallsAreFrames

LEMMA StaledTyped ==
  ASSUME NEW s \in Seq(FrameType)
  PROVE  /\ Staled(s) \in Seq(FrameType) /\ Len(Staled(s)) = Len(s)
         /\ \A j \in 1 .. Len(s) : Up(Staled(s))[j] = [Up(s)[j] EXCEPT !.stale = TRUE]
<1>1. DOMAIN s = 1 .. Len(s) /\ Len(s) \in Nat /\ \A i \in 1 .. Len(s) : s[i] \in FrameType
  OBVIOUS
<1>2. \A i \in 1 .. Len(s) : [s[i] EXCEPT !.stale = TRUE] \in FrameType
  BY <1>1 DEF FrameType
<1>3. Staled(s) \in Seq(FrameType) /\ Len(Staled(s)) = Len(s)
  BY <1>1, <1>2 DEF Staled
<1>4. ASSUME NEW j \in 1 .. Len(s) PROVE Up(Staled(s))[j] = [Up(s)[j] EXCEPT !.stale = TRUE]
  <2>1. PICK i : i = Len(s) + 1 - j
    OBVIOUS
  <2>2. i \in 1 .. Len(s)
    BY <1>1, <2>1
  <2>3. Up(s)[j] = s[i] /\ Up(Staled(s))[j] = Staled(s)[i]
    BY <1>3, <2>1 DEF Up
  <2> QED
    BY <1>1, <2>2, <2>3 DEF Staled
<1> QED
  BY <1>3, <1>4

\* The innermost call returns; `frames' is the stack, or the stack on a server
\* that has been deleted.
LEMMA ReturnUp ==
  ASSUME stack \in Seq(FrameType), stack # <<>>, NEW delta,
         NEW frames \in Seq(FrameType), Len(frames) = Len(stack), Return(frames, delta)
  PROVE  IF Len(stack) = 1
         THEN /\ stack' = <<>> /\ holder' = NoThread
              /\ clients' = [clients EXCEPT ![holder][Top.type] = @ + delta]
         ELSE /\ stack' \in Seq(FrameType) /\ stack' # <<>>
              /\ Popped(Up(frames), Continues(Up(frames)[Len(stack) - 1], Top), Up(stack'))
              /\ UNCHANGED <<clients, holder>>
<1>1. Top \in FrameType /\ Len(stack) \in Nat \ {0}
  BY DEF Top
<1>2. CASE Len(stack) = 1
  BY <1>1, <1>2 DEF Return, Returned
<1>3. CASE Len(stack) # 1
  <2>1. Len(frames) > 1 /\ frames[2] \in FrameType
    BY <1>1, <1>3
  <2>2. Continues(frames[2], Top) \in FrameType
    BY <1>1, <2>1, FramesTyped, EmptySeq
  <2>3. stack' = <<Continues(frames[2], Top)>> \o Tail(Tail(frames))
    <3>1. ~(Len(frames) < 2)
      BY <1>1, <2>1
    <3> QED
      BY <3>1, Zenon DEF Return, Returned, Continues
  <2>4. frames[2] = Up(frames)[Len(stack) - 1]
    BY <1>1, <2>1, UpFacts
  <2>5. UNCHANGED <<clients, holder>>
    BY <1>1, <2>1 DEF Return
  <2> QED
    BY <1>3, <2>1, <2>2, <2>3, <2>4, <2>5, PoppedUp
<1> QED
  BY <1>2, <1>3

\* What is known of the stack, seen from both of its ends.
LEMMA StackFacts ==
  ASSUME stack \in Seq(FrameType)
  PROVE  /\ Frames \in Seq(FrameType) /\ Len(Frames) = Len(stack) /\ Len(stack) \in Nat
         /\ \A j \in 1 .. Len(stack) : Frames[j] \in FrameType
         /\ Frames = <<>> <=> stack = <<>>
         /\ stack # <<>> => Len(stack) > 0 /\ Top = Frames[Len(stack)] /\ Top \in FrameType
  BY UpFacts DEF Frames, Top

-----------------------------------------------------------------------------
(* Types and instances, in every program.                                    *)

LEMMA DyingFinite ==
  ASSUME NEW fr \in Seq(FrameType), NEW t
  PROVE  IsFiniteSet(Dying(fr, t)) /\ Cardinality(Dying(fr, t)) \in Nat
<1>1. IsFiniteSet(1 .. Len(fr))
  BY FS_Interval
<1>2. Dying(fr, t) \in SUBSET (1 .. Len(fr))
  BY DEF Dying
<1> QED
  BY <1>1, <1>2, FS_Subset, FS_CardinalityType

LEMMA DyingTop ==
  ASSUME NEW fr \in Seq(FrameType), fr # <<>>, NEW g \in FrameType, NEW fr2 \in Seq(FrameType),
         TopIs(fr, g, fr2), NEW t
  PROVE  Dying(fr2, t) = (Dying(fr, t) \ {Len(fr)})
                           \cup (IF Destroyed(g, t) THEN {Len(fr)} ELSE {})
  BY DEF TopIs, Dying

LEMMA DyingPushed ==
  ASSUME NEW fr \in Seq(FrameType), fr # <<>>, NEW g, NEW f, NEW fr2 \in Seq(FrameType),
         Pushed(fr, g, f, fr2), NEW t,
         Destroyed(g, t) = Destroyed(fr[Len(fr)], t), ~f.entered
  PROVE  Dying(fr2, t) = Dying(fr, t)
<1>1. ~Destroyed(f, t)
  BY DEF Destroyed
<1> QED
  BY <1>1 DEF Pushed, Dying

LEMMA DyingPopped ==
  ASSUME NEW fr \in Seq(FrameType), Len(fr) > 1, NEW g, NEW fr2 \in Seq(FrameType),
         Popped(fr, g, fr2), NEW t,
         Destroyed(g, t) = Destroyed(fr[Len(fr) - 1], t)
  PROVE  Dying(fr2, t) = Dying(fr, t) \ {Len(fr)}
  BY DEF Popped, Dying

\* As long as the outermost call stays, so does what it acts for.
LEMMA BottomKept ==
  ASSUME Bottom(Frames), stack # <<>>, stack \in Seq(FrameType),
         UNCHANGED <<clients, holder>>,
         stack' # <<>>, stack' \in Seq(FrameType),
         Frames'[1].op = Frames[1].op, Frames'[1].type = Frames[1].type
  PROVE  Bottom(Frames)'
<1>1. Frames # <<>>
  BY StackFacts
<1> QED
  BY <1>1 DEF Bottom

LEMMA BottomNone == ASSUME stack' = <<>> PROVE Bottom(Frames)' /\ Frames' = <<>>
<1>1. Frames' = <<>>
  BY DEF Frames, Up
<1> QED
  BY <1>1 DEF Bottom

\* Only what differs between the innermost call that goes on and the one there was.
LEMMA SameKind ==
  ASSUME NEW f \in FrameType, NEW g \in FrameType
  PROVE  /\ Continues(f, g).op = f.op /\ Continues(f, g).type = f.type
         /\ Continues(f, g).entered = f.entered
         /\ Unwinding(f).op = f.op /\ Unwinding(f).type = f.type
         /\ Unwinding(f).entered = f.entered
         /\ Proceeds(f).op = f.op /\ Proceeds(f).type = f.type
         /\ Proceeds(f).entered = f.entered
         /\ \A body : /\ Entered(f, body).op = f.op /\ Entered(f, body).type = f.type
                      /\ Entered(f, body).entered
  BY DEF FrameType, Continues, Unwinding, Proceeds, Entered

LEMMA ReturnKeeps ==
  ASSUME BaseInv, stack # <<>>, NEW delta \in {-1, 1},
         NEW frames \in {stack, Staled(stack)}, Return(frames, delta),
         Top.op = IF delta = 1 THEN "attach" ELSE "detach"
  PROVE  /\ stack' \in Seq(FrameType)
         /\ clients' \in [Threads -> [Types -> 0 .. MaxUses]]
         /\ holder' \in Threads \cup {NoThread}
         /\ (holder' = NoThread) = (stack' = <<>>)
         /\ Bottom(Frames)'
         /\ \A t \in Types : Dying(Frames', t) = Dying(Frames, t) \ {Len(stack)}
<1> DEFINE n == Len(stack)
<1>1. /\ stack \in Seq(FrameType) /\ n \in Nat \ {0} /\ Frames # <<>>
      /\ Frames \in Seq(FrameType) /\ Len(Frames) = n /\ Top = Frames[n] /\ Top \in FrameType
      /\ \A j \in 1 .. n : Frames[j] \in FrameType
  BY StackFacts DEF BaseInv
<1>2. /\ clients \in [Threads -> [Types -> 0 .. MaxUses]] /\ MaxUses \in Nat
      /\ holder \in Threads /\ NoThread \notin Threads
  BY <1>1, SingletonAssumption DEF BaseInv, TypeOK, Bottom
<1>3. frames \in Seq(FrameType) /\ Len(frames) = n
  BY <1>1, StaledTyped
<1>4. CASE n = 1
  <2>1. /\ stack' = <<>> /\ holder' = NoThread
        /\ clients' = [clients EXCEPT ![holder][Top.type] = @ + delta]
    BY <1>1, <1>3, <1>4, ReturnUp
  <2>2. IF delta = 1 THEN clients[holder][Top.type] < MaxUses ELSE clients[holder][Top.type] > 0
    BY <1>1, <1>4 DEF BaseInv, Bottom
  <2>3. Top.type \in Types
    BY <1>1 DEF FrameType
  <2>4. clients[holder][Top.type] + delta \in 0 .. MaxUses
    BY <1>2, <2>2, <2>3
  <2>5. clients' \in [Threads -> [Types -> 0 .. MaxUses]]
    BY <1>2, <2>1, <2>3, <2>4
  <2>6. ASSUME NEW t \in Types PROVE Dying(Frames', t) = Dying(Frames, t) \ {n}
    <3>1. Dying(Frames', t) = {}
      BY <2>1, BottomNone DEF Dying
    <3>2. Dying(Frames, t) \subseteq {1}
      BY <1>1, <1>4 DEF Dying
    <3> QED
      BY <1>4, <3>1, <3>2
  <2>7. stack' \in Seq(FrameType) /\ Bottom(Frames)'
    BY <2>1, BottomNone
  <2> QED
    BY <2>1, <2>5, <2>6, <2>7
<1>5. CASE n # 1
  <2> DEFINE c == Up(frames)[n - 1]
             g == Continues(c, Top)
  <2>1. /\ stack' \in Seq(FrameType) /\ stack' # <<>> /\ UNCHANGED <<clients, holder>>
        /\ Popped(Up(frames), g, Frames')
    BY <1>1, <1>3, <1>5, ReturnUp DEF Frames
  <2>2. /\ Up(frames) \in Seq(FrameType) /\ Len(Up(frames)) = n
        /\ \A j \in 1 .. n : Up(frames)[j] \in FrameType
    BY <1>3, UpFacts
  <2>3. ASSUME NEW j \in 1 .. n
        PROVE  /\ Up(frames)[j].op = Frames[j].op /\ Up(frames)[j].type = Frames[j].type
               /\ Up(frames)[j].entered = Frames[j].entered
    <3>1. CASE frames = stack
      BY <3>1 DEF Frames
    <3>2. CASE frames = Staled(stack)
      <4>1. Up(frames)[j] = [Frames[j] EXCEPT !.stale = TRUE]
        BY <1>1, <3>2, StaledTyped DEF Frames
      <4> QED
        BY <1>1, <4>1 DEF FrameType
    <3> QED
      BY <3>1, <3>2
  <2>4. c \in FrameType /\ n - 1 \in 1 .. n /\ n > 1
    BY <1>1, <1>5, <2>2
  <2> HIDE DEF n
  <2>5. g.op = c.op /\ g.type = c.type /\ g.entered = c.entered
    BY <1>1, <2>4, SameKind
  <2>6. Frames' \in Seq(FrameType)
    BY <2>1, UpFacts DEF Frames
  <2>7. ASSUME NEW t \in Types PROVE Dying(Frames', t) = Dying(Frames, t) \ {n}
    <3>1. Dying(Up(frames), t) = Dying(Frames, t)
      BY <1>1, <2>2, <2>3 DEF Dying, Destroyed
    <3>2. Destroyed(g, t) = Destroyed(c, t)
      BY <2>5 DEF Destroyed
    <3>3. Dying(Frames', t) = Dying(Up(frames), t) \ {n}
      BY <2>1, <2>2, <2>4, <2>6, <3>2, DyingPopped
    <3> QED
      BY <3>1, <3>3
  <2>8. Frames'[1].op = Frames[1].op /\ Frames'[1].type = Frames[1].type
    <3>0. Up(frames)[1].op = Frames[1].op /\ Up(frames)[1].type = Frames[1].type
      BY <1>1, <2>3
    <3>1. CASE n = 2
      <4>1. Frames'[1] = g /\ c = Up(frames)[1]
        BY <2>1, <2>2, <3>1 DEF Popped
      <4> QED
        BY <2>5, <3>0, <4>1
    <3>2. CASE n > 2
      <4>1. Frames'[1] = Up(frames)[1]
        BY <2>1, <2>2, <3>2, <2>4 DEF Popped
      <4> QED
        BY <3>0, <4>1
    <3> QED
      BY <1>1, <2>4, <3>1, <3>2
  <2>9. Bottom(Frames)'
    BY <1>1, <2>1, <2>8, BottomKept DEF BaseInv
  <2>10. (holder' = NoThread) = (stack' = <<>>)
    BY <1>2, <2>1
  <2> QED
    BY <1>2, <2>1, <2>7, <2>9, <2>10 DEF n
<1> QED
  BY <1>4, <1>5

LEMMA GoesOnKeeps ==
  ASSUME BaseInv, stack # <<>>, NEW g \in FrameType, g.op = Top.op, g.type = Top.type,
         stack' = <<g>> \o Tail(stack), UNCHANGED <<clients, holder>>
  PROVE  /\ stack' \in Seq(FrameType) /\ stack' # <<>> /\ Bottom(Frames)'
         /\ TopIs(Frames, g, Frames')
         /\ \A t \in Types : Dying(Frames', t) = (Dying(Frames, t) \ {Len(stack)})
                               \cup (IF Destroyed(g, t) THEN {Len(stack)} ELSE {})
<1>1. /\ stack \in Seq(FrameType) /\ Len(stack) \in Nat \ {0} /\ Frames # <<>>
      /\ Frames \in Seq(FrameType) /\ Len(Frames) = Len(stack) /\ Top = Frames[Len(stack)]
  BY StackFacts DEF BaseInv
<1>2. /\ stack' \in Seq(FrameType) /\ TopIs(Frames, g, Frames')
  BY <1>1, TopUp DEF Frames
<1>3. stack' # <<>> /\ Frames' \in Seq(FrameType)
  <2>1. Frames' \in Seq(FrameType) /\ Len(Frames') = Len(stack')
    BY <1>2, UpFacts DEF Frames
  <2> QED
    BY <1>1, <1>2, <2>1 DEF TopIs
<1>4. Frames'[1].op = Frames[1].op /\ Frames'[1].type = Frames[1].type
  BY <1>1, <1>2 DEF TopIs
<1>5. Bottom(Frames)'
  BY <1>1, <1>2, <1>3, <1>4, BottomKept DEF BaseInv
<1>6. \A t \in Types : Dying(Frames', t) = (Dying(Frames, t) \ {Len(stack)})
                               \cup (IF Destroyed(g, t) THEN {Len(stack)} ELSE {})
  BY <1>1, <1>2, <1>3, DyingTop
<1> QED
  BY <1>2, <1>3, <1>5, <1>6

LEMMA CallKeeps ==
  ASSUME BaseInv, NextCall
  PROVE  /\ stack' \in Seq(FrameType) /\ stack' # <<>> /\ Bottom(Frames)'
         /\ Pushed(Frames, Proceeds(Top), Head(Top.todo), Frames')
         /\ Head(Top.todo) \in CallType
         /\ \A t \in Types : Dying(Frames', t) = Dying(Frames, t)
<1> DEFINE g == Proceeds(Top)
           f == Head(Top.todo)
<1>1. /\ stack \in Seq(FrameType) /\ Len(stack) \in Nat \ {0} /\ Frames # <<>> /\ stack # <<>>
      /\ Frames \in Seq(FrameType) /\ Len(Frames) = Len(stack) /\ Top = Frames[Len(stack)]
      /\ Top \in FrameType
  BY StackFacts DEF BaseInv, NextCall, Running
<1>2. Top.todo # <<>> /\ Top.todo \in Seq(CallType)
  BY <1>1 DEF NextCall, FrameType
<1>3. f \in CallType /\ f \in FrameType /\ g \in FrameType /\ ~f.entered
  <2>1. f \in CallType
    BY <1>2
  <2>2. g \in FrameType
    BY <1>1, <1>2, FramesTyped
  <2> QED
    BY <2>1, <2>2, CallOfType, CallsAreFrames
<1>4. stack' = <<f, g>> \o Tail(stack) /\ UNCHANGED <<clients, holder>>
  BY DEF NextCall, Proceeds
<1>5. g.op = Top.op /\ g.type = Top.type /\ g.entered = Top.entered
  BY <1>1, SameKind
<1> HIDE DEF f, g
<1>6. stack' \in Seq(FrameType) /\ Pushed(Frames, g, f, Frames')
  BY <1>1, <1>3, <1>4, PushedUp DEF Frames
<1>7. stack' # <<>> /\ Frames' \in Seq(FrameType)
  <2>1. Frames' \in Seq(FrameType) /\ Len(Frames') = Len(stack')
    BY <1>6, UpFacts DEF Frames
  <2> QED
    BY <1>1, <1>6, <2>1 DEF Pushed
<1>8. Frames'[1].op = Frames[1].op /\ Frames'[1].type = Frames[1].type
  BY <1>1, <1>5, <1>6 DEF Pushed
<1>9. Bottom(Frames)'
  BY <1>1, <1>4, <1>6, <1>7, <1>8, BottomKept DEF BaseInv
<1>10. ASSUME NEW t \in Types PROVE Dying(Frames', t) = Dying(Frames, t)
  <2>1. Destroyed(g, t) = Destroyed(Frames[Len(Frames)], t)
    BY <1>1, <1>5 DEF Destroyed
  <2> QED
    BY <1>1, <1>3, <1>6, <1>7, <2>1, DyingPushed
<1> QED
  BY <1>3, <1>6, <1>7, <1>9, <1>10 DEF f, g

LEMMA LeavesKeeps ==
  ASSUME BaseInv, ExceptionLeaves
  PROVE  /\ stack' \in Seq(FrameType) /\ Bottom(Frames)'
         /\ holder' \in Threads \cup {NoThread} /\ (holder' = NoThread) = (stack' = <<>>)
         /\ Len(stack) = 1 => stack' = <<>>
         /\ Len(stack) > 1 => Popped(Frames, Unwinding(Frames[Len(stack) - 1]), Frames')
         /\ \A t \in Types : Dying(Frames', t) = Dying(Frames, t)
<1> DEFINE n == Len(stack)
<1>1. /\ stack \in Seq(FrameType) /\ n \in Nat \ {0} /\ Frames # <<>> /\ stack # <<>>
      /\ Frames \in Seq(FrameType) /\ Len(Frames) = n /\ Top = Frames[n]
      /\ \A j \in 1 .. n : Frames[j] \in FrameType
  BY StackFacts DEF BaseInv, ExceptionLeaves, Thrown, InBody, Running
<1>2. holder \in Threads /\ NoThread \notin Threads /\ Top.op = "attach"
  BY <1>1, SingletonAssumption
  DEF BaseInv, Bottom, ExceptionLeaves, Thrown, InBody
<1>3. \A t : ~Destroyed(Top, t)
  BY <1>2 DEF Destroyed
<1>4. CASE n = 1
  <2>1. stack' = <<>> /\ holder' = NoThread
    BY <1>4 DEF ExceptionLeaves
  <2>2. Bottom(Frames)' /\ Frames' = <<>>
    BY <2>1, BottomNone
  <2>3. \A t \in Types : Dying(Frames', t) = {} /\ Dying(Frames, t) = {}
    BY <1>1, <1>3, <1>4, <2>2 DEF Dying
  <2>4. stack' \in Seq(FrameType) /\ ~(Len(stack) > 1)
    BY <1>4, <2>1
  <2>5. holder' \in Threads \cup {NoThread} /\ (holder' = NoThread) = (stack' = <<>>)
    BY <2>1
  <2> QED
    BY <2>1, <2>2, <2>3, <2>4, <2>5
<1>5. CASE n # 1
  <2> DEFINE g == Unwinding(Frames[n - 1])
  <2>1. n > 1 /\ n - 1 \in 1 .. n /\ stack[2] = Frames[n - 1]
    BY <1>1, <1>5, UpFacts DEF Frames
  <2>2. g \in FrameType /\ g.op = Frames[n - 1].op /\ g.type = Frames[n - 1].type
        /\ g.entered = Frames[n - 1].entered
    BY <1>1, <2>1, FramesTyped, SameKind, EmptySeq
  <2>3. stack' = <<g>> \o Tail(Tail(stack)) /\ UNCHANGED <<clients, holder>>
    BY <1>5, <2>1 DEF ExceptionLeaves
  <2> HIDE DEF g
  <2>4. /\ stack' \in Seq(FrameType) /\ stack' # <<>> /\ Popped(Frames, g, Frames')
    BY <1>1, <2>1, <2>2, <2>3, PoppedUp DEF Frames
  <2>5. Frames' \in Seq(FrameType)
    BY <2>4, UpFacts DEF Frames
  <2>6. Frames'[1].op = Frames[1].op /\ Frames'[1].type = Frames[1].type
    BY <1>1, <2>1, <2>2, <2>4 DEF Popped
  <2>7. Bottom(Frames)'
    BY <1>1, <2>3, <2>4, <2>6, BottomKept DEF BaseInv
  <2>8. ASSUME NEW t \in Types PROVE Dying(Frames', t) = Dying(Frames, t)
    <3>1. Destroyed(g, t) = Destroyed(Frames[n - 1], t)
      BY <2>2 DEF Destroyed
    <3>2. Dying(Frames', t) = Dying(Frames, t) \ {n}
      BY <1>1, <2>1, <2>4, <2>5, <3>1, DyingPopped
    <3>3. n \notin Dying(Frames, t)
      BY <1>1, <1>3 DEF Dying
    <3> QED
      BY <3>2, <3>3
  <2>9. holder' \in Threads /\ (holder' = NoThread) = (stack' = <<>>)
    BY <1>2, <2>3, <2>4
  <2>10. Len(stack) # 1 /\ Popped(Frames, Unwinding(Frames[Len(stack) - 1]), Frames')
    BY <2>1, <2>4 DEF g
  <2>11. holder' \in Threads \cup {NoThread}
    BY <2>9
  <2> HIDE DEF n
  <2> QED
    BY <2>4, <2>7, <2>8, <2>9, <2>10, <2>11
<1> QED
  BY <1>4, <1>5

\* The parts of BaseInv that are about the numbers.
LEMMA NumbersKept ==
  ASSUME BaseInv, UNCHANGED live, mapped' = mapped,
         \A t \in Types : Dying(Frames', t) \subseteq Dying(Frames, t)
  PROVE  DyingLive(Frames)'
<1> SUFFICES ASSUME NEW t \in Types
             PROVE  live[t] >= Cardinality(Dying(Frames', t)) + (IF t \in mapped THEN 1 ELSE 0)
  BY DEF DyingLive, Dying
<1>1. IsFiniteSet(Dying(Frames, t)) /\ Cardinality(Dying(Frames, t)) \in Nat
  BY StackFacts, DyingFinite DEF BaseInv
<1>2. Cardinality(Dying(Frames', t)) <= Cardinality(Dying(Frames, t))
      /\ IsFiniteSet(Dying(Frames', t))
  BY <1>1, FS_Subset
<1>3. Cardinality(Dying(Frames', t)) \in Nat
  BY <1>2, FS_CardinalityType
<1>4. live[t] >= Cardinality(Dying(Frames, t)) + (IF t \in mapped THEN 1 ELSE 0) /\ live[t] \in Nat
  BY DEF BaseInv, DyingLive, TypeOK
<1> QED
  BY <1>1, <1>2, <1>3, <1>4

LEMMA OneFrame ==
  ASSUME NEW S, NEW f \in S
  PROVE  /\ <<f>> \in Seq(S) /\ <<f>> # <<>>
         /\ Up(<<f>>) \in Seq(S) /\ Len(Up(<<f>>)) = 1 /\ Up(<<f>>)[1] = f
<1>1. <<f>> \in Seq(S) /\ <<f>> # <<>> /\ Len(<<f>>) = 1 /\ Head(<<f>>) = f
  OBVIOUS
<1> QED
  BY <1>1, UpFacts

LEMMA BeginKeepsBase ==
  ASSUME BaseInv, NEW th \in Threads, NEW t \in Types, BeginAttach(th, t) \/ BeginDetach(th, t)
  PROVE  BaseInv'
<1>1. PICK op \in {"attach", "detach"} :
        /\ stack' = <<Call(op, t, FALSE)>> /\ holder' = th /\ holder = NoThread
        /\ IF op = "attach" THEN clients[th][t] < MaxUses ELSE clients[th][t] > 0
        /\ UNCHANGED <<program, clients, server, mapped, ref, live, undefined>>
  BY DEF BeginAttach, BeginDetach
<1>2. Call(op, t, FALSE) \in FrameType /\ Call(op, t, FALSE).op = op
      /\ Call(op, t, FALSE).type = t /\ ~Call(op, t, FALSE).entered
  BY CallTyped, ZenonT(30)
<1>3. stack' \in Seq(FrameType) /\ stack' # <<>>
  BY <1>1, <1>2, OneFrame
<1>4. Frames' \in Seq(FrameType) /\ Len(Frames') = 1 /\ Frames'[1] = Call(op, t, FALSE)
  BY <1>1, <1>2, OneFrame DEF Frames
<1>5. stack = <<>>
  BY <1>1 DEF BaseInv, TypeOK
<1>6. ASSUME NEW u \in Types PROVE Dying(Frames', u) = {}
  <2>1. ~Destroyed(Frames'[1], u)
    BY <1>2, <1>4 DEF Destroyed
  <2>2. \A j \in 1 .. 1 : j = 1
    OBVIOUS
  <2> QED
    BY <1>4, <2>1, <2>2 DEF Dying
<1>7. DyingLive(Frames)'
  BY <1>1, <1>6, NumbersKept
<1>8. th # NoThread
  BY SingletonAssumption
<1>9. TypeOK'
  BY <1>1, <1>3, <1>8 DEF BaseInv, TypeOK
<1>10. Bottom(Frames)'
  BY <1>1, <1>2, <1>4 DEF Bottom
<1> QED
  BY <1>1, <1>3, <1>7, <1>9, <1>10 DEF BaseInv

\* What the steps below have in common.
LEMMA TopFacts ==
  ASSUME BaseInv, Running
  PROVE  /\ stack # <<>> /\ Top \in FrameType /\ Top = Frames[Len(stack)]
         /\ Len(stack) \in Nat \ {0} /\ Len(Frames) = Len(stack)
         /\ Top.type \in Types /\ Top.op \in {"attach", "detach"} /\ holder \in Threads
         /\ \A t \in Types : /\ ref[t] \in Nat /\ live[t] \in Nat
                             /\ IsFiniteSet(Dying(Frames, t))
                             /\ Cardinality(Dying(Frames, t)) \in Nat
                             /\ live[t] >= Cardinality(Dying(Frames, t))
                                             + (IF t \in mapped THEN 1 ELSE 0)
<1>1. /\ stack # <<>> /\ Top \in FrameType /\ Top = Frames[Len(stack)] /\ Frames # <<>>
      /\ Len(stack) \in Nat \ {0} /\ Len(Frames) = Len(stack) /\ Frames \in Seq(FrameType)
  BY StackFacts DEF BaseInv, Running
<1>2. Top.type \in Types /\ Top.op \in {"attach", "detach"}
  BY <1>1 DEF FrameType
<1>3. \A t \in Types : IsFiniteSet(Dying(Frames, t)) /\ Cardinality(Dying(Frames, t)) \in Nat
  BY <1>1, DyingFinite
<1> QED
  BY <1>1, <1>2, <1>3 DEF BaseInv, TypeOK, Bottom, DyingLive

LEMMA DyingLess ==
  ASSUME BaseInv, NEW t \in Types, NEW n
  PROVE  /\ Cardinality(Dying(Frames, t) \ {n}) \in Nat
         /\ Cardinality(Dying(Frames, t) \ {n}) =
              Cardinality(Dying(Frames, t)) - (IF n \in Dying(Frames, t) THEN 1 ELSE 0)
         /\ n \notin Dying(Frames, t) =>
              Cardinality((Dying(Frames, t) \ {n}) \cup {n}) = Cardinality(Dying(Frames, t)) + 1
<1>1. IsFiniteSet(Dying(Frames, t)) /\ Cardinality(Dying(Frames, t)) \in Nat
  BY StackFacts, DyingFinite DEF BaseInv
<1>2. IsFiniteSet(Dying(Frames, t) \ {n})
      /\ Cardinality(Dying(Frames, t) \ {n}) =
           (IF n \in Dying(Frames, t) THEN Cardinality(Dying(Frames, t)) - 1
                                      ELSE Cardinality(Dying(Frames, t)))
  BY <1>1, FS_RemoveElement
<1>3. Cardinality(Dying(Frames, t) \ {n}) \in Nat
  BY <1>2, FS_CardinalityType
<1>4. Cardinality((Dying(Frames, t) \ {n}) \cup {n}) = Cardinality(Dying(Frames, t) \ {n}) + 1
  BY <1>2, FS_AddElement
<1> QED
  BY <1>1, <1>2, <1>3, <1>4

\* attach() finds the instance, or detach() leaves it.
LEMMA KnownKeepsBase ==
  ASSUME BaseInv, Running, NEW delta \in {-1, 1},
         Return(stack, delta), Top.op = (IF delta = 1 THEN "attach" ELSE "detach"),
         ref' = [ref EXCEPT ![Top.type] = @ + delta],
         delta = -1 => ref[Top.type] > 1,
         UNCHANGED <<program, server, mapped, live, undefined>>
  PROVE  BaseInv'
<1>3. /\ stack' \in Seq(FrameType)
      /\ clients' \in [Threads -> [Types -> 0 .. MaxUses]]
      /\ holder' \in Threads \cup {NoThread}
      /\ (holder' = NoThread) = (stack' = <<>>)
      /\ Bottom(Frames)'
      /\ \A t \in Types : Dying(Frames', t) = Dying(Frames, t) \ {Len(stack)}
  BY TopFacts, ReturnKeeps
<1>4. DyingLive(Frames)'
  BY <1>3, NumbersKept
<1>5. ref' \in [Types -> Nat]
  BY TopFacts DEF BaseInv, TypeOK
<1>6. TypeOK'
  BY <1>3, <1>5 DEF BaseInv, TypeOK
<1> QED
  BY <1>3, <1>4, <1>6 DEF BaseInv

LEMMA InsertsKeepsBase ==
  ASSUME BaseInv, AttachInserts \/ AttachInsertsStale
  PROVE  BaseInv'
<1>1. Running /\ Top.op = "attach"
  BY DEF AttachInserts, AttachInsertsStale, Constructed, InBody
<1>2. CASE AttachInsertsStale /\ undefined' = TRUE /\ UNCHANGED <<live, clients, holder, stack>>
  <2>1. UNCHANGED <<program, server, mapped, ref, Frames>>
    BY <1>2 DEF AttachInsertsStale, Frames
  <2>2. DyingLive(Frames)' /\ Bottom(Frames)'
    BY <1>2, <2>1 DEF BaseInv, DyingLive, Bottom, Dying
  <2> QED
    BY <1>2, <2>1, <2>2 DEF BaseInv, TypeOK
<1>3. CASE ~(AttachInsertsStale /\ undefined' = TRUE /\ UNCHANGED <<live, clients, holder, stack>>)
  <2>1. /\ Return(stack, 1) /\ live' = [live EXCEPT ![Top.type] = @ + 1]
        /\ UNCHANGED <<program, server, undefined>>
        /\ ref' \in [Types -> Nat] /\ mapped' \subseteq mapped \cup {Top.type}
        /\ mapped \subseteq mapped'
    <3>1. CASE AttachInserts
      <4>1. ref' \in [Types -> Nat]
        BY <1>1, <3>1, TopFacts DEF AttachInserts, BaseInv, TypeOK
      <4> QED
        BY <3>1, <4>1 DEF AttachInserts
    <3>2. CASE AttachInsertsStale
      <4>1. ref' \in [Types -> Nat]
        BY <3>2 DEF AttachInsertsStale, BaseInv, TypeOK
      <4> QED
        BY <1>3, <3>2, <4>1 DEF AttachInsertsStale
    <3> QED
      BY <3>1, <3>2
  <2>2. /\ stack' \in Seq(FrameType)
        /\ clients' \in [Threads -> [Types -> 0 .. MaxUses]]
        /\ holder' \in Threads \cup {NoThread}
        /\ (holder' = NoThread) = (stack' = <<>>)
        /\ Bottom(Frames)'
        /\ \A t \in Types : Dying(Frames', t) = Dying(Frames, t) \ {Len(stack)}
    BY <1>1, <2>1, TopFacts, ReturnKeeps
  <2>3. ASSUME NEW t \in Types
        PROVE  live'[t] >= Cardinality(Dying(Frames', t)) + (IF t \in mapped' THEN 1 ELSE 0)
    <3>1. Cardinality(Dying(Frames', t)) \in Nat
          /\ Cardinality(Dying(Frames', t)) <= Cardinality(Dying(Frames, t))
      <4>1. Dying(Frames', t) = Dying(Frames, t) \ {Len(stack)}
        BY <2>2
      <4>2. Cardinality(Dying(Frames, t)) \in Nat
        BY <1>1, TopFacts
      <4>3. PICK d : d = Cardinality(Dying(Frames', t))
        OBVIOUS
      <4>4. d \in Nat /\ d = Cardinality(Dying(Frames, t))
                             - (IF Len(stack) \in Dying(Frames, t) THEN 1 ELSE 0)
        BY <4>1, <4>3, DyingLess
      <4>5. d <= Cardinality(Dying(Frames, t))
        BY <4>2, <4>4
      <4> QED
        BY <4>3, <4>4, <4>5
    <3>2. live'[t] = IF t = Top.type THEN live[t] + 1 ELSE live[t]
      BY <2>1 DEF BaseInv, TypeOK
    <3>3. t # Top.type => (t \in mapped' <=> t \in mapped)
      BY <2>1
    <3> QED
      BY <1>1, <3>1, <3>2, <3>3, TopFacts
  <2>4. DyingLive(Frames)'
    BY <2>3 DEF DyingLive, Dying
  <2>5. live' \in [Types -> Nat] /\ mapped' \subseteq Types
    BY <1>1, <2>1, TopFacts DEF BaseInv, TypeOK
  <2>6. TypeOK'
    BY <2>1, <2>2, <2>5 DEF BaseInv, TypeOK
  <2> QED
    BY <2>1, <2>2, <2>4, <2>6 DEF BaseInv
<1> QED
  BY <1>2, <1>3

\* A call begins, or goes on: TypeOK and Bottom need nothing else.
LEMMA EntersKeepsBase ==
  ASSUME BaseInv, AttachCreates \/ DetachDestroys
  PROVE  BaseInv'
<1>1. Running /\ Top.entered = FALSE
  <2>1. Running /\ ~Top.entered
    BY DEF AttachCreates, DetachDestroys, Entering
  <2> QED
    BY <2>1, TopFacts DEF FrameType
<1>2. /\ Top \in FrameType /\ Top.type \in Types /\ program \in Programs /\ stack # <<>>
      /\ Len(stack) \in Nat \ {0}
  BY <1>1, TopFacts DEF BaseInv
<1>3. PICK body \in Seq(CallType) : stack' = <<Entered(Top, body)>> \o Tail(stack)
  <2>1. Construction(Top.type) \in Seq(CallType) /\ Destruction(Top.type) \in Seq(CallType)
    BY <1>2, BodiesTyped
  <2> QED
    BY <2>1 DEF AttachCreates, DetachDestroys, Enter, Entered
<1> DEFINE g == Entered(Top, body)
<1>4. g \in FrameType /\ g.op = Top.op /\ g.type = Top.type /\ g.entered
  BY <1>2, FramesTyped, SameKind
<1>5. UNCHANGED <<program, clients, live, holder, undefined>>
  BY DEF AttachCreates, DetachDestroys
<1> HIDE DEF g
<1>6. /\ stack' \in Seq(FrameType) /\ stack' # <<>> /\ Bottom(Frames)'
      /\ \A t \in Types : Dying(Frames', t) = (Dying(Frames, t) \ {Len(stack)})
                            \cup (IF Destroyed(g, t) THEN {Len(stack)} ELSE {})
  BY <1>2, <1>3, <1>4, <1>5, GoesOnKeeps DEF g
<1>7. mapped' \in SUBSET Types /\ ref' \in [Types -> Nat] /\ server' \in BOOLEAN
  <2>1. mapped \subseteq Types /\ ref \in [Types -> Nat] /\ server \in BOOLEAN
    BY DEF BaseInv, TypeOK
  <2>2. CASE AttachCreates
    BY <2>1, <2>2 DEF AttachCreates
  <2>3. CASE DetachDestroys
    BY <2>1, <2>3 DEF DetachDestroys
  <2> QED
    BY <2>2, <2>3
<1>8. TypeOK'
  BY <1>2, <1>5, <1>6, <1>7 DEF BaseInv, TypeOK
<1>9. ASSUME NEW t \in Types
      PROVE  live[t] >= Cardinality(Dying(Frames', t)) + (IF t \in mapped' THEN 1 ELSE 0)
  <2>1. Len(stack) \notin Dying(Frames, t)
    BY <1>1, TopFacts DEF Dying, Destroyed
  <2>2. CASE Destroyed(g, t)
    <3>1. DetachDestroys /\ t = Top.type
      BY <1>4, <2>2 DEF Destroyed, AttachCreates, DetachDestroys, Entering
    <3>2. t \in mapped /\ t \notin mapped'
      BY <3>1 DEF DetachDestroys
    <3>3. Cardinality(Dying(Frames', t)) = Cardinality(Dying(Frames, t)) + 1
      BY <1>6, <2>1, <2>2, DyingLess
    <3> QED
      BY <1>1, <3>2, <3>3, TopFacts
  <2>3. CASE ~Destroyed(g, t)
    <3>1. Dying(Frames', t) = Dying(Frames, t)
      BY <1>6, <2>1, <2>3
    <3>2. t \in mapped' => t \in mapped
      BY DEF AttachCreates, DetachDestroys
    <3> QED
      BY <1>1, <3>1, <3>2, TopFacts
  <2> QED
    BY <2>2, <2>3
<1>10. DyingLive(Frames)'
  BY <1>5, <1>9 DEF DyingLive, Dying
<1> QED
  BY <1>2, <1>5, <1>6, <1>8, <1>10 DEF BaseInv

LEMMA GoesKeepsBase ==
  ASSUME BaseInv, NextCall \/ ConstructorThrows \/ ExceptionLeaves
  PROVE  BaseInv'
<1>1. Running
  BY DEF NextCall, ConstructorThrows, Constructed, ExceptionLeaves, Thrown, InBody
<1>2. /\ UNCHANGED <<program, server, mapped, ref, live, undefined, clients>>
      /\ ~ExceptionLeaves => UNCHANGED holder
  BY DEF NextCall, ConstructorThrows, ExceptionLeaves
<1>3. /\ stack' \in Seq(FrameType) /\ Bottom(Frames)'
      /\ holder' \in Threads \cup {NoThread} /\ (holder' = NoThread) = (stack' = <<>>)
      /\ \A t \in Types : Dying(Frames', t) = Dying(Frames, t)
  <2>0. holder \in Threads /\ NoThread \notin Threads
    BY <1>1, TopFacts, SingletonAssumption
  <2>1. CASE NextCall
    <3>1. /\ stack' \in Seq(FrameType) /\ stack' # <<>> /\ Bottom(Frames)'
          /\ \A t \in Types : Dying(Frames', t) = Dying(Frames, t)
      BY <2>1, CallKeeps
    <3>2. holder' = holder
      BY <2>1 DEF NextCall
    <3> QED
      BY <2>0, <3>1, <3>2
  <2>2. CASE ConstructorThrows
    <3> DEFINE g == Unwinding(Top)
    <3>1. Top \in FrameType /\ stack # <<>> /\ Top.op = "attach" /\ Top = Frames[Len(stack)]
      BY <1>1, <2>2, TopFacts DEF ConstructorThrows, Constructed, InBody
    <3>2. g \in FrameType /\ g.op = Top.op /\ g.type = Top.type
      BY <3>1, FramesTyped, SameKind, EmptySeq
    <3>3. stack' = <<g>> \o Tail(stack) /\ UNCHANGED <<clients, holder>>
      BY <2>2 DEF ConstructorThrows
    <3> HIDE DEF g
    <3>4. /\ stack' \in Seq(FrameType) /\ stack' # <<>> /\ Bottom(Frames)'
          /\ \A t \in Types : Dying(Frames', t) = (Dying(Frames, t) \ {Len(stack)})
                                \cup (IF Destroyed(g, t) THEN {Len(stack)} ELSE {})
      BY <3>1, <3>2, <3>3, GoesOnKeeps
    <3>5. \A t : ~Destroyed(g, t) /\ ~Destroyed(Frames[Len(stack)], t)
      BY <3>1, <3>2 DEF Destroyed
    <3>6. \A t \in Types : Dying(Frames', t) = Dying(Frames, t)
      <4>1. \A t \in Types : Len(stack) \notin Dying(Frames, t)
        BY <3>5 DEF Dying
      <4> QED
        BY <3>4, <3>5, <4>1
    <3> QED
      BY <2>0, <3>3, <3>4, <3>6
  <2>3. CASE ExceptionLeaves
    BY <2>3, LeavesKeeps
  <2> QED
    BY <2>1, <2>2, <2>3
<1>4. DyingLive(Frames)'
  BY <1>2, <1>3, NumbersKept
<1>5. TypeOK'
  BY <1>2, <1>3 DEF BaseInv, TypeOK
<1> QED
  BY <1>2, <1>3, <1>4, <1>5 DEF BaseInv

LEMMA DetachReturnsKeepsBase ==
  ASSUME BaseInv, DetachReturns
  PROVE  BaseInv'
<1>1. Running /\ Top.op = "detach" /\ Top.entered
  BY DEF DetachReturns, InBody
<1>2. PICK empty \in BOOLEAN : ServerDeletedIf(empty)
  BY DEF DetachReturns
<1>3. PICK frames \in {stack, Staled(stack)} : Return(frames, -1)
  BY <1>2 DEF ServerDeletedIf, Staled
<1>4. /\ stack' \in Seq(FrameType)
      /\ clients' \in [Threads -> [Types -> 0 .. MaxUses]]
      /\ holder' \in Threads \cup {NoThread}
      /\ (holder' = NoThread) = (stack' = <<>>)
      /\ Bottom(Frames)'
      /\ \A t \in Types : Dying(Frames', t) = Dying(Frames, t) \ {Len(stack)}
  <2>1. stack # <<>> /\ -1 \in {-1, 1} /\ Top.op = (IF -1 = 1 THEN "attach" ELSE "detach")
    BY <1>1, TopFacts
  <2> QED
    BY <1>3, <2>1, ReturnKeeps
<1>5. /\ mapped' \in SUBSET mapped /\ server' \in BOOLEAN /\ ref' \in [Types -> Nat]
      /\ UNCHANGED <<program, undefined>> /\ live' = [live EXCEPT ![Top.type] = @ - 1]
  <2>1. ref \in [Types -> Nat] /\ server \in BOOLEAN
    BY DEF BaseInv, TypeOK
  <2>2. CASE empty
    <3>1. server' = FALSE /\ mapped' = {} /\ ref' = [t \in Types |-> 0]
      BY <1>2, <2>2 DEF ServerDeletedIf
    <3> QED
      BY <3>1 DEF DetachReturns
  <2>3. CASE ~empty
    <3>1. UNCHANGED <<server, mapped, ref>>
      BY <1>2, <2>3 DEF ServerDeletedIf
    <3> QED
      BY <2>1, <3>1 DEF DetachReturns
  <2> QED
    BY <2>2, <2>3
<1>6. ASSUME NEW t \in Types
      PROVE  /\ live'[t] \in Nat
             /\ live'[t] >= Cardinality(Dying(Frames', t)) + (IF t \in mapped' THEN 1 ELSE 0)
  <2>1. Len(stack) \in Dying(Frames, t) <=> t = Top.type
    BY <1>1, TopFacts DEF Dying, Destroyed
  <2>2. live'[t] = IF t = Top.type THEN live[t] - 1 ELSE live[t]
    BY <1>5 DEF BaseInv, TypeOK
  <2>3. /\ Cardinality(Dying(Frames', t)) \in Nat
        /\ Cardinality(Dying(Frames', t))
             = Cardinality(Dying(Frames, t)) - (IF t = Top.type THEN 1 ELSE 0)
    <3>1. Dying(Frames', t) = Dying(Frames, t) \ {Len(stack)}
      BY <1>4
    <3>2. /\ Cardinality(Dying(Frames, t) \ {Len(stack)}) \in Nat
          /\ Cardinality(Dying(Frames, t) \ {Len(stack)}) =
               Cardinality(Dying(Frames, t)) - (IF Len(stack) \in Dying(Frames, t) THEN 1 ELSE 0)
      BY DyingLess
    <3> QED
      BY <2>1, <3>1, <3>2
  <2>4. /\ live[t] \in Nat /\ Cardinality(Dying(Frames, t)) \in Nat
        /\ live[t] >= Cardinality(Dying(Frames, t)) + (IF t \in mapped THEN 1 ELSE 0)
    BY <1>1, TopFacts
  <2>5. t \in mapped' => t \in mapped
    BY <1>5
  <2> QED
    BY <2>2, <2>3, <2>4, <2>5
<1>7. DyingLive(Frames)'
  BY <1>6 DEF DyingLive, Dying
<1>8. live' \in [Types -> Nat]
  BY <1>5, <1>6 DEF BaseInv, TypeOK
<1>9. TypeOK'
  BY <1>4, <1>5, <1>8 DEF BaseInv, TypeOK
<1> QED
  BY <1>4, <1>5, <1>7, <1>9 DEF BaseInv

LEMMA EndsKeepsBase ==
  ASSUME BaseInv, UNCHANGED <<program, clients, server, mapped, ref, live, holder, stack>>,
         undefined' \in BOOLEAN
  PROVE  BaseInv'
<1>1. Frames' = Frames
  BY DEF Frames
<1>2. DyingLive(Frames)' /\ Bottom(Frames)'
  BY <1>1 DEF BaseInv, DyingLive, Bottom, Dying
<1> QED
  BY <1>2 DEF BaseInv, TypeOK

LEMMA StepKeepsBase ==
  ASSUME BaseInv, [Next]_vars
  PROVE  BaseInv'
<1>1. CASE \E th \in Threads, t \in Types : BeginAttach(th, t) \/ BeginDetach(th, t)
  BY <1>1, BeginKeepsBase
<1>2. CASE AttachFound
  <2>1. Running /\ Top.op = "attach"
    BY <1>2 DEF AttachFound, Entering
  <2> QED
    BY <1>2, <2>1, KnownKeepsBase DEF AttachFound
<1>3. CASE DetachKeeps
  <2>1. Running /\ Top.op = "detach" /\ ~(ref[Top.type] <= 1)
    BY <1>3 DEF DetachKeeps, Entering, LastReference
  <2>2. ref[Top.type] \in Nat /\ -1 \in {-1, 1}
    BY <2>1, TopFacts
  <2>3. ref' = [ref EXCEPT ![Top.type] = @ + (-1)] /\ ref[Top.type] > 1
    <3>1. ref[Top.type] - 1 = ref[Top.type] + (-1) /\ ref[Top.type] > 1
      BY <2>1, <2>2
    <3> QED
      BY <1>3, <3>1 DEF DetachKeeps
  <2>4. Top.op = (IF -1 = 1 THEN "attach" ELSE "detach")
    BY <2>1
  <2>5. Return(stack, -1) /\ UNCHANGED <<program, server, mapped, live, undefined>>
    BY <1>3 DEF DetachKeeps
  <2> QED
    BY <2>1, <2>2, <2>3, <2>4, <2>5, KnownKeepsBase
<1>4. CASE AttachCreates \/ DetachDestroys
  BY <1>4, EntersKeepsBase
<1>5. CASE NextCall \/ ConstructorThrows \/ ExceptionLeaves
  BY <1>5, GoesKeepsBase
<1>6. CASE AttachInserts \/ AttachInsertsStale
  BY <1>6, InsertsKeepsBase
<1>7. CASE DetachReturns
  BY <1>7, DetachReturnsKeepsBase
<1>8. CASE DestructorThrows \/ DetachMissing \/ DetachDies \/ UNCHANGED vars
  <2>1. /\ UNCHANGED <<program, clients, server, mapped, ref, live, holder, stack>>
        /\ undefined' \in BOOLEAN
    BY <1>8 DEF DestructorThrows, DetachMissing, DetachDies, vars, BaseInv, TypeOK
  <2> QED
    BY <2>1, EndsKeepsBase
<1> QED
  BY <1>1, <1>2, <1>3, <1>4, <1>5, <1>6, <1>7, <1>8 DEF Next, Step

LEMMA InitBase == ASSUME Init PROVE BaseInv
<1>1. stack = <<>> /\ Frames = <<>>
  BY DEF Init, Frames, Up
<1>2. TypeOK
  <2>1. 0 \in 0 .. MaxUses
    BY SingletonAssumption
  <2>2. [t \in Types |-> 0] \in [Types -> 0 .. MaxUses]
    BY <2>1
  <2>3. clients \in [Threads -> [Types -> 0 .. MaxUses]]
    BY <2>2 DEF Init
  <2>4. ref \in [Types -> Nat] /\ live \in [Types -> Nat] /\ mapped \subseteq Types
    BY DEF Init
  <2> QED
    BY <1>1, <2>3, <2>4 DEF Init, TypeOK
<1>3. ASSUME NEW t \in Types PROVE Cardinality(Dying(Frames, t)) = 0
  <2>1. Dying(Frames, t) = {}
    BY <1>1 DEF Dying
  <2> QED
    BY <2>1, FS_EmptySet
<1>4. DyingLive(Frames)
  <2>1. \A t \in Types : live[t] = 0 /\ t \notin mapped
    BY DEF Init
  <2> QED
    BY <1>3, <2>1 DEF DyingLive
<1> QED
  BY <1>1, <1>2, <1>4 DEF BaseInv, Init, Bottom

\* In every program, whatever it does wrong, each variable keeps its type: no
\* thread has more or fewer use<> objects than it can have, and no instance is
\* destroyed that does not live.
THEOREM SingletonTypes == Spec => [](TypeOK /\ BaseInv)
<1>1. Init => BaseInv
  BY InitBase
<1>2. BaseInv /\ [Next]_vars => BaseInv'
  BY StepKeepsBase
<1>3. BaseInv => TypeOK
  BY DEF BaseInv
<1> QED
  BY <1>1, <1>2, <1>3, PTL DEF Spec

-----------------------------------------------------------------------------
(* The shape of the stack.                                                   *)

\* The program does not change.
LEMMA ShapeNext == ASSUME UNCHANGED program, Shape(Frames') PROVE Shape(Frames)'
<1>1. Members' = Members /\ DtorUses' = DtorUses
  BY DEF Members, DtorUses
<1> QED
  BY <1>1, ZenonT(30) DEF Shape, OwnShape, CallShape, Waits, Constructs, Constructing, Unwinds, Destructs,
              DetachCall, Uses

LEMMA ShapeTop ==
  ASSUME NEW fr \in Seq(FrameType), fr # <<>>, NEW g, NEW fr2 \in Seq(FrameType),
         Shape(fr), TopIs(fr, g, fr2),
         g.op = fr[Len(fr)].op, g.type = fr[Len(fr)].type, g.keep = fr[Len(fr)].keep,
         OwnShape(g, 0)
  PROVE  Shape(fr2)
<1>1. Len(fr) \in Nat \ {0} /\ Len(fr2) = Len(fr) /\ fr2[Len(fr2)] = g
  BY DEF TopIs
<1>2. ~fr2[1].keep
  BY <1>1 DEF TopIs, Shape
<1>3. ASSUME NEW j \in 1 .. Len(fr2) - 1
      PROVE  /\ OwnShape(fr2[j], 1)
             /\ CallShape(fr2[j], fr2[j + 1].op, fr2[j + 1].type, fr2[j + 1].keep)
  <2>1. j \in 1 .. Len(fr) - 1 /\ fr2[j] = fr[j]
    BY <1>1 DEF TopIs
  <2>2. /\ fr2[j + 1].op = fr[j + 1].op /\ fr2[j + 1].type = fr[j + 1].type
        /\ fr2[j + 1].keep = fr[j + 1].keep
    <3>1. CASE j + 1 = Len(fr)
      BY <1>1, <3>1
    <3>2. CASE j + 1 # Len(fr)
      <4>1. j + 1 \in 1 .. Len(fr) - 1
        BY <1>1, <2>1, <3>2
      <4> QED
        BY <4>1 DEF TopIs
    <3> QED
      BY <3>1, <3>2
  <2> QED
    BY <2>1, <2>2 DEF Shape
<1> QED
  BY <1>1, <1>2, <1>3 DEF Shape

LEMMA ShapePushed ==
  ASSUME NEW fr \in Seq(FrameType), fr # <<>>, NEW g, NEW f, NEW fr2 \in Seq(FrameType),
         Shape(fr), Pushed(fr, g, f, fr2),
         g.op = fr[Len(fr)].op, g.type = fr[Len(fr)].type, g.keep = fr[Len(fr)].keep,
         OwnShape(g, 1), CallShape(g, f.op, f.type, f.keep), OwnShape(f, 0)
  PROVE  Shape(fr2)
<1>1. Len(fr) \in Nat \ {0} /\ Len(fr2) = Len(fr) + 1 /\ fr2[Len(fr)] = g
      /\ fr2[Len(fr2)] = f
  BY DEF Pushed
<1>2. ~fr2[1].keep
  BY <1>1 DEF Pushed, Shape
<1>3. ASSUME NEW j \in 1 .. Len(fr2) - 1
      PROVE  /\ OwnShape(fr2[j], 1)
             /\ CallShape(fr2[j], fr2[j + 1].op, fr2[j + 1].type, fr2[j + 1].keep)
  <2>1. CASE j = Len(fr)
    BY <1>1, <2>1
  <2>2. CASE j # Len(fr)
    <3>1. j \in 1 .. Len(fr) - 1 /\ fr2[j] = fr[j]
      BY <1>1, <2>2 DEF Pushed
    <3>2. /\ fr2[j + 1].op = fr[j + 1].op /\ fr2[j + 1].type = fr[j + 1].type
          /\ fr2[j + 1].keep = fr[j + 1].keep
      <4>1. CASE j + 1 = Len(fr)
        BY <1>1, <4>1
      <4>2. CASE j + 1 # Len(fr)
        <5>1. j + 1 \in 1 .. Len(fr) - 1
          BY <1>1, <3>1, <4>2
        <5> QED
          BY <5>1 DEF Pushed
      <4> QED
        BY <4>1, <4>2
    <3> QED
      BY <3>1, <3>2 DEF Shape
  <2> QED
    BY <2>1, <2>2
<1> QED
  BY <1>1, <1>2, <1>3 DEF Shape

LEMMA ShapePopped ==
  ASSUME NEW fr \in Seq(FrameType), Len(fr) > 1, NEW g, NEW fr2 \in Seq(FrameType),
         Shape(fr), Popped(fr, g, fr2),
         g.op = fr[Len(fr) - 1].op, g.type = fr[Len(fr) - 1].type, g.keep = fr[Len(fr) - 1].keep,
         OwnShape(g, 0)
  PROVE  Shape(fr2)
<1>1. Len(fr) \in Nat \ {0} /\ Len(fr2) = Len(fr) - 1 /\ fr2[Len(fr2)] = g
  BY DEF Popped
<1>2. ~fr2[1].keep
  <2>1. CASE Len(fr) = 2
    BY <1>1, <2>1 DEF Popped, Shape
  <2>2. CASE Len(fr) # 2
    BY <1>1, <2>2 DEF Popped, Shape
  <2> QED
    BY <2>1, <2>2
<1>3. ASSUME NEW j \in 1 .. Len(fr2) - 1
      PROVE  /\ OwnShape(fr2[j], 1)
             /\ CallShape(fr2[j], fr2[j + 1].op, fr2[j + 1].type, fr2[j + 1].keep)
  <2>1. j \in 1 .. Len(fr) - 1 /\ fr2[j] = fr[j]
    BY <1>1 DEF Popped
  <2>2. /\ fr2[j + 1].op = fr[j + 1].op /\ fr2[j + 1].type = fr[j + 1].type
        /\ fr2[j + 1].keep = fr[j + 1].keep
    <3>1. CASE j + 1 = Len(fr) - 1
      BY <1>1, <3>1
    <3>2. CASE j + 1 # Len(fr) - 1
      <4>1. j + 1 \in 1 .. Len(fr) - 2
        BY <1>1, <2>1, <3>2
      <4> QED
        BY <4>1 DEF Popped
    <3> QED
      BY <3>1, <3>2
  <2> QED
    BY <2>1, <2>2 DEF Shape
<1> QED
  BY <1>1, <1>2, <1>3 DEF Shape

\* The calls below the innermost have begun: to mark them changes no shape.
LEMMA ShapeStaled ==
  ASSUME NEW s \in Seq(FrameType), s # <<>>, Shape(Up(s)), Up(s)[Len(s)].entered
  PROVE  Shape(Up(Staled(s)))
<1> DEFINE fr == Up(s)
           fr2 == Up(Staled(s))
<1>1. /\ fr \in Seq(FrameType) /\ Len(fr) = Len(s) /\ Len(s) \in Nat \ {0} /\ fr # <<>>
      /\ Len(fr2) = Len(s)
  BY StaledTyped, UpFacts
<1>2. \A j \in 1 .. Len(s) : fr2[j] = [fr[j] EXCEPT !.stale = TRUE]
  BY StaledTyped
<1> HIDE DEF fr, fr2
<1>3. ASSUME NEW j \in 1 .. Len(s)
      PROVE  /\ fr2[j].op = fr[j].op /\ fr2[j].type = fr[j].type /\ fr2[j].keep = fr[j].keep
             /\ fr2[j].entered = fr[j].entered /\ fr2[j].todo = fr[j].todo
             /\ fr2[j].held = fr[j].held /\ fr2[j].throwing = fr[j].throwing
             /\ fr[j].entered
  <2>1. fr[j] \in FrameType /\ fr2[j] = [fr[j] EXCEPT !.stale = TRUE]
    BY <1>1, <1>2
  <2>2. fr[j].entered
    <3>1. CASE j = Len(s)
      BY <3>1 DEF fr
    <3>2. CASE j # Len(s)
      <4>1. j \in 1 .. Len(fr) - 1
        BY <1>1, <3>2
      <4> QED
        BY <4>1 DEF Shape, CallShape, fr
    <3> QED
      BY <3>1, <3>2
  <2> QED
    BY <2>1, <2>2 DEF FrameType
<1>4. ASSUME NEW j \in 1 .. Len(s), NEW calls, OwnShape(fr[j], calls)
      PROVE  OwnShape(fr2[j], calls)
  <2>1. /\ fr2[j].op = fr[j].op /\ fr2[j].type = fr[j].type /\ fr2[j].keep = fr[j].keep
        /\ fr2[j].entered = fr[j].entered /\ fr2[j].todo = fr[j].todo
        /\ fr2[j].held = fr[j].held /\ fr2[j].throwing = fr[j].throwing /\ fr2[j].entered
    BY <1>3
  <2>2. Constructs(fr2[j]) = Constructs(fr[j])
    BY <2>1 DEF Constructs
  <2>3. Constructing(fr2[j], calls) = Constructing(fr[j], calls)
    BY <2>1 DEF Constructing
  <2>4. Unwinds(fr2[j]) = Unwinds(fr[j])
    BY <2>1 DEF Unwinds
  <2>5. Destructs(fr2[j]) = Destructs(fr[j])
    BY <2>1 DEF Destructs
  <2>6. \A i \in DOMAIN fr2[j].todo : fr2[j].todo[i].type \in Uses(fr2[j].type)
    BY <1>4, <2>1 DEF OwnShape
  <2> QED
    BY <1>4, <2>1, <2>2, <2>3, <2>4, <2>5, <2>6 DEF OwnShape
<1>5. ASSUME NEW j \in 1 .. Len(s) - 1
      PROVE  /\ OwnShape(fr2[j], 1)
             /\ CallShape(fr2[j], fr2[j + 1].op, fr2[j + 1].type, fr2[j + 1].keep)
  <2>1. j \in 1 .. Len(s) /\ j + 1 \in 1 .. Len(s) /\ j \in 1 .. Len(fr) - 1
    BY <1>1
  <2>2. OwnShape(fr[j], 1) /\ CallShape(fr[j], fr[j + 1].op, fr[j + 1].type, fr[j + 1].keep)
    BY <2>1 DEF Shape, fr
  <2>3. OwnShape(fr2[j], 1)
    BY <1>4, <2>1, <2>2
  <2>4. CallShape(fr2[j], fr[j + 1].op, fr[j + 1].type, fr[j + 1].keep)
    BY <1>3, <2>1, <2>2 DEF CallShape, Constructs
  <2> QED
    BY <1>3, <2>1, <2>3, <2>4
<1>6. OwnShape(fr2[Len(s)], 0) /\ ~fr2[1].keep
  <2>1. 1 \in 1 .. Len(s) /\ Len(s) \in 1 .. Len(s)
    BY <1>1
  <2>2. OwnShape(fr[Len(s)], 0) /\ ~fr[1].keep
    BY <1>1 DEF Shape, fr
  <2>3. OwnShape(fr2[Len(s)], 0)
    BY <1>4, <2>1, <2>2
  <2>4. ~fr2[1].keep
    BY <1>3, <2>1, <2>2
  <2> QED
    BY <2>3, <2>4
<1>7. Shape(fr2)
  BY <1>1, <1>5, <1>6 DEF Shape
<1> QED
  BY <1>7 DEF fr2

\* What each operation leaves alone.
LEMMA FieldFacts ==
  ASSUME NEW f \in FrameType, NEW g \in FrameType
  PROVE  /\ LET c == Continues(f, g)
            IN  /\ c.keep = f.keep /\ c.throwing = f.throwing /\ c.stale = f.stale
                /\ c.todo = f.todo
                /\ c.held = IF g.keep THEN Append(f.held, g.type) ELSE f.held
         /\ LET u == Unwinding(f)
            IN  /\ u.keep = f.keep /\ u.throwing /\ u.stale = f.stale
                /\ u.todo = Detaches(f.held) /\ u.held = <<>>
         /\ LET p == Proceeds(f)
            IN  /\ p.keep = f.keep /\ p.throwing = f.throwing /\ p.stale = f.stale
                /\ p.todo = Tail(f.todo) /\ p.held = f.held
         /\ \A body : LET e == Entered(f, body)
                      IN  /\ e.keep = f.keep /\ e.throwing = f.throwing /\ e.stale = f.stale
                          /\ e.todo = body /\ e.held = f.held
  BY DEF FrameType, Continues, Unwinding, Proceeds, Entered

LEMMA FrameParts ==
  ASSUME NEW f \in FrameType
  PROVE  /\ f.op \in {"attach", "detach"} /\ f.type \in Types /\ f.keep \in BOOLEAN
         /\ f.entered \in BOOLEAN /\ f.todo \in Seq(CallType) /\ f.held \in Seq(Types)
         /\ f.throwing \in BOOLEAN /\ f.stale \in BOOLEAN
         /\ DOMAIN f.todo = 1 .. Len(f.todo) /\ Len(f.todo) \in Nat
         /\ DOMAIN f.held = 1 .. Len(f.held) /\ Len(f.held) \in Nat
         /\ \A i \in 1 .. Len(f.todo) : f.todo[i] \in CallType
         /\ \A i \in 1 .. Len(f.held) : f.held[i] \in Types
<1>1. /\ f.op \in {"attach", "detach"} /\ f.type \in Types /\ f.keep \in BOOLEAN
      /\ f.entered \in BOOLEAN /\ f.todo \in Seq(CallType) /\ f.held \in Seq(Types)
      /\ f.throwing \in BOOLEAN /\ f.stale \in BOOLEAN
  BY DEF FrameType
<1> QED
  BY <1>1

LEMMA MemberUsed ==
  ASSUME NEW t, program \in Programs, t \in Types
  PROVE  /\ DOMAIN Members[t] = 1 .. Len(Members[t]) /\ Len(Members[t]) \in Nat
         /\ Members[t] \in Seq(Types)
         /\ \A i \in 1 .. Len(Members[t]) : Members[t][i] \in Uses(t) /\ Members[t][i] \in Types
<1>1. Members[t] \in Seq(Types)
  BY ProgramTyped
<1>2. \A i \in DOMAIN Members[t] : Members[t][i] \in ToSet(Members[t])
  BY DEF ToSet
<1> QED
  BY <1>1, <1>2 DEF Uses

LEMMA NewShape ==
  ASSUME NEW c \in CallType, c.op = "detach" => ~c.keep
  PROVE  OwnShape(c, 0)
<1>1. ~c.entered /\ Waits(c) /\ c.todo = <<>> /\ c.held = <<>> /\ ~c.throwing
  BY CallOfType DEF Waits
<1>2. DOMAIN c.todo = {}
  BY <1>1
<1>3. Destructs(c) \/ c.op # "detach"
  BY <1>1, <1>2 DEF Destructs
<1> QED
  BY <1>1, <1>2, <1>3 DEF OwnShape, Constructs

LEMMA AttachShape ==
  ASSUME program \in Programs, Lasting, NEW f \in FrameType, f.op = "attach", ~f.entered,
         OwnShape(f, 0)
  PROVE  OwnShape(Entered(f, Construction(f.type)), 0)
<1> DEFINE t == f.type
           e == Entered(f, Construction(t))
<1>1. t \in Types /\ CtorUses[t] = <<>> /\ Members[t] \in Seq(Types)
  BY FrameParts, ProgramTyped DEF Lasting
<1>2. Construction(t) = Attaches(Members[t])
  <2>1. Moments(<<>>) \in Seq(CallType) /\ Len(Moments(<<>>)) = 0
    <3>1. PICK ts : ts = <<>>
      OBVIOUS
    <3>2. ts \in Seq(Types) /\ 2 * Len(ts) = 0
      BY <3>1
    <3>3. Moments(ts) \in Seq(CallType) /\ Len(Moments(ts)) = 2 * Len(ts)
      BY <3>2, MomentsTyped
    <3> QED
      BY <3>1, <3>2, <3>3
  <2>2. Moments(<<>>) = <<>>
    BY <2>1
  <2>3. Attaches(Members[t]) \in Seq(CallType)
    BY <1>1, AttachesTyped
  <2> QED
    BY <1>1, <2>2, <2>3 DEF Construction
<1>3. f.held = <<>> /\ ~f.throwing
  BY DEF OwnShape, Waits
<1>4. /\ e.op = "attach" /\ e.type = t /\ e.entered /\ ~e.throwing /\ e.held = <<>>
      /\ e.todo = Attaches(Members[t])
  BY <1>2, <1>3, SameKind, FieldFacts
<1> HIDE DEF e
<1>5. /\ Len(e.todo) = Len(Members[t]) /\ DOMAIN e.todo = 1 .. Len(Members[t])
      /\ \A i \in DOMAIN e.todo : e.todo[i] = Call("attach", Members[t][i], TRUE)
  <2>1. PICK a : a = Attaches(Members[t])
    OBVIOUS
  <2>2. /\ a \in Seq(CallType) /\ Len(a) = Len(Members[t])
        /\ \A i \in 1 .. Len(Members[t]) : a[i] = Call("attach", Members[t][i], TRUE)
    BY <1>1, <2>1, AttachesTyped
  <2>3. DOMAIN a = 1 .. Len(Members[t])
    BY <2>2
  <2> QED
    BY <1>4, <2>1, <2>2, <2>3
<1>6. Constructing(e, 0)
  <2>1. Len(e.held) = 0 /\ DOMAIN e.held = {} /\ Len(Members[t]) \in Nat
    BY <1>1, <1>4
  <2>2. /\ Len(e.held) + 0 + Len(e.todo) = Len(Members[t])
        /\ \A i \in DOMAIN e.todo : Len(e.held) + 0 + i = i
    BY <1>5, <2>1
  <2> QED
    BY <1>4, <1>5, <2>1, <2>2 DEF Constructing
<1>7. ASSUME NEW i \in DOMAIN e.todo PROVE e.todo[i].type \in Uses(e.type)
  <2>1. Members[t][i] \in Uses(t) /\ Members[t][i] \in Types
    BY <1>1, <1>5, MemberUsed
  <2>2. e.todo[i] = Call("attach", Members[t][i], TRUE)
    BY <1>5
  <2> QED
    BY <1>4, <2>1, <2>2 DEF Call
<1>8. OwnShape(e, 0)
  BY <1>4, <1>6, <1>7 DEF OwnShape
<1> QED
  BY <1>8 DEF e

\* What a destructor calls.
LEMMA DestructionCalls ==
  ASSUME program \in Programs, NEW t \in Types
  PROVE  LET d == Destruction(t)
             n == 2 * Len(DtorUses[t])
             m == Len(Members[t])
         IN  /\ d \in Seq(CallType) /\ Len(d) = n + m /\ n \in Nat /\ m \in Nat
             /\ n % 2 = 0
             /\ \A i \in 1 .. n :
                  d[i] = Call(IF i % 2 = 1 THEN "attach" ELSE "detach",
                              DtorUses[t][(i + 1) \div 2], FALSE)
             /\ \A i \in 1 .. m : d[n + i] = Call("detach", Members[t][m + 1 - i], FALSE)
<1> DEFINE n == 2 * Len(DtorUses[t])
           m == Len(Members[t])
           a == Moments(DtorUses[t])
           b == Detaches(Members[t])
<1>1. DtorUses[t] \in Seq(Types) /\ Members[t] \in Seq(Types)
  BY ProgramTyped
<1>2. n \in Nat /\ m \in Nat /\ n % 2 = 0
  <2>1. Len(DtorUses[t]) \in Nat /\ Len(Members[t]) \in Nat
    BY <1>1
  <2>2. PICK k \in Nat : k = Len(DtorUses[t])
    BY <2>1
  <2>3. 2 * k \in Nat /\ (2 * k) % 2 = 0
    OBVIOUS
  <2> QED
    BY <2>1, <2>2, <2>3
<1>3. /\ a \in Seq(CallType) /\ Len(a) = n
      /\ \A i \in 1 .. n : a[i] = Call(IF i % 2 = 1 THEN "attach" ELSE "detach",
                                       DtorUses[t][(i + 1) \div 2], FALSE)
  BY <1>1, MomentsTyped
<1>4. /\ b \in Seq(CallType) /\ Len(b) = m
      /\ \A i \in 1 .. m : b[i] = Call("detach", Members[t][m + 1 - i], FALSE)
  BY <1>1, DetachesTyped
<1> HIDE DEF n, m, a, b
<1>5. /\ a \o b \in Seq(CallType) /\ Len(a \o b) = n + m
      /\ \A i \in 1 .. n : (a \o b)[i] = a[i]
      /\ \A i \in 1 .. m : (a \o b)[n + i] = b[i]
  BY <1>2, <1>3, <1>4
<1> QED
  BY <1>2, <1>3, <1>4, <1>5 DEF Destruction, n, m, a, b

LEMMA DetachShape ==
  ASSUME program \in Programs, NEW f \in FrameType, f.op = "detach", ~f.entered, OwnShape(f, 0)
  PROVE  OwnShape(Entered(f, Destruction(f.type)), 0)
<1> DEFINE t == f.type
           e == Entered(f, Destruction(t))
           d == Destruction(t)
           n == 2 * Len(DtorUses[t])
           m == Len(Members[t])
<1>1. t \in Types /\ Members[t] \in Seq(Types) /\ DtorUses[t] \in Seq(Types)
  BY FrameParts, ProgramTyped
<1>2. f.held = <<>> /\ ~f.throwing /\ ~f.keep
  BY DEF OwnShape, Waits, Destructs
<1>3. /\ e.op = "detach" /\ e.type = t /\ e.entered /\ ~e.throwing /\ ~e.keep
      /\ e.held = <<>> /\ e.todo = d
  BY <1>2, SameKind, FieldFacts
<1>4. /\ d \in Seq(CallType) /\ Len(d) = n + m /\ n \in Nat /\ m \in Nat /\ n % 2 = 0
      /\ \A i \in 1 .. n : d[i] = Call(IF i % 2 = 1 THEN "attach" ELSE "detach",
                                       DtorUses[t][(i + 1) \div 2], FALSE)
      /\ \A i \in 1 .. m : d[n + i] = Call("detach", Members[t][m + 1 - i], FALSE)
  BY <1>1, DestructionCalls
<1>5. /\ \A i \in 1 .. m : Members[t][i] \in Uses(t) /\ Members[t][i] \in Types
      /\ \A i \in 1 .. Len(DtorUses[t]) :
           DtorUses[t][i] \in ToSet(DtorUses[t]) /\ DtorUses[t][i] \in Uses(t)
                                                  /\ DtorUses[t][i] \in Types
  BY <1>1, MemberUsed DEF ToSet, Uses
<1>6. DOMAIN d = 1 .. n + m /\ Len(DtorUses[t]) \in Nat
  <2> HIDE DEF d, n, m
  <2>1. DOMAIN d = 1 .. n + m
    BY <1>4
  <2> QED
    BY <1>1, <2>1
<1>7. \A i \in 1 .. n : /\ (i + 1) \div 2 \in 1 .. Len(DtorUses[t])
                        /\ i % 2 = 1 => /\ i + 1 \in 1 .. n /\ (i + 1) % 2 # 1
                                        /\ ((i + 1) + 1) \div 2 = (i + 1) \div 2
  BY <1>6, Halves, Pairs
<1> HIDE DEF e, d, m, n
<1>8. ASSUME NEW i \in DOMAIN d
      PROVE  /\ d[i].type \in Uses(t)
             /\ IF d[i].op = "detach" THEN DetachCall(d[i])
                ELSE /\ d[i] = Call("attach", d[i].type, FALSE)
                     /\ d[i].type \in ToSet(DtorUses[t])
                     /\ i + 1 \in DOMAIN d
                     /\ d[i + 1] = Call("detach", d[i].type, FALSE)
  <2>1. CASE i > n
    <3>1. PICK k : k = i - n
      OBVIOUS
    <3>2. k \in 1 .. m /\ i = n + k /\ m + 1 - k \in 1 .. m
      BY <1>4, <1>6, <2>1, <3>1
    <3>3. d[i] = Call("detach", Members[t][m + 1 - k], FALSE)
      BY <1>4, <3>2
    <3>4. Members[t][m + 1 - k] \in Uses(t) /\ Members[t][m + 1 - k] \in Types
      BY <1>5, <3>2
    <3>5. d[i].type = Members[t][m + 1 - k] /\ d[i].op = "detach"
      BY <3>3 DEF Call
    <3> QED
      BY <3>3, <3>4, <3>5 DEF DetachCall
  <2>2. CASE i <= n
    <3> DEFINE h == (i + 1) \div 2
               ty == DtorUses[t][h]
    <3>1. i \in 1 .. n /\ h \in 1 .. Len(DtorUses[t])
      BY <1>4, <1>6, <1>7, <2>2
    <3>2. ty \in ToSet(DtorUses[t]) /\ ty \in Uses(t) /\ ty \in Types
      BY <1>5, <3>1
    <3>3. d[i] = Call(IF i % 2 = 1 THEN "attach" ELSE "detach", ty, FALSE)
      BY <1>4, <3>1
    <3> HIDE DEF ty
    <3>4. CASE i % 2 = 1
      <4>1. i + 1 \in 1 .. n /\ (i + 1) % 2 # 1 /\ ((i + 1) + 1) \div 2 = h
        BY <1>7, <3>1, <3>4
      <4>2. d[i + 1] = Call("detach", ty, FALSE)
        <5>1. d[i + 1] = Call(IF (i + 1) % 2 = 1 THEN "attach" ELSE "detach",
                              DtorUses[t][((i + 1) + 1) \div 2], FALSE)
          BY <1>4, <4>1
        <5> QED
          BY <4>1, <5>1 DEF ty
      <4>3. i + 1 \in DOMAIN d
        BY <1>4, <1>6, <4>1
      <4>4. d[i] = Call("attach", ty, FALSE)
        BY <3>3, <3>4
      <4> QED
        <5>1. d[i].type = ty /\ d[i].op = "attach"
          BY <4>4 DEF Call
        <5> QED
          BY <3>2, <4>2, <4>3, <4>4, <5>1
    <3>5. CASE i % 2 # 1
      <4>1. d[i] = Call("detach", ty, FALSE)
        BY <3>3, <3>5
      <4> QED
        <5>1. d[i].type = ty /\ d[i].op = "detach"
          BY <4>1 DEF Call
        <5> QED
          BY <3>2, <4>1, <5>1 DEF DetachCall
    <3> QED
      BY <3>4, <3>5
  <2>3. i > n \/ i <= n
    BY <1>4, <1>6
  <2> QED
    BY <2>1, <2>2, <2>3
<1>9. Destructs(e)
  BY <1>3, <1>8 DEF Destructs
<1>10. \A i \in DOMAIN e.todo : e.todo[i].type \in Uses(e.type)
  BY <1>3, <1>8
<1>11. OwnShape(e, 0)
  BY <1>3, <1>9, <1>10 DEF OwnShape, Constructs
<1> QED
  BY <1>11 DEF e

LEMMA TailFacts ==
  ASSUME NEW S, NEW s \in Seq(S), s # <<>>
  PROVE  /\ Tail(s) \in Seq(S) /\ Len(Tail(s)) = Len(s) - 1 /\ Len(s) \in Nat \ {0}
         /\ DOMAIN Tail(s) = 1 .. Len(s) - 1 /\ DOMAIN s = 1 .. Len(s)
         /\ Head(s) = s[1]
         /\ \A i \in 1 .. Len(s) - 1 : Tail(s)[i] = s[i + 1] /\ i + 1 \in 1 .. Len(s)
  OBVIOUS

LEMMA ConstructingIs ==
  ASSUME program \in Programs, NEW f \in FrameType, NEW calls \in {0, 1}, Constructing(f, calls)
  PROVE  /\ Len(f.held) + calls + Len(f.todo) = Len(Members[f.type])
         /\ Len(f.held) <= Len(Members[f.type])
         /\ \A i \in 1 .. Len(f.held) : f.held[i] = Members[f.type][i]
         /\ \A i \in 1 .. Len(f.todo) :
              f.todo[i] = Call("attach", Members[f.type][Len(f.held) + calls + i], TRUE)
<1>1. /\ Len(f.held) \in Nat /\ DOMAIN f.held = 1 .. Len(f.held) /\ f.type \in Types
      /\ Len(f.todo) \in Nat /\ DOMAIN f.todo = 1 .. Len(f.todo)
  BY FrameParts
<1>2. Len(f.held) + calls + Len(f.todo) = Len(Members[f.type])
  BY Zenon DEF Constructing
<1>3. Len(Members[f.type]) \in Nat
  BY <1>1, MemberUsed
<1>4. Len(f.held) <= Len(Members[f.type])
  BY <1>1, <1>2, <1>3
<1>5. \A i \in 1 .. Len(f.held) : f.held[i] = Members[f.type][i]
  BY <1>1, Zenon DEF Constructing
<1>6. \A i \in 1 .. Len(f.todo) :
              f.todo[i] = Call("attach", Members[f.type][Len(f.held) + calls + i], TRUE)
  BY <1>1, Zenon DEF Constructing
<1> QED
  BY <1>2, <1>4, <1>5, <1>6

LEMMA CallsShape ==
  ASSUME program \in Programs, NEW f \in FrameType, f.entered, OwnShape(f, 0), f.todo # <<>>,
         NEW h, h = Head(f.todo)
  PROVE  /\ OwnShape(Proceeds(f), 1) /\ CallShape(Proceeds(f), h.op, h.type, h.keep)
         /\ OwnShape(h, 0)
<1> DEFINE p == Proceeds(f)
           n == Len(f.todo)
<1>1. /\ p.op = f.op /\ p.type = f.type /\ p.keep = f.keep /\ p.entered = f.entered
      /\ p.throwing = f.throwing /\ p.todo = Tail(f.todo) /\ p.held = f.held
  BY SameKind, FieldFacts
<1>2. /\ n \in Nat \ {0} /\ DOMAIN f.todo = 1 .. n /\ h = f.todo[1] /\ 1 \in 1 .. n
      /\ DOMAIN p.todo = 1 .. n - 1 /\ Len(p.todo) = n - 1
      /\ \A i \in 1 .. n - 1 : p.todo[i] = f.todo[i + 1] /\ i + 1 \in 1 .. n
  <2>1. f.todo \in Seq(CallType)
    BY FrameParts
  <2>2. PICK s \in Seq(CallType) : s = f.todo /\ s # <<>>
    BY <2>1
  <2>3. /\ Len(Tail(s)) = Len(s) - 1 /\ Len(s) \in Nat \ {0}
        /\ DOMAIN Tail(s) = 1 .. Len(s) - 1 /\ DOMAIN s = 1 .. Len(s)
        /\ Head(s) = s[1]
        /\ \A i \in 1 .. Len(s) - 1 : Tail(s)[i] = s[i + 1] /\ i + 1 \in 1 .. Len(s)
    BY <2>2, TailFacts
  <2>4. 1 \in 1 .. Len(s)
    BY <2>3
  <2> QED
    BY <1>1, <2>2, <2>3, <2>4
<1>3. h \in CallType /\ h = Call(h.op, h.type, h.keep) /\ h.op \in {"attach", "detach"}
  BY <1>2, FrameParts, CallOfType
<1>4. f.op \in {"attach", "detach"} /\ f.throwing \in BOOLEAN /\ Len(f.held) \in Nat
      /\ f.keep \in BOOLEAN
  BY FrameParts
<1>5. \A i \in DOMAIN p.todo : p.todo[i].type \in Uses(p.type)
  BY <1>1, <1>2 DEF OwnShape
<1>6. h.type \in Uses(f.type)
  BY <1>2 DEF OwnShape
<1> HIDE DEF p, n
<1>7. CASE Constructs(f)
  <2>1. Constructing(f, 0)
    BY <1>7 DEF OwnShape
  <2>2. Constructs(p) /\ f.op = "attach" /\ ~f.throwing
    BY <1>1, <1>7 DEF Constructs
  <2>0. /\ Len(f.held) + 0 + n = Len(Members[f.type])
        /\ \A i \in 1 .. n : f.todo[i] = Call("attach", Members[f.type][Len(f.held) + 0 + i], TRUE)
    BY <2>1, ConstructingIs DEF n
  <2>3. Len(f.held) + n = Len(Members[f.type]) /\ Len(f.held) + 0 = Len(f.held)
    BY <1>2, <1>4, <2>0
  <2>4. \A i \in 1 .. n : f.todo[i] = Call("attach", Members[f.type][Len(f.held) + i], TRUE)
    BY <2>0, <2>3
  <2>5. Constructing(p, 1)
    <3>1. Len(p.held) + 1 + Len(p.todo) = Len(Members[p.type])
      <4>1. PICK a \in Nat : a = Len(f.held)
        BY <1>4
      <4>2. a + 1 + (n - 1) = a + n
        BY <1>2
      <4> QED
        BY <1>1, <1>2, <2>3, <4>1, <4>2
    <3>2. \A i \in DOMAIN p.held : p.held[i] = Members[p.type][i]
      BY <1>1, <2>1 DEF Constructing
    <3>3. ASSUME NEW i \in DOMAIN p.todo
          PROVE  p.todo[i] = Call("attach", Members[p.type][Len(p.held) + 1 + i], TRUE)
      <4>1. PICK k : k = i + 1
        OBVIOUS
      <4>2. k \in 1 .. n /\ p.todo[i] = f.todo[k] /\ Len(f.held) + k = Len(p.held) + 1 + i
        <5>1. i \in 1 .. n - 1
          BY <1>2
        <5>2. p.todo[i] = f.todo[i + 1] /\ i + 1 \in 1 .. n
          BY <1>2, <5>1
        <5> QED
          BY <1>1, <1>4, <4>1, <5>1, <5>2
      <4>3. f.todo[k] = Call("attach", Members[f.type][Len(f.held) + k], TRUE)
        BY <2>4, <4>2
      <4> QED
        BY <1>1, <4>2, <4>3
    <3> QED
      BY <3>1, <3>2, <3>3 DEF Constructing
  <2>6. h = Call("attach", Members[f.type][Len(f.held) + 1], TRUE)
    BY <1>2, <2>4
  <2>7. h.op = "attach" /\ h.type = Members[f.type][Len(f.held) + 1] /\ h.keep = TRUE
    BY <2>6 DEF Call
  <2>8. OwnShape(p, 1)
    BY <1>1, <1>5, <2>2, <2>5 DEF OwnShape
  <2>9. Len(p.held) < Len(Members[p.type])
    BY <1>1, <1>2, <1>4, <2>3
  <2>10. CallShape(p, h.op, h.type, h.keep)
    <3>1. h.keep = Constructs(p)
      BY <2>2, <2>7
    <3>2. p.entered /\ ~p.throwing /\ p.op = "attach"
      BY <2>2 DEF Constructs
    <3> QED
      BY <1>1, <1>6, <2>7, <2>9, <3>1, <3>2 DEF CallShape
  <2>11. OwnShape(h, 0)
    BY <1>3, <2>7, NewShape
  <2> QED
    BY <2>8, <2>10, <2>11 DEF p
<1>8. CASE f.op = "attach" /\ f.throwing
  <2>1. Unwinds(f)
    BY <1>8 DEF OwnShape
  <2>2. h = Call("detach", h.type, FALSE)
    BY <1>2, <2>1 DEF Unwinds, DetachCall
  <2>3. h.op = "detach" /\ h.keep = FALSE
    BY <2>2 DEF Call
  <2>4. Unwinds(p)
    BY <1>1, <1>2, <2>1 DEF Unwinds
  <2>5. ~Constructs(p) /\ p.op = "attach" /\ p.entered
    BY <1>1, <1>8 DEF Constructs
  <2>6. OwnShape(p, 1)
    BY <1>1, <1>5, <2>4, <2>5 DEF OwnShape
  <2>7. CallShape(p, h.op, h.type, h.keep)
    <3>1. h.keep = Constructs(p)
      BY <1>1, <1>8, <2>3 DEF Constructs
    <3> QED
      BY <1>1, <1>6, <2>3, <2>5, <3>1 DEF CallShape
  <2>8. OwnShape(h, 0)
    BY <1>3, <2>3, NewShape
  <2> QED
    BY <2>6, <2>7, <2>8 DEF p
<1>9. CASE f.op = "detach"
  <2>1. Destructs(f)
    BY <1>9 DEF OwnShape
  <2>2. IF h.op = "detach" THEN DetachCall(h)
        ELSE /\ h = Call("attach", h.type, FALSE)
             /\ h.type \in ToSet(DtorUses[f.type])
             /\ 2 \in DOMAIN f.todo
             /\ f.todo[2] = Call("detach", h.type, FALSE)
    <3>1. PICK i \in DOMAIN f.todo : i = 1
      BY <1>2
    <3>2. i + 1 = 2 /\ h = f.todo[i]
      BY <1>2, <3>1
    <3>3. IF f.todo[i].op = "detach" THEN DetachCall(f.todo[i])
               ELSE /\ f.todo[i] = Call("attach", f.todo[i].type, FALSE)
                    /\ f.todo[i].type \in ToSet(DtorUses[f.type])
                    /\ i + 1 \in DOMAIN f.todo
                    /\ f.todo[i + 1] = Call("detach", f.todo[i].type, FALSE)
      BY <2>1, Zenon DEF Destructs
    <3> QED
      BY <3>2, <3>3
  <2>3. h.keep = FALSE
    BY <2>2 DEF DetachCall, Call
  <2>4. ASSUME NEW i \in DOMAIN p.todo
        PROVE  IF p.todo[i].op = "detach" THEN DetachCall(p.todo[i])
               ELSE /\ p.todo[i] = Call("attach", p.todo[i].type, FALSE)
                    /\ p.todo[i].type \in ToSet(DtorUses[p.type])
                    /\ i + 1 \in DOMAIN p.todo
                    /\ p.todo[i + 1] = Call("detach", p.todo[i].type, FALSE)
    <3>1. PICK k : k = i + 1
      OBVIOUS
    <3>2. k \in 1 .. n /\ p.todo[i] = f.todo[k] /\ i \in 1 .. n - 1
      <4>1. i \in 1 .. n - 1
        BY <1>2
      <4> QED
        BY <1>2, <3>1, <4>1
    <3>3. IF f.todo[k].op = "detach" THEN DetachCall(f.todo[k])
               ELSE /\ f.todo[k] = Call("attach", f.todo[k].type, FALSE)
                    /\ f.todo[k].type \in ToSet(DtorUses[f.type])
                    /\ k + 1 \in DOMAIN f.todo
                    /\ f.todo[k + 1] = Call("detach", f.todo[k].type, FALSE)
      BY <1>2, <2>1, <3>2 DEF Destructs
    <3>4. k + 1 \in DOMAIN f.todo => i + 1 \in DOMAIN p.todo /\ p.todo[i + 1] = f.todo[k + 1]
      BY <1>2, <3>1, SMTT(30)
    <3> QED
      BY <1>1, <3>2, <3>3, <3>4
  <2>5. Destructs(p)
    <3>1. ~p.throwing /\ ~p.keep /\ p.held = <<>>
      BY <1>1, <2>1 DEF Destructs
    <3> QED
      BY <2>4, <3>1 DEF Destructs
  <2>6. ~Constructs(p) /\ p.op = "detach" /\ p.entered /\ ~p.throwing
    BY <1>1, <1>9, <2>5 DEF Constructs, Destructs
  <2>7. OwnShape(p, 1)
    BY <1>1, <1>5, <2>5, <2>6 DEF OwnShape
  <2>8. h.op = "attach" => /\ h.type \in ToSet(DtorUses[p.type])
                           /\ p.todo # <<>> /\ Head(p.todo) = Call("detach", h.type, FALSE)
    <3> SUFFICES ASSUME h.op = "attach"
                 PROVE  /\ h.type \in ToSet(DtorUses[p.type])
                        /\ p.todo # <<>> /\ Head(p.todo) = Call("detach", h.type, FALSE)
      OBVIOUS
    <3>0. 2 \in 1 .. n /\ f.todo[2] = Call("detach", h.type, FALSE)
          /\ h.type \in ToSet(DtorUses[p.type])
      BY <1>1, <1>2, <2>2
    <3>1. n > 1 /\ f.todo[2] = Call("detach", h.type, FALSE) /\ h.type \in ToSet(DtorUses[p.type])
      BY <1>2, <3>0
    <3>2. 1 \in 1 .. n - 1
      BY <1>2, <3>1
    <3>3. p.todo[1] = f.todo[2]
      BY <1>2, <3>2
    <3>4. Len(p.todo) > 0 /\ p.todo \in Seq(CallType)
      BY <1>1, <1>2, <3>1, FramesTyped, FrameParts, EmptySeq DEF p
    <3>5. p.todo # <<>> /\ Head(p.todo) = p.todo[1]
      BY <3>4
    <3> QED
      BY <3>1, <3>3, <3>5
  <2>9. CallShape(p, h.op, h.type, h.keep)
    <3>1. h.keep = Constructs(p)
      BY <1>1, <1>9, <2>3 DEF Constructs
    <3> QED
      BY <1>1, <1>6, <2>6, <2>8, <3>1 DEF CallShape
  <2>10. OwnShape(h, 0)
    BY <1>3, <2>3, NewShape
  <2> QED
    BY <2>7, <2>9, <2>10 DEF p
<1> QED
  BY <1>4, <1>7, <1>8, <1>9 DEF Constructs

LEMMA UnwindingShape ==
  ASSUME program \in Programs, NEW f \in FrameType, Constructs(f), NEW calls \in {0, 1},
         OwnShape(f, calls)
  PROVE  OwnShape(Unwinding(f), 0)
<1> DEFINE u == Unwinding(f)
<1>1. /\ u.op = "attach" /\ u.type = f.type /\ u.entered /\ u.throwing
      /\ u.todo = Detaches(f.held) /\ u.held = <<>>
  BY SameKind, FieldFacts DEF Constructs
<1>2. /\ f.held \in Seq(Types) /\ Len(f.held) \in Nat /\ DOMAIN f.held = 1 .. Len(f.held)
      /\ \A i \in 1 .. Len(f.held) : f.held[i] \in Types
      /\ f.type \in Types /\ Len(f.todo) \in Nat
  BY FrameParts
<1>3. Constructing(f, calls)
  BY DEF OwnShape
<1>4. /\ Len(f.held) <= Len(Members[f.type]) /\ Len(Members[f.type]) \in Nat
      /\ \A i \in 1 .. Len(f.held) : f.held[i] = Members[f.type][i]
  BY <1>2, <1>3, MemberUsed, ConstructingIs
<1> HIDE DEF u
<1>5. DOMAIN u.todo = 1 .. Len(f.held)
  <2>1. PICK d : d = Detaches(f.held)
    OBVIOUS
  <2>2. d \in Seq(CallType) /\ Len(d) = Len(f.held)
    BY <1>2, <2>1, DetachesTyped
  <2> QED
    BY <1>1, <2>1, <2>2
<1>6. ASSUME NEW i \in DOMAIN u.todo
      PROVE  DetachCall(u.todo[i]) /\ u.todo[i].type \in Uses(f.type)
  <2>1. PICK k : k = Len(f.held) + 1 - i
    OBVIOUS
  <2>2. k \in 1 .. Len(f.held) /\ k \in 1 .. Len(Members[f.type]) /\ i \in 1 .. Len(f.held)
    BY <1>2, <1>4, <1>5, <2>1
  <2>3. u.todo[i] = Call("detach", f.held[k], FALSE)
    BY <1>1, <1>2, <2>1, <2>2, DetachesTyped
  <2>4. f.held[k] \in Uses(f.type)
    BY <1>2, <1>4, <2>2, MemberUsed
  <2>5. u.todo[i].type = f.held[k]
    BY <2>3 DEF Call
  <2> QED
    BY <2>3, <2>4, <2>5 DEF DetachCall
<1>7. Unwinds(u)
  BY <1>1, <1>6 DEF Unwinds
<1>8. OwnShape(u, 0)
  BY <1>1, <1>6, <1>7 DEF OwnShape, Constructs
<1> QED
  BY <1>8 DEF u

LEMMA ContinuesShape ==
  ASSUME NEW c \in FrameType, NEW f \in FrameType, OwnShape(c, 1),
         CallShape(c, f.op, f.type, f.keep)
  PROVE  OwnShape(Continues(c, f), 0)
<1> DEFINE g == Continues(c, f)
<1>1. /\ g.op = c.op /\ g.type = c.type /\ g.entered = c.entered /\ g.keep = c.keep
      /\ g.throwing = c.throwing /\ g.todo = c.todo
      /\ g.held = IF f.keep THEN Append(c.held, f.type) ELSE c.held
  BY SameKind, FieldFacts
<1>2. /\ c.held \in Seq(Types) /\ Len(c.held) \in Nat /\ DOMAIN c.held = 1 .. Len(c.held)
      /\ f.type \in Types /\ Len(c.todo) \in Nat /\ c.op \in {"attach", "detach"}
      /\ DOMAIN c.todo = 1 .. Len(c.todo)
  BY FrameParts
<1>3. \A i \in DOMAIN g.todo : g.todo[i].type \in Uses(g.type)
  BY <1>1 DEF OwnShape
<1>4. c.entered
  BY DEF CallShape
<1> HIDE DEF g
<1>5. CASE Constructs(c)
  <2>1. f.keep /\ f.type = Members[c.type][Len(c.held) + 1]
    BY <1>5 DEF CallShape
  <2>2. Constructing(c, 1) /\ Constructs(g) /\ c.op = "attach" /\ ~c.throwing
    BY <1>1, <1>5 DEF OwnShape, Constructs
  <2>3. g.held = Append(c.held, f.type)
    BY <1>1, <2>1
  <2>4. /\ Len(g.held) = Len(c.held) + 1 /\ DOMAIN g.held = 1 .. Len(c.held) + 1
        /\ \A i \in 1 .. Len(c.held) : g.held[i] = c.held[i]
        /\ g.held[Len(c.held) + 1] = f.type
    BY <1>2, <2>3
  <2>5. Constructing(g, 0)
    <3>1. Len(g.held) + 0 + Len(g.todo) = Len(Members[g.type])
      <4>1. Len(c.held) + 1 + Len(c.todo) = Len(Members[c.type])
        BY <2>2, Zenon DEF Constructing
      <4>2. PICK a \in Nat : a = Len(c.held)
        BY <1>2
      <4>3. Len(g.held) + 0 = a + 1
        BY <2>4, <4>2
      <4> QED
        BY <1>1, <4>1, <4>2, <4>3
    <3>2. \A i \in DOMAIN g.held : g.held[i] = Members[g.type][i]
      BY <1>1, <1>2, <2>1, <2>2, <2>4 DEF Constructing
    <3>3. Len(g.held) + 0 = Len(c.held) + 1
      BY <1>2, <2>4
    <3>4. \A i \in DOMAIN g.todo :
            g.todo[i] = Call("attach", Members[g.type][Len(g.held) + 0 + i], TRUE)
      BY <1>1, <2>2, <3>3 DEF Constructing
    <3> QED
      BY <3>1, <3>2, <3>4 DEF Constructing
  <2>6. OwnShape(g, 0)
    BY <1>1, <1>3, <2>2, <2>5 DEF OwnShape, Constructs
  <2> QED
    BY <2>6 DEF g
<1>6. CASE ~Constructs(c)
  <2>1. g.held = c.held
    BY <1>1, <1>6 DEF CallShape
  <2>2. ~Constructs(g)
    BY <1>1, <1>6 DEF Constructs
  <2>3. Unwinds(c) => Unwinds(g)
    BY <1>1, <2>1 DEF Unwinds
  <2>4. ASSUME Destructs(c) PROVE Destructs(g)
    <3>1. ~c.throwing /\ ~c.keep /\ c.held = <<>>
      BY <2>4 DEF Destructs
    <3>2. \A i \in DOMAIN c.todo :
            IF c.todo[i].op = "detach" THEN DetachCall(c.todo[i])
            ELSE /\ c.todo[i] = Call("attach", c.todo[i].type, FALSE)
                 /\ c.todo[i].type \in ToSet(DtorUses[c.type])
                 /\ i + 1 \in DOMAIN c.todo
                 /\ c.todo[i + 1] = Call("detach", c.todo[i].type, FALSE)
      BY <2>4, Zenon DEF Destructs
    <3>3. ~g.throwing /\ ~g.keep /\ g.held = <<>>
      BY <1>1, <2>1, <3>1
    <3>4. \A i \in DOMAIN g.todo :
            IF g.todo[i].op = "detach" THEN DetachCall(g.todo[i])
            ELSE /\ g.todo[i] = Call("attach", g.todo[i].type, FALSE)
                 /\ g.todo[i].type \in ToSet(DtorUses[g.type])
                 /\ i + 1 \in DOMAIN g.todo
                 /\ g.todo[i + 1] = Call("detach", g.todo[i].type, FALSE)
      BY <1>1, <3>2, ZenonT(30)
    <3> QED
      BY <3>3, <3>4, Zenon DEF Destructs
  <2>5. OwnShape(g, 0)
    BY <1>1, <1>3, <1>4, <2>2, <2>3, <2>4 DEF OwnShape
  <2> QED
    BY <2>5 DEF g
<1> QED
  BY <1>5, <1>6

LEMMA ShapeNone == ASSUME stack' = <<>>, UNCHANGED program PROVE Shape(Frames)'
<1>1. Frames' = <<>> /\ Len(Frames') = 0
  BY BottomNone
<1>2. Shape(Frames')
  BY <1>1 DEF Shape
<1> QED
  BY <1>2, ShapeNext

LEMMA ShapeReturn ==
  ASSUME BaseInv, Running, Shape(Frames), UNCHANGED program, NEW delta,
         NEW frames \in {stack, Staled(stack)}, Return(frames, delta),
         frames = stack \/ Top.entered
  PROVE  Shape(Frames)'
<1> DEFINE n == Len(stack)
           fr == Up(frames)
           c == fr[n - 1]
           g == Continues(c, Top)
<1>1. /\ stack \in Seq(FrameType) /\ n \in Nat \ {0} /\ Frames # <<>> /\ stack # <<>>
      /\ Frames \in Seq(FrameType) /\ Len(Frames) = n /\ Top = Frames[n] /\ Top \in FrameType
      /\ \A j \in 1 .. n : Frames[j] \in FrameType
  BY StackFacts DEF BaseInv, Running
<1>2. frames \in Seq(FrameType) /\ Len(frames) = n
  BY <1>1, StaledTyped
<1>3. CASE n = 1
  BY <1>1, <1>2, <1>3, ReturnUp, ShapeNone
<1>4. CASE n # 1
  <2>1. /\ stack' \in Seq(FrameType) /\ stack' # <<>> /\ Popped(fr, g, Frames')
    BY <1>1, <1>2, <1>4, ReturnUp DEF Frames
  <2>2. fr \in Seq(FrameType) /\ Len(fr) = n /\ \A j \in 1 .. n : fr[j] \in FrameType
    BY <1>2, UpFacts
  <2>3. Shape(fr) /\ fr[n].op = Top.op /\ fr[n].type = Top.type /\ fr[n].keep = Top.keep
    <3>1. CASE frames = stack
      BY <1>1, <3>1 DEF Frames
    <3>2. CASE frames # stack
      <4>1. frames = Staled(stack) /\ Top.entered
        BY <3>2
      <4>2. Shape(fr)
        BY <1>1, <4>1, ShapeStaled DEF Frames
      <4>3. fr[n] = [Frames[n] EXCEPT !.stale = TRUE]
        <5>1. n \in 1 .. Len(stack)
          BY <1>1
        <5> QED
          BY <1>1, <4>1, <5>1, StaledTyped DEF Frames
      <4> QED
        BY <1>1, <4>2, <4>3 DEF FrameType
    <3> QED
      BY <3>1, <3>2
  <2> HIDE DEF fr, n
  <2>4. n > 1 /\ n - 1 \in 1 .. n - 1 /\ n - 1 \in 1 .. n /\ (n - 1) + 1 = n
    BY <1>1, <1>4
  <2>5. c \in FrameType /\ OwnShape(c, 1) /\ CallShape(c, Top.op, Top.type, Top.keep)
    <3>1. PICK j \in 1 .. n - 1 : j = n - 1 /\ j + 1 = n
      BY <2>4
    <3>2. OwnShape(fr[j], 1) /\ CallShape(fr[j], fr[j + 1].op, fr[j + 1].type, fr[j + 1].keep)
      BY <2>2, <2>3, <3>1 DEF Shape
    <3> QED
      BY <2>2, <2>3, <2>4, <3>1, <3>2
  <2>6. OwnShape(g, 0)
    BY <1>1, <2>5, ContinuesShape
  <2>7. g.op = c.op /\ g.type = c.type /\ g.keep = c.keep
    BY <1>1, <2>5, SameKind, FieldFacts
  <2>8. Frames' \in Seq(FrameType)
    BY <2>1, UpFacts DEF Frames
  <2> HIDE DEF g
  <2>9. Shape(Frames')
    BY <2>1, <2>2, <2>3, <2>4, <2>6, <2>7, <2>8, ShapePopped
  <2> QED
    BY <2>9, ShapeNext
<1> QED
  BY <1>3, <1>4

LEMMA TopShape ==
  ASSUME BaseInv, Running, Shape(Frames)
  PROVE  /\ OwnShape(Top, 0) /\ Top \in FrameType /\ program \in Programs
         /\ Frames \in Seq(FrameType) /\ Frames # <<>> /\ Top = Frames[Len(Frames)]
         /\ stack # <<>> /\ stack \in Seq(FrameType)
         /\ Len(stack) = Len(Frames) /\ Len(stack) \in Nat \ {0}
         /\ Top.op = "detach" => ~Top.keep
<1>1. /\ Top \in FrameType /\ program \in Programs /\ stack # <<>> /\ stack \in Seq(FrameType)
      /\ Frames \in Seq(FrameType) /\ Frames # <<>> /\ Top = Frames[Len(Frames)]
      /\ Len(stack) = Len(Frames) /\ Len(stack) \in Nat \ {0}
  BY StackFacts DEF BaseInv, Running
<1>2. OwnShape(Top, 0)
  BY <1>1 DEF Shape
<1> QED
  BY <1>1, <1>2 DEF OwnShape, Destructs

\* The innermost call goes on as g.
LEMMA ShapeGoesOn ==
  ASSUME BaseInv, Running, Shape(Frames), NEW g \in FrameType,
         g.op = Top.op, g.type = Top.type, g.keep = Top.keep, OwnShape(g, 0),
         stack' = <<g>> \o Tail(stack), UNCHANGED <<program, clients, holder>>
  PROVE  Shape(Frames)'
<1>1. stack' \in Seq(FrameType) /\ TopIs(Frames, g, Frames')
  BY TopShape, GoesOnKeeps
<1>2. Frames' \in Seq(FrameType)
  BY <1>1, UpFacts DEF Frames
<1>3. Shape(Frames')
  BY <1>1, <1>2, TopShape, ShapeTop
<1> QED
  BY <1>3, ShapeNext

LEMMA StepKeepsShape ==
  ASSUME BaseInv, Lasting, Shape(Frames), [Next]_vars
  PROVE  Shape(Frames)'
<1>0. UNCHANGED program
  BY DEF Next, Step, BeginAttach, BeginDetach, AttachFound, AttachCreates, NextCall,
         AttachInserts, AttachInsertsStale, ConstructorThrows, ExceptionLeaves,
         DestructorThrows, DetachKeeps, DetachDestroys, DetachMissing, DetachReturns, DetachDies,
         vars
<1>1. ASSUME NEW th \in Threads, NEW t \in Types, BeginAttach(th, t) \/ BeginDetach(th, t)
      PROVE  Shape(Frames)'
  <2>1. PICK op \in {"attach", "detach"} : stack' = <<Call(op, t, FALSE)>>
    BY <1>1 DEF BeginAttach, BeginDetach
  <2>2. PICK f \in FrameType : f = Call(op, t, FALSE) /\ f \in CallType /\ ~f.keep
    BY CallTyped
  <2>3. Len(Frames') = 1 /\ Frames'[1] = f
    BY <2>1, <2>2, OneFrame DEF Frames
  <2>4. OwnShape(f, 0)
    BY <2>2, NewShape
  <2>5. Shape(Frames')
    <3>1. 1 .. Len(Frames') - 1 = {}
      BY <2>3
    <3> QED
      BY <2>2, <2>3, <2>4, <3>1 DEF Shape
  <2> QED
    BY <1>0, <2>5, ShapeNext
<1>2. CASE AttachFound \/ DetachKeeps \/ AttachInserts
  <2>1. Running /\ \E delta \in {-1, 1} : Return(stack, delta)
    BY <1>2 DEF AttachFound, DetachKeeps, AttachInserts, Entering, Constructed, InBody
  <2> QED
    BY <1>0, <2>1, ShapeReturn
<1>3. CASE AttachInsertsStale
  <2>1. CASE Return(stack, 1)
    BY <1>0, <1>3, <2>1, ShapeReturn DEF AttachInsertsStale, Constructed, InBody
  <2>2. CASE UNCHANGED stack
    BY <1>0, <2>2, ShapeNext DEF Frames
  <2> QED
    BY <1>3, <2>1, <2>2 DEF AttachInsertsStale
<1>4. CASE AttachCreates
  <2>1. /\ Running /\ Top.op = "attach" /\ ~Top.entered
        /\ stack' = <<Entered(Top, Construction(Top.type))>> \o Tail(stack)
        /\ UNCHANGED <<program, clients, holder>>
    BY <1>4 DEF AttachCreates, Entering, Enter, Entered
  <2>2. Construction(Top.type) \in Seq(CallType)
    BY <2>1, TopShape, FrameParts, BodiesTyped
  <2>3. OwnShape(Entered(Top, Construction(Top.type)), 0)
    BY <2>1, TopShape, AttachShape
  <2>4. PICK g \in FrameType : g = Entered(Top, Construction(Top.type))
    BY <2>1, <2>2, TopShape, FramesTyped
  <2>5. g.op = Top.op /\ g.type = Top.type /\ g.keep = Top.keep
    BY <2>1, <2>4, TopShape, SameKind, FieldFacts
  <2> QED
    BY <2>1, <2>3, <2>4, <2>5, ShapeGoesOn
<1>5. CASE DetachDestroys
  <2>1. /\ Running /\ Top.op = "detach" /\ ~Top.entered
        /\ stack' = <<Entered(Top, Destruction(Top.type))>> \o Tail(stack)
        /\ UNCHANGED <<program, clients, holder>>
    BY <1>5 DEF DetachDestroys, Entering, Enter, Entered
  <2>2. Destruction(Top.type) \in Seq(CallType)
    BY <2>1, TopShape, FrameParts, BodiesTyped
  <2>3. OwnShape(Entered(Top, Destruction(Top.type)), 0)
    BY <2>1, TopShape, DetachShape
  <2>4. PICK g \in FrameType : g = Entered(Top, Destruction(Top.type))
    BY <2>1, <2>2, TopShape, FramesTyped
  <2>5. g.op = Top.op /\ g.type = Top.type /\ g.keep = Top.keep
    BY <2>1, <2>4, TopShape, SameKind, FieldFacts
  <2> QED
    BY <2>1, <2>3, <2>4, <2>5, ShapeGoesOn
<1>6. CASE NextCall
  <2>1. Running /\ Top.entered /\ Top.todo # <<>>
    BY <1>6 DEF NextCall
  <2>2. /\ stack' \in Seq(FrameType) /\ Pushed(Frames, Proceeds(Top), Head(Top.todo), Frames')
    BY <1>6, CallKeeps
  <2>3. Frames' \in Seq(FrameType)
    BY <2>2, UpFacts DEF Frames
  <2>4. PICK h : h = Head(Top.todo)
    OBVIOUS
  <2>5. PICK p : p = Proceeds(Top)
    OBVIOUS
  <2>6. OwnShape(p, 1) /\ CallShape(p, h.op, h.type, h.keep) /\ OwnShape(h, 0)
    BY <2>1, <2>4, <2>5, TopShape, CallsShape
  <2>7. p.op = Top.op /\ p.type = Top.type /\ p.keep = Top.keep
    BY <2>1, <2>5, TopShape, SameKind, FieldFacts
  <2>8. Shape(Frames')
    BY <2>1, <2>2, <2>3, <2>4, <2>5, <2>6, <2>7, TopShape, ShapePushed
  <2> QED
    BY <1>0, <2>8, ShapeNext
<1>7. CASE ConstructorThrows
  <2>1. /\ Running /\ Constructs(Top) /\ stack' = <<Unwinding(Top)>> \o Tail(stack)
        /\ UNCHANGED <<program, clients, holder>>
    BY <1>7 DEF ConstructorThrows, Constructed, InBody, Constructs
  <2>2. OwnShape(Unwinding(Top), 0)
    BY <2>1, TopShape, UnwindingShape
  <2>3. PICK g \in FrameType : g = Unwinding(Top)
    BY <2>1, TopShape, FramesTyped, EmptySeq
  <2>4. g.op = Top.op /\ g.type = Top.type /\ g.keep = Top.keep
    BY <2>1, <2>3, TopShape, SameKind, FieldFacts
  <2> QED
    BY <2>1, <2>2, <2>3, <2>4, ShapeGoesOn
<1>8. CASE ExceptionLeaves
  <2>1. /\ Running /\ Top.op = "attach"
        /\ stack' \in Seq(FrameType) /\ (Len(stack) = 1 => stack' = <<>>)
        /\ Len(stack) > 1 => Popped(Frames, Unwinding(Frames[Len(stack) - 1]), Frames')
    BY <1>8, LeavesKeeps DEF ExceptionLeaves, Thrown, InBody
  <2>2. CASE Len(stack) = 1
    BY <1>0, <2>1, <2>2, ShapeNone
  <2>3. CASE Len(stack) > 1
    <3> DEFINE n == Len(stack)
               c == Frames[n - 1]
    <3>1. /\ n \in Nat /\ n > 1 /\ n = Len(Frames) /\ c \in FrameType /\ n - 1 \in 1 .. n - 1
          /\ (n - 1) + 1 = n /\ Top = Frames[n]
      <4>1. n \in Nat \ {0} /\ n = Len(Frames) /\ Top = Frames[n] /\ Frames \in Seq(FrameType)
        BY <2>1, TopShape
      <4>2. n - 1 \in 1 .. Len(Frames) /\ n - 1 \in 1 .. n - 1
        BY <2>3, <4>1
      <4> QED
        BY <2>3, <4>1, <4>2
    <3>2. OwnShape(c, 1) /\ CallShape(c, Top.op, Top.type, Top.keep)
      <4>1. PICK j \in 1 .. n - 1 : j = n - 1 /\ j + 1 = n
        BY <3>1
      <4>2. /\ OwnShape(Frames[j], 1)
            /\ CallShape(Frames[j], Frames[j + 1].op, Frames[j + 1].type, Frames[j + 1].keep)
        BY <3>1, <4>1 DEF Shape
      <4> QED
        BY <3>1, <4>1, <4>2
    <3>3. c.op = "attach"
      <4>1. stack[2].op = "attach"
        BY <1>8, <2>3 DEF ExceptionLeaves
      <4>2. n - 1 \in 1 .. Len(stack) /\ Len(stack) + 1 - (n - 1) = 2
        BY <3>1
      <4>3. c = stack[2]
        BY <4>2, <2>1, TopShape, UpFacts DEF Frames
      <4> QED
        BY <4>1, <4>3
    <3>4. Constructs(c)
      BY <2>1, <3>2, <3>3 DEF Constructs, CallShape
    <3> HIDE DEF c
    <3>5. OwnShape(Unwinding(c), 0)
      BY <2>1, <3>1, <3>2, <3>4, TopShape, UnwindingShape
    <3>6. PICK g : g = Unwinding(c)
      OBVIOUS
    <3>7. g.op = c.op /\ g.type = c.type /\ g.keep = c.keep
      BY <3>1, <3>6, SameKind, FieldFacts
    <3>8. Frames' \in Seq(FrameType)
      BY <2>1, UpFacts DEF Frames
    <3>9. Shape(Frames')
      <4>1. Popped(Frames, g, Frames')
        BY <2>1, <2>3, <3>6 DEF c
      <4>2. Frames \in Seq(FrameType)
        BY <2>1, TopShape
      <4>3. /\ Len(Frames) > 1 /\ g.op = Frames[Len(Frames) - 1].op
            /\ g.type = Frames[Len(Frames) - 1].type /\ g.keep = Frames[Len(Frames) - 1].keep
            /\ OwnShape(g, 0)
        BY <3>1, <3>5, <3>6, <3>7 DEF c
      <4> QED
        BY <3>8, <4>1, <4>2, <4>3, ShapePopped
    <3> QED
      BY <1>0, <3>9, ShapeNext
  <2>4. Len(stack) = 1 \/ Len(stack) > 1
    <3>1. PICK n \in Nat \ {0} : n = Len(stack)
      BY <2>1, TopShape
    <3>2. n = 1 \/ n > 1
      OBVIOUS
    <3> QED
      BY <3>1, <3>2
  <2> QED
    BY <2>2, <2>3, <2>4
<1>9. CASE DetachReturns
  <2>1. Running /\ Top.entered
    BY <1>9 DEF DetachReturns, InBody
  <2>2. PICK frames \in {stack, Staled(stack)} : Return(frames, -1)
    BY <1>9 DEF DetachReturns, InBody, ServerDeletedIf, Staled
  <2>3. frames = stack \/ Top.entered
    BY <2>1
  <2>4. PICK delta : delta = -1
    OBVIOUS
  <2>5. Return(frames, delta)
    BY <2>2, <2>4
  <2> QED
    BY <1>0, <2>1, <2>2, <2>3, <2>5, ShapeReturn
<1>10. CASE DestructorThrows \/ DetachMissing \/ DetachDies \/ UNCHANGED vars
  <2>1. Frames' = Frames
    BY <1>10 DEF DestructorThrows, DetachMissing, DetachDies, vars, Frames
  <2> QED
    BY <1>0, <2>1, ShapeNext
<1> QED
  BY <1>1, <1>2, <1>3, <1>4, <1>5, <1>6, <1>7, <1>8, <1>9, <1>10 DEF Next, Step

-----------------------------------------------------------------------------
(* Counting.                                                                 *)

\* The pairs of an element and of a member of its set: their number is the sum
\* of the numbers of members.
PairsOf(S, F) == UNION {{u} \X F[u] : u \in S}

LEMMA PairsFinite ==
  ASSUME NEW S, NEW F, IsFiniteSet(S), \A u \in S : IsFiniteSet(F[u])
  PROVE  IsFiniteSet(PairsOf(S, F)) /\ Cardinality(PairsOf(S, F)) \in Nat
<1> DEFINE T == {{u} \X F[u] : u \in S}
           f == [u \in S |-> {u} \X F[u]]
<1>1. f \in Surjection(S, T)
  BY DEF Surjection
<1>2. IsFiniteSet(T)
  BY <1>1, FS_Surjection
<1>3. ASSUME NEW X \in T PROVE IsFiniteSet(X)
  <2>1. PICK u \in S : X = {u} \X F[u]
    OBVIOUS
  <2> QED
    BY <2>1, FS_Singleton, FS_Product
<1>4. IsFiniteSet(UNION T)
  BY <1>2, <1>3, FS_UNION
<1> QED
  BY <1>4, FS_CardinalityType DEF PairsOf

LEMMA PairsAdd ==
  ASSUME NEW S, NEW F, IsFiniteSet(S), \A u \in S : IsFiniteSet(F[u]),
         NEW x, x \notin S, IsFiniteSet(F[x])
  PROVE  /\ IsFiniteSet(PairsOf(S \cup {x}, F)) /\ Cardinality(F[x]) \in Nat
         /\ Cardinality(PairsOf(S \cup {x}, F)) = Cardinality(PairsOf(S, F)) + Cardinality(F[x])
<1> DEFINE A == PairsOf(S, F)
           B == {x} \X F[x]
<1>1. IsFiniteSet(A) /\ Cardinality(A) \in Nat
  BY PairsFinite
<1>2. Cardinality(F[x]) \in Nat
  BY FS_CardinalityType
<1>3. IsFiniteSet(B) /\ Cardinality(B) = Cardinality(F[x])
  <2>1. IsFiniteSet({x}) /\ Cardinality({x}) = 1
    BY FS_Singleton
  <2>2. IsFiniteSet(B) /\ Cardinality(B) = 1 * Cardinality(F[x])
    BY <2>1, FS_Product
  <2> QED
    BY <1>2, <2>2
<1>4. PairsOf(S \cup {x}, F) = A \cup B
  BY DEF PairsOf
<1>5. A \cap B = {}
  BY DEF PairsOf
<1> HIDE DEF A, B
<1>6. IsFiniteSet(A \cup B)
      /\ Cardinality(A \cup B) = Cardinality(A) + Cardinality(B) - Cardinality(A \cap B)
  BY <1>1, <1>3, FS_Union
<1>7. Cardinality(A \cap B) = 0
  BY <1>5, FS_EmptySet
<1>8. Cardinality(A \cup B) = Cardinality(A) + Cardinality(F[x])
  BY <1>1, <1>2, <1>3, <1>6, <1>7
<1> QED
  BY <1>2, <1>4, <1>6, <1>8 DEF A

(* What the calls use, from the outermost to the n-th.                     *)
FU(fr, j, t) == FrameUses(fr[j], MomentAbove(fr, j), t)
UpTo(fr, n, t) == PairsOf(1 .. n, [j \in 1 .. Len(fr) |-> FU(fr, j, t)])

LEMMA UsesFinite ==
  ASSUME NEW f \in FrameType, NEW moment, NEW t
  PROVE  /\ IsFiniteSet(FrameUses(f, moment, t))
         /\ Cardinality(FrameUses(f, moment, t)) \in Nat
<1>1. IsFiniteSet(DOMAIN f.todo) /\ IsFiniteSet(DOMAIN f.held)
  BY FrameParts, FS_Interval
<1>2. Entries(f.held, t) \in SUBSET DOMAIN f.held
      /\ {i \in DOMAIN f.todo : Due(f, i, moment, t)} \in SUBSET DOMAIN f.todo
  BY DEF Entries
<1>3. IsFiniteSet(Entries(f.held, t)) /\ IsFiniteSet({i \in DOMAIN f.todo : Due(f, i, moment, t)})
  BY <1>1, <1>2, FS_Subset
<1>4. IsFiniteSet(FrameUses(f, moment, t))
  BY <1>3, FS_Union DEF FrameUses
<1> QED
  BY <1>4, FS_CardinalityType

LEMMA UpToNext ==
  ASSUME NEW fr \in Seq(FrameType), NEW n \in 1 .. Len(fr), NEW t
  PROVE  /\ Cardinality(UpTo(fr, n, t)) \in Nat /\ Cardinality(UpTo(fr, n - 1, t)) \in Nat
         /\ Cardinality(FU(fr, n, t)) \in Nat
         /\ Cardinality(UpTo(fr, n, t)) = Cardinality(UpTo(fr, n - 1, t))
                                            + Cardinality(FU(fr, n, t))
<1> DEFINE F == [j \in 1 .. Len(fr) |-> FU(fr, j, t)]
<1>1. \A j \in 1 .. Len(fr) : F[j] = FU(fr, j, t) /\ IsFiniteSet(F[j])
  BY UsesFinite DEF FU
<1>2. /\ 1 .. n = (1 .. n - 1) \cup {n} /\ n \notin 1 .. n - 1 /\ n \in 1 .. Len(fr)
      /\ \A j \in 1 .. n : j \in 1 .. Len(fr)
  OBVIOUS
<1>3. IsFiniteSet(1 .. n - 1) /\ IsFiniteSet(1 .. n)
  BY FS_Interval
<1> HIDE DEF F
<1>4. /\ Cardinality(F[n]) \in Nat
      /\ Cardinality(PairsOf((1 .. n - 1) \cup {n}, F))
           = Cardinality(PairsOf(1 .. n - 1, F)) + Cardinality(F[n])
  <2>1. PICK S : S = 1 .. n - 1
    OBVIOUS
  <2>2. IsFiniteSet(S) /\ n \notin S /\ IsFiniteSet(F[n]) /\ \A u \in S : IsFiniteSet(F[u])
    BY <1>1, <1>2, <1>3, <2>1
  <2>3. /\ Cardinality(F[n]) \in Nat
        /\ Cardinality(PairsOf(S \cup {n}, F)) = Cardinality(PairsOf(S, F)) + Cardinality(F[n])
    BY <2>2, PairsAdd
  <2> QED
    BY <2>1, <2>3
<1>5. Cardinality(PairsOf(1 .. n, F)) \in Nat /\ Cardinality(PairsOf(1 .. n - 1, F)) \in Nat
  BY <1>1, <1>2, <1>3, PairsFinite
<1> QED
  BY <1>1, <1>2, <1>4, <1>5 DEF UpTo, F

LEMMA UpToSame ==
  ASSUME NEW fr \in Seq(FrameType), NEW fr2 \in Seq(FrameType), NEW t, NEW n \in Nat,
         n <= Len(fr), n <= Len(fr2), \A j \in 1 .. n : FU(fr2, j, t) = FU(fr, j, t)
  PROVE  UpTo(fr2, n, t) = UpTo(fr, n, t)
<1>1. \A j \in 1 .. n : j \in 1 .. Len(fr) /\ j \in 1 .. Len(fr2)
  OBVIOUS
<1> QED
  BY <1>1 DEF UpTo, PairsOf

LEMMA UpToNone == ASSUME NEW fr, NEW t PROVE UpTo(fr, 0, t) = {} /\ Cardinality(UpTo(fr, 0, t)) = 0
<1>1. UpTo(fr, 0, t) = {}
  BY DEF UpTo, PairsOf
<1> QED
  BY <1>1, FS_EmptySet

LEMMA CallUsesUpTo ==
  ASSUME NEW fr \in Seq(FrameType), NEW t
  PROVE  /\ CallUses(fr, t) = UpTo(fr, Len(fr), t)
         /\ IsFiniteSet(CallUses(fr, t)) /\ Cardinality(CallUses(fr, t)) \in Nat
<1>1. CallUses(fr, t) = UpTo(fr, Len(fr), t)
  BY DEF CallUses, UpTo, PairsOf, FU
<1>2. \A j \in 1 .. Len(fr) : IsFiniteSet(FU(fr, j, t))
  BY UsesFinite DEF FU
<1>3. IsFiniteSet(UpTo(fr, Len(fr), t)) /\ Cardinality(UpTo(fr, Len(fr), t)) \in Nat
  <2>1. PICK F : F = [j \in 1 .. Len(fr) |-> FU(fr, j, t)]
    OBVIOUS
  <2>2. IsFiniteSet(1 .. Len(fr)) /\ \A j \in 1 .. Len(fr) : IsFiniteSet(F[j])
    BY <1>2, <2>1, FS_Interval
  <2>3. IsFiniteSet(PairsOf(1 .. Len(fr), F)) /\ Cardinality(PairsOf(1 .. Len(fr), F)) \in Nat
    BY <2>2, PairsFinite
  <2> QED
    BY <2>1, <2>3 DEF UpTo
<1> QED
  BY <1>1, <1>3

\* How the three kinds of step change what the calls use.
LEMMA TopSame ==
  ASSUME NEW fr \in Seq(FrameType), NEW g, NEW fr2 \in Seq(FrameType), TopIs(fr, g, fr2), fr # <<>>,
         g.op = fr[Len(fr)].op, g.keep = fr[Len(fr)].keep,
         NEW t, NEW j \in 1 .. Len(fr) - 1
  PROVE  FU(fr2, j, t) = FU(fr, j, t)
<1> DEFINE n == Len(fr)
<1>0. n \in Nat /\ n \in 1 .. n /\ n - 1 \in Nat /\ Len(fr2) = n /\ fr2[n] = g
      /\ n <= Len(fr) /\ n - 1 <= Len(fr) /\ n - 1 <= Len(fr2) /\ n \in 1 .. Len(fr2)
  BY DEF TopIs
<1>1. fr2[j] = fr[j] /\ j < Len(fr) /\ j < Len(fr2)
  BY <1>0 DEF TopIs
<1>2. fr2[j + 1].op = fr[j + 1].op /\ fr2[j + 1].keep = fr[j + 1].keep
  <2>1. CASE j + 1 = n
    BY <1>0, <2>1
  <2>2. CASE j + 1 # n
    <3>1. j + 1 \in 1 .. n - 1
      BY <1>0, <2>2
    <3> QED
      BY <3>1 DEF TopIs
  <2> QED
    BY <2>1, <2>2
<1>3. MomentAbove(fr2, j) = MomentAbove(fr, j)
  BY <1>1, <1>2 DEF MomentAbove, Moment
<1> QED
  BY <1>1, <1>3 DEF FU

LEMMA CountTop ==
  ASSUME NEW fr \in Seq(FrameType), fr # <<>>, NEW g \in FrameType, NEW fr2 \in Seq(FrameType),
         TopIs(fr, g, fr2), g.op = fr[Len(fr)].op, g.keep = fr[Len(fr)].keep, NEW t
  PROVE  \E r \in Nat :
          /\ Cardinality(CallUses(fr, t))
               = r + Cardinality(FrameUses(fr[Len(fr)], 0, t))
          /\ Cardinality(CallUses(fr2, t)) = r + Cardinality(FrameUses(g, 0, t))
<1> DEFINE n == Len(fr)
<1>1. n \in Nat /\ n \in 1 .. n /\ n - 1 \in Nat /\ Len(fr2) = n /\ fr2[n] = g
      /\ n <= Len(fr) /\ n - 1 <= Len(fr) /\ n - 1 <= Len(fr2) /\ n \in 1 .. Len(fr2)
  BY DEF TopIs
<1>2. ASSUME NEW j \in 1 .. Len(fr) - 1 PROVE FU(fr2, j, t) = FU(fr, j, t)
  BY TopSame
<1>3. UpTo(fr2, n - 1, t) = UpTo(fr, n - 1, t)
  BY <1>1, <1>2, UpToSame
<1>4. FU(fr, n, t) = FrameUses(fr[n], 0, t) /\ FU(fr2, n, t) = FrameUses(g, 0, t)
  <2>2. MomentAbove(fr, n) = 0 /\ MomentAbove(fr2, n) = 0
    BY <1>1 DEF MomentAbove
  <2> QED
    BY <1>1, <2>2 DEF FU
<1>5. PICK r \in Nat : r = Cardinality(UpTo(fr, n - 1, t))
  BY <1>1, UpToNext
<1>6. Cardinality(CallUses(fr, t)) = r + Cardinality(FrameUses(fr[n], 0, t))
  BY <1>1, <1>4, <1>5, UpToNext, CallUsesUpTo
<1>7. Cardinality(CallUses(fr2, t)) = r + Cardinality(FrameUses(g, 0, t))
  BY <1>1, <1>3, <1>4, <1>5, UpToNext, CallUsesUpTo
<1> QED
  BY <1>6, <1>7

LEMMA PushedSame ==
  ASSUME NEW fr \in Seq(FrameType), NEW g, NEW f, NEW fr2 \in Seq(FrameType), Pushed(fr, g, f, fr2), fr # <<>>,
         g.op = fr[Len(fr)].op, g.keep = fr[Len(fr)].keep,
         NEW t, NEW j \in 1 .. Len(fr) - 1
  PROVE  FU(fr2, j, t) = FU(fr, j, t)
<1> DEFINE n == Len(fr)
<1>0. /\ n \in Nat /\ n \in 1 .. n /\ n - 1 \in Nat /\ Len(fr2) = n + 1
      /\ fr2[n] = g /\ fr2[n + 1] = f /\ (n + 1) - 1 = n
      /\ n <= Len(fr) /\ n - 1 <= Len(fr) /\ n - 1 <= Len(fr2)
      /\ n \in 1 .. Len(fr2) /\ n + 1 \in 1 .. Len(fr2) /\ n < n + 1
  BY DEF Pushed
<1>1. fr2[j] = fr[j] /\ j < Len(fr) /\ j < Len(fr2)
  BY <1>0 DEF Pushed
<1>2. fr2[j + 1].op = fr[j + 1].op /\ fr2[j + 1].keep = fr[j + 1].keep
  <2>1. CASE j + 1 = n
    BY <1>0, <2>1
  <2>2. CASE j + 1 # n
    <3>1. j + 1 \in 1 .. n - 1
      <4>1. n \in Nat
        OBVIOUS
      <4> QED
        BY <2>2, <4>1
    <3> QED
      BY <3>1 DEF Pushed
  <2> QED
    BY <2>1, <2>2
<1>3. MomentAbove(fr2, j) = MomentAbove(fr, j)
  BY <1>1, <1>2 DEF MomentAbove, Moment
<1> QED
  BY <1>1, <1>3 DEF FU

LEMMA CountPushed ==
  ASSUME NEW fr \in Seq(FrameType), fr # <<>>, NEW g \in FrameType, NEW f \in FrameType,
         NEW fr2 \in Seq(FrameType), Pushed(fr, g, f, fr2),
         g.op = fr[Len(fr)].op, g.keep = fr[Len(fr)].keep,
         NEW M \in {0, 1}, M = Moment(f), NEW t
  PROVE  \E r \in Nat :
          /\ Cardinality(CallUses(fr, t))
               = r + Cardinality(FrameUses(fr[Len(fr)], 0, t))
          /\ Cardinality(CallUses(fr2, t))
               = r + Cardinality(FrameUses(g, M, t)) + Cardinality(FrameUses(f, 0, t))
<1> DEFINE n == Len(fr)
<1>1. /\ n \in Nat /\ n \in 1 .. n /\ n - 1 \in Nat /\ Len(fr2) = n + 1
      /\ fr2[n] = g /\ fr2[n + 1] = f /\ (n + 1) - 1 = n
      /\ n <= Len(fr) /\ n - 1 <= Len(fr) /\ n - 1 <= Len(fr2)
      /\ n \in 1 .. Len(fr2) /\ n + 1 \in 1 .. Len(fr2) /\ n < n + 1
  BY DEF Pushed
<1>2. ASSUME NEW j \in 1 .. Len(fr) - 1 PROVE FU(fr2, j, t) = FU(fr, j, t)
  BY PushedSame
<1>3. UpTo(fr2, n - 1, t) = UpTo(fr, n - 1, t)
  BY <1>1, <1>2, UpToSame
<1>4. /\ FU(fr, n, t) = FrameUses(fr[n], 0, t)
      /\ FU(fr2, n, t) = FrameUses(g, M, t)
      /\ FU(fr2, n + 1, t) = FrameUses(f, 0, t)
  <2>2. MomentAbove(fr, n) = 0 /\ MomentAbove(fr2, n + 1) = 0
    BY <1>1 DEF MomentAbove
  <2>3. MomentAbove(fr2, n) = M
    BY <1>1 DEF MomentAbove
  <2> QED
    BY <1>1, <2>2, <2>3 DEF FU
<1>5. PICK r \in Nat : r = Cardinality(UpTo(fr, n - 1, t))
  BY <1>1, UpToNext
<1>6. Cardinality(CallUses(fr, t)) = r + Cardinality(FrameUses(fr[n], 0, t))
  BY <1>1, <1>4, <1>5, UpToNext, CallUsesUpTo, ZenonT(30)
<1>7. Cardinality(UpTo(fr2, n, t)) = r + Cardinality(FrameUses(g, M, t))
  BY <1>1, <1>3, <1>4, <1>5, UpToNext
<1>8. Cardinality(CallUses(fr2, t))
        = Cardinality(UpTo(fr2, n, t)) + Cardinality(FrameUses(f, 0, t))
  BY <1>1, <1>4, UpToNext, CallUsesUpTo
<1> QED
  BY <1>6, <1>7, <1>8

LEMMA PoppedSame ==
  ASSUME NEW fr \in Seq(FrameType), NEW g, NEW fr2 \in Seq(FrameType), Popped(fr, g, fr2), Len(fr) > 1,
         g.op = fr[Len(fr) - 1].op, g.keep = fr[Len(fr) - 1].keep,
         NEW t, NEW j \in 1 .. Len(fr) - 2
  PROVE  FU(fr2, j, t) = FU(fr, j, t)
<1> DEFINE n == Len(fr)
           m == n - 1
<1>0. /\ n \in Nat /\ n \in 1 .. n /\ m \in Nat /\ Len(fr2) = m /\ fr2[m] = g /\ m + 1 = n
      /\ m - 1 \in Nat /\ m - 1 = n - 2 /\ m - 1 <= Len(fr) /\ m - 1 <= Len(fr2)
      /\ m \in 1 .. Len(fr2) /\ m \in 1 .. Len(fr) /\ m < n
  BY DEF Popped
<1>1. fr2[j] = fr[j] /\ j < Len(fr) /\ j < Len(fr2)
  BY <1>0 DEF Popped
<1>2. fr2[j + 1].op = fr[j + 1].op /\ fr2[j + 1].keep = fr[j + 1].keep
  <2>1. CASE j + 1 = m
    BY <1>0, <2>1
  <2>2. CASE j + 1 # m
    <3>1. j + 1 \in 1 .. n - 2
      BY <1>0, <2>2
    <3> QED
      BY <3>1 DEF Popped
  <2> QED
    BY <2>1, <2>2
<1>3. MomentAbove(fr2, j) = MomentAbove(fr, j)
  BY <1>1, <1>2 DEF MomentAbove, Moment
<1> QED
  BY <1>1, <1>3 DEF FU

LEMMA CountPopped ==
  ASSUME NEW fr \in Seq(FrameType), Len(fr) > 1, NEW g \in FrameType,
         NEW fr2 \in Seq(FrameType), Popped(fr, g, fr2),
         NEW c \in FrameType, c = fr[Len(fr) - 1], NEW f \in FrameType, f = fr[Len(fr)],
         g.op = c.op, g.keep = c.keep, NEW M \in {0, 1}, M = Moment(f), NEW t
  PROVE  \E r \in Nat :
          /\ Cardinality(CallUses(fr, t))
               = r + Cardinality(FrameUses(c, M, t)) + Cardinality(FrameUses(f, 0, t))
          /\ Cardinality(CallUses(fr2, t)) = r + Cardinality(FrameUses(g, 0, t))
<1> DEFINE n == Len(fr)
           m == n - 1
<1>1. /\ n \in Nat /\ n \in 1 .. n /\ m \in Nat /\ Len(fr2) = m /\ fr2[m] = g /\ m + 1 = n
      /\ m - 1 \in Nat /\ m - 1 = n - 2 /\ m - 1 <= Len(fr) /\ m - 1 <= Len(fr2)
      /\ m \in 1 .. Len(fr2) /\ m \in 1 .. Len(fr) /\ m < n /\ c = fr[m] /\ f = fr[n]
  BY DEF Popped
<1>2. ASSUME NEW j \in 1 .. Len(fr) - 2 PROVE FU(fr2, j, t) = FU(fr, j, t)
  BY PoppedSame
<1>3. UpTo(fr2, m - 1, t) = UpTo(fr, m - 1, t)
  BY <1>1, <1>2, UpToSame
<1>4. /\ FU(fr, n, t) = FrameUses(f, 0, t)
      /\ FU(fr, m, t) = FrameUses(c, M, t)
      /\ FU(fr2, m, t) = FrameUses(g, 0, t)
  <2>2. MomentAbove(fr, n) = 0 /\ MomentAbove(fr2, m) = 0
    BY <1>1 DEF MomentAbove
  <2>3. MomentAbove(fr, m) = M
    BY <1>1 DEF MomentAbove
  <2> QED
    BY <1>1, <2>2, <2>3 DEF FU
<1>5. PICK r \in Nat : r = Cardinality(UpTo(fr, m - 1, t))
  BY <1>1, UpToNext
<1>6. Cardinality(UpTo(fr, m, t))
        = r + Cardinality(FrameUses(c, M, t))
  BY <1>1, <1>4, <1>5, UpToNext
<1>7. Cardinality(CallUses(fr, t))
        = Cardinality(UpTo(fr, m, t)) + Cardinality(FrameUses(f, 0, t))
  <2>1. Cardinality(UpTo(fr, n, t)) = Cardinality(UpTo(fr, n - 1, t)) + Cardinality(FU(fr, n, t))
    BY <1>1, UpToNext
  <2> QED
    BY <1>4, <2>1, CallUsesUpTo
<1>8. Cardinality(CallUses(fr2, t)) = r + Cardinality(FrameUses(g, 0, t))
  <2>1. /\ Cardinality(UpTo(fr2, m, t)) = Cardinality(UpTo(fr2, m - 1, t)) + Cardinality(FU(fr2, m, t))
    BY <1>1, UpToNext
  <2>2. CallUses(fr2, t) = UpTo(fr2, m, t)
    BY <1>1, CallUsesUpTo
  <2> QED
    BY <1>3, <1>4, <1>5, <2>1, <2>2
<1> QED
  BY <1>1, <1>6, <1>7, <1>8

LEMMA CountOne ==
  ASSUME NEW fr \in Seq(FrameType), Len(fr) = 1, NEW t
  PROVE  Cardinality(CallUses(fr, t)) = Cardinality(FrameUses(fr[1], 0, t))
<1>1. FU(fr, 1, t) = FrameUses(fr[1], 0, t)
  <2>2. MomentAbove(fr, 1) = 0
    BY DEF MomentAbove
  <2> QED
    BY <2>2 DEF FU
<1>2. 1 \in 1 .. Len(fr) /\ 1 - 1 = 0
  OBVIOUS
<1>3. /\ Cardinality(UpTo(fr, 1, t)) = Cardinality(UpTo(fr, 1 - 1, t)) + Cardinality(FU(fr, 1, t))
      /\ Cardinality(FU(fr, 1, t)) \in Nat
  BY <1>2, UpToNext
<1>4. Cardinality(UpTo(fr, 1 - 1, t)) = 0
  BY <1>2, UpToNone
<1>5. Cardinality(UpTo(fr, 1, t)) = Cardinality(FU(fr, 1, t))
  BY <1>3, <1>4
<1>6. CallUses(fr, t) = UpTo(fr, 1, t)
  BY CallUsesUpTo
<1> QED
  BY <1>1, <1>5, <1>6

\* A constructor uses what it holds; a call that has nothing more to do, too.
LEMMA HeldUses ==
  ASSUME NEW f \in FrameType, \A i \in DOMAIN f.todo : f.todo[i].op = "attach",
         NEW moment, NEW t
  PROVE  FrameUses(f, moment, t) = Entries(f.held, t)
<1>1. ASSUME NEW i \in DOMAIN f.todo PROVE ~Due(f, i, moment, t)
  <2>1. PICK p : p = Len(f.todo) + 1 - i
    OBVIOUS
  <2>2. p \in DOMAIN f.todo
    BY <2>1, FrameParts
  <2> QED
    BY <2>1, <2>2 DEF Due
<1> QED
  BY <1>1 DEF FrameUses

LEMMA WaitsUses ==
  ASSUME NEW f \in FrameType, f.todo = <<>>, f.held = <<>>, NEW moment, NEW t
  PROVE  FrameUses(f, moment, t) = {} /\ Cardinality(FrameUses(f, moment, t)) = 0
<1>1. DOMAIN f.todo = {} /\ DOMAIN f.held = {}
  OBVIOUS
<1>2. FrameUses(f, moment, t) = {}
  BY <1>1 DEF FrameUses, Entries
<1> QED
  BY <1>2, FS_EmptySet

LEMMA ConstructingUses ==
  ASSUME program \in Programs, NEW f \in FrameType, Constructs(f), NEW calls \in {0, 1},
         OwnShape(f, calls), NEW moment, NEW t
  PROVE  /\ \A i \in DOMAIN f.todo : f.todo[i].op = "attach"
         /\ FrameUses(f, moment, t) = Entries(f.held, t)
<1>1. Constructing(f, calls)
  BY DEF OwnShape
<1>2. ASSUME NEW i \in DOMAIN f.todo PROVE f.todo[i].op = "attach"
  <2>1. i \in 1 .. Len(f.todo)
    BY FrameParts
  <2>2. f.todo[i] = Call("attach", Members[f.type][Len(f.held) + calls + i], TRUE)
    BY <1>1, <2>1, ConstructingIs
  <2> QED
    BY <2>2 DEF Call
<1> QED
  BY <1>2, HeldUses

LEMMA AddOne ==
  ASSUME NEW S, IsFiniteSet(S), NEW x, x \notin S
  PROVE  /\ Cardinality(S \cup {x}) = Cardinality(S) + 1 /\ Cardinality(S) \in Nat
         /\ IsFiniteSet(S \cup {x})
  BY FS_AddElement, FS_CardinalityType

\* A call returns: if it has attached, its caller uses one more.
LEMMA ContinuesUses ==
  ASSUME program \in Programs, NEW c \in FrameType, NEW f \in FrameType, OwnShape(c, 1),
         CallShape(c, f.op, f.type, f.keep), NEW M \in {0, 1}, M = Moment(f),
         NEW t
  PROVE  Cardinality(FrameUses(Continues(c, f), 0, t))
           = Cardinality(FrameUses(c, M, t))
               + (IF f.op = "attach" /\ f.type = t THEN 1 ELSE 0)
<1> DEFINE g == Continues(c, f)
           L == Len(c.todo)
<1>1. /\ g.todo = c.todo /\ g.held = IF f.keep THEN Append(c.held, f.type) ELSE c.held
  BY FieldFacts
<1>2. /\ c.held \in Seq(Types) /\ Len(c.held) \in Nat /\ DOMAIN c.held = 1 .. Len(c.held)
      /\ f.type \in Types /\ L \in Nat /\ c.op \in {"attach", "detach"}
      /\ DOMAIN c.todo = 1 .. L /\ f.op \in {"attach", "detach"} /\ f.keep \in BOOLEAN
  BY FrameParts
<1>3. g \in FrameType
  BY FramesTyped, EmptySeq
<1>4. IsFiniteSet(FrameUses(c, M, t)) /\ Cardinality(FrameUses(c, M, t)) \in Nat
  BY UsesFinite
<1>9. SUFFICES Cardinality(FrameUses(g, 0, t))
           = Cardinality(FrameUses(c, M, t)) + (IF f.op = "attach" /\ f.type = t THEN 1 ELSE 0)
  OBVIOUS
<1> HIDE DEF g, L
<1>5. CASE Constructs(c)
  <2>1. f.keep /\ f.op = "attach"
    BY <1>5 DEF CallShape
  <2>2. /\ FrameUses(c, M, t) = Entries(c.held, t)
        /\ \A i \in DOMAIN c.todo : c.todo[i].op = "attach"
    BY <1>5, ConstructingUses
  <2>3. FrameUses(g, 0, t) = Entries(g.held, t)
    BY <1>1, <1>3, <2>2, HeldUses
  <2>4. g.held = Append(c.held, f.type)
    BY <1>1, <2>1
  <2>5. Entries(g.held, t) = Entries(c.held, t)
                               \cup (IF f.type = t THEN {Len(c.held) + 1} ELSE {})
    <3>1. /\ DOMAIN g.held = (1 .. Len(c.held)) \cup {Len(c.held) + 1}
          /\ \A i \in 1 .. Len(c.held) : g.held[i] = c.held[i]
          /\ g.held[Len(c.held) + 1] = f.type
      BY <1>2, <2>4
    <3> QED
      BY <1>2, <3>1 DEF Entries
  <2>6. Len(c.held) + 1 \notin Entries(c.held, t)
    BY <1>2 DEF Entries
  <2>7. CASE f.type = t
    <3>1. Cardinality(Entries(c.held, t) \cup {Len(c.held) + 1})
            = Cardinality(Entries(c.held, t)) + 1
      BY <1>4, <2>2, <2>6, AddOne
    <3> QED
      BY <2>1, <2>2, <2>3, <2>5, <2>7, <3>1
  <2>8. CASE f.type # t
    <3>1. FrameUses(g, 0, t) = FrameUses(c, M, t)
      BY <2>2, <2>3, <2>5, <2>8
    <3>2. PICK k \in Nat : k = Cardinality(FrameUses(c, M, t))
      BY <1>4
    <3>3. k + (IF f.op = "attach" /\ f.type = t THEN 1 ELSE 0) = k
      BY <2>8
    <3> QED
      BY <3>1, <3>2, <3>3
  <2> QED
    BY <2>7, <2>8
<1>6. CASE ~Constructs(c) /\ f.op = "attach"
  <2>1. /\ ~f.keep /\ c.op = "detach" /\ c.todo # <<>>
        /\ Head(c.todo) = Call("detach", f.type, FALSE)
    BY <1>2, <1>6 DEF CallShape, Constructs
  <2>2. c.held = <<>> /\ g.held = <<>>
    BY <1>1, <2>1 DEF OwnShape, Destructs
  <2>3. L > 0 /\ c.todo[1] = Call("detach", f.type, FALSE)
    <3>1. PICK s \in Seq(CallType) : s = c.todo
      BY FrameParts
    <3>2. Len(s) \in Nat \ {0} /\ Head(s) = s[1]
      BY <2>1, <3>1, TailFacts
    <3>3. Len(s) > 0 /\ L = Len(s)
      BY <3>1, <3>2 DEF L
    <3> QED
      BY <2>1, <3>1, <3>2, <3>3
  <2>4. c.todo[1].op = "detach" /\ c.todo[1].type = f.type
    BY <2>3 DEF Call
  <2>5. Entries(c.held, t) = {} /\ Entries(g.held, t) = {}
    BY <2>2 DEF Entries
  <2>6. /\ FrameUses(c, M, t) = {i \in 1 .. L : Due(c, i, M, t)}
        /\ FrameUses(g, 0, t) = {i \in 1 .. L : Due(g, i, 0, t)}
    BY <1>1, <1>2, <2>5 DEF FrameUses
  <2>7. ASSUME NEW i \in 1 .. L, i # L PROVE Due(c, i, M, t) <=> Due(g, i, 0, t)
    <3>1. PICK p : p = L + 1 - i
      OBVIOUS
    <3>2. p # 1
      BY <1>2, <2>7, <3>1
    <3> QED
      BY <1>1, <3>1, <3>2 DEF Due, L
  <2>8. ~Due(c, L, M, t) /\ (Due(g, L, 0, t) <=> f.type = t) /\ L \in 1 .. L
    <3>1. L + 1 - L = 1 /\ L \in 1 .. L
      BY <1>2, <2>3
    <3> QED
      BY <1>1, <1>6, <2>1, <2>4, <3>1 DEF Due, L, Moment
  <2>9. /\ FrameUses(g, 0, t)
             = FrameUses(c, M, t) \cup (IF f.type = t THEN {L} ELSE {})
        /\ L \notin FrameUses(c, M, t)
    BY <2>6, <2>7, <2>8
  <2>10. CASE f.type = t
    <3>1. Cardinality(FrameUses(c, M, t) \cup {L}) = Cardinality(FrameUses(c, M, t)) + 1
      BY <1>4, <2>9, AddOne
    <3> QED
      BY <1>6, <2>9, <2>10, <3>1
  <2>11. CASE f.type # t
    <3>1. FrameUses(g, 0, t) = FrameUses(c, M, t)
      BY <2>9, <2>11
    <3>2. PICK k \in Nat : k = Cardinality(FrameUses(c, M, t))
      BY <1>4
    <3>3. k + (IF f.op = "attach" /\ f.type = t THEN 1 ELSE 0) = k
      BY <2>11
    <3> QED
      BY <3>1, <3>2, <3>3
  <2> QED
    BY <2>10, <2>11
<1>7. CASE f.op = "detach"
  <2>1. ~f.keep
    BY <1>7 DEF CallShape
  <2>2. g.held = c.held /\ M = 0
    BY <1>1, <1>7, <2>1 DEF Moment
  <2>3. FrameUses(g, 0, t) = FrameUses(c, 0, t)
    BY <1>1, <2>2 DEF FrameUses, Due
  <2>4. PICK k \in Nat : k = Cardinality(FrameUses(c, M, t))
    BY <1>4
  <2>5. k + (IF f.op = "attach" /\ f.type = t THEN 1 ELSE 0) = k
    BY <1>7
  <2> QED
    BY <2>2, <2>3, <2>4, <2>5
<1> QED
  BY <1>2, <1>5, <1>6, <1>7

\* A call makes its next call: if that detaches, it uses one less.
LEMMA CallsUses ==
  ASSUME program \in Programs, NEW f \in FrameType, f.entered, OwnShape(f, 0), f.todo # <<>>,
         NEW h, h = Head(f.todo), NEW M \in {0, 1}, M = Moment(h), NEW t
  PROVE  Cardinality(FrameUses(f, 0, t))
           = Cardinality(FrameUses(Proceeds(f), M, t))
               + (IF h.op = "detach" /\ h.type = t THEN 1 ELSE 0)
<1> DEFINE p == Proceeds(f)
           L == Len(f.todo)
<1>1. p.todo = Tail(f.todo) /\ p.held = f.held /\ p \in FrameType
  BY FieldFacts, FramesTyped, EmptySeq
<1>2. /\ L \in Nat \ {0} /\ DOMAIN f.todo = 1 .. L /\ h = f.todo[1] /\ 1 \in 1 .. L
      /\ DOMAIN p.todo = 1 .. L - 1 /\ Len(p.todo) = L - 1
      /\ \A i \in 1 .. L - 1 : p.todo[i] = f.todo[i + 1] /\ i + 1 \in 1 .. L
  <2>1. PICK s \in Seq(CallType) : s = f.todo /\ s # <<>>
    BY FrameParts
  <2>2. /\ Len(Tail(s)) = Len(s) - 1 /\ Len(s) \in Nat \ {0}
        /\ DOMAIN Tail(s) = 1 .. Len(s) - 1 /\ DOMAIN s = 1 .. Len(s)
        /\ Head(s) = s[1]
        /\ \A i \in 1 .. Len(s) - 1 : Tail(s)[i] = s[i + 1] /\ i + 1 \in 1 .. Len(s)
    BY <2>1, TailFacts
  <2>3. 1 \in 1 .. Len(s)
    BY <2>2
  <2> QED
    BY <1>1, <2>1, <2>2, <2>3
<1>3. /\ Cardinality(FrameUses(p, M, t)) \in Nat /\ IsFiniteSet(FrameUses(p, M, t))
      /\ f.op \in {"attach", "detach"} /\ f.throwing \in BOOLEAN
      /\ \A i \in 1 .. L : f.todo[i].op \in {"attach", "detach"} /\ f.todo[i].keep \in BOOLEAN
  <2>1. \A i \in 1 .. L : f.todo[i] \in CallType
    BY <1>2, FrameParts
  <2> QED
    BY <1>1, <2>1, UsesFinite, FrameParts, CallOfType
<1>4. SUFFICES Cardinality(FrameUses(f, 0, t))
           = Cardinality(FrameUses(p, M, t)) + (IF h.op = "detach" /\ h.type = t THEN 1 ELSE 0)
  OBVIOUS
<1> HIDE DEF p, L
<1>5. CASE Constructs(f)
  <2>1. /\ FrameUses(f, 0, t) = Entries(f.held, t)
        /\ \A i \in DOMAIN f.todo : f.todo[i].op = "attach"
    BY <1>5, ConstructingUses
  <2>2. h.op = "attach" /\ \A i \in DOMAIN p.todo : p.todo[i].op = "attach"
    <3>1. ASSUME NEW i \in DOMAIN p.todo PROVE p.todo[i].op = "attach"
      <4>1. i \in 1 .. L - 1
        BY <1>2
      <4>2. p.todo[i] = f.todo[i + 1] /\ i + 1 \in DOMAIN f.todo
        BY <1>2, <4>1
      <4> QED
        BY <2>1, <4>2
    <3> QED
      BY <1>2, <2>1, <3>1
  <2>3. FrameUses(p, M, t) = Entries(f.held, t)
    BY <1>1, <2>2, HeldUses
  <2>4. PICK k \in Nat : k = Cardinality(FrameUses(p, M, t))
    BY <1>3
  <2>5. k + (IF h.op = "detach" /\ h.type = t THEN 1 ELSE 0) = k
    BY <2>2
  <2> QED
    BY <2>1, <2>3, <2>4, <2>5
<1>6. CASE ~Constructs(f)
  <2>1. f.held = <<>> /\ ~h.keep
    <3>1. CASE f.op = "detach"
      <4>1. Destructs(f)
        BY <3>1 DEF OwnShape
      <4>2. PICK i \in DOMAIN f.todo : i = 1
        BY <1>2
      <4>3. IF f.todo[i].op = "detach" THEN DetachCall(f.todo[i])
            ELSE f.todo[i] = Call("attach", f.todo[i].type, FALSE)
        BY <4>1, Zenon DEF Destructs
      <4>4. h.keep = FALSE
        BY <1>2, <4>2, <4>3 DEF DetachCall, Call
      <4> QED
        BY <4>1, <4>4 DEF Destructs
    <3>2. CASE f.op = "attach"
      <4>1. Unwinds(f)
        BY <1>6, <3>2 DEF OwnShape, Constructs
      <4>2. h = Call("detach", h.type, FALSE)
        BY <1>2, <4>1 DEF Unwinds, DetachCall
      <4>3. h.keep = FALSE
        BY <4>2 DEF Call
      <4> QED
        BY <4>1, <4>3 DEF Unwinds
    <3> QED
      BY <1>3, <3>1, <3>2
  <2>2. Entries(f.held, t) = {} /\ (M = 0 <=> h.op # "attach")
    BY <2>1 DEF Entries, Moment
  <2>3. /\ FrameUses(f, 0, t) = {i \in 1 .. L : Due(f, i, 0, t)}
        /\ FrameUses(p, M, t) = {i \in 1 .. L - 1 : Due(p, i, M, t)}
    BY <1>1, <1>2, <2>2 DEF FrameUses
  <2>4. ASSUME NEW i \in 1 .. L - 1 PROVE Due(f, i, 0, t) <=> Due(p, i, M, t)
    <3>1. PICK q : q = L - i
      OBVIOUS
    <3>2. /\ q \in 1 .. L - 1 /\ L + 1 - i = q + 1 /\ (L - 1) + 1 - i = q /\ q + 1 # 1
          /\ (q + 1) - 1 = q /\ q \in 1 .. L /\ i \in 1 .. L
      BY <1>2, <3>1
    <3>3. Due(f, i, 0, t) <=> /\ f.todo[q + 1].op = "detach" /\ f.todo[q + 1].type = t
                                  /\ f.todo[q].op = "detach"
      BY <3>2 DEF Due, L
    <3>4. Due(p, i, M, t) <=> /\ p.todo[q].op = "detach" /\ p.todo[q].type = t
                              /\ IF q = 1 THEN M = 0 ELSE p.todo[q - 1].op = "detach"
      BY <1>2, <3>2 DEF Due
    <3>5. p.todo[q] = f.todo[q + 1]
      BY <1>2, <3>2
    <3>6. CASE q = 1
      BY <1>2, <1>3, <2>2, <3>3, <3>4, <3>5, <3>6
    <3>7. CASE q # 1
      <4>1. PICK r : r = q - 1
        OBVIOUS
      <4>2. r \in 1 .. L - 1 /\ r + 1 = q
        BY <1>2, <3>2, <3>7, <4>1
      <4>3. p.todo[q - 1] = f.todo[q]
        BY <1>2, <4>1, <4>2
      <4> QED
        BY <3>3, <3>4, <3>5, <3>7, <4>3
    <3> QED
      BY <3>6, <3>7
  <2>5. Due(f, L, 0, t) <=> h.op = "detach" /\ h.type = t
    <3>1. L + 1 - L = 1
      BY <1>2
    <3> QED
      BY <1>2, <3>1 DEF Due, L
  <2>6. 1 .. L = (1 .. L - 1) \cup {L} /\ L \notin 1 .. L - 1
    BY <1>2
  <2>7. L \notin FrameUses(p, M, t)
    BY <2>3, <2>6
  <2>8. CASE h.op = "detach" /\ h.type = t
    <3>1. FrameUses(f, 0, t) = FrameUses(p, M, t) \cup {L}
      BY <2>3, <2>4, <2>5, <2>6, <2>8
    <3>2. Cardinality(FrameUses(p, M, t) \cup {L}) = Cardinality(FrameUses(p, M, t)) + 1
      BY <1>3, <2>7, AddOne
    <3> QED
      BY <2>8, <3>1, <3>2
  <2>9. CASE ~(h.op = "detach" /\ h.type = t)
    <3>1. FrameUses(f, 0, t) = FrameUses(p, M, t)
      BY <2>3, <2>4, <2>5, <2>6, <2>9
    <3>2. PICK k \in Nat : k = Cardinality(FrameUses(p, M, t))
      BY <1>3
    <3>3. k + (IF h.op = "detach" /\ h.type = t THEN 1 ELSE 0) = k
      BY <2>9
    <3> QED
      BY <3>1, <3>2, <3>3
  <2> QED
    BY <2>8, <2>9
<1> QED
  BY <1>5, <1>6

\* What a constructor holds is what it has to detach when it throws.
LEMMA UnwindingUses ==
  ASSUME program \in Programs, NEW f \in FrameType, Constructs(f), NEW calls \in {0, 1},
         OwnShape(f, calls), NEW t
  PROVE  FrameUses(Unwinding(f), 0, t) = FrameUses(f, 0, t)
<1> DEFINE u == Unwinding(f)
           n == Len(f.held)
<1>1. u.todo = Detaches(f.held) /\ u.held = <<>>
  BY FieldFacts
<1>2. f.held \in Seq(Types) /\ n \in Nat /\ DOMAIN f.held = 1 .. n
  BY FrameParts
<1>3. /\ Len(u.todo) = n /\ DOMAIN u.todo = 1 .. n
      /\ \A i \in 1 .. n : u.todo[i] = Call("detach", f.held[n + 1 - i], FALSE)
  <2>1. PICK d : d = Detaches(f.held)
    OBVIOUS
  <2>2. /\ d \in Seq(CallType) /\ Len(d) = n
        /\ \A i \in 1 .. n : d[i] = Call("detach", f.held[n + 1 - i], FALSE)
    BY <1>2, <2>1, DetachesTyped
  <2>3. DOMAIN d = 1 .. n
    BY <2>2
  <2> QED
    BY <1>1, <2>1, <2>2, <2>3
<1>4. FrameUses(f, 0, t) = Entries(f.held, t)
  BY ConstructingUses
<1> HIDE DEF u, n
<1>5. Entries(u.held, t) = {}
  BY <1>1 DEF Entries
<1>6. ASSUME NEW i \in 1 .. n
      PROVE  u.todo[i].op = "detach" /\ u.todo[i].type = f.held[n + 1 - i]
  <2>1. u.todo[i] = Call("detach", f.held[n + 1 - i], FALSE)
    BY <1>3
  <2> QED
    BY <2>1 DEF Call
<1>7. ASSUME NEW i \in 1 .. n PROVE Due(u, i, 0, t) <=> f.held[i] = t
  <2>1. PICK p : p = n + 1 - i
    OBVIOUS
  <2>2. p \in 1 .. n /\ n + 1 - p = i /\ (p # 1 => p - 1 \in 1 .. n)
    BY <1>2, <2>1
  <2>3. u.todo[p].op = "detach" /\ u.todo[p].type = f.held[i]
    BY <1>6, <2>2
  <2>4. p # 1 => u.todo[p - 1].op = "detach"
    BY <1>6, <2>2
  <2> QED
    BY <1>3, <2>1, <2>3, <2>4 DEF Due
<1>8. FrameUses(u, 0, t) = {i \in 1 .. n : f.held[i] = t}
  BY <1>3, <1>5, <1>7 DEF FrameUses
<1> QED
  BY <1>2, <1>4, <1>8 DEF Entries, u

\* A destructor has to detach the members.
LEMMA DestructionUses ==
  ASSUME program \in Programs, NEW f \in FrameType, f.held = <<>>, NEW t
  PROVE  FrameUses(Entered(f, Destruction(f.type)), 0, t) = Entries(Members[f.type], t)
<1> DEFINE u == f.type
           e == Entered(f, Destruction(u))
           d == Destruction(u)
           n == 2 * Len(DtorUses[u])
           m == Len(Members[u])
<1>1. u \in Types /\ Members[u] \in Seq(Types) /\ DOMAIN Members[u] = 1 .. m
  BY FrameParts, MemberUsed
<1>2. e.todo = d /\ e.held = <<>>
  BY FieldFacts
<1>3. /\ d \in Seq(CallType) /\ Len(d) = n + m /\ n \in Nat /\ m \in Nat /\ n % 2 = 0
      /\ \A i \in 1 .. n : d[i] = Call(IF i % 2 = 1 THEN "attach" ELSE "detach",
                                       DtorUses[u][(i + 1) \div 2], FALSE)
      /\ \A i \in 1 .. m : d[n + i] = Call("detach", Members[u][m + 1 - i], FALSE)
  BY <1>1, DestructionCalls
<1> HIDE DEF u, e, d, n, m
<1>4. DOMAIN d = 1 .. n + m
  BY <1>3
<1>5. /\ \A i \in 1 .. n : d[i].op = IF i % 2 = 1 THEN "attach" ELSE "detach"
      /\ \A i \in 1 .. m : d[n + i].op = "detach" /\ d[n + i].type = Members[u][m + 1 - i]
  <2>1. ASSUME NEW i \in 1 .. n PROVE d[i].op = IF i % 2 = 1 THEN "attach" ELSE "detach"
    <3>1. d[i] = Call(IF i % 2 = 1 THEN "attach" ELSE "detach", DtorUses[u][(i + 1) \div 2], FALSE)
      BY <1>3
    <3> QED
      BY <3>1 DEF Call
  <2>2. ASSUME NEW i \in 1 .. m
        PROVE  d[n + i].op = "detach" /\ d[n + i].type = Members[u][m + 1 - i]
    <3>1. d[n + i] = Call("detach", Members[u][m + 1 - i], FALSE)
      BY <1>3
    <3> QED
      BY <3>1 DEF Call
  <2> QED
    BY <2>1, <2>2
<1>6. Entries(e.held, t) = {}
  BY <1>2 DEF Entries
<1>7. ASSUME NEW i \in 1 .. m PROVE Due(e, i, 0, t) <=> Members[u][i] = t
  <2>1. PICK k : k = m + 1 - i
    OBVIOUS
  <2>2. /\ k \in 1 .. m /\ m + 1 - k = i /\ (n + m) + 1 - i = n + k
        /\ (n + k # 1 => (n + k) - 1 \in 1 .. n + m)
    BY <1>3, <2>1
  <2>3. d[n + k].op = "detach" /\ d[n + k].type = Members[u][i]
    BY <1>5, <2>2
  <2>4. n + k # 1 => d[(n + k) - 1].op = "detach"
    <3>1. CASE k = 1 /\ n > 0
      <4>1. n \in 1 .. n /\ n % 2 # 1 /\ (n + k) - 1 = n
        BY <1>3, <3>1
      <4> QED
        BY <1>5, <4>1
    <3>2. CASE k > 1
      <4>1. PICK l : l = k - 1
        OBVIOUS
      <4>2. l \in 1 .. m /\ (n + k) - 1 = n + l
        BY <1>3, <2>2, <3>2, <4>1
      <4> QED
        BY <1>5, <4>2
    <3>3. n + k # 1 => (k = 1 /\ n > 0) \/ k > 1
      BY <1>3, <2>2
    <3> QED
      BY <3>1, <3>2, <3>3
  <2>5. Len(e.todo) + 1 - i = n + k
    BY <1>2, <1>3, <2>2
  <2> QED
    BY <1>2, <2>3, <2>4, <2>5 DEF Due
<1>8. ASSUME NEW i \in (m + 1) .. (n + m) PROVE ~Due(e, i, 0, t)
  <2>1. PICK p : p = (n + m) + 1 - i
    OBVIOUS
  <2>2. p \in 1 .. n
    BY <1>3, <2>1
  <2>3. Len(e.todo) + 1 - i = p
    BY <1>2, <1>3, <2>1
  <2>4. CASE p % 2 = 1
    <3>1. d[p].op = "attach"
      BY <1>5, <2>2, <2>4
    <3> QED
      BY <1>2, <2>3, <3>1 DEF Due
  <2>5. CASE p % 2 # 1
    <3>1. p # 1 /\ p - 1 \in 1 .. n /\ (p - 1) % 2 = 1
      BY <1>3, <2>2, <2>5
    <3>2. d[p - 1].op = "attach"
      BY <1>5, <3>1
    <3> QED
      BY <1>2, <2>3, <3>1, <3>2 DEF Due
  <2> QED
    BY <2>4, <2>5
<1>9. 1 .. n + m = (1 .. m) \cup ((m + 1) .. (n + m))
  BY <1>3
<1>10. FrameUses(e, 0, t) = {i \in 1 .. m : Members[u][i] = t}
  BY <1>2, <1>4, <1>6, <1>7, <1>8, <1>9 DEF FrameUses
<1> QED
  BY <1>1, <1>10 DEF Entries, u, e

-----------------------------------------------------------------------------
(* The numbers of use<> objects.                                             *)

MembersOf(S, t) == PairsOf(S, [u \in Types |-> Entries(Members[u], t)])

LEMMA MembersCount ==
  ASSUME program \in Programs, NEW S \in SUBSET Types, NEW t
  PROVE  /\ Cardinality(MembersOf(S, t)) \in Nat
         /\ \A u \in Types \ S :
              /\ Cardinality(Entries(Members[u], t)) \in Nat
              /\ Cardinality(MembersOf(S \cup {u}, t))
                   = Cardinality(MembersOf(S, t)) + Cardinality(Entries(Members[u], t))
<1> DEFINE F == [u \in Types |-> Entries(Members[u], t)]
<1>1. IsFiniteSet(S)
  BY SingletonAssumption, FS_Subset
<1>2. ASSUME NEW u \in Types PROVE F[u] = Entries(Members[u], t) /\ IsFiniteSet(F[u])
  <2>1. DOMAIN Members[u] = 1 .. Len(Members[u]) /\ Len(Members[u]) \in Nat
    BY MemberUsed
  <2>2. IsFiniteSet(1 .. Len(Members[u]))
    BY <2>1, FS_Interval
  <2>3. Entries(Members[u], t) \in SUBSET (1 .. Len(Members[u]))
    BY <2>1 DEF Entries
  <2> QED
    BY <2>2, <2>3, FS_Subset
<1> HIDE DEF F
<1>3. Cardinality(PairsOf(S, F)) \in Nat
  BY <1>1, <1>2, PairsFinite
<1>4. ASSUME NEW u \in Types \ S
      PROVE  /\ Cardinality(F[u]) \in Nat
             /\ Cardinality(PairsOf(S \cup {u}, F)) = Cardinality(PairsOf(S, F)) + Cardinality(F[u])
  <2>1. PICK G, x : G = F /\ x = u
    OBVIOUS
  <2>2. x \notin S /\ IsFiniteSet(G[x]) /\ \A v \in S : IsFiniteSet(G[v])
    BY <1>2, <2>1
  <2>3. /\ Cardinality(G[x]) \in Nat
        /\ Cardinality(PairsOf(S \cup {x}, G)) = Cardinality(PairsOf(S, G)) + Cardinality(G[x])
    BY <1>1, <2>2, PairsAdd, ZenonT(30)
  <2> QED
    BY <2>1, <2>3
<1> QED
  BY <1>2, <1>3, <1>4 DEF MembersOf, F

LEMMA MemberUsesIs ==
  ASSUME mapped \subseteq Types, NEW t
  PROVE  MemberUses(t) = MembersOf(mapped, t)
<1>1. \A u \in mapped : [v \in Types |-> Entries(Members[v], t)][u] = Entries(Members[u], t)
  OBVIOUS
<1> QED
  BY <1>1 DEF MemberUses, MembersOf, PairsOf

LEMMA ClientFinite ==
  ASSUME NEW t
  PROVE  IsFiniteSet(ClientUses(t)) /\ Cardinality(ClientUses(t)) \in Nat
<1>1. IsFiniteSet(Threads) /\ IsFiniteSet(1 .. MaxUses)
  BY SingletonAssumption, FS_Interval
<1>2. IsFiniteSet(Threads \X (1 .. MaxUses))
  BY <1>1, FS_Product
<1>3. ClientUses(t) \in SUBSET (Threads \X (1 .. MaxUses))
  BY DEF ClientUses
<1> QED
  BY <1>2, <1>3, FS_Subset, FS_CardinalityType

\* A client has one more use<> of a type, or one less.
LEMMA ClientCount ==
  ASSUME TypeOK, NEW th \in Threads, NEW u \in Types, NEW delta \in {-1, 1},
         clients' = [clients EXCEPT ![th][u] = @ + delta],
         IF delta = 1 THEN clients[th][u] < MaxUses ELSE clients[th][u] > 0, NEW t \in Types
  PROVE  /\ Cardinality(ClientUses(t)') \in Nat /\ Cardinality(ClientUses(t)) \in Nat
         /\ Cardinality(ClientUses(t)')
              = Cardinality(ClientUses(t)) + (IF t = u THEN delta ELSE 0)
<1> DEFINE k == clients[th][u]
           c2(x) == clients[x][t] + (IF x = th /\ t = u THEN delta ELSE 0)
<1>1. k \in 0 .. MaxUses /\ MaxUses \in Nat \ {0}
  BY SingletonAssumption DEF TypeOK
<1>2. \A x \in Threads : clients[x][t] \in 0 .. MaxUses
  BY DEF TypeOK
<1>3. ASSUME NEW x \in Threads
      PROVE  clients'[x][t] = IF x = th /\ t = u THEN k + delta ELSE clients[x][t]
  BY DEF TypeOK
<1>4. IsFiniteSet(ClientUses(t)) /\ Cardinality(ClientUses(t)) \in Nat
  BY ClientFinite
<1>5. ClientUses(t)' = {c \in Threads \X (1 .. MaxUses) : c[2] <= clients'[c[1]][t]}
  BY DEF ClientUses
<1> HIDE DEF k
<1>6. CASE t # u
  <2>1. ClientUses(t)' = ClientUses(t)
    BY <1>3, <1>5, <1>6 DEF ClientUses
  <2>2. PICK n \in Nat : n = Cardinality(ClientUses(t))
    BY <1>4
  <2>3. n + (IF t = u THEN delta ELSE 0) = n
    BY <1>6
  <2> QED
    BY <2>1, <2>2, <2>3
<1>7. CASE t = u /\ delta = 1
  <2>1. k + 1 \in 1 .. MaxUses /\ k = clients[th][t]
    BY <1>1, <1>7 DEF k
  <2>2. ClientUses(t)' = ClientUses(t) \cup {<<th, k + 1>>}
    <3>1. ASSUME NEW x \in Threads, NEW i \in 1 .. MaxUses
          PROVE  i <= clients'[x][t] <=> i <= clients[x][t] \/ <<x, i>> = <<th, k + 1>>
      <4>1. CASE x = th
        BY <1>1, <1>3, <1>7, <2>1, <4>1
      <4>2. CASE x # th
        BY <1>3, <4>2
      <4> QED
        BY <4>1, <4>2
    <3> QED
      BY <1>5, <2>1, <3>1 DEF ClientUses
  <2>3. <<th, k + 1>> \notin ClientUses(t)
    BY <1>1, <2>1 DEF ClientUses
  <2>4. Cardinality(ClientUses(t) \cup {<<th, k + 1>>}) = Cardinality(ClientUses(t)) + 1
    BY <1>4, <2>3, AddOne
  <2> QED
    BY <1>4, <1>7, <2>2, <2>4
<1>8. CASE t = u /\ delta = -1
  <2>1. k \in 1 .. MaxUses /\ k = clients[th][t]
    BY <1>1, <1>8 DEF k
  <2>2. ClientUses(t)' = ClientUses(t) \ {<<th, k>>}
    <3>1. ASSUME NEW x \in Threads, NEW i \in 1 .. MaxUses
          PROVE  i <= clients'[x][t] <=> i <= clients[x][t] /\ <<x, i>> # <<th, k>>
      <4>1. CASE x = th
        BY <1>1, <1>3, <1>8, <2>1, <4>1
      <4>2. CASE x # th
        BY <1>3, <4>2
      <4> QED
        BY <4>1, <4>2
    <3> QED
      BY <1>5, <2>1, <3>1 DEF ClientUses
  <2>3. <<th, k>> \in ClientUses(t)
    BY <1>1, <2>1 DEF ClientUses
  <2>4. /\ IsFiniteSet(ClientUses(t) \ {<<th, k>>})
        /\ Cardinality(ClientUses(t) \ {<<th, k>>}) = Cardinality(ClientUses(t)) - 1
    BY <1>4, <2>3, FS_RemoveElement
  <2>5. Cardinality(ClientUses(t) \ {<<th, k>>}) \in Nat
    BY <2>4, FS_CardinalityType
  <2>6. Cardinality(ClientUses(t)) - 1 = Cardinality(ClientUses(t)) + (-1)
    BY <1>4
  <2> QED
    BY <1>4, <1>8, <2>2, <2>4, <2>5, <2>6
<1> QED
  BY <1>6, <1>7, <1>8

LEMMA ClientOf ==
  ASSUME TypeOK, NEW th \in Threads, NEW t \in Types, clients[th][t] > 0
  PROVE  Cardinality(ClientUses(t)) >= 1
<1>1. <<th, 1>> \in ClientUses(t)
  BY SingletonAssumption DEF ClientUses, TypeOK
<1>2. ClientUses(t) # {}
  BY <1>1
<1>3. PICK n \in Nat : n = Cardinality(ClientUses(t))
  BY ClientFinite
<1>4. n # 0
  BY <1>2, <1>3, ClientFinite, FS_EmptySet
<1> QED
  BY <1>3, <1>4

\* All terms of the sum are numbers, and a use<> that calls detach() exists.
LEMMA CountFacts ==
  ASSUME BaseInv, NEW t \in Types
  PROVE  /\ Cardinality(ClientUses(t)) \in Nat /\ Cardinality(MemberUses(t)) \in Nat
         /\ Cardinality(CallUses(Frames, t)) \in Nat /\ IsFiniteSet(CallUses(Frames, t))
         /\ ref[t] \in Nat /\ LastUse(Frames, t) \in {0, 1} /\ NextUse(Frames, t) \in {0, 1}
         /\ Cardinality(ClientUses(t)) >= LastUse(Frames, t)
         /\ IsFiniteSet(MemberUses(t))
<1>1. Frames \in Seq(FrameType)
  BY StackFacts DEF BaseInv
<1>2. Cardinality(CallUses(Frames, t)) \in Nat /\ IsFiniteSet(CallUses(Frames, t))
  BY <1>1, CallUsesUpTo
<1>3. Cardinality(MemberUses(t)) \in Nat
  <2>1. mapped \in SUBSET Types /\ program \in Programs
    BY DEF BaseInv, TypeOK
  <2>2. Cardinality(MembersOf(mapped, t)) \in Nat
    BY <2>1, MembersCount
  <2> QED
    BY <2>1, <2>2, MemberUsesIs
<1>4. ref[t] \in Nat
  BY DEF BaseInv, TypeOK
<1>5. LastUse(Frames, t) \in {0, 1} /\ NextUse(Frames, t) \in {0, 1}
  BY DEF LastUse, NextUse
<1>6. Cardinality(ClientUses(t)) >= LastUse(Frames, t)
  <2>1. CASE LastUse(Frames, t) = 1
    <3>1. Frames # <<>> /\ Frames[1].op = "detach" /\ Frames[1].type = t
      BY <2>1 DEF LastUse, Destroyed
    <3>2. holder \in Threads /\ clients[holder][t] > 0
      BY <3>1 DEF BaseInv, Bottom
    <3> QED
      BY <2>1, <3>2, ClientOf DEF BaseInv
  <2>2. CASE LastUse(Frames, t) = 0
    BY <2>2, ClientFinite
  <2> QED
    BY <1>5, <2>1, <2>2
<1>7. IsFiniteSet(MemberUses(t))
  <2>1. IsFiniteSet(mapped) /\ mapped \subseteq Types
    BY SingletonAssumption, FS_Subset DEF BaseInv, TypeOK
  <2>2. PICK F : F = [u \in Types |-> Entries(Members[u], t)]
    OBVIOUS
  <2>3. ASSUME NEW u \in mapped PROVE IsFiniteSet(F[u])
    <3>1. DOMAIN Members[u] = 1 .. Len(Members[u]) /\ Len(Members[u]) \in Nat
      BY <2>1, MemberUsed DEF BaseInv
    <3>2. IsFiniteSet(1 .. Len(Members[u]))
      BY <3>1, FS_Interval
    <3>3. F[u] \in SUBSET (1 .. Len(Members[u]))
      BY <2>1, <2>2, <3>1 DEF Entries
    <3> QED
      BY <3>2, <3>3, FS_Subset
  <2>4. IsFiniteSet(PairsOf(mapped, F))
    BY <2>1, <2>3, PairsFinite
  <2> QED
    BY <2>1, <2>2, <2>4, MemberUsesIs DEF MembersOf
<1> QED
  BY <1>2, <1>3, <1>4, <1>5, <1>6, <1>7, ClientFinite

-----------------------------------------------------------------------------
(* What the steps change of the stack, as far as counting goes.              *)

LEMMA FramesSame ==
  ASSUME stack \in Seq(FrameType), NEW frames \in {stack, Staled(stack)}
  PROVE  /\ frames \in Seq(FrameType) /\ Len(frames) = Len(stack)
         /\ Up(frames) \in Seq(FrameType) /\ Len(Up(frames)) = Len(stack)
         /\ \A j \in 1 .. Len(stack) :
              /\ Up(frames)[j] \in FrameType
              /\ Up(frames)[j].op = Frames[j].op /\ Up(frames)[j].type = Frames[j].type
              /\ Up(frames)[j].keep = Frames[j].keep
              /\ Up(frames)[j].entered = Frames[j].entered
              /\ Up(frames)[j].todo = Frames[j].todo /\ Up(frames)[j].held = Frames[j].held
              /\ Up(frames)[j].throwing = Frames[j].throwing
              /\ Up(frames)[j].stale = (IF frames = stack THEN Frames[j].stale ELSE TRUE)
<1>1. frames \in Seq(FrameType) /\ Len(frames) = Len(stack)
  BY StaledTyped
<1>2. Up(frames) \in Seq(FrameType) /\ Len(Up(frames)) = Len(stack)
      /\ \A j \in 1 .. Len(stack) : Up(frames)[j] \in FrameType
  BY <1>1, UpFacts
<1>3. CASE frames = stack
  BY <1>1, <1>2, <1>3 DEF Frames
<1>4. CASE frames # stack
  <2>1. \A j \in 1 .. Len(stack) : Up(frames)[j] = [Frames[j] EXCEPT !.stale = TRUE]
    BY <1>4, StaledTyped DEF Frames
  <2>2. \A j \in 1 .. Len(stack) : Frames[j] \in FrameType
    BY StackFacts
  <2>3. ASSUME NEW j \in 1 .. Len(stack)
        PROVE /\ Up(frames)[j] \in FrameType
              /\ Up(frames)[j].op = Frames[j].op /\ Up(frames)[j].type = Frames[j].type
              /\ Up(frames)[j].keep = Frames[j].keep
              /\ Up(frames)[j].entered = Frames[j].entered
              /\ Up(frames)[j].todo = Frames[j].todo /\ Up(frames)[j].held = Frames[j].held
              /\ Up(frames)[j].throwing = Frames[j].throwing
              /\ Up(frames)[j].stale = (IF frames = stack THEN Frames[j].stale ELSE TRUE)
    BY <1>2, <1>4, <2>1, <2>2 DEF FrameType
  <2> QED
    BY <1>1, <1>2, <2>3
<1> QED
  BY <1>3, <1>4

\* A call returns to its caller.
LEMMA PoppedReturns ==
  ASSUME program \in Programs, NEW fr \in Seq(FrameType), Len(fr) > 1,
         NEW c \in FrameType, c = fr[Len(fr) - 1], NEW f \in FrameType, f = fr[Len(fr)],
         NEW fr2 \in Seq(FrameType), Popped(fr, Continues(c, f), fr2),
         OwnShape(c, 1), CallShape(c, f.op, f.type, f.keep), NEW t
  PROVE  Cardinality(CallUses(fr2, t)) + Cardinality(FrameUses(f, 0, t))
           = Cardinality(CallUses(fr, t)) + (IF f.op = "attach" /\ f.type = t THEN 1 ELSE 0)
<1>10. PICK g \in FrameType : g = Continues(c, f)
  BY FramesTyped, EmptySeq
<1>1. g.op = c.op /\ g.keep = c.keep
  BY <1>10, SameKind, FieldFacts
<1>2. PICK M \in {0, 1} : M = Moment(f)
  BY DEF Moment
<1>4. PICK r \in Nat :
        /\ Cardinality(CallUses(fr, t))
             = r + Cardinality(FrameUses(c, M, t)) + Cardinality(FrameUses(f, 0, t))
        /\ Cardinality(CallUses(fr2, t)) = r + Cardinality(FrameUses(g, 0, t))
  BY <1>1, <1>2, <1>10, CountPopped
<1>5. Cardinality(FrameUses(g, 0, t))
        = Cardinality(FrameUses(c, M, t)) + (IF f.op = "attach" /\ f.type = t THEN 1 ELSE 0)
  BY <1>2, <1>10, ContinuesUses
<1>6. PICK x \in Nat : x = Cardinality(FrameUses(c, M, t))
  BY UsesFinite
<1>7. PICK y \in Nat : y = Cardinality(FrameUses(f, 0, t))
  BY UsesFinite
<1>8. PICK z \in Nat : z = IF f.op = "attach" /\ f.type = t THEN 1 ELSE 0
  OBVIOUS
<1>9. (r + (x + z)) + y = (r + x + y) + z
  OBVIOUS
<1> QED
  BY <1>4, <1>5, <1>6, <1>7, <1>8, <1>9

\* The innermost call returns to another one.
LEMMA ReturnCounts ==
  ASSUME BaseInv, Running, Shape(Frames), NEW delta,
         NEW frames \in {stack, Staled(stack)}, Return(frames, delta),
         frames = stack \/ Top.entered, Len(stack) > 1
  PROVE  /\ UNCHANGED <<clients, holder>> /\ Frames' \in Seq(FrameType)
         /\ Len(Frames') = Len(stack) - 1
         /\ \A j \in 1 .. Len(stack) - 1 :
              /\ Frames'[j].op = Frames[j].op /\ Frames'[j].type = Frames[j].type
              /\ Frames'[j].entered = Frames[j].entered
              /\ Frames'[j].throwing = Frames[j].throwing
              /\ Frames'[j].stale = (IF frames = stack THEN Frames[j].stale ELSE TRUE)
         /\ \A t : /\ \A j \in 1 .. Len(stack) - 2 : FU(Frames', j, t) = FU(Frames, j, t)
                   /\ Cardinality(CallUses(Frames', t)) + Cardinality(FrameUses(Top, 0, t))
                        = Cardinality(CallUses(Frames, t))
                            + (IF Top.op = "attach" /\ Top.type = t THEN 1 ELSE 0)
                   /\ LastUse(Frames', t) = LastUse(Frames, t)
                   /\ NextUse(Frames', t) = 0
<1> DEFINE n == Len(stack)
           fr == Up(frames)
           c == fr[n - 1]
           g == Continues(c, Top)
<1>1. /\ stack \in Seq(FrameType) /\ n \in Nat /\ Frames \in Seq(FrameType) /\ Len(Frames) = n
      /\ Top = Frames[n] /\ Top \in FrameType /\ program \in Programs
      /\ \A j \in 1 .. n : Frames[j] \in FrameType
  BY StackFacts DEF BaseInv, Running
<1>2. /\ frames \in Seq(FrameType) /\ Len(frames) = n /\ fr \in Seq(FrameType) /\ Len(fr) = n
      /\ \A j \in 1 .. n :
           /\ fr[j] \in FrameType
           /\ fr[j].op = Frames[j].op /\ fr[j].type = Frames[j].type
           /\ fr[j].keep = Frames[j].keep /\ fr[j].entered = Frames[j].entered
           /\ fr[j].todo = Frames[j].todo /\ fr[j].held = Frames[j].held
           /\ fr[j].throwing = Frames[j].throwing
           /\ fr[j].stale = (IF frames = stack THEN Frames[j].stale ELSE TRUE)
  BY <1>1, FramesSame
<1>3. /\ stack' \in Seq(FrameType) /\ stack' # <<>> /\ Popped(fr, g, Frames')
      /\ UNCHANGED <<clients, holder>>
  <2>1. Len(stack) # 1 /\ stack # <<>>
    BY <1>1
  <2> QED
    BY <1>1, <1>2, <2>1, ReturnUp DEF Frames
<1>4. Frames' \in Seq(FrameType)
  BY <1>3, UpFacts DEF Frames
<1> HIDE DEF fr, n
<1>5. n > 1 /\ n - 1 \in 1 .. n /\ n - 1 \in 1 .. n - 1 /\ (n - 1) + 1 = n /\ n \in 1 .. n
  BY <1>1 DEF n
<1>6. c \in FrameType /\ g \in FrameType
  <2>1. c \in FrameType
    BY <1>2, <1>5
  <2> QED
    BY <1>1, <2>1, FramesTyped, EmptySeq
<1>7. /\ g.op = c.op /\ g.type = c.type /\ g.entered = c.entered /\ g.keep = c.keep
      /\ g.throwing = c.throwing /\ g.stale = c.stale
  BY <1>1, <1>6, SameKind, FieldFacts
<1>8. OwnShape(c, 1) /\ CallShape(c, Top.op, Top.type, Top.keep)
  <2>1. Shape(fr)
    <3>1. CASE frames = stack
      BY <3>1 DEF fr, Frames
    <3>2. CASE frames # stack
      <4>1. stack # <<>> /\ Up(stack)[Len(stack)].entered /\ Shape(Up(stack))
        BY <1>1, <3>2 DEF Frames, n, Running
      <4>2. Shape(Up(Staled(stack)))
        BY <1>1, <4>1, ShapeStaled
      <4> QED
        BY <3>2, <4>2 DEF fr
    <3> QED
      BY <3>1, <3>2
  <2>2. PICK j \in 1 .. n - 1 : j = n - 1 /\ j + 1 = n
    BY <1>5
  <2>3. OwnShape(fr[j], 1) /\ CallShape(fr[j], fr[j + 1].op, fr[j + 1].type, fr[j + 1].keep)
    BY <1>2, <2>1, <2>2 DEF Shape
  <2>4. fr[n].op = Top.op /\ fr[n].type = Top.type /\ fr[n].keep = Top.keep
    BY <1>1, <1>2, <1>5
  <2> QED
    BY <2>2, <2>3, <2>4
<1>9. Len(Frames') = n - 1 /\ Frames'[n - 1] = g /\ \A j \in 1 .. n - 2 : Frames'[j] = fr[j]
  BY <1>2, <1>3 DEF Popped
<1>10. ASSUME NEW j \in 1 .. n - 1
       PROVE  /\ Frames'[j].op = Frames[j].op /\ Frames'[j].type = Frames[j].type
              /\ Frames'[j].entered = Frames[j].entered
              /\ Frames'[j].throwing = Frames[j].throwing
              /\ Frames'[j].stale = (IF frames = stack THEN Frames[j].stale ELSE TRUE)
  <2>1. j \in 1 .. n
    BY <1>5
  <2>2. CASE j = n - 1
    <3>1. Frames'[j] = g /\ c = fr[j]
      BY <1>9, <2>2
    <3> QED
      BY <1>2, <1>7, <2>1, <3>1, ZenonT(30)
  <2>3. CASE j # n - 1
    <3>1. Frames'[j] = fr[j]
      BY <1>5, <1>9, <2>3
    <3> QED
      BY <1>2, <2>1, <3>1
  <2> QED
    BY <2>2, <2>3
<1>11. ASSUME NEW t
       PROVE  /\ \A j \in 1 .. n - 2 : FU(Frames', j, t) = FU(Frames, j, t)
              /\ Cardinality(CallUses(Frames', t)) + Cardinality(FrameUses(Top, 0, t))
                   = Cardinality(CallUses(Frames, t))
                       + (IF Top.op = "attach" /\ Top.type = t THEN 1 ELSE 0)
              /\ LastUse(Frames', t) = LastUse(Frames, t)
              /\ NextUse(Frames', t) = 0
  <2>1. ASSUME NEW j \in 1 .. n PROVE FU(fr, j, t) = FU(Frames, j, t)
    <3>1. MomentAbove(fr, j) = MomentAbove(Frames, j)
      <4>1. CASE j < n
        <5>1. j + 1 \in 1 .. n
          BY <1>1, <4>1
        <5> QED
          BY <1>1, <1>2, <5>1 DEF MomentAbove, Moment
      <4>2. CASE ~(j < n)
        BY <1>1, <1>2, <4>2 DEF MomentAbove
      <4> QED
        BY <4>1, <4>2
    <3>2. \A m : FrameUses(fr[j], m, t) = FrameUses(Frames[j], m, t)
      BY <1>2 DEF FrameUses, Due
    <3> QED
      BY <3>1, <3>2 DEF FU
  <2>2. CallUses(fr, t) = CallUses(Frames, t)
    BY <1>1, <1>2, <2>1 DEF CallUses, FU
  <2>3. PICK fr1 \in Seq(FrameType), f \in FrameType : fr1 = fr /\ f = fr[n]
    BY <1>2, <1>5
  <2>4. f.op = Top.op /\ f.type = Top.type /\ f.keep = Top.keep
        /\ f.todo = Top.todo /\ f.held = Top.held
    BY <1>1, <1>2, <1>5, <2>3
  <2>5. PICK c1 \in FrameType, g1 \in FrameType :
          c1 = c /\ g1 = g /\ g1 = Continues(c1, f) /\ c1 = fr1[Len(fr1) - 1] /\ f = fr1[Len(fr1)]
    BY <1>2, <1>6, <2>3, <2>4 DEF Continues
  <2>6. PICK fr2 \in Seq(FrameType) : fr2 = Frames' /\ Popped(fr1, g1, fr2)
    BY <1>3, <1>4, <2>3, <2>5
  <2>7. Len(fr1) = n /\ Len(fr1) > 1 /\ OwnShape(c1, 1) /\ CallShape(c1, f.op, f.type, f.keep)
    BY <1>2, <1>5, <1>8, <2>3, <2>4, <2>5
  <2>8. Cardinality(CallUses(fr2, t)) + Cardinality(FrameUses(f, 0, t))
          = Cardinality(CallUses(fr1, t)) + (IF f.op = "attach" /\ f.type = t THEN 1 ELSE 0)
    <3>1. c1 = fr1[Len(fr1) - 1] /\ f = fr1[Len(fr1)] /\ program \in Programs
          /\ Popped(fr1, Continues(c1, f), fr2)
      BY <1>1, <2>5, <2>6
    <3> HIDE DEF c, g
    <3> QED
      BY <2>7, <3>1, PoppedReturns
  <2>14. ASSUME NEW j \in 1 .. Len(fr1) - 2 PROVE FU(fr2, j, t) = FU(fr1, j, t)
    <3>1. g1.op = c1.op /\ g1.keep = c1.keep
      BY <1>7, <2>5
    <3> QED
      BY <2>5, <2>6, <2>7, <3>1, PoppedSame
  <2>11. FrameUses(f, 0, t) = FrameUses(Top, 0, t)
    BY <2>4 DEF FrameUses, Due
  <2>12. Cardinality(CallUses(Frames', t)) + Cardinality(FrameUses(Top, 0, t))
           = Cardinality(CallUses(Frames, t)) + (IF Top.op = "attach" /\ Top.type = t THEN 1 ELSE 0)
    BY <2>2, <2>3, <2>4, <2>6, <2>8, <2>11
  <2>13. \A j \in 1 .. n - 2 : FU(Frames', j, t) = FU(Frames, j, t)
    <3>1. \A j \in 1 .. n - 2 : j \in 1 .. n
      BY <1>5
    <3> QED
      BY <2>1, <2>3, <2>6, <2>7, <2>14, <3>1
  <2>9. LastUse(Frames', t) = LastUse(Frames, t)
    <3>1. 1 \in 1 .. n - 1 /\ Frames # <<>> /\ Frames' # <<>>
      BY <1>1, <1>5, <1>9
    <3> QED
      BY <1>10, <3>1 DEF LastUse, Destroyed
  <2>10. NextUse(Frames', t) = 0
    <3>1. Frames'[Len(Frames')].entered
      BY <1>7, <1>8, <1>9 DEF CallShape
    <3> QED
      BY <3>1 DEF NextUse
  <2> QED
    BY <2>9, <2>10, <2>12, <2>13
<1> QED
  BY <1>3, <1>4, <1>9, <1>10, <1>11 DEF n
-----------------------------------------------------------------------------
(* Counting, step by step.                                                   *)

\* What the steps have to show.
LEMMA CountNext ==
  ASSUME UNCHANGED program, mapped' \subseteq Types,
         \A t \in Types :
           /\ ref'[t] = Needs(Cardinality(ClientUses(t)'), Frames', t)
                          + Cardinality(MembersOf(mapped', t))
           /\ ref'[t] > 0 <=> t \in mapped',
         NotYet(Frames', mapped'), Rooted(mapped'),
         \/ UNCHANGED clients /\ StaleUnused(Frames')
         \/ \A j \in 1 .. Len(Frames') : ~Frames'[j].stale
  PROVE  CountInv'
<1>1. \A t : MemberUses(t)' = MembersOf(mapped', t)
  <2>1. \A t : \A u \in mapped' : [v \in Types |-> Entries(Members[v], t)][u] = Entries(Members[u], t)
    OBVIOUS
  <2> QED
    BY <2>1 DEF MemberUses, MembersOf, PairsOf, Members
<1>2. Counted(Frames)'
  BY <1>1 DEF Counted
<1>3. NotYet(Frames, mapped)'
  BY DEF NotYet
<1>4. Rooted(mapped)'
  BY DEF Rooted, Members
<1>5. StaleUnused(Frames)'
  <2>1. CASE UNCHANGED clients /\ StaleUnused(Frames')
    <3>1. \A t : ClientUses(t)' = ClientUses(t)
      BY <2>1 DEF ClientUses
    <3> QED
      BY <2>1, <3>1 DEF StaleUnused
  <2>2. CASE \A j \in 1 .. Len(Frames') : ~Frames'[j].stale
    BY <2>2 DEF StaleUnused
  <2> QED
    BY <2>1, <2>2
<1> QED
  BY <1>2, <1>3, <1>4, <1>5 DEF CountInv

\* The terms of the sums.
LEMMA NeedsFacts ==
  ASSUME BaseInv, CountInv, NEW t \in Types
  PROVE  /\ Cardinality(MembersOf(mapped, t)) \in Nat
         /\ Needs(Cardinality(ClientUses(t)), Frames, t) \in Int
         /\ ref[t] \in Nat
         /\ ref[t] = Needs(Cardinality(ClientUses(t)), Frames, t) + Cardinality(MembersOf(mapped, t))
         /\ ref[t] > 0 <=> t \in mapped
<1>1. mapped \in SUBSET Types /\ program \in Programs
  BY DEF BaseInv, TypeOK
<1>2. Cardinality(MembersOf(mapped, t)) \in Nat
  BY <1>1, MembersCount
<1>3. MemberUses(t) = MembersOf(mapped, t)
  BY <1>1, MemberUsesIs
<1>4. /\ ref[t] = Needs(Cardinality(ClientUses(t)), Frames, t) + Cardinality(MemberUses(t))
      /\ ref[t] > 0 <=> t \in mapped
  BY DEF CountInv, Counted
<1>5. Needs(Cardinality(ClientUses(t)), Frames, t) \in Int
  <2>1. /\ Cardinality(ClientUses(t)) \in Nat /\ Cardinality(CallUses(Frames, t)) \in Nat
        /\ LastUse(Frames, t) \in {0, 1} /\ NextUse(Frames, t) \in {0, 1}
    BY CountFacts
  <2> QED
    BY <2>1 DEF Needs
<1> QED
  BY <1>2, <1>3, <1>4, <1>5, CountFacts

LEMMA NeedsNext ==
  ASSUME BaseInv', NEW t
  PROVE  Needs(Cardinality(ClientUses(t)'), Frames', t) \in Int
<1>1. Cardinality(ClientUses(t)') \in Nat
  <2>1. IsFiniteSet(Threads) /\ IsFiniteSet(1 .. MaxUses)
    BY SingletonAssumption, FS_Interval
  <2>2. IsFiniteSet(Threads \X (1 .. MaxUses))
    BY <2>1, FS_Product
  <2>3. ClientUses(t)' \in SUBSET (Threads \X (1 .. MaxUses))
    BY DEF ClientUses
  <2> QED
    BY <2>2, <2>3, FS_Subset, FS_CardinalityType
<1>2. Cardinality(CallUses(Frames', t)) \in Nat
  <2>1. stack' \in Seq(FrameType)
    BY DEF BaseInv
  <2>2. Frames' \in Seq(FrameType)
    BY <2>1, UpFacts DEF Frames
  <2> QED
    BY <2>2, CallUsesUpTo
<1>3. LastUse(Frames', t) \in {0, 1} /\ NextUse(Frames', t) \in {0, 1}
  BY DEF LastUse, NextUse
<1> QED
  BY <1>1, <1>2, <1>3 DEF Needs

\* Steps that change neither what is referenced nor who refers to it.
LEMMA KeepsCount ==
  ASSUME BaseInv, CountInv, UNCHANGED <<program, clients, ref, mapped>>,
         \A t \in Types : \A n \in Nat : Needs(n, Frames', t) = Needs(n, Frames, t),
         NotYet(Frames', mapped), StaleUnused(Frames')
  PROVE  CountInv'
<1>1. ASSUME NEW t \in Types
      PROVE  /\ ref'[t] = Needs(Cardinality(ClientUses(t)'), Frames', t)
                            + Cardinality(MembersOf(mapped', t))
             /\ ref'[t] > 0 <=> t \in mapped'
  <2>1. ClientUses(t)' = ClientUses(t)
    BY DEF ClientUses
  <2>2. Needs(Cardinality(ClientUses(t)), Frames', t) = Needs(Cardinality(ClientUses(t)), Frames, t)
    BY ClientFinite
  <2> QED
    BY <2>1, <2>2, NeedsFacts
<1>2. mapped' \subseteq Types /\ Rooted(mapped') /\ NotYet(Frames', mapped')
  BY DEF BaseInv, TypeOK, CountInv
<1> QED
  BY <1>1, <1>2, CountNext

\* The innermost call goes on as g.
LEMMA NeedsTop ==
  ASSUME BaseInv, Running, Shape(Frames), NEW g \in FrameType, stack' = <<g>> \o Tail(stack),
         g.op = Top.op, g.type = Top.type, g.keep = Top.keep, g.entered,
         NEW t \in Types, NEW k \in Nat
  PROVE  Needs(k, Frames', t) + Cardinality(FrameUses(Top, 0, t))
           + (IF Top.op = "detach" /\ ~Top.entered /\ Top.type = t THEN 1 ELSE 0)
         = Needs(k, Frames, t) + Cardinality(FrameUses(g, 0, t))
<1>1. PICK n \in Nat \ {0} : n = Len(stack)
  BY TopShape
<1>2. /\ Frames \in Seq(FrameType) /\ Len(Frames) = n /\ Top = Frames[n] /\ Top \in FrameType
      /\ stack \in Seq(FrameType) /\ stack # <<>>
  BY <1>1, TopShape
<1>3. stack' \in Seq(FrameType) /\ TopIs(Frames, g, Frames')
  BY <1>2, TopUp DEF Frames
<1>4. Frames' \in Seq(FrameType) /\ Len(Frames') = n /\ Frames'[n] = g
      /\ \A j \in 1 .. n - 1 : Frames'[j] = Frames[j]
  BY <1>2, <1>3, UpFacts DEF Frames, TopIs
<1>5. PICK fr2 \in Seq(FrameType) : fr2 = Frames' /\ TopIs(Frames, g, fr2)
  BY <1>3, <1>4
<1>6. Frames # <<>> /\ fr2 # <<>> /\ g.op = Frames[Len(Frames)].op /\ g.keep = Frames[Len(Frames)].keep
  BY <1>1, <1>2, <1>4, <1>5
<1>7. PICK r \in Nat :
        /\ Cardinality(CallUses(Frames, t)) = r + Cardinality(FrameUses(Frames[Len(Frames)], 0, t))
        /\ Cardinality(CallUses(fr2, t)) = r + Cardinality(FrameUses(g, 0, t))
  BY <1>2, <1>5, <1>6, CountTop
<1>8. PICK x \in Nat : x = Cardinality(FrameUses(Top, 0, t))
  BY <1>2, UsesFinite
<1>9. PICK y \in Nat : y = Cardinality(FrameUses(g, 0, t))
  BY UsesFinite
<1>10. PICK d \in {0, 1} : d = IF Top.op = "detach" /\ ~Top.entered /\ Top.type = t THEN 1 ELSE 0
  OBVIOUS
<1>11. /\ Frames[n].entered = Top.entered /\ fr2[n].entered /\ fr2[n].op = Top.op
       /\ fr2[n].type = Top.type /\ Frames[n].op = Top.op /\ Frames[n].type = Top.type
  BY <1>2, <1>4, <1>5
<1>12. NextUse(fr2, t) = 0
  BY <1>4, <1>5, <1>11 DEF NextUse
<1>13. /\ NextUse(Frames, t) \in {0, 1} /\ LastUse(Frames, t) \in {0, 1} /\ LastUse(fr2, t) \in {0, 1}
       /\ LastUse(fr2, t) = LastUse(Frames, t) + d - NextUse(Frames, t)
  <2>1. NextUse(Frames, t) \in {0, 1} /\ LastUse(Frames, t) \in {0, 1} /\ LastUse(fr2, t) \in {0, 1}
    BY DEF NextUse, LastUse
  <2>2. CASE n = 1
    <3>1. NextUse(Frames, t) = 0
      BY <1>2, <2>2 DEF NextUse
    <3>2. LastUse(fr2, t) = IF Top.op = "detach" /\ Top.type = t THEN 1 ELSE 0
      BY <1>6, <1>11, <2>2 DEF LastUse, Destroyed
    <3>3. LastUse(Frames, t) = IF Top.op = "detach" /\ Top.entered /\ Top.type = t THEN 1 ELSE 0
      BY <1>6, <1>11, <2>2 DEF LastUse, Destroyed
    <3> QED
      BY <1>10, <3>1, <3>2, <3>3
  <2>3. CASE n > 1
    <3>1. 1 \in 1 .. n - 1
      BY <1>1, <2>3
    <3>2. fr2[1] = Frames[1]
      BY <1>4, <1>5, <3>1
    <3>3. LastUse(fr2, t) = LastUse(Frames, t)
      BY <1>6, <3>2 DEF LastUse
    <3>4. NextUse(Frames, t) = d
      BY <1>2, <1>10, <2>3 DEF NextUse
    <3> QED
      BY <1>10, <2>1, <3>3, <3>4
  <2>4. n = 1 \/ n > 1
    BY <1>1
  <2> QED
    BY <2>1, <2>2, <2>3, <2>4
<1>14. /\ Needs(k, fr2, t) = k + (r + y) + 0 - LastUse(fr2, t)
       /\ Needs(k, Frames, t) = k + (r + x) + NextUse(Frames, t) - LastUse(Frames, t)
  BY <1>2, <1>7, <1>8, <1>9, <1>12 DEF Needs
<1>15. Needs(k, fr2, t) + x + d = Needs(k, Frames, t) + y
  BY <1>10, <1>13, <1>14
<1> QED
  BY <1>5, <1>8, <1>9, <1>10, <1>15

LEMMA NotYetTop ==
  ASSUME BaseInv, Running, Shape(Frames), NEW g \in FrameType, stack' = <<g>> \o Tail(stack),
         g.op = Top.op, g.type = Top.type,
         Constructs(g) => Top.type \notin mapped /\ ~Top.throwing, g.entered,
         NEW known \in SUBSET mapped, NotYet(Frames, mapped)
  PROVE  NotYet(Frames', known)
<1>1. PICK n \in Nat \ {0} : n = Len(stack)
  BY TopShape
<1>2. /\ Frames \in Seq(FrameType) /\ Len(Frames) = n /\ Top = Frames[n] /\ Top \in FrameType
      /\ stack \in Seq(FrameType) /\ stack # <<>>
  BY <1>1, TopShape
<1>3. Len(Frames') = n /\ Frames'[n] = g /\ \A j \in 1 .. n - 1 : Frames'[j] = Frames[j]
  BY <1>2, TopUp DEF Frames, TopIs
<1>4. SUFFICES ASSUME NEW j \in 1 .. n, Frames'[j].entered,
                      \A i \in j .. n : Frames'[i].op = "attach" /\ ~Frames'[i].throwing
               PROVE  Frames'[j].type \notin known
  BY <1>3 DEF NotYet
<1>5. n \in j .. n
  BY <1>1
<1>6. Constructs(g)
  BY <1>3, <1>4, <1>5 DEF Constructs
<1>7. CASE j = n
  BY <1>3, <1>6, <1>7
<1>8. CASE j # n
  <2>1. j \in 1 .. n - 1
    BY <1>1, <1>8
  <2>2. ASSUME NEW i \in j .. n PROVE Frames[i].op = "attach" /\ ~Frames[i].throwing
    <3>1. CASE i = n
      BY <1>2, <1>6, <3>1 DEF Constructs
    <3>2. CASE i # n
      <4>1. i \in 1 .. n - 1
        BY <1>1, <3>2
      <4> QED
        BY <1>3, <1>4, <4>1
    <3> QED
      BY <3>1, <3>2
  <2>3. Frames[j].type \notin mapped
    BY <1>2, <1>3, <1>4, <2>1, <2>2 DEF NotYet
  <2> QED
    BY <1>3, <2>1, <2>3
<1> QED
  BY <1>7, <1>8

LEMMA StaleTop ==
  ASSUME BaseInv, Running, Shape(Frames), NEW g \in FrameType, stack' = <<g>> \o Tail(stack),
         g.op = Top.op, g.type = Top.type, g.keep = Top.keep, g.stale = Top.stale,
         Constructs(g) => ~g.stale, g.entered, StaleUnused(Frames)
  PROVE  StaleUnused(Frames')
<1>1. PICK n \in Nat \ {0} : n = Len(stack)
  BY TopShape
<1>2. /\ Frames \in Seq(FrameType) /\ Len(Frames) = n /\ Top = Frames[n] /\ Top \in FrameType
      /\ stack \in Seq(FrameType) /\ stack # <<>> /\ Frames # <<>>
  BY <1>1, TopShape
<1>3. stack' \in Seq(FrameType) /\ TopIs(Frames, g, Frames')
  BY <1>2, TopUp DEF Frames
<1>4. /\ Frames' \in Seq(FrameType) /\ Len(Frames') = n /\ Frames'[n] = g
      /\ \A j \in 1 .. n - 1 : Frames'[j] = Frames[j]
  BY <1>2, <1>3, UpFacts DEF Frames, TopIs
<1>5. PICK fr2 \in Seq(FrameType) : fr2 = Frames' /\ TopIs(Frames, g, fr2)
  BY <1>3, <1>4
<1>6. SUFFICES ASSUME NEW j \in 1 .. n, fr2[j].stale
               PROVE  /\ j > 1 => fr2[j - 1].stale
                      /\ Constructs(fr2[j]) => j < n /\ fr2[j + 1].stale
                      /\ \A t \in Types :
                           /\ Cardinality(ClientUses(t)) = LastUse(fr2, t)
                           /\ \A i \in 1 .. j - 1 : FU(fr2, i, t) = {}
  BY <1>4, <1>5 DEF StaleUnused, FU
<1>7. \A i \in 1 .. n : fr2[i].stale = Frames[i].stale
  <2>1. \A i \in 1 .. n : i = n \/ i \in 1 .. n - 1
    OBVIOUS
  <2> QED
    BY <1>2, <1>4, <1>5, <2>1
<1>8. /\ j > 1 => Frames[j - 1].stale
      /\ Constructs(Frames[j]) => j < n /\ Frames[j + 1].stale
      /\ \A t \in Types :
           /\ Cardinality(ClientUses(t)) = LastUse(Frames, t)
           /\ \A i \in 1 .. j - 1 : FU(Frames, i, t) = {}
  BY <1>2, <1>6, <1>7 DEF StaleUnused, FU
<1>9. j > 1 => fr2[j - 1].stale
  <2>1. j > 1 => j - 1 \in 1 .. n
    BY <1>1
  <2> QED
    BY <1>7, <1>8, <2>1
<1>10. Constructs(fr2[j]) => j < n /\ fr2[j + 1].stale
  <2>1. CASE j = n
    BY <1>4, <1>5, <1>6, <2>1
  <2>2. CASE j # n
    <3>1. j \in 1 .. n - 1 /\ j + 1 \in 1 .. n
      BY <1>1, <2>2
    <3>2. fr2[j] = Frames[j]
      BY <1>4, <1>5, <3>1
    <3> QED
      BY <1>7, <1>8, <3>1, <3>2
  <2> QED
    BY <2>1, <2>2
<1>11. ASSUME NEW t \in Types
       PROVE  LastUse(fr2, t) = LastUse(Frames, t)
  <2>1. fr2 # <<>>
    BY <1>1, <1>4, <1>5
  <2>2. CASE n = 1
    <3>1. Top.stale
      BY <1>2, <1>6, <1>7, <2>2
    <3>2. Top.entered
      BY <3>1, TopShape DEF OwnShape, Waits
    <3>3. fr2[1] = g /\ Frames[1] = Top
      BY <1>2, <1>4, <1>5, <2>2
    <3>4. Destroyed(fr2[1], t) <=> Destroyed(Frames[1], t)
      BY <3>2, <3>3 DEF Destroyed
    <3> QED
      BY <1>2, <2>1, <3>4 DEF LastUse
  <2>3. CASE n # 1
    <3>1. 1 \in 1 .. n - 1
      BY <1>1, <2>3
    <3>2. fr2[1] = Frames[1]
      BY <1>4, <1>5, <3>1
    <3> QED
      BY <1>2, <2>1, <3>2 DEF LastUse
  <2> QED
    BY <2>2, <2>3
<1>12. ASSUME NEW t \in Types, NEW i \in 1 .. j - 1 PROVE FU(fr2, i, t) = {}
  <2>1. i \in 1 .. Len(Frames) - 1
    BY <1>1, <1>2
  <2>2. g.op = Frames[Len(Frames)].op /\ g.keep = Frames[Len(Frames)].keep
    BY <1>2
  <2>3. FU(fr2, i, t) = FU(Frames, i, t)
    BY <1>2, <1>5, <2>1, <2>2, TopSame
  <2> QED
    BY <1>8, <2>3
<1> QED
  BY <1>8, <1>9, <1>10, <1>11, <1>12

\* The caller of the innermost call, and its successor.
LEMMA CallerShape ==
  ASSUME BaseInv, Running, Shape(Frames), NEW n, n = Len(stack), n > 1
  PROVE  /\ n - 1 \in 1 .. n - 1 /\ Frames[n - 1] \in FrameType
         /\ OwnShape(Frames[n - 1], 1)
         /\ CallShape(Frames[n - 1], Top.op, Top.type, Top.keep)
<1>1. /\ n \in Nat \ {0} /\ Frames \in Seq(FrameType) /\ Len(Frames) = n /\ Top = Frames[n]
  BY TopShape
<1>2. PICK j \in 1 .. n - 1 : j = n - 1 /\ j + 1 = n /\ j \in 1 .. n
  BY <1>1
<1>3. /\ OwnShape(Frames[j], 1)
      /\ CallShape(Frames[j], Frames[j + 1].op, Frames[j + 1].type, Frames[j + 1].keep)
  BY <1>1, <1>2 DEF Shape
<1> QED
  BY <1>1, <1>2, <1>3

LEMMA NeedsReturn ==
  ASSUME BaseInv, Running, Shape(Frames), NEW delta \in {-1, 1},
         Top.op = (IF delta = 1 THEN "attach" ELSE "detach"),
         NEW frames \in {stack, Staled(stack)}, Return(frames, delta),
         frames = stack \/ Top.entered, NEW t \in Types
  PROVE  Needs(Cardinality(ClientUses(t)'), Frames', t) + Cardinality(FrameUses(Top, 0, t))
           + (IF Top.op = "detach" /\ ~Top.entered /\ Top.type = t THEN 1 ELSE 0)
         = Needs(Cardinality(ClientUses(t)), Frames, t)
           + (IF Top.op = "attach" /\ Top.type = t THEN 1 ELSE 0)
<1>1. PICK n \in Nat \ {0} : n = Len(stack)
  BY TopShape
<1>2. /\ Frames \in Seq(FrameType) /\ Len(Frames) = n /\ Top = Frames[n] /\ Top \in FrameType
      /\ stack \in Seq(FrameType) /\ stack # <<>> /\ Frames # <<>>
  BY <1>1, TopShape
<1>3. PICK x \in Nat : x = Cardinality(FrameUses(Top, 0, t))
  BY <1>2, UsesFinite
<1>4. PICK c \in Nat : c = Cardinality(ClientUses(t))
  BY ClientFinite
<1>5. PICK a \in {0, 1} : a = IF Top.op = "attach" /\ Top.type = t THEN 1 ELSE 0
  OBVIOUS
<1>6. PICK d \in {0, 1} : d = IF Top.op = "detach" /\ ~Top.entered /\ Top.type = t THEN 1 ELSE 0
  OBVIOUS
<1>7. PICK u \in Nat : u = Cardinality(CallUses(Frames, t))
  BY <1>2, CallUsesUpTo
<1>8. LastUse(Frames, t) \in {0, 1} /\ NextUse(Frames, t) \in {0, 1}
  BY DEF LastUse, NextUse
<1>9. CASE n = 1
  <2>1. clients' = [clients EXCEPT ![holder][Top.type] = @ + delta] /\ Frames' = <<>>
    <3>1. frames \in Seq(FrameType) /\ Len(frames) = Len(stack)
      BY <1>2, StaledTyped
    <3>2. stack' = <<>> /\ clients' = [clients EXCEPT ![holder][Top.type] = @ + delta]
      BY <1>1, <1>2, <1>9, <3>1, ReturnUp
    <3> QED
      BY <3>2, BottomNone
  <2>2. /\ holder \in Threads /\ Top.type \in Types /\ TypeOK
        /\ IF delta = 1 THEN clients[holder][Top.type] < MaxUses ELSE clients[holder][Top.type] > 0
    <3>1. Frames[1] = Top
      BY <1>2, <1>9
    <3> QED
      BY <1>2, <3>1, FrameParts DEF BaseInv, Bottom
  <2>3. Cardinality(ClientUses(t)') = c + (IF t = Top.type THEN delta ELSE 0)
    BY <1>4, <2>1, <2>2, ClientCount
  <2>4. u = x
    <3>1. Frames[1] = Top /\ Len(Frames) = 1
      BY <1>2, <1>9
    <3>2. Cardinality(CallUses(Frames, t)) = Cardinality(FrameUses(Frames[1], 0, t))
      BY <1>2, <3>1, CountOne
    <3> QED
      BY <1>3, <1>7, <3>1, <3>2
  <2>5. NextUse(Frames, t) = 0
    BY <1>2, <1>9 DEF NextUse
  <2>6. LastUse(Frames, t) = IF Top.op = "detach" /\ Top.entered /\ Top.type = t THEN 1 ELSE 0
    BY <1>2, <1>9 DEF LastUse, Destroyed
  <2>7. Cardinality(CallUses(Frames', t)) = 0 /\ LastUse(Frames', t) = 0 /\ NextUse(Frames', t) = 0
    <3>1. CallUses(<<>>, t) = {}
      BY DEF CallUses
    <3>2. LastUse(<<>>, t) = 0 /\ NextUse(<<>>, t) = 0
      BY DEF LastUse, NextUse
    <3> QED
      BY <2>1, <3>1, <3>2, FS_EmptySet
  <2>8. /\ Needs(Cardinality(ClientUses(t)'), Frames', t)
             = (c + (IF t = Top.type THEN delta ELSE 0)) + 0 + 0 - 0
        /\ Needs(Cardinality(ClientUses(t)), Frames, t) = c + x + 0 - LastUse(Frames, t)
    BY <1>4, <1>7, <2>3, <2>4, <2>5, <2>7 DEF Needs
  <2>9. Needs(Cardinality(ClientUses(t)'), Frames', t) + x + d
          = Needs(Cardinality(ClientUses(t)), Frames, t) + a
    BY <1>5, <1>6, <1>8, <2>6, <2>8
  <2> QED
    BY <1>3, <1>5, <1>6, <2>9
<1>10. CASE n # 1
  <2>1. Len(stack) > 1
    BY <1>1, <1>10
  <2>2. /\ UNCHANGED clients /\ Frames' \in Seq(FrameType)
        /\ LastUse(Frames', t) = LastUse(Frames, t) /\ NextUse(Frames', t) = 0
        /\ Cardinality(CallUses(Frames', t)) + Cardinality(FrameUses(Top, 0, t))
             = Cardinality(CallUses(Frames, t)) + (IF Top.op = "attach" /\ Top.type = t THEN 1 ELSE 0)
    BY <2>1, ReturnCounts
  <2>3. ClientUses(t)' = ClientUses(t)
    BY <2>2 DEF ClientUses
  <2>4. PICK v \in Nat : v = Cardinality(CallUses(Frames', t))
    BY <2>2, CallUsesUpTo
  <2>5. v + x = u + a
    BY <1>3, <1>5, <1>7, <2>2, <2>4
  <2>6. NextUse(Frames, t) = d
    BY <1>1, <1>2, <1>6, <2>1 DEF NextUse
  <2>7. /\ Needs(Cardinality(ClientUses(t)'), Frames', t) = c + v + 0 - LastUse(Frames, t)
        /\ Needs(Cardinality(ClientUses(t)), Frames, t) = c + u + d - LastUse(Frames, t)
    BY <1>4, <1>7, <2>2, <2>3, <2>4, <2>6 DEF Needs
  <2>8. Needs(Cardinality(ClientUses(t)'), Frames', t) + x + d
          = Needs(Cardinality(ClientUses(t)), Frames, t) + a
    BY <1>8, <2>5, <2>7
  <2> QED
    BY <1>3, <1>5, <1>6, <2>8
<1> QED
  BY <1>9, <1>10

LEMMA NotYetReturn ==
  ASSUME BaseInv, Running, Shape(Frames), NEW delta, NEW n, n = Len(stack), n > 1,
         NEW frames \in {stack, Staled(stack)}, Return(frames, delta),
         frames = stack \/ Top.entered, Top.op = "attach" => ~Top.throwing, NEW known,
         \A j \in 1 .. n - 1 :
           (\A i \in j .. n : Frames[i].op = "attach" /\ ~Frames[i].throwing) /\ Frames[j].entered
           => Frames[j].type \notin known
  PROVE  NotYet(Frames', known)
<1>1. n \in Nat /\ Top = Frames[n]
  BY TopShape
<1>2. /\ Len(Frames') = n - 1
      /\ \A j \in 1 .. n - 1 :
           /\ Frames'[j].op = Frames[j].op /\ Frames'[j].type = Frames[j].type
           /\ Frames'[j].entered = Frames[j].entered
           /\ Frames'[j].throwing = Frames[j].throwing
  BY ReturnCounts
<1>3. SUFFICES ASSUME NEW j \in 1 .. n - 1, Frames'[j].entered,
                      \A i \in j .. n - 1 : Frames'[i].op = "attach" /\ ~Frames'[i].throwing
               PROVE  Frames'[j].type \notin known
  BY <1>2 DEF NotYet
<1>4. ASSUME NEW i \in j .. n - 1 PROVE Frames[i].op = "attach" /\ ~Frames[i].throwing
  <2>1. i \in 1 .. n - 1
    BY <1>1
  <2> QED
    BY <1>2, <1>3, <2>1
<1>5. Top.op = "attach"
  <2>1. n - 1 \in j .. n - 1
    BY <1>1
  <2>2. Frames[n - 1].op = "attach" /\ ~Frames[n - 1].throwing
    BY <1>4, <2>1
  <2> QED
    BY <2>2, CallerShape DEF CallShape, Constructs
<1>6. \A i \in j .. n : Frames[i].op = "attach" /\ ~Frames[i].throwing
  <2>1. \A i \in j .. n : i = n \/ i \in j .. n - 1
    BY <1>1
  <2> QED
    BY <1>1, <1>4, <1>5, <2>1
<1>7. Frames[j].entered
  BY <1>2, <1>3
<1> QED
  BY <1>2, <1>6, <1>7

LEMMA StaleReturn ==
  ASSUME BaseInv, Running, Shape(Frames), NEW delta, NEW n, n = Len(stack), n > 1,
         NEW frames \in {stack, Staled(stack)}, Return(frames, delta),
         frames = stack \/ Top.entered, ~Top.stale \/ Top.op = "detach", StaleUnused(Frames),
         frames # stack => /\ Top.op = "detach"
                           /\ \A t \in Types :
                                /\ Cardinality(ClientUses(t)) = LastUse(Frames, t)
                                /\ \A i \in 1 .. n - 1 : FU(Frames, i, t) = {}
  PROVE  UNCHANGED clients /\ StaleUnused(Frames')
<1>1. /\ n \in Nat /\ Top = Frames[n] /\ Len(Frames) = n
      /\ \A j \in 1 .. n : Frames[j] \in FrameType
  BY TopShape, StackFacts DEF BaseInv
<1>2. /\ Len(Frames') = n - 1 /\ UNCHANGED clients
      /\ \A j \in 1 .. n - 1 :
           /\ Frames'[j].op = Frames[j].op /\ Frames'[j].type = Frames[j].type
           /\ Frames'[j].entered = Frames[j].entered
           /\ Frames'[j].throwing = Frames[j].throwing
           /\ Frames'[j].stale = (IF frames = stack THEN Frames[j].stale ELSE TRUE)
      /\ \A t : /\ \A j \in 1 .. n - 2 : FU(Frames', j, t) = FU(Frames, j, t)
                /\ LastUse(Frames', t) = LastUse(Frames, t)
  BY ReturnCounts
<1>3. SUFFICES ASSUME NEW j \in 1 .. n - 1, Frames'[j].stale
               PROVE  /\ j > 1 => Frames'[j - 1].stale
                      /\ Constructs(Frames'[j]) => j < n - 1 /\ Frames'[j + 1].stale
                      /\ \A t \in Types :
                           /\ Cardinality(ClientUses(t)) = LastUse(Frames', t)
                           /\ \A i \in 1 .. j - 1 : FU(Frames', i, t) = {}
  BY <1>2 DEF StaleUnused, FU
<1>4. /\ Constructs(Frames'[j]) <=> Constructs(Frames[j])
      /\ j \in 1 .. n /\ (j > 1 => j - 1 \in 1 .. n - 1) /\ (j < n - 1 => j + 1 \in 1 .. n - 1)
      /\ \A i \in 1 .. j - 1 : i \in 1 .. n - 2 /\ i \in 1 .. n - 1
  <2>1. Constructs(Frames'[j]) <=> Constructs(Frames[j])
    BY <1>2, Zenon DEF Constructs
  <2> QED
    BY <1>1, <2>1
<1>5. Constructs(Frames[n - 1]) => Top.op = "attach"
  BY CallerShape DEF CallShape
<1>6. CASE frames = stack
  <2>1. Frames[j].stale
    BY <1>2, <1>3, <1>6
  <2>2. /\ j > 1 => Frames[j - 1].stale
        /\ Constructs(Frames[j]) => j < n /\ Frames[j + 1].stale
        /\ \A t \in Types :
             /\ Cardinality(ClientUses(t)) = LastUse(Frames, t)
             /\ \A i \in 1 .. j - 1 : FU(Frames, i, t) = {}
    BY <1>1, <1>4, <2>1 DEF StaleUnused, FU
  <2>3. ASSUME Constructs(Frames[j]) PROVE j < n - 1 /\ Frames'[j + 1].stale
    <3>1. j # n - 1
      <4>1. CASE j = n - 1
        <5>1. Frames[n].stale
          BY <1>1, <2>2, <2>3, <4>1
        <5> QED
          BY <1>1, <1>5, <2>3, <4>1, <5>1
      <4> QED
        BY <4>1
    <3>2. j < n - 1
      BY <1>1, <3>1
    <3> QED
      BY <1>2, <1>4, <1>6, <2>2, <2>3, <3>2
  <2> QED
    BY <1>2, <1>4, <1>6, <2>2, <2>3
<1>7. CASE frames # stack
  <2>1. Top.op = "detach"
    BY <1>7
  <2>2. ASSUME Constructs(Frames[j]) PROVE j < n - 1
    BY <1>1, <1>5, <2>1, <2>2
  <2> QED
    BY <1>2, <1>4, <1>7, <2>2
<1> QED
  BY <1>6, <1>7

LEMMA RestReturn ==
  ASSUME BaseInv, Running, Shape(Frames), CountInv, NEW delta, NEW n, n = Len(stack),
         NEW frames \in {stack, Staled(stack)}, Return(frames, delta),
         frames = stack \/ Top.entered, ~Top.stale \/ Top.op = "detach",
         Top.op = "attach" => ~Top.throwing, NEW known,
         \A j \in 1 .. n - 1 :
           (\A i \in j .. n : Frames[i].op = "attach" /\ ~Frames[i].throwing) /\ Frames[j].entered
           => Frames[j].type \notin known,
         frames # stack => /\ Top.op = "detach"
                           /\ \A t \in Types :
                                /\ Cardinality(ClientUses(t)) = LastUse(Frames, t)
                                /\ \A i \in 1 .. n - 1 : FU(Frames, i, t) = {}
  PROVE  /\ NotYet(Frames', known)
         /\ \/ UNCHANGED clients /\ StaleUnused(Frames')
            \/ \A j \in 1 .. Len(Frames') : ~Frames'[j].stale
<1>1. n \in Nat \ {0} /\ stack \in Seq(FrameType) /\ stack # <<>>
  BY TopShape
<1>2. CASE n = 1
  <2>1. frames \in Seq(FrameType) /\ Len(frames) = Len(stack)
    BY <1>1, StaledTyped
  <2>2. stack' = <<>>
    BY <1>1, <1>2, <2>1, ReturnUp
  <2>3. Frames' = <<>>
    BY <2>2, BottomNone
  <2>4. 1 .. Len(<<>>) = {}
    OBVIOUS
  <2> QED
    BY <2>3, <2>4 DEF NotYet
<1>3. CASE n # 1
  <2>1. n > 1
    BY <1>1, <1>3
  <2>2. NotYet(Frames', known)
    BY <2>1, NotYetReturn
  <2>3. StaleUnused(Frames)
    BY DEF CountInv
  <2>4. UNCHANGED clients /\ StaleUnused(Frames')
    BY <2>1, <2>3, StaleReturn
  <2> QED
    BY <2>2, <2>4
<1> QED
  BY <1>2, <1>3

LEMMA NotYetBelow ==
  ASSUME BaseInv, Running, CountInv, NEW n, n = Len(stack), NEW j \in 1 .. n,
         \A i \in j .. n : Frames[i].op = "attach" /\ ~Frames[i].throwing, Frames[j].entered
  PROVE  Frames[j].type \notin mapped
<1>1. Len(Frames) = n
  BY TopFacts
<1> QED
  BY <1>1 DEF CountInv, NotYet

\* A call that has not begun, or that has nothing to do and has nothing.
LEMMA IdleTop ==
  ASSUME BaseInv, Running, Shape(Frames), ~Top.entered, NEW t
  PROVE  /\ ~Top.stale /\ ~Top.throwing /\ Top.held = <<>> /\ Top.todo = <<>>
         /\ Cardinality(FrameUses(Top, 0, t)) = 0
<1>1. Waits(Top) /\ Top \in FrameType
  BY TopShape DEF OwnShape
<1>2. ~Top.stale /\ ~Top.throwing /\ Top.held = <<>> /\ Top.todo = <<>>
  BY <1>1 DEF Waits
<1> QED
  BY <1>1, <1>2, WaitsUses

LEMMA BeginKeepsCount ==
  ASSUME BaseInv, CountInv, NEW th \in Threads, NEW t \in Types,
         BeginAttach(th, t) \/ BeginDetach(th, t)
  PROVE  CountInv'
<1>1. holder = NoThread /\ UNCHANGED <<program, clients, ref, mapped>>
  BY DEF BeginAttach, BeginDetach
<1>2. PICK op \in {"attach", "detach"} : stack' = <<Call(op, t, FALSE)>>
  BY DEF BeginAttach, BeginDetach
<1>3. PICK f \in FrameType : f = Call(op, t, FALSE) /\ ~f.entered /\ Waits(f)
  BY CallTyped
<1>4. Len(Frames') = 1 /\ Frames'[1] = f /\ Frames' \in Seq(FrameType) /\ Frames' # <<>>
  <2>1. Len(Frames') = 1 /\ Frames'[1] = f
    BY <1>2, <1>3, OneFrame DEF Frames
  <2>2. stack' \in Seq(FrameType)
    <3>1. stack' = <<f>>
      BY <1>2, <1>3
    <3> QED
      BY <3>1
  <2>3. Frames' \in Seq(FrameType)
    BY <2>2, UpFacts DEF Frames
  <2> QED
    BY <2>1, <2>3
<1>5. Frames = <<>>
  <2>1. stack = <<>>
    BY <1>1, SingletonAssumption DEF BaseInv, TypeOK
  <2> QED
    BY <2>1 DEF Frames, Up
<1>6. ASSUME NEW u \in Types, NEW n \in Nat PROVE Needs(n, Frames', u) = Needs(n, Frames, u)
  <2>1. Cardinality(CallUses(Frames', u)) = 0
    <3>1. PICK fr \in Seq(FrameType) : fr = Frames'
      BY <1>4
    <3>2. Cardinality(CallUses(fr, u)) = Cardinality(FrameUses(fr[1], 0, u))
      BY <1>4, <3>1, CountOne
    <3>3. Cardinality(FrameUses(f, 0, u)) = 0
      BY <1>3, WaitsUses DEF Waits
    <3> QED
      BY <1>4, <3>1, <3>2, <3>3
  <2>2. Cardinality(CallUses(Frames, u)) = 0
    <3>1. CallUses(<<>>, u) = {}
      BY DEF CallUses
    <3> QED
      BY <1>5, <3>1, FS_EmptySet
  <2>3. LastUse(Frames', u) = 0 /\ NextUse(Frames', u) = 0
    BY <1>3, <1>4 DEF LastUse, NextUse, Destroyed
  <2>4. LastUse(Frames, u) = 0 /\ NextUse(Frames, u) = 0
    BY <1>5 DEF LastUse, NextUse
  <2> QED
    BY <2>1, <2>2, <2>3, <2>4 DEF Needs
<1>7. 1 .. 1 = {1}
  OBVIOUS
<1>8. NotYet(Frames', mapped)
  BY <1>3, <1>4, <1>7 DEF NotYet
<1>9. StaleUnused(Frames')
  BY <1>3, <1>4, <1>7 DEF StaleUnused, Waits
<1> QED
  BY <1>1, <1>6, <1>8, <1>9, KeepsCount

\* attach() finds the name, or detach() is not the last one.
LEMMA KnownKeepsCount ==
  ASSUME BaseInv, BaseInv', Shape(Frames), CountInv, AttachFound \/ DetachKeeps
  PROVE  CountInv'
<1>1. PICK delta \in {-1, 1} :
        /\ Running /\ ~Top.entered /\ Top.type \in mapped /\ Return(stack, delta)
        /\ Top.op = (IF delta = 1 THEN "attach" ELSE "detach")
        /\ ref' = [ref EXCEPT ![Top.type] = @ + delta]
        /\ UNCHANGED <<program, mapped>>
  <2>1. CASE AttachFound
    BY <2>1 DEF AttachFound, Entering
  <2>2. CASE DetachKeeps
    <3>1. PICK delta \in {-1, 1} : delta = -1
      OBVIOUS
    <3>2. ref[Top.type] \in Nat
      BY <2>2, TopFacts DEF DetachKeeps, Entering
    <3>3. ref[Top.type] - 1 = ref[Top.type] + delta
      BY <3>1, <3>2
    <3>4. /\ Running /\ ~Top.entered /\ Top.type \in mapped /\ Return(stack, delta)
          /\ Top.op = (IF delta = 1 THEN "attach" ELSE "detach")
          /\ UNCHANGED <<program, mapped>>
      BY <2>2, <3>1 DEF DetachKeeps, Entering
    <3>5. ref' = [ref EXCEPT ![Top.type] = @ + delta]
      BY <2>2, <3>3 DEF DetachKeeps
    <3> QED
      BY <3>4, <3>5
  <2> QED
    BY <2>1, <2>2
<1>2. Top.type \in Types /\ Top.op \in {"attach", "detach"} /\ ref \in [Types -> Nat]
  BY <1>1, TopFacts DEF BaseInv, TypeOK
<1>3. /\ NotYet(Frames', mapped)
      /\ \/ UNCHANGED clients /\ StaleUnused(Frames')
         \/ \A j \in 1 .. Len(Frames') : ~Frames'[j].stale
  <2>1. PICK n \in Nat : n = Len(stack)
    BY <1>1, TopShape
  <2>2. ASSUME NEW j \in 1 .. n - 1, Frames[j].entered,
               \A i \in j .. n : Frames[i].op = "attach" /\ ~Frames[i].throwing
        PROVE  Frames[j].type \notin mapped
    <3>1. j \in 1 .. n
      BY <2>1
    <3> QED
      BY <1>1, <2>1, <2>2, <3>1, NotYetBelow
  <2>3. ~Top.stale /\ ~Top.throwing
    BY <1>1, IdleTop
  <2> QED
    BY <1>1, <2>1, <2>2, <2>3, RestReturn
<1>4. ASSUME NEW t \in Types
      PROVE  /\ ref'[t] = Needs(Cardinality(ClientUses(t)'), Frames', t)
                            + Cardinality(MembersOf(mapped', t))
             /\ ref'[t] > 0 <=> t \in mapped'
  <2>1. Cardinality(FrameUses(Top, 0, t)) = 0
    BY <1>1, IdleTop
  <2>2. Needs(Cardinality(ClientUses(t)'), Frames', t) + 0
           + (IF Top.op = "detach" /\ ~Top.entered /\ Top.type = t THEN 1 ELSE 0)
         = Needs(Cardinality(ClientUses(t)), Frames, t)
           + (IF Top.op = "attach" /\ Top.type = t THEN 1 ELSE 0)
    BY <1>1, <2>1, NeedsReturn
  <2>3. ref[t] \in Nat /\ Cardinality(MembersOf(mapped, t)) \in Nat
        /\ ref[t] = Needs(Cardinality(ClientUses(t)), Frames, t) + Cardinality(MembersOf(mapped, t))
        /\ (ref[t] > 0 <=> t \in mapped)
        /\ Needs(Cardinality(ClientUses(t)), Frames, t) \in Int
    BY NeedsFacts
  <2>4. Needs(Cardinality(ClientUses(t)'), Frames', t) \in Int
    BY NeedsNext
  <2>5. CASE Top.type = t
    <3>1. Needs(Cardinality(ClientUses(t)'), Frames', t)
            = Needs(Cardinality(ClientUses(t)), Frames, t) + delta
      BY <1>1, <2>2, <2>3, <2>4, <2>5
    <3>2. ref'[t] = ref[t] + delta
      BY <1>1, <1>2, <2>5
    <3>3. ref'[t] > 0
      <4>1. CASE delta = 1
        BY <2>3, <3>2, <4>1
      <4>2. CASE delta = -1
        <5>1. ~(ref[t] <= 1)
          BY <1>1, <2>5, <4>2 DEF AttachFound, DetachKeeps, Entering, LastReference
        <5> QED
          BY <2>3, <3>2, <4>2, <5>1
      <4> QED
        BY <1>1, <4>1, <4>2
    <3> QED
      BY <1>1, <2>3, <2>4, <2>5, <3>1, <3>2, <3>3
  <2>6. CASE Top.type # t
    <3>1. Needs(Cardinality(ClientUses(t)'), Frames', t)
            = Needs(Cardinality(ClientUses(t)), Frames, t)
      BY <2>2, <2>3, <2>4, <2>6
    <3>2. ref'[t] = ref[t]
      BY <1>1, <1>2, <2>6
    <3> QED
      BY <1>1, <2>3, <3>1, <3>2
  <2> QED
    BY <2>5, <2>6
<1>5. Rooted(mapped') /\ mapped' \subseteq Types /\ NotYet(Frames', mapped')
  BY <1>1, <1>3 DEF CountInv, BaseInv, TypeOK
<1> QED
  BY <1>1, <1>3, <1>4, <1>5, CountNext

\* The innermost call goes on, and uses as much as before.
LEMMA GoesOnKeepsCount ==
  ASSUME BaseInv, BaseInv', Running, Shape(Frames), CountInv, NEW g \in FrameType,
         stack' = <<g>> \o Tail(stack), g.op = Top.op, g.type = Top.type, g.keep = Top.keep,
         g.stale = Top.stale, g.entered, Top.op = "attach", Constructs(g) => ~g.stale,
         Constructs(g) => Top.type \notin mapped /\ ~Top.throwing,
         UNCHANGED <<program, clients, ref, mapped>>,
         \A t \in Types : FrameUses(g, 0, t) = FrameUses(Top, 0, t)
  PROVE  CountInv'
<1>1. NotYet(Frames', mapped) /\ StaleUnused(Frames')
  BY NotYetTop, StaleTop DEF CountInv
<1>2. ASSUME NEW t \in Types, NEW k \in Nat PROVE Needs(k, Frames', t) = Needs(k, Frames, t)
  <2>1. Needs(k, Frames', t) + Cardinality(FrameUses(Top, 0, t))
           + (IF Top.op = "detach" /\ ~Top.entered /\ Top.type = t THEN 1 ELSE 0)
         = Needs(k, Frames, t) + Cardinality(FrameUses(g, 0, t))
    BY NeedsTop
  <2>2. PICK x \in Nat : x = Cardinality(FrameUses(Top, 0, t)) /\ x = Cardinality(FrameUses(g, 0, t))
    BY TopShape, UsesFinite
  <2>3. Needs(k, Frames', t) \in Int /\ Needs(k, Frames, t) \in Int
    <3>1. stack \in Seq(FrameType) /\ stack' \in Seq(FrameType)
      BY DEF BaseInv
    <3>2. Frames \in Seq(FrameType) /\ Frames' \in Seq(FrameType)
      BY <3>1, UpFacts DEF Frames
    <3>3. Cardinality(CallUses(Frames, t)) \in Nat /\ Cardinality(CallUses(Frames', t)) \in Nat
      BY <3>2, CallUsesUpTo
    <3>4. /\ LastUse(Frames, t) \in {0, 1} /\ NextUse(Frames, t) \in {0, 1}
          /\ LastUse(Frames', t) \in {0, 1} /\ NextUse(Frames', t) \in {0, 1}
      BY DEF LastUse, NextUse
    <3> QED
      BY <3>3, <3>4 DEF Needs
  <2> QED
    BY <2>1, <2>2, <2>3
<1> QED
  BY <1>1, <1>2, KeepsCount

LEMMA CreatesKeepsCount ==
  ASSUME BaseInv, BaseInv', Lasting, Shape(Frames), CountInv, AttachCreates
  PROVE  CountInv'
<1>1. /\ Running /\ Top.op = "attach" /\ ~Top.entered /\ Top.type \notin mapped
      /\ stack' = <<Entered(Top, Construction(Top.type))>> \o Tail(stack)
      /\ UNCHANGED <<program, clients, ref, mapped>>
  BY DEF AttachCreates, Entering, Enter, Entered
<1>2. Construction(Top.type) \in Seq(CallType)
  BY <1>1, TopShape, FrameParts, BodiesTyped
<1>3. PICK g \in FrameType : g = Entered(Top, Construction(Top.type))
  BY <1>1, <1>2, TopShape, FramesTyped
<1>4. /\ g.op = Top.op /\ g.type = Top.type /\ g.keep = Top.keep /\ g.entered
      /\ g.stale = Top.stale /\ g.held = Top.held /\ g.throwing = Top.throwing
  BY <1>1, <1>3, TopShape DEF FrameType, Entered
<1>5. ~Top.stale /\ ~Top.throwing /\ Top.held = <<>> /\ Top.todo = <<>>
  BY <1>1, IdleTop
<1>6. ASSUME NEW t \in Types PROVE FrameUses(g, 0, t) = FrameUses(Top, 0, t)
  <2>1. FrameUses(Top, 0, t) = {}
    BY <1>1, <1>5, TopShape, WaitsUses
  <2>2. FrameUses(g, 0, t) = Entries(g.held, t)
    <3>1. \A i \in DOMAIN g.todo : g.todo[i].op = "attach"
      <4>1. OwnShape(g, 0)
        <5>1. OwnShape(Entered(Top, Construction(Top.type)), 0)
          BY <1>1, TopShape, AttachShape
        <5> QED
          BY <1>3, <5>1
      <4>2. Constructs(g)
        BY <1>1, <1>4, <1>5 DEF Constructs
      <4> QED
        BY <1>1, <4>1, <4>2, TopShape, ConstructingUses
    <3> QED
      BY <3>1, HeldUses
  <2>3. Entries(g.held, t) = {}
    BY <1>4, <1>5 DEF Entries
  <2> QED
    BY <2>1, <2>2, <2>3
<1> QED
  BY <1>1, <1>3, <1>4, <1>5, <1>6, GoesOnKeepsCount

LEMMA ThrowsKeepsCount ==
  ASSUME BaseInv, BaseInv', Shape(Frames), CountInv, ConstructorThrows
  PROVE  CountInv'
<1>1. /\ Running /\ Constructs(Top) /\ Top.op = "attach" /\ Top.entered
      /\ stack' = <<Unwinding(Top)>> \o Tail(stack)
      /\ UNCHANGED <<program, clients, ref, mapped>>
  BY DEF ConstructorThrows, Constructed, InBody, Constructs
<1>2. PICK g \in FrameType : g = Unwinding(Top)
  BY <1>1, TopShape, FramesTyped, EmptySeq
<1>3. /\ g.op = Top.op /\ g.type = Top.type /\ g.keep = Top.keep /\ g.entered
      /\ g.stale = Top.stale /\ g.throwing
  BY <1>1, <1>2, TopShape DEF FrameType, Unwinding
<1>4. ~Constructs(g)
  BY <1>3 DEF Constructs
<1>5. \A t \in Types : FrameUses(g, 0, t) = FrameUses(Top, 0, t)
  BY <1>1, <1>2, TopShape, UnwindingUses
<1>6. stack' = <<g>> \o Tail(stack)
  BY <1>1, <1>2
<1> QED
  BY <1>1, <1>3, <1>4, <1>5, <1>6, GoesOnKeepsCount

LEMMA CallKeepsCount ==
  ASSUME BaseInv, BaseInv', Shape(Frames), CountInv, NextCall
  PROVE  CountInv'
<1>1. /\ Running /\ Top.entered /\ Top.todo # <<>> /\ UNCHANGED <<program, clients, ref, mapped>>
  BY DEF NextCall
<1>2. PICK n \in Nat \ {0} : n = Len(stack)
  BY <1>1, TopShape
<1>3. /\ Frames \in Seq(FrameType) /\ Len(Frames) = n /\ Top = Frames[n] /\ Top \in FrameType
      /\ stack \in Seq(FrameType) /\ stack # <<>> /\ Frames # <<>>
  BY <1>1, <1>2, TopShape
<1>4. /\ stack' \in Seq(FrameType) /\ Pushed(Frames, Proceeds(Top), Head(Top.todo), Frames')
  BY <1>1, CallKeeps
<1>5. PICK fr2 \in Seq(FrameType) : fr2 = Frames'
  BY <1>4, UpFacts DEF Frames
<1>6. PICK h \in CallType : h = Head(Top.todo)
  BY <1>1, <1>3, FrameParts
<1>7. /\ h \in FrameType /\ ~h.entered /\ Waits(h) /\ h.op \in {"attach", "detach"}
      /\ h.todo = <<>> /\ h.held = <<>> /\ ~h.throwing /\ ~h.stale
  BY <1>6, CallOfType, CallsAreFrames DEF Waits
<1>8. PICK g \in FrameType : g = Proceeds(Top)
  BY <1>1, <1>3, FramesTyped, EmptySeq
<1>9. /\ g.op = Top.op /\ g.type = Top.type /\ g.keep = Top.keep /\ g.entered
      /\ g.stale = Top.stale /\ g.throwing = Top.throwing
  BY <1>1, <1>3, <1>8 DEF FrameType, Proceeds
<1>10. Pushed(Frames, g, h, fr2)
  BY <1>4, <1>5, <1>6, <1>8
<1>11. /\ Len(fr2) = n + 1 /\ fr2[n] = g /\ fr2[n + 1] = h /\ fr2 # <<>>
       /\ \A j \in 1 .. n - 1 : fr2[j] = Frames[j]
  BY <1>2, <1>3, <1>10 DEF Pushed
<1>12. /\ \A j \in 1 .. n : fr2[j].op = Frames[j].op /\ fr2[j].type = Frames[j].type
       /\ \A j \in 1 .. n : fr2[j].stale = Frames[j].stale
       /\ \A j \in 1 .. n : Constructs(fr2[j]) <=> Constructs(Frames[j])
       /\ \A j \in 1 .. n : fr2[j].entered = Frames[j].entered
       /\ \A j \in 1 .. n : fr2[j].throwing = Frames[j].throwing
  <2>1. \A j \in 1 .. n : j = n \/ j \in 1 .. n - 1
    OBVIOUS
  <2>2. Top.entered /\ (Constructs(g) <=> Constructs(Top))
    BY <1>1, <1>9, Zenon DEF Constructs
  <2>3. \A j \in 1 .. n : fr2[j].op = Frames[j].op /\ fr2[j].type = Frames[j].type
    BY <1>3, <1>9, <1>11, <2>1
  <2>4. \A j \in 1 .. n : fr2[j].stale = Frames[j].stale
    BY <1>3, <1>9, <1>11, <2>1
  <2>5. \A j \in 1 .. n : Constructs(fr2[j]) <=> Constructs(Frames[j])
    BY <1>3, <1>11, <2>1, <2>2
  <2>6. \A j \in 1 .. n : fr2[j].throwing = Frames[j].throwing
    BY <1>3, <1>9, <1>11, <2>1
  <2>7. \A j \in 1 .. n : fr2[j].entered = Frames[j].entered
    <3>1. g.entered = Top.entered
      BY <1>3, <1>8, SameKind
    <3> QED
      BY <1>3, <1>11, <2>1, <3>1
  <2> QED
    BY <2>3, <2>4, <2>5, <2>6, <2>7
<1>13. NotYet(fr2, mapped)
  <2> SUFFICES ASSUME NEW j \in 1 .. n + 1, fr2[j].entered,
                      \A i \in j .. n + 1 : fr2[i].op = "attach" /\ ~fr2[i].throwing
               PROVE  fr2[j].type \notin mapped
    BY <1>11 DEF NotYet
  <2>1. j \in 1 .. n
    BY <1>7, <1>11
  <2>2. \A i \in j .. n : i \in 1 .. n /\ i \in j .. n + 1
    BY <2>1
  <2>3. \A i \in j .. n : Frames[i].op = "attach" /\ ~Frames[i].throwing
    BY <1>12, <2>2
  <2>4. Frames[j].entered
    BY <1>12, <2>1
  <2>5. Frames[j].type \notin mapped
    BY <1>1, <1>2, <2>1, <2>3, <2>4, NotYetBelow
  <2> QED
    BY <1>12, <2>1, <2>5
<1>14. /\ g.op = Frames[Len(Frames)].op /\ g.keep = Frames[Len(Frames)].keep
  BY <1>3, <1>9
<1>15. \A t : LastUse(fr2, t) = LastUse(Frames, t)
  <2>1. 1 \in 1 .. n
    OBVIOUS
  <2>2. fr2[1].op = Frames[1].op /\ fr2[1].type = Frames[1].type
        /\ fr2[1].entered = Frames[1].entered
    BY <1>12, <2>1
  <2> QED
    BY <1>3, <1>11, <2>2 DEF LastUse, Destroyed
<1>16. StaleUnused(fr2)
  <2> SUFFICES ASSUME NEW j \in 1 .. n + 1, fr2[j].stale
               PROVE  /\ j > 1 => fr2[j - 1].stale
                      /\ Constructs(fr2[j]) => j < n + 1 /\ fr2[j + 1].stale
                      /\ \A t \in Types :
                           /\ Cardinality(ClientUses(t)) = LastUse(fr2, t)
                           /\ \A i \in 1 .. j - 1 : FU(fr2, i, t) = {}
    BY <1>11 DEF StaleUnused, FU
  <2>1. j \in 1 .. n
    BY <1>7, <1>11
  <2>2. /\ j > 1 => Frames[j - 1].stale
        /\ Constructs(Frames[j]) => j < n /\ Frames[j + 1].stale
        /\ \A t \in Types :
             /\ Cardinality(ClientUses(t)) = LastUse(Frames, t)
             /\ \A i \in 1 .. j - 1 : FU(Frames, i, t) = {}
    BY <1>3, <1>12, <2>1 DEF CountInv, StaleUnused, FU
  <2>3. (j > 1 => j - 1 \in 1 .. n) /\ (j < n => j + 1 \in 1 .. n /\ j < n + 1)
    BY <2>1
  <2>4. ASSUME NEW t \in Types, NEW i \in 1 .. j - 1 PROVE FU(fr2, i, t) = {}
    <3>1. i \in 1 .. Len(Frames) - 1
      BY <1>3, <2>1
    <3>2. FU(fr2, i, t) = FU(Frames, i, t)
      BY <1>3, <1>10, <1>14, <3>1, PushedSame
    <3> QED
      BY <2>2, <3>2
  <2>5. j > 1 => fr2[j - 1].stale
    BY <1>12, <2>2, <2>3
  <2>6. Constructs(fr2[j]) => j < n + 1 /\ fr2[j + 1].stale
    BY <1>12, <2>1, <2>2, <2>3
  <2> QED
    BY <1>15, <2>2, <2>4, <2>5, <2>6
<1>17. ASSUME NEW t \in Types, NEW k \in Nat PROVE Needs(k, fr2, t) = Needs(k, Frames, t)
  <2>1. PICK M \in {0, 1} : M = Moment(h)
    BY DEF Moment
  <2>0. PICK fr \in Seq(FrameType), f \in FrameType : fr = Frames /\ f = h
    BY <1>3, <1>7
  <2>12. Pushed(fr, g, f, fr2) /\ fr # <<>> /\ g.op = fr[Len(fr)].op /\ g.keep = fr[Len(fr)].keep
         /\ M = Moment(f)
    BY <1>3, <1>10, <1>14, <2>0, <2>1
  <2>13. PICK r \in Nat :
           /\ Cardinality(CallUses(fr, t)) = r + Cardinality(FrameUses(fr[Len(fr)], 0, t))
           /\ Cardinality(CallUses(fr2, t))
                = r + Cardinality(FrameUses(g, M, t)) + Cardinality(FrameUses(f, 0, t))
    BY <2>12, CountPushed
  <2>2. /\ Cardinality(CallUses(Frames, t)) = r + Cardinality(FrameUses(Frames[Len(Frames)], 0, t))
        /\ Cardinality(CallUses(fr2, t))
             = r + Cardinality(FrameUses(g, M, t)) + Cardinality(FrameUses(h, 0, t))
    BY <2>0, <2>13
  <2>3. Cardinality(FrameUses(h, 0, t)) = 0
    BY <1>7, WaitsUses
  <2>4. Cardinality(FrameUses(Top, 0, t))
          = Cardinality(FrameUses(g, M, t)) + (IF h.op = "detach" /\ h.type = t THEN 1 ELSE 0)
    <3>1. OwnShape(Top, 0) /\ program \in Programs
      BY <1>1, TopShape
    <3> QED
      BY <1>1, <1>3, <1>6, <1>8, <2>1, <3>1, CallsUses
  <2>5. PICK x \in Nat : x = Cardinality(FrameUses(g, M, t))
    BY UsesFinite
  <2>6. NextUse(Frames, t) = 0
    BY <1>1, <1>3 DEF NextUse
  <2>7. NextUse(fr2, t) = IF h.op = "detach" /\ h.type = t THEN 1 ELSE 0
    BY <1>2, <1>7, <1>11 DEF NextUse
  <2>8. PICK y \in {0, 1} : y = IF h.op = "detach" /\ h.type = t THEN 1 ELSE 0
    OBVIOUS
  <2>9. PICK z \in {0, 1} : z = LastUse(Frames, t)
    BY DEF LastUse
  <2>10. Needs(k, fr2, t) = k + (r + x + 0) + y - z
    BY <1>15, <2>2, <2>3, <2>5, <2>7, <2>8, <2>9 DEF Needs
  <2>11. Needs(k, Frames, t) = k + (r + (x + y)) + 0 - z
    BY <1>3, <2>2, <2>4, <2>5, <2>6, <2>8, <2>9 DEF Needs
  <2> QED
    BY <2>10, <2>11
<1> QED
  BY <1>1, <1>5, <1>13, <1>16, <1>17, KeepsCount

\* An exception leaves a call: the caller has to detach what it holds.
LEMMA LeavesKeepsCount ==
  ASSUME BaseInv, BaseInv', Shape(Frames), CountInv, ExceptionLeaves
  PROVE  CountInv'
<1>1. /\ Running /\ Top.op = "attach" /\ Top.entered /\ Top.throwing /\ Top.todo = <<>>
      /\ UNCHANGED <<program, clients, ref, mapped>>
  BY DEF ExceptionLeaves, Thrown, InBody
<1>2. PICK n \in Nat \ {0} : n = Len(stack)
  BY <1>1, TopShape
<1>3. /\ Frames \in Seq(FrameType) /\ Len(Frames) = n /\ Top = Frames[n] /\ Top \in FrameType
      /\ stack \in Seq(FrameType) /\ stack # <<>> /\ Frames # <<>>
      /\ OwnShape(Top, 0) /\ program \in Programs
  BY <1>1, <1>2, TopShape
<1>4. /\ stack' \in Seq(FrameType) /\ (n = 1 => stack' = <<>>)
      /\ n > 1 => Popped(Frames, Unwinding(Frames[n - 1]), Frames')
  BY <1>1, <1>2, LeavesKeeps
<1>5. Top.held = <<>>
  BY <1>1, <1>3 DEF OwnShape, Unwinds
<1>6. \A t : Cardinality(FrameUses(Top, 0, t)) = 0
  BY <1>1, <1>3, <1>5, WaitsUses
<1>7. \A t : NextUse(Frames, t) = 0
  BY <1>1, <1>3 DEF NextUse
<1>8. CASE n = 1
  <2>1. Frames' = <<>>
    BY <1>4, <1>8, BottomNone
  <2>2. ASSUME NEW t \in Types, NEW k \in Nat PROVE Needs(k, Frames', t) = Needs(k, Frames, t)
    <3>1. Cardinality(CallUses(Frames, t)) = 0
      <4>1. Frames[1] = Top /\ Len(Frames) = 1
        BY <1>3, <1>8
      <4>2. Cardinality(CallUses(Frames, t)) = Cardinality(FrameUses(Frames[1], 0, t))
        BY <1>3, <4>1, CountOne
      <4> QED
        BY <1>6, <4>1, <4>2
    <3>2. LastUse(Frames, t) = 0
      BY <1>1, <1>3, <1>8 DEF LastUse, Destroyed
    <3>3. Cardinality(CallUses(<<>>, t)) = 0
      <4>1. CallUses(<<>>, t) = {}
        BY DEF CallUses
      <4> QED
        BY <4>1, FS_EmptySet
    <3>4. LastUse(<<>>, t) = 0 /\ NextUse(<<>>, t) = 0
      BY DEF LastUse, NextUse
    <3> QED
      BY <1>7, <2>1, <3>1, <3>2, <3>3, <3>4 DEF Needs
  <2>3. 1 .. Len(<<>>) = {}
    OBVIOUS
  <2>4. NotYet(Frames', mapped) /\ StaleUnused(Frames')
    BY <2>1, <2>3 DEF NotYet, StaleUnused
  <2> QED
    BY <1>1, <2>2, <2>4, KeepsCount
<1>9. CASE n # 1
  <2>1. n > 1
    BY <1>9
  <2>2. PICK c \in FrameType : c = Frames[n - 1]
    BY <1>1, <1>2, <2>1, CallerShape
  <2>3. OwnShape(c, 1) /\ CallShape(c, Top.op, Top.type, Top.keep) /\ n - 1 \in 1 .. n - 1
    BY <1>1, <1>2, <2>1, <2>2, CallerShape
  <2>4. Constructs(c)
    <3>1. c.op = "attach"
      <4>1. stack[2].op = "attach"
        BY <1>2, <2>1 DEF ExceptionLeaves
      <4>2. n - 1 \in 1 .. Len(stack) /\ Len(stack) + 1 - (n - 1) = 2
        BY <1>2, <2>1
      <4>3. c = stack[2]
        BY <1>3, <2>2, <4>2, UpFacts DEF Frames
      <4> QED
        BY <4>1, <4>3
    <3> QED
      BY <1>1, <2>3, <3>1 DEF Constructs, CallShape
  <2>5. PICK g \in FrameType : g = Unwinding(c)
    BY FramesTyped, EmptySeq
  <2>6. /\ g.op = c.op /\ g.type = c.type /\ g.keep = c.keep /\ g.entered = c.entered
        /\ g.stale = c.stale /\ g.throwing
    BY <2>5 DEF FrameType, Unwinding
  <2>7. PICK fr2 \in Seq(FrameType) : fr2 = Frames'
    BY <1>4, UpFacts DEF Frames
  <2>8. Popped(Frames, g, fr2)
    BY <1>4, <2>1, <2>2, <2>5, <2>7
  <2>9. /\ Len(fr2) = n - 1 /\ fr2[n - 1] = g /\ fr2 # <<>>
        /\ \A j \in 1 .. n - 2 : fr2[j] = Frames[j]
    BY <1>3, <2>1, <2>7, <2>8 DEF Popped
  <2>10. \A j \in 1 .. n - 1 : j = n - 1 \/ j \in 1 .. n - 2
    OBVIOUS
  <2>11. \A j \in 1 .. n - 1 :
           /\ fr2[j].op = Frames[j].op /\ fr2[j].type = Frames[j].type
           /\ fr2[j].entered = Frames[j].entered /\ fr2[j].stale = Frames[j].stale
    BY <2>2, <2>6, <2>9, <2>10
  <2>12. NotYet(fr2, mapped)
    <3> SUFFICES ASSUME NEW j \in 1 .. n - 1,
                        \A i \in j .. n - 1 : fr2[i].op = "attach" /\ ~fr2[i].throwing
                 PROVE  FALSE
      BY <2>9 DEF NotYet
    <3>1. n - 1 \in j .. n - 1
      OBVIOUS
    <3> QED
      BY <2>6, <2>9, <3>1
  <2>13. \A t : LastUse(fr2, t) = LastUse(Frames, t)
    <3>1. 1 \in 1 .. n - 1
      BY <2>1
    <3> QED
      BY <1>3, <2>9, <2>11, <3>1 DEF LastUse, Destroyed
  <2>14. g.op = Frames[Len(Frames) - 1].op /\ g.keep = Frames[Len(Frames) - 1].keep /\ Len(Frames) > 1
    BY <1>3, <2>1, <2>2, <2>6
  <2>15. StaleUnused(fr2)
    <3> SUFFICES ASSUME NEW j \in 1 .. n - 1, fr2[j].stale
                 PROVE  /\ j > 1 => fr2[j - 1].stale
                        /\ Constructs(fr2[j]) => j < n - 1 /\ fr2[j + 1].stale
                        /\ \A t \in Types :
                             /\ Cardinality(ClientUses(t)) = LastUse(fr2, t)
                             /\ \A i \in 1 .. j - 1 : FU(fr2, i, t) = {}
      BY <2>9 DEF StaleUnused, FU
    <3>1. j \in 1 .. n /\ Frames[j].stale
      BY <2>11
    <3>2. /\ j > 1 => Frames[j - 1].stale
          /\ Constructs(Frames[j]) => j < n /\ Frames[j + 1].stale
          /\ \A t \in Types :
               /\ Cardinality(ClientUses(t)) = LastUse(Frames, t)
               /\ \A i \in 1 .. j - 1 : FU(Frames, i, t) = {}
      BY <1>3, <3>1 DEF CountInv, StaleUnused, FU
    <3>3. (j > 1 => j - 1 \in 1 .. n - 1) /\ (j < n - 1 => j + 1 \in 1 .. n - 1)
      OBVIOUS
    <3>4. Constructs(fr2[j]) => j < n - 1 /\ fr2[j + 1].stale
      <4>1. CASE j = n - 1
        BY <2>6, <2>9, <4>1 DEF Constructs
      <4>2. CASE j # n - 1
        <5>1. j \in 1 .. n - 2 /\ j < n - 1
          BY <4>2
        <5>2. fr2[j] = Frames[j]
          BY <2>9, <5>1
        <5> QED
          BY <2>11, <3>2, <3>3, <5>1, <5>2
      <4> QED
        BY <4>1, <4>2
    <3>5. ASSUME NEW t \in Types, NEW i \in 1 .. j - 1 PROVE FU(fr2, i, t) = {}
      <4>1. i \in 1 .. Len(Frames) - 2
        BY <1>3
      <4>2. FU(fr2, i, t) = FU(Frames, i, t)
        BY <1>3, <2>8, <2>14, <4>1, PoppedSame
      <4> QED
        BY <3>2, <4>2
    <3>6. j > 1 => fr2[j - 1].stale
      BY <2>11, <3>2, <3>3
    <3> QED
      BY <2>13, <3>2, <3>4, <3>5, <3>6
  <2>16. ASSUME NEW t \in Types, NEW k \in Nat PROVE Needs(k, fr2, t) = Needs(k, Frames, t)
    <3>1. PICK M \in {0, 1} : M = Moment(Top)
      BY DEF Moment
    <3>2. PICK fr \in Seq(FrameType), f \in FrameType : fr = Frames /\ f = Top
      BY <1>3
    <3>3. /\ Popped(fr, g, fr2) /\ Len(fr) > 1 /\ c = fr[Len(fr) - 1] /\ f = fr[Len(fr)]
          /\ g.op = c.op /\ g.keep = c.keep /\ M = Moment(f)
      BY <1>3, <2>1, <2>2, <2>6, <2>8, <3>1, <3>2
    <3>4. PICK r \in Nat :
            /\ Cardinality(CallUses(fr, t))
                 = r + Cardinality(FrameUses(c, M, t)) + Cardinality(FrameUses(f, 0, t))
            /\ Cardinality(CallUses(fr2, t)) = r + Cardinality(FrameUses(g, 0, t))
      BY <3>3, CountPopped
    <3>5. FrameUses(g, 0, t) = FrameUses(c, M, t)
      <4>1. FrameUses(c, M, t) = Entries(c.held, t) /\ FrameUses(c, 0, t) = Entries(c.held, t)
        BY <1>3, <2>3, <2>4, ConstructingUses
      <4>2. FrameUses(g, 0, t) = FrameUses(c, 0, t)
        BY <1>3, <2>3, <2>4, <2>5, UnwindingUses
      <4> QED
        BY <4>1, <4>2
    <3>6. PICK x \in Nat : x = Cardinality(FrameUses(c, M, t))
      BY UsesFinite
    <3>7. Cardinality(FrameUses(f, 0, t)) = 0
      BY <1>6, <3>2
    <3>8. NextUse(fr2, t) = 0
      BY <1>1, <2>3, <2>4, <2>6, <2>9 DEF NextUse, Constructs
    <3>9. PICK z \in {0, 1} : z = LastUse(Frames, t)
      BY DEF LastUse
    <3>10. Needs(k, fr2, t) = k + (r + x) + 0 - z
      BY <2>13, <3>4, <3>5, <3>6, <3>8, <3>9 DEF Needs
    <3>11. Needs(k, Frames, t) = k + (r + x + 0) + 0 - z
      BY <1>7, <3>2, <3>4, <3>6, <3>7, <3>9 DEF Needs
    <3> QED
      BY <3>10, <3>11
  <2> QED
    BY <1>1, <2>7, <2>12, <2>15, <2>16, KeepsCount
<1> QED
  BY <1>8, <1>9

\* insert() on a server that has been deleted: it does not come to that.
LEMMA InsertsOnServer ==
  ASSUME BaseInv, Shape(Frames), CountInv, Constructed
  PROVE  ~Top.stale
<1>1. Running /\ Constructs(Top)
  BY DEF Constructed, InBody, Constructs
<1>2. /\ Len(Frames) \in Nat \ {0} /\ Top = Frames[Len(Frames)]
  BY <1>1, TopShape
<1>3. Len(Frames) \in 1 .. Len(Frames) /\ ~(Len(Frames) < Len(Frames))
  BY <1>2
<1> QED
  BY <1>1, <1>2, <1>3 DEF CountInv, StaleUnused

\* Who is used by a call is in the map.
LEMMA UsedIsMapped ==
  ASSUME BaseInv, CountInv, NEW j \in 1 .. Len(Frames), NEW t \in Types, FU(Frames, j, t) # {}
  PROVE  t \in mapped
<1>1. PICK e : e \in FU(Frames, j, t)
  OBVIOUS
<1>2. <<j, e>> \in CallUses(Frames, t)
  BY <1>1 DEF CallUses, FU
<1>3. PICK u \in Nat : u = Cardinality(CallUses(Frames, t))
  BY CountFacts
<1>4. u # 0
  BY <1>2, <1>3, CountFacts, FS_EmptySet
<1>5. /\ Cardinality(ClientUses(t)) \in Nat /\ LastUse(Frames, t) \in {0, 1}
      /\ NextUse(Frames, t) \in {0, 1} /\ Cardinality(ClientUses(t)) >= LastUse(Frames, t)
  BY CountFacts
<1>6. Needs(Cardinality(ClientUses(t)), Frames, t) > 0
  BY <1>3, <1>4, <1>5 DEF Needs
<1>7. ref[t] > 0
  BY <1>6, NeedsFacts
<1> QED
  BY <1>7, NeedsFacts

\* A type that nothing refers to is no member of anything in the map.
LEMMA UnmappedNoMember ==
  ASSUME BaseInv, CountInv, NEW t \in Types, t \notin mapped
  PROVE  /\ ref[t] = 0
         /\ \A v \in mapped : t \notin ToSet(Members[v])
<1>1. /\ ref[t] \in Nat /\ (ref[t] > 0 <=> t \in mapped)
      /\ ref[t] = Needs(Cardinality(ClientUses(t)), Frames, t) + Cardinality(MemberUses(t))
  BY CountFacts DEF CountInv, Counted
<1>2. ref[t] = 0
  BY <1>1
<1>3. ASSUME NEW v \in mapped, t \in ToSet(Members[v]) PROVE FALSE
  <2>1. PICK i \in DOMAIN Members[v] : Members[v][i] = t
    BY <1>3 DEF ToSet
  <2>2. <<v, i>> \in MemberUses(t)
    BY <2>1 DEF MemberUses, Entries
  <2>3. PICK m \in Nat : m = Cardinality(MemberUses(t))
    BY CountFacts
  <2>4. m # 0
    BY <2>2, <2>3, CountFacts, FS_EmptySet
  <2>5. Needs(Cardinality(ClientUses(t)), Frames, t) >= 0
    <3>1. /\ Cardinality(ClientUses(t)) \in Nat /\ LastUse(Frames, t) \in {0, 1}
          /\ NextUse(Frames, t) \in {0, 1} /\ Cardinality(CallUses(Frames, t)) \in Nat
          /\ Cardinality(ClientUses(t)) >= LastUse(Frames, t)
      BY CountFacts
    <3> QED
      BY <3>1 DEF Needs
  <2>6. Needs(Cardinality(ClientUses(t)), Frames, t) \in Int
    BY NeedsFacts
  <2> QED
    BY <1>1, <1>2, <2>3, <2>4, <2>5, <2>6
<1> QED
  BY <1>2, <1>3

\* A constructor below another one does not construct what that one does.
LEMMA ConstructsOnce ==
  ASSUME BaseInv, Running, Shape(Frames), CountInv, Constructs(Top), Top.todo = <<>>,
         NEW n, n = Len(stack), NEW j \in 1 .. n - 1,
         \A i \in j .. n : Frames[i].op = "attach" /\ ~Frames[i].throwing, Frames[j].entered
  PROVE  Frames[j].type # Top.type
<1>1. /\ n \in Nat \ {0} /\ Frames \in Seq(FrameType) /\ Len(Frames) = n /\ Top = Frames[n]
      /\ Top \in FrameType /\ program \in Programs /\ OwnShape(Top, 0)
  BY TopShape
<1>2. PICK k \in 2 .. n : k = j + 1
  BY <1>1
<1>3. k \in 1 .. n /\ j \in 1 .. n /\ k - 1 = j /\ j \in 1 .. Len(Frames) - 1
  BY <1>1, <1>2
<1>4. Frames[k].entered
  <2>1. CASE k = n
    BY <1>1, <2>1 DEF Constructs
  <2>2. CASE k # n
    <3>1. k \in 1 .. Len(Frames) - 1
      BY <1>1, <1>2, <2>2
    <3> QED
      BY <3>1 DEF Shape, CallShape
  <2> QED
    BY <2>1, <2>2
<1>5. Constructs(Frames[j])
  <2>1. j \in j .. n
    BY <1>3
  <2> QED
    BY <2>1 DEF Constructs
<1>6. Frames[k].type = Members[Frames[j].type][Len(Frames[j].held) + 1]
      /\ Len(Frames[j].held) < Len(Members[Frames[j].type])
  <2>1. CallShape(Frames[j], Frames[j + 1].op, Frames[j + 1].type, Frames[j + 1].keep)
    BY <1>3 DEF Shape
  <2> QED
    BY <1>2, <1>5, <2>1 DEF CallShape
<1>7. Frames[k].type \notin mapped
  <2>1. \A i \in k .. n : i \in j .. n
    BY <1>2
  <2> QED
    BY <1>3, <1>4, <2>1, NotYetBelow
<1>8. ASSUME Frames[j].type = Top.type PROVE FALSE
  <2> DEFINE u == Top.type
  <2>1. PICK e : e = Len(Frames[j].held) + 1
    OBVIOUS
  <2>2. Constructing(Top, 0)
    BY <1>1 DEF OwnShape
  <2>3. Top.held \in Seq(Types) /\ Len(Top.held) \in Nat /\ DOMAIN Top.held = 1 .. Len(Top.held)
    BY <1>1, FrameParts
  <2>4. /\ Len(Top.held) = Len(Members[u])
        /\ \A i \in DOMAIN Top.held : Top.held[i] = Members[u][i]
    <3>1. Len(Top.todo) = 0
      OBVIOUS
    <3>2. Len(Top.held) + 0 + 0 = Len(Members[u])
      BY <2>2, <3>1 DEF Constructing
    <3>3. \A i \in DOMAIN Top.held : Top.held[i] = Members[u][i]
      BY <2>2 DEF Constructing
    <3> QED
      BY <2>3, <3>2, <3>3
  <2>5. e \in DOMAIN Top.held
    <3>1. Frames[j] \in FrameType
      BY <1>1, <1>3
    <3>2. Len(Frames[j].held) \in Nat
      BY <3>1, FrameParts
    <3>3. Members[Frames[j].type] = Members[u]
      BY <1>8
    <3>4. Len(Frames[j].held) < Len(Top.held)
      BY <1>6, <2>4, <3>3
    <3>5. PICK a \in Nat, b \in Nat : a = Len(Frames[j].held) /\ b = Len(Top.held)
      BY <2>3, <3>2
    <3>6. a + 1 \in 1 .. b
      BY <3>4, <3>5
    <3> QED
      BY <2>1, <2>3, <3>5, <3>6
  <2>6. Top.held[e] = Frames[k].type
    BY <1>6, <1>8, <2>1, <2>4, <2>5
  <2>7. e \in FrameUses(Top, MomentAbove(Frames, n), Frames[k].type)
    BY <2>5, <2>6 DEF FrameUses, Entries
  <2>8. FU(Frames, n, Frames[k].type) # {}
    BY <1>1, <2>7 DEF FU
  <2>9. Frames[k].type \in Types /\ n \in 1 .. Len(Frames)
    <3>1. Frames[k] \in FrameType
      BY <1>1, <1>3
    <3> QED
      BY <1>1, <3>1, FrameParts
  <2> QED
    BY <1>7, <2>8, <2>9, UsedIsMapped
<1> QED
  BY <1>8

\* The constructor has returned: the instance is in the map.
LEMMA InsertsKeepsCount ==
  ASSUME BaseInv, BaseInv', Shape(Frames), CountInv, AttachInserts
  PROVE  CountInv'
<1> DEFINE u == Top.type
<1>1. /\ Running /\ Constructs(Top) /\ Top.op = "attach" /\ Top.entered /\ ~Top.throwing
      /\ Top.todo = <<>> /\ ~Top.stale /\ Return(stack, 1) /\ UNCHANGED program
      /\ mapped' = mapped \cup {u}
      /\ ref' = [ref EXCEPT ![u] = IF u \in mapped THEN @ + 1 ELSE 1]
  BY DEF AttachInserts, Constructed, InBody, Constructs
<1>2. PICK n \in Nat \ {0} : n = Len(stack)
  BY <1>1, TopShape
<1>3. /\ Len(Frames) = n /\ Top = Frames[n] /\ Top \in FrameType /\ u \in Types
      /\ OwnShape(Top, 0) /\ program \in Programs /\ ref \in [Types -> Nat] /\ mapped \subseteq Types
  BY <1>1, <1>2, TopShape, FrameParts DEF BaseInv, TypeOK
<1>4. u \notin mapped
  <2>1. n \in 1 .. n /\ n .. n = {n}
    BY <1>2
  <2> QED
    BY <1>1, <1>2, <1>3, <2>1, NotYetBelow
<1>5. ref[u] = 0 /\ \A v \in mapped : u \notin ToSet(Members[v])
  BY <1>3, <1>4, UnmappedNoMember
<1>6. ASSUME NEW t PROVE FrameUses(Top, 0, t) = Entries(Members[u], t)
  <2>1. FrameUses(Top, 0, t) = Entries(Top.held, t) /\ Constructing(Top, 0)
    BY <1>1, <1>3, ConstructingUses DEF OwnShape
  <2>2. Top.held \in Seq(Types) /\ Len(Top.held) \in Nat /\ DOMAIN Top.held = 1 .. Len(Top.held)
    BY <1>3, FrameParts
  <2>3. Len(Top.held) = Len(Members[u]) /\ \A i \in DOMAIN Top.held : Top.held[i] = Members[u][i]
    <3>1. Len(Top.todo) = 0
      BY <1>1
    <3>2. Len(Top.held) + 0 + 0 = Len(Members[u])
      BY <2>1, <3>1 DEF Constructing
    <3>3. \A i \in DOMAIN Top.held : Top.held[i] = Members[u][i]
      BY <2>1 DEF Constructing
    <3> QED
      BY <2>2, <3>2, <3>3
  <2>4. DOMAIN Members[u] = 1 .. Len(Members[u])
    BY <1>3, MemberUsed
  <2> QED
    BY <2>1, <2>2, <2>3, <2>4 DEF Entries
<1> HIDE DEF u
<1>7. u \notin ToSet(Members[u])
  <2>1. SUFFICES ASSUME u \in ToSet(Members[u]) PROVE FALSE
    OBVIOUS
  <2>2. PICK i : i \in DOMAIN Members[u] /\ Members[u][i] = u
    BY <2>1 DEF ToSet
  <2>3. FrameUses(Top, 0, u) # {}
    BY <1>6, <2>2 DEF Entries
  <2>4. FU(Frames, n, u) # {}
    <3>1. MomentAbove(Frames, n) = 0
      BY <1>3 DEF MomentAbove
    <3> QED
      BY <1>3, <2>3, <3>1 DEF FU
  <2>5. n \in 1 .. Len(Frames)
    BY <1>2, <1>3
  <2> QED
    BY <1>3, <1>4, <2>4, <2>5, UsedIsMapped
<1>8. Rooted(mapped')
  <2>1. SUFFICES ASSUME NEW ts \in SUBSET mapped', ts # {}
                 PROVE  \E x \in ts : \A v \in ts : x \notin ToSet(Members[v])
    BY DEF Rooted
  <2>2. CASE u \in ts
    <3>1. \A v \in ts : v \in mapped \/ v = u
      BY <1>1 DEF u
    <3> QED
      BY <1>5, <1>7, <2>2, <3>1
  <2>3. CASE u \notin ts
    <3>1. ts \in SUBSET mapped
      BY <1>1, <2>3 DEF u
    <3> QED
      BY <2>1, <3>1 DEF CountInv, Rooted
  <2> QED
    BY <2>2, <2>3
<1>9. /\ NotYet(Frames', mapped')
      /\ \/ UNCHANGED clients /\ StaleUnused(Frames')
         \/ \A j \in 1 .. Len(Frames') : ~Frames'[j].stale
  <2>1. ASSUME NEW j \in 1 .. n - 1, Frames[j].entered,
               \A i \in j .. n : Frames[i].op = "attach" /\ ~Frames[i].throwing
        PROVE  Frames[j].type \notin mapped'
    <3>1. j \in 1 .. n
      OBVIOUS
    <3>2. Frames[j].type \notin mapped
      BY <1>1, <1>2, <2>1, <3>1, NotYetBelow
    <3>3. Frames[j].type # u
      BY <1>1, <1>2, <2>1, ConstructsOnce DEF u
    <3> QED
      BY <1>1, <3>2, <3>3 DEF u
  <2>2. PICK known : known = mapped'
    OBVIOUS
  <2> QED
    BY <1>1, <1>2, <2>1, <2>2, RestReturn
<1>10. ASSUME NEW t \in Types
       PROVE  /\ ref'[t] = Needs(Cardinality(ClientUses(t)'), Frames', t)
                             + Cardinality(MembersOf(mapped', t))
              /\ ref'[t] > 0 <=> t \in mapped'
  <2>1. PICK delta \in {-1, 1} : delta = 1
    OBVIOUS
  <2>2. Needs(Cardinality(ClientUses(t)'), Frames', t) + Cardinality(FrameUses(Top, 0, t))
           + (IF Top.op = "detach" /\ ~Top.entered /\ Top.type = t THEN 1 ELSE 0)
         = Needs(Cardinality(ClientUses(t)), Frames, t)
           + (IF Top.op = "attach" /\ Top.type = t THEN 1 ELSE 0)
    BY <1>1, <2>1, NeedsReturn
  <2>3. /\ Cardinality(Entries(Members[u], t)) \in Nat
        /\ Cardinality(MembersOf(mapped', t))
             = Cardinality(MembersOf(mapped, t)) + Cardinality(Entries(Members[u], t))
    <3>1. mapped \in SUBSET Types /\ u \in Types \ mapped
      BY <1>3, <1>4
    <3> QED
      BY <1>1, <1>3, <3>1, MembersCount DEF u
  <2>4. ref[t] \in Nat /\ Cardinality(MembersOf(mapped, t)) \in Nat
        /\ ref[t] = Needs(Cardinality(ClientUses(t)), Frames, t) + Cardinality(MembersOf(mapped, t))
        /\ (ref[t] > 0 <=> t \in mapped)
        /\ Needs(Cardinality(ClientUses(t)), Frames, t) \in Int
    BY NeedsFacts
  <2>5. Needs(Cardinality(ClientUses(t)'), Frames', t) \in Int
    BY NeedsNext
  <2>6. Needs(Cardinality(ClientUses(t)'), Frames', t) + Cardinality(Entries(Members[u], t))
          = Needs(Cardinality(ClientUses(t)), Frames, t) + (IF u = t THEN 1 ELSE 0)
    <3>1. FrameUses(Top, 0, t) = Entries(Members[u], t)
      BY <1>6 DEF u
    <3> QED
      BY <1>1, <2>2, <2>3, <2>5, <3>1 DEF u
  <2>7. ref'[t] = ref[t] + (IF u = t THEN 1 ELSE 0)
    <3>1. CASE u = t
      BY <1>1, <1>3, <1>4, <1>5, <3>1 DEF u
    <3>2. CASE u # t
      BY <1>1, <1>3, <2>4, <3>2 DEF u
    <3> QED
      BY <3>1, <3>2
  <2>8. ref'[t] = Needs(Cardinality(ClientUses(t)'), Frames', t) + Cardinality(MembersOf(mapped', t))
    BY <2>3, <2>4, <2>5, <2>6, <2>7
  <2>9. ref'[t] > 0 <=> t \in mapped'
    <3>1. CASE u = t
      BY <1>1, <2>4, <2>7, <3>1 DEF u
    <3>2. CASE u # t
      BY <1>1, <2>4, <2>7, <3>2 DEF u
    <3> QED
      BY <3>1, <3>2
  <2> QED
    BY <2>8, <2>9
<1>11. mapped' \subseteq Types
  BY <1>1, <1>3 DEF u
<1> QED
  BY <1>1, <1>8, <1>9, <1>10, <1>11, CountNext

\* The last reference has gone: the instance leaves the map, and its destructor
\* will detach its members.
LEMMA DestroysKeepsCount ==
  ASSUME BaseInv, BaseInv', Shape(Frames), CountInv, DetachDestroys
  PROVE  CountInv'
<1> DEFINE u == Top.type
<1>1. /\ Running /\ Top.op = "detach" /\ ~Top.entered /\ u \in mapped /\ ref[u] <= 1
      /\ stack' = <<Entered(Top, Destruction(u))>> \o Tail(stack)
      /\ ref' = [ref EXCEPT ![u] = 0] /\ mapped' = mapped \ {u}
      /\ UNCHANGED <<program, clients>>
  BY DEF DetachDestroys, Entering, Enter, Entered, LastReference
<1>2. /\ Top \in FrameType /\ u \in Types /\ program \in Programs
      /\ ref \in [Types -> Nat] /\ mapped \subseteq Types
  BY <1>1, TopShape, FrameParts DEF BaseInv, TypeOK
<1>3. Destruction(u) \in Seq(CallType)
  BY <1>2, BodiesTyped
<1>4. PICK g \in FrameType : g = Entered(Top, Destruction(u))
  BY <1>2, <1>3, FramesTyped
<1>5. /\ g.op = Top.op /\ g.type = Top.type /\ g.keep = Top.keep /\ g.entered
      /\ g.stale = Top.stale
  BY <1>2, <1>4 DEF FrameType, Entered
<1>6. ~Top.stale /\ ~Top.throwing /\ Top.held = <<>>
  BY <1>1, IdleTop
<1>7. \A t : FrameUses(g, 0, t) = Entries(Members[u], t)
  BY <1>2, <1>4, <1>6, DestructionUses
<1>8. ~Constructs(g) /\ stack' = <<g>> \o Tail(stack)
  BY <1>1, <1>4, <1>5 DEF Constructs
<1>9. NotYet(Frames', mapped')
  <2>1. PICK known \in SUBSET mapped : known = mapped'
    BY <1>1
  <2>2. NotYet(Frames', known)
    BY <1>1, <1>5, <1>8, NotYetTop DEF CountInv
  <2> QED
    BY <2>1, <2>2
<1>10. StaleUnused(Frames')
  BY <1>1, <1>5, <1>8, StaleTop DEF CountInv
<1>11. Rooted(mapped')
  BY <1>1 DEF CountInv, Rooted
<1> HIDE DEF u
<1>12. ASSUME NEW t \in Types
       PROVE  /\ ref'[t] = Needs(Cardinality(ClientUses(t)'), Frames', t)
                             + Cardinality(MembersOf(mapped', t))
              /\ ref'[t] > 0 <=> t \in mapped'
  <2>1. PICK k \in Nat : k = Cardinality(ClientUses(t)) /\ k = Cardinality(ClientUses(t)')
    BY <1>1, CountFacts DEF ClientUses
  <2>2. Needs(k, Frames', t) + 0
           + (IF Top.op = "detach" /\ ~Top.entered /\ Top.type = t THEN 1 ELSE 0)
         = Needs(k, Frames, t) + Cardinality(FrameUses(g, 0, t))
    <3>1. Cardinality(FrameUses(Top, 0, t)) = 0
      BY <1>1, IdleTop
    <3> QED
      BY <1>1, <1>5, <1>8, <3>1, NeedsTop
  <2>3. /\ Cardinality(Entries(Members[u], t)) \in Nat
        /\ Cardinality(MembersOf(mapped', t)) \in Nat
        /\ Cardinality(MembersOf(mapped, t))
             = Cardinality(MembersOf(mapped', t)) + Cardinality(Entries(Members[u], t))
    <3>1. PICK S \in SUBSET Types : S = mapped'
      BY <1>1, <1>2
    <3>2. u \in Types \ S /\ mapped = S \cup {u}
      BY <1>1, <1>2, <3>1 DEF u
    <3>3. /\ Cardinality(Entries(Members[u], t)) \in Nat
          /\ Cardinality(MembersOf(S, t)) \in Nat
          /\ Cardinality(MembersOf(S \cup {u}, t))
               = Cardinality(MembersOf(S, t)) + Cardinality(Entries(Members[u], t))
      BY <1>2, <3>2, MembersCount
    <3> QED
      BY <3>1, <3>2, <3>3
  <2>4. ref[t] \in Nat /\ Cardinality(MembersOf(mapped, t)) \in Nat
        /\ ref[t] = Needs(k, Frames, t) + Cardinality(MembersOf(mapped, t))
        /\ (ref[t] > 0 <=> t \in mapped)
        /\ Needs(k, Frames, t) \in Int
    BY <2>1, NeedsFacts
  <2>5. Needs(k, Frames', t) \in Int
    BY <2>1, NeedsNext
  <2>6. Needs(k, Frames', t) + (IF u = t THEN 1 ELSE 0)
          = Needs(k, Frames, t) + Cardinality(Entries(Members[u], t))
    <3>1. FrameUses(g, 0, t) = Entries(Members[u], t)
      BY <1>7 DEF u
    <3> QED
      BY <1>1, <2>2, <2>5, <3>1 DEF u
  <2>7. ref'[t] = ref[t] - (IF u = t THEN 1 ELSE 0)
    <3>1. CASE u = t
      <4>1. ref[t] = 1
        BY <1>1, <2>4, <3>1 DEF u
      <4>2. ref'[t] = 0
        BY <1>1, <1>2, <3>1 DEF u
      <4> QED
        BY <3>1, <4>1, <4>2
    <3>2. CASE u # t
      BY <1>1, <1>2, <2>4, <3>2 DEF u
    <3> QED
      BY <3>1, <3>2
  <2>8. ref'[t] = Needs(k, Frames', t) + Cardinality(MembersOf(mapped', t))
    BY <2>3, <2>4, <2>5, <2>6, <2>7
  <2>9. ref'[t] > 0 <=> t \in mapped'
    <3>1. CASE u = t
      <4>1. ref'[t] = 0 /\ t \notin mapped'
        BY <1>1, <1>2, <3>1 DEF u
      <4> QED
        BY <4>1
    <3>2. CASE u # t
      BY <1>1, <2>4, <2>7, <3>2 DEF u
    <3> QED
      BY <3>1, <3>2
  <2> QED
    BY <2>1, <2>8, <2>9
<1>13. mapped' \subseteq Types
  BY <1>1, <1>2
<1> QED
  BY <1>1, <1>9, <1>10, <1>11, <1>12, <1>13, CountNext

\* A call on a deleted server means that nothing is used any more, and that
\* there are no singletons.
LEMMA StaleIsEmpty ==
  ASSUME BaseInv, CountInv, NEW n, n = Len(Frames), n > 0, Frames[n].stale,
         \A t \in Types : FU(Frames, n, t) = {} /\ NextUse(Frames, t) = 0
  PROVE  mapped = {}
<1>1. Frames \in Seq(FrameType) /\ n \in Nat /\ n \in 1 .. n /\ mapped \subseteq Types
  BY StackFacts DEF BaseInv, TypeOK
<1>2. ASSUME NEW t \in Types
      PROVE  /\ Cardinality(ClientUses(t)) = LastUse(Frames, t)
             /\ \A i \in 1 .. n : FU(Frames, i, t) = {}
  <2>1. /\ Cardinality(ClientUses(t)) = LastUse(Frames, t)
        /\ \A i \in 1 .. n - 1 : FU(Frames, i, t) = {}
    BY <1>1 DEF CountInv, StaleUnused, FU
  <2>2. FU(Frames, n, t) = {}
    OBVIOUS
  <2>3. ASSUME NEW i \in 1 .. n PROVE i = n \/ i \in 1 .. n - 1
    BY <1>1
  <2> QED
    BY <2>1, <2>2, <2>3
<1>3. ASSUME NEW t \in Types PROVE ref[t] = Cardinality(MemberUses(t))
  <2>1. CallUses(Frames, t) = {}
    BY <1>2 DEF CallUses, FU
  <2>2. Cardinality(CallUses(Frames, t)) = 0
    BY <2>1, FS_EmptySet
  <2>3. Needs(Cardinality(ClientUses(t)), Frames, t) = 0
    <3>1. PICK k \in Nat : k = Cardinality(ClientUses(t)) /\ k = LastUse(Frames, t)
      BY <1>2, CountFacts
    <3> QED
      BY <2>2, <3>1 DEF Needs
  <2>4. PICK k \in Nat : k = Cardinality(MemberUses(t))
    BY CountFacts
  <2> QED
    BY <2>3, <2>4 DEF CountInv, Counted
<1>4. SUFFICES ASSUME mapped # {} PROVE FALSE
  OBVIOUS
<1>5. PICK u \in mapped : \A v \in mapped : u \notin ToSet(Members[v])
  BY <1>4 DEF CountInv, Rooted
<1>6. MemberUses(u) = {}
  BY <1>5 DEF MemberUses, Entries, ToSet
<1>7. ref[u] = 0
  BY <1>1, <1>3, <1>6, FS_EmptySet
<1> QED
  BY <1>1, <1>7 DEF CountInv, Counted

\* A destructor that is about to return uses nothing.
LEMMA LastOfDetach ==
  ASSUME BaseInv, Shape(Frames), InBody("detach"), Top.todo = <<>>
  PROVE  /\ Running /\ Top.op = "detach" /\ Top.entered /\ Top.held = <<>> /\ ~Top.throwing
         /\ \A t : FrameUses(Top, 0, t) = {} /\ NextUse(Frames, t) = 0
         /\ \A t : FU(Frames, Len(Frames), t) = {}
<1>1. /\ Running /\ Top.op = "detach" /\ Top.entered
  BY DEF InBody
<1>2. /\ Destructs(Top) /\ Top = Frames[Len(Frames)]
  BY <1>1, TopShape DEF OwnShape
<1>3. Top.held = <<>> /\ ~Top.throwing
  BY <1>2 DEF Destructs
<1>4. DOMAIN Top.held = {} /\ DOMAIN Top.todo = {}
  BY <1>3
<1>5. ASSUME NEW t, NEW moment PROVE FrameUses(Top, moment, t) = {}
  BY <1>4 DEF FrameUses, Entries
<1>6. ASSUME NEW t PROVE NextUse(Frames, t) = 0
  BY <1>1, <1>2 DEF NextUse
<1> QED
  BY <1>1, <1>2, <1>3, <1>5, <1>6 DEF FU

\* If there are no singletons, nothing is used.
LEMMA EmptyIsUnused ==
  ASSUME BaseInv, CountInv, mapped = {}, NEW t \in Types, NextUse(Frames, t) = 0
  PROVE  /\ ref[t] = 0
         /\ Cardinality(ClientUses(t)) = LastUse(Frames, t)
         /\ \A i \in 1 .. Len(Frames) : FU(Frames, i, t) = {}
<1>1. ref[t] = 0
  BY NeedsFacts
<1>2. PICK k \in Nat, c \in Nat, m \in Nat, l \in Nat :
        /\ k = Cardinality(ClientUses(t)) /\ c = Cardinality(CallUses(Frames, t))
        /\ m = Cardinality(MemberUses(t)) /\ l = LastUse(Frames, t) /\ k >= l
  BY CountFacts
<1>3. 0 = (k + c + 0 - l) + m
  BY <1>1, <1>2 DEF CountInv, Counted, Needs
<1>4. k = l /\ c = 0
  <2>1. k >= l
    BY <1>2
  <2> QED
    BY <1>3, <2>1
<1>5. CallUses(Frames, t) = {}
  BY <1>2, <1>4, CountFacts, FS_EmptySet
<1>6. ASSUME NEW i \in 1 .. Len(Frames), FU(Frames, i, t) # {} PROVE FALSE
  <2>1. PICK e : e \in FU(Frames, i, t)
    BY <1>6
  <2>2. <<i, e>> \in CallUses(Frames, t)
    BY <2>1 DEF CallUses, FU
  <2> QED
    BY <1>5, <2>2
<1> QED
  BY <1>1, <1>2, <1>4, <1>6

LEMMA StaleReturnsEmpty ==
  ASSUME BaseInv, Shape(Frames), CountInv, InBody("detach"), Top.todo = <<>>, Top.stale
  PROVE  mapped = {}
<1>1. PICK n : n = Len(Frames)
  OBVIOUS
<1>2. n > 0 /\ Frames[n].stale
  BY <1>1, LastOfDetach, TopShape
<1>3. \A t \in Types : FU(Frames, n, t) = {} /\ NextUse(Frames, t) = 0
  BY <1>1, LastOfDetach
<1> QED
  BY <1>1, <1>2, <1>3, StaleIsEmpty

\* So a destructor deletes the server only if there are no singletons, or it is
\* gone already: what it empties is empty.
LEMMA DetachReturnsAs ==
  ASSUME BaseInv, Shape(Frames), CountInv, DetachReturns
  PROVE  /\ Running /\ Top.op = "detach" /\ Top.entered
         /\ mapped' = mapped /\ mapped \subseteq Types /\ UNCHANGED program
         /\ \A t \in Types : ref'[t] = ref[t]
         /\ \/ Return(Staled(stack), -1) /\ ~server' /\ mapped = {}
            \/ Return(stack, -1) /\ UNCHANGED server /\ (Top.stale \/ mapped # {})
<1>1. InBody("detach") /\ Top.todo = <<>> /\ UNCHANGED program
  BY DEF DetachReturns
<1>2. /\ Running /\ Top.op = "detach" /\ Top.entered /\ \A t : NextUse(Frames, t) = 0
  BY <1>1, LastOfDetach
<1>3. PICK empty \in BOOLEAN : (Top.stale \/ empty = (mapped = {})) /\ ServerDeletedIf(empty)
  BY DEF DetachReturns
<1>4. mapped \subseteq Types
  BY DEF BaseInv, TypeOK
<1>5. CASE empty
  <2>1. mapped = {}
    BY <1>1, <1>3, <1>5, StaleReturnsEmpty
  <2>2. /\ mapped' = {} /\ ref' = [t \in Types |-> 0] /\ ~server'
        /\ Return(Staled(stack), -1)
    BY <1>3, <1>5 DEF ServerDeletedIf, Staled
  <2>3. \A t \in Types : ref'[t] = ref[t]
    BY <1>2, <2>1, <2>2, EmptyIsUnused
  <2> QED
    BY <1>1, <1>2, <1>4, <2>1, <2>2, <2>3
<1>6. CASE ~empty
  <2>1. UNCHANGED <<server, mapped, ref>> /\ Return(stack, -1)
    BY <1>3, <1>6 DEF ServerDeletedIf
  <2> QED
    BY <1>1, <1>2, <1>3, <1>4, <1>6, <2>1
<1> QED
  BY <1>5, <1>6

LEMMA DetachReturnsKeepsCount ==
  ASSUME BaseInv, BaseInv', Shape(Frames), CountInv, DetachReturns
  PROVE  CountInv'
<1>1. InBody("detach") /\ Top.todo = <<>> /\ UNCHANGED program
  BY DEF DetachReturns
<1>2. /\ Running /\ Top.op = "detach" /\ Top.entered
      /\ \A t : FrameUses(Top, 0, t) = {} /\ NextUse(Frames, t) = 0
  BY <1>1, LastOfDetach
<1>5. /\ mapped' = mapped /\ mapped \subseteq Types
      /\ \A t \in Types : ref'[t] = ref[t]
  BY DetachReturnsAs
<1>6. PICK delta \in {-1, 1} : delta = -1
  OBVIOUS
<1>7. PICK frames \in {stack, Staled(stack)} :
        Return(frames, delta) /\ (frames # stack => mapped = {})
  BY <1>6, DetachReturnsAs
<1>8. /\ NotYet(Frames', mapped')
      /\ \/ UNCHANGED clients /\ StaleUnused(Frames')
         \/ \A j \in 1 .. Len(Frames') : ~Frames'[j].stale
  <2>1. PICK n \in Nat : n = Len(stack) /\ n = Len(Frames)
    BY <1>2, TopShape
  <2>2. ASSUME NEW j \in 1 .. n - 1, Frames[j].entered,
               \A i \in j .. n : Frames[i].op = "attach" /\ ~Frames[i].throwing
        PROVE  Frames[j].type \notin mapped'
    <3>1. j \in 1 .. n
      BY <2>1
    <3> QED
      BY <1>2, <1>5, <2>1, <2>2, <3>1, NotYetBelow
  <2>3. ASSUME frames # stack, NEW t \in Types
        PROVE  /\ Cardinality(ClientUses(t)) = LastUse(Frames, t)
               /\ \A i \in 1 .. n - 1 : FU(Frames, i, t) = {}
    <3>1. /\ Cardinality(ClientUses(t)) = LastUse(Frames, t)
          /\ \A i \in 1 .. n : FU(Frames, i, t) = {}
      BY <1>2, <1>7, <2>1, <2>3, EmptyIsUnused
    <3> QED
      BY <2>1, <3>1
  <2>4. PICK known : known = mapped'
    OBVIOUS
  <2>5. frames # stack => /\ Top.op = "detach"
                          /\ \A t \in Types :
                               /\ Cardinality(ClientUses(t)) = LastUse(Frames, t)
                               /\ \A i \in 1 .. n - 1 : FU(Frames, i, t) = {}
    BY <1>2, <2>3
  <2>6. \A j \in 1 .. n - 1 :
          (\A i \in j .. n : Frames[i].op = "attach" /\ ~Frames[i].throwing) /\ Frames[j].entered
          => Frames[j].type \notin known
    BY <2>2, <2>4
  <2>7. NotYet(Frames', known)
    BY <1>2, <1>7, <2>1, <2>5, <2>6, RestReturn
  <2>8. \/ UNCHANGED clients /\ StaleUnused(Frames')
        \/ \A j \in 1 .. Len(Frames') : ~Frames'[j].stale
    BY <1>2, <1>7, <2>1, <2>5, <2>6, RestReturn
  <2> QED
    BY <2>4, <2>7, <2>8
<1>9. ASSUME NEW t \in Types
      PROVE  Needs(Cardinality(ClientUses(t)'), Frames', t)
               = Needs(Cardinality(ClientUses(t)), Frames, t)
  <2>1. Cardinality(FrameUses(Top, 0, t)) = 0
    BY <1>2, FS_EmptySet
  <2>2. Needs(Cardinality(ClientUses(t)'), Frames', t) + 0
           + (IF Top.op = "detach" /\ ~Top.entered /\ Top.type = t THEN 1 ELSE 0)
         = Needs(Cardinality(ClientUses(t)), Frames, t)
           + (IF Top.op = "attach" /\ Top.type = t THEN 1 ELSE 0)
    BY <1>2, <1>6, <1>7, <2>1, NeedsReturn
  <2>3. Needs(Cardinality(ClientUses(t)'), Frames', t) \in Int
        /\ Needs(Cardinality(ClientUses(t)), Frames, t) \in Int
    BY NeedsNext, NeedsFacts
  <2> QED
    BY <1>2, <2>2, <2>3
<1>10. ASSUME NEW t \in Types
       PROVE  /\ ref'[t] = Needs(Cardinality(ClientUses(t)'), Frames', t)
                             + Cardinality(MembersOf(mapped', t))
              /\ ref'[t] > 0 <=> t \in mapped'
  BY <1>5, <1>9, NeedsFacts
<1>11. Rooted(mapped')
  BY <1>5 DEF CountInv
<1> QED
  BY <1>1, <1>5, <1>8, <1>10, <1>11, CountNext

LEMMA ProgramSame ==
  ASSUME [Next]_vars
  PROVE  UNCHANGED program
  BY DEF Next, Step, BeginAttach, BeginDetach, AttachFound, AttachCreates, NextCall,
         AttachInserts, AttachInsertsStale, ConstructorThrows, ExceptionLeaves,
         DestructorThrows, DetachKeeps, DetachDestroys, DetachMissing, DetachReturns, DetachDies,
         vars

LEMMA EndsKeepsCount ==
  ASSUME BaseInv, CountInv,
         UNCHANGED <<program, clients, server, mapped, ref, live, holder, stack>>
  PROVE  CountInv'
<1>1. Frames' = Frames
  BY DEF Frames
<1>2. /\ \A t \in Types : \A n \in Nat : Needs(n, Frames', t) = Needs(n, Frames, t)
      /\ NotYet(Frames', mapped) /\ StaleUnused(Frames')
  BY <1>1 DEF CountInv
<1> QED
  BY <1>2, KeepsCount

LEMMA StepKeepsCount ==
  ASSUME BaseInv, BaseInv', Lasting, Shape(Frames), CountInv, [Next]_vars
  PROVE  CountInv'
<1>1. CASE \E th \in Threads, t \in Types : BeginAttach(th, t) \/ BeginDetach(th, t)
  BY <1>1, BeginKeepsCount
<1>2. CASE AttachFound \/ DetachKeeps
  BY <1>2, KnownKeepsCount
<1>3. CASE AttachCreates
  BY <1>3, CreatesKeepsCount
<1>4. CASE NextCall
  BY <1>4, CallKeepsCount
<1>5. CASE AttachInserts
  BY <1>5, InsertsKeepsCount
<1>6. CASE AttachInsertsStale
  BY <1>6, InsertsOnServer DEF AttachInsertsStale
<1>7. CASE ConstructorThrows
  BY <1>7, ThrowsKeepsCount
<1>8. CASE ExceptionLeaves
  BY <1>8, LeavesKeepsCount
<1>9. CASE DetachDestroys
  BY <1>9, DestroysKeepsCount
<1>10. CASE DetachReturns
  BY <1>10, DetachReturnsKeepsCount
<1>11. CASE DestructorThrows \/ DetachMissing \/ DetachDies \/ UNCHANGED vars
  <2>1. UNCHANGED <<program, clients, server, mapped, ref, live, holder, stack>>
    BY <1>11 DEF DestructorThrows, DetachMissing, DetachDies, vars
  <2> QED
    BY <2>1, EndsKeepsCount
<1> QED
  BY <1>1, <1>2, <1>3, <1>4, <1>5, <1>6, <1>7, <1>8, <1>9, <1>10, <1>11 DEF Next, Step

-----------------------------------------------------------------------------
(* Types that do not use themselves: one instance.                           *)

\* The calls on the stack are of different types.
LEMMA DifferentTypes ==
  ASSUME BaseInv, Acyclic, Shape(Frames), NEW j \in 1 .. Len(Frames), NEW i \in 1 .. j - 1
  PROVE  Frames[i].type # Frames[j].type
<1>1. /\ Frames \in Seq(FrameType) /\ Len(Frames) \in Nat
      /\ \A k \in 1 .. Len(Frames) : Frames[k] \in FrameType
  BY StackFacts DEF BaseInv
<1>2. ASSUME NEW k \in 1 .. Len(Frames) - 1 PROVE Frames[k + 1].type \in Uses(Frames[k].type)
  BY <1>2 DEF Shape, CallShape
<1> DEFINE ts == {Frames[k].type : k \in i .. j}
<1>3. ts \in SUBSET Types
  <2>1. ASSUME NEW k \in i .. j PROVE Frames[k].type \in Types
    <3>1. k \in 1 .. Len(Frames)
      BY <1>1
    <3> QED
      BY <1>1, <3>1, FrameParts
  <2> QED
    BY <2>1
<1>4. Frames[i].type \in ts /\ ts # {}
  <2>1. i \in i .. j
    BY <1>1
  <2> QED
    BY <2>1
<1>5. PICK k \in i .. j : Uses(Frames[k].type) \cap ts = {}
  <2>1. PICK t \in ts : Uses(t) \cap ts = {}
    <3> HIDE DEF ts
    <3> QED
      BY <1>3, <1>4 DEF Acyclic
  <2>2. PICK k \in i .. j : t = Frames[k].type
    OBVIOUS
  <2> QED
    BY <2>1, <2>2
<1>6. SUFFICES ASSUME Frames[i].type = Frames[j].type PROVE FALSE
  OBVIOUS
<1>7. CASE k # j
  <2>1. k \in 1 .. Len(Frames) - 1 /\ k + 1 \in i .. j
    BY <1>1, <1>7
  <2> QED
    BY <1>2, <1>5, <2>1
<1>8. CASE k = j
  <2>1. i \in 1 .. Len(Frames) - 1 /\ i + 1 \in i .. j
    BY <1>1
  <2>2. Frames[i + 1].type \in Uses(Frames[k].type)
    BY <1>2, <1>6, <1>8, <2>1
  <2> QED
    BY <1>5, <2>1, <2>2
<1> QED
  BY <1>7, <1>8

\* Only the innermost call can be destroying an instance of its type.
LEMMA DyingOfTop ==
  ASSUME BaseInv, Running, Acyclic, Shape(Frames)
  PROVE  Dying(Frames, Top.type)
           = IF Top.op = "detach" /\ Top.entered THEN {Len(stack)} ELSE {}
<1>1. /\ Len(Frames) = Len(stack) /\ Top = Frames[Len(stack)] /\ Len(stack) \in Nat \ {0}
  BY TopFacts
<1>2. ASSUME NEW i \in 1 .. Len(stack) - 1 PROVE ~Destroyed(Frames[i], Top.type)
  <2>1. Len(stack) \in 1 .. Len(Frames)
    BY <1>1
  <2> QED
    BY <1>1, <2>1, DifferentTypes DEF Destroyed
<1>3. ASSUME NEW i \in 1 .. Len(stack) PROVE i = Len(stack) \/ i \in 1 .. Len(stack) - 1
  BY <1>1
<1>4. Len(stack) \in 1 .. Len(stack)
  BY <1>1
<1> QED
  BY <1>1, <1>2, <1>3, <1>4 DEF Dying, Destroyed

LEMMA TopNotDying ==
  ASSUME BaseInv, Running, ~Top.entered \/ Top.op = "attach", NEW t
  PROVE  Dying(Frames, t) \ {Len(stack)} = Dying(Frames, t)
<1>1. Top = Frames[Len(stack)]
  BY TopFacts
<1> QED
  BY <1>1 DEF Dying, Destroyed

LEMMA InstanceSame ==
  ASSUME OneInstance(Frames), UNCHANGED <<program, mapped, live>>,
         \A t \in Types : Dying(Frames', t) = Dying(Frames, t)
  PROVE  OneInstance(Frames)'
<1>1. Acyclic' = Acyclic
  BY DEF Acyclic, Uses, Members, DtorUses
<1>2. \A t \in Types : Dying(Frames, t)' = Dying(Frames, t)
  BY DEF Dying
<1> QED
  BY <1>1, <1>2 DEF OneInstance

\* The instance of one type, u, comes, goes, or leaves the map before it goes;
\* nothing changes for the others.
LEMMA InstanceNext ==
  ASSUME UNCHANGED program, NEW u \in Types,
         Acyclic => /\ u \in mapped' => Dying(Frames', u) = {}
                    /\ live'[u] = IF u \in mapped' \/ Dying(Frames', u) # {} THEN 1 ELSE 0,
         OneInstance(Frames),
         \A t \in Types \ {u} : /\ t \in mapped' <=> t \in mapped
                                /\ live'[t] = live[t] /\ Dying(Frames', t) = Dying(Frames, t)
  PROVE  OneInstance(Frames)'
<1>1. Acyclic' = Acyclic
  BY DEF Acyclic, Uses, Members, DtorUses
<1>2. \A t \in Types : Dying(Frames, t)' = Dying(Frames', t)
  BY DEF Dying
<1>3. ASSUME Acyclic, NEW t \in Types
      PROVE  /\ t \in mapped' => Dying(Frames', t) = {}
             /\ live'[t] = IF t \in mapped' \/ Dying(Frames', t) # {} THEN 1 ELSE 0
  <2>1. CASE t = u
    BY <1>3, <2>1
  <2>2. CASE t # u
    BY <1>3, <2>2 DEF OneInstance
  <2> QED
    BY <2>1, <2>2
<1> QED
  BY <1>1, <1>2, <1>3 DEF OneInstance

LEMMA InsertsOneInstance ==
  ASSUME BaseInv, Shape(Frames), CountInv, OneInstance(Frames), AttachInserts
  PROVE  OneInstance(Frames)'
<1> DEFINE u == Top.type
<1>1. /\ Running /\ Constructs(Top) /\ Top.op = "attach" /\ Top.entered /\ ~Top.throwing
      /\ Return(stack, 1) /\ UNCHANGED program
      /\ mapped' = mapped \cup {u} /\ live' = [live EXCEPT ![u] = @ + 1]
  BY DEF AttachInserts, Constructed, InBody, Constructs
<1>2. u \in Types /\ live \in [Types -> Nat] /\ stack # <<>>
  BY <1>1, TopFacts DEF BaseInv, TypeOK
<1>3. u \notin mapped
  <2>1. PICK n \in Nat \ {0} : n = Len(stack) /\ Top = Frames[n]
    BY <1>1, TopFacts
  <2>2. n \in 1 .. n /\ n .. n = {n}
    BY <2>1
  <2> QED
    BY <1>1, <2>1, <2>2, NotYetBelow
<1>4. \A t \in Types : Dying(Frames', t) = Dying(Frames, t)
  <2>1. PICK delta \in {-1, 1} : delta = 1
    OBVIOUS
  <2>2. \A t \in Types : Dying(Frames', t) = Dying(Frames, t) \ {Len(stack)}
    BY <1>1, <1>2, <2>1, ReturnKeeps
  <2> QED
    BY <1>1, <2>2, TopNotDying
<1>5. ASSUME Acyclic
      PROVE  /\ Dying(Frames', u) = {} /\ live'[u] = 1
  <2>1. Dying(Frames, u) = {}
    BY <1>1, <1>5, DyingOfTop
  <2>2. live[u] = 0
    BY <1>2, <1>3, <1>5, <2>1 DEF OneInstance
  <2> QED
    BY <1>1, <1>2, <1>4, <2>1, <2>2
<1>6. \A t \in Types \ {u} : /\ t \in mapped' <=> t \in mapped
                             /\ live'[t] = live[t] /\ Dying(Frames', t) = Dying(Frames, t)
  BY <1>1, <1>2, <1>4
<1> QED
  BY <1>1, <1>2, <1>5, <1>6, InstanceNext

LEMMA DestroysOneInstance ==
  ASSUME BaseInv, Shape(Frames), OneInstance(Frames), DetachDestroys
  PROVE  OneInstance(Frames)'
<1> DEFINE u == Top.type
<1>1. /\ Running /\ Top.op = "detach" /\ ~Top.entered /\ u \in mapped
      /\ stack' = <<Entered(Top, Destruction(u))>> \o Tail(stack)
      /\ mapped' = mapped \ {u} /\ UNCHANGED <<program, clients, live, holder>>
  BY DEF DetachDestroys, Entering, Enter, Entered
<1>2. u \in Types /\ Top \in FrameType /\ program \in Programs /\ stack # <<>>
      /\ Len(stack) \in Nat /\ Top = Frames[Len(stack)]
  BY <1>1, TopFacts DEF BaseInv
<1>3. Destruction(u) \in Seq(CallType)
  BY <1>2, BodiesTyped
<1>4. PICK g \in FrameType : g = Entered(Top, Destruction(u))
  BY <1>2, <1>3, FramesTyped
<1>5. g.op = Top.op /\ g.type = Top.type /\ g.entered
  BY <1>2, <1>4, SameKind
<1>6. \A t \in Types : Dying(Frames', t) = (Dying(Frames, t) \ {Len(stack)})
                         \cup (IF Destroyed(g, t) THEN {Len(stack)} ELSE {})
  BY <1>1, <1>2, <1>4, <1>5, GoesOnKeeps
<1>7. \A t \in Types : Dying(Frames', t)
                         = Dying(Frames, t) \cup (IF t = u THEN {Len(stack)} ELSE {})
  <2>1. \A t : Destroyed(g, t) <=> t = u
    BY <1>1, <1>5 DEF Destroyed
  <2>2. \A t : Dying(Frames, t) \ {Len(stack)} = Dying(Frames, t)
    BY <1>1, TopNotDying
  <2> QED
    BY <1>6, <2>1, <2>2
<1>8. Acyclic => u \notin mapped' /\ Dying(Frames', u) # {} /\ live'[u] = 1
  BY <1>1, <1>2, <1>7 DEF OneInstance
<1>9. \A t \in Types \ {u} : /\ t \in mapped' <=> t \in mapped
                             /\ live'[t] = live[t] /\ Dying(Frames', t) = Dying(Frames, t)
  BY <1>1, <1>7
<1> QED
  BY <1>1, <1>2, <1>8, <1>9, InstanceNext

LEMMA DetachReturnsOneInstance ==
  ASSUME BaseInv, Shape(Frames), CountInv, OneInstance(Frames), DetachReturns
  PROVE  OneInstance(Frames)'
<1> DEFINE u == Top.type
<1>1. /\ Running /\ Top.op = "detach" /\ Top.entered /\ mapped' = mapped /\ UNCHANGED program
  BY DetachReturnsAs
<1>2. PICK delta \in {-1, 1} : delta = -1
  OBVIOUS
<1>3. PICK frames \in {stack, Staled(stack)} : Return(frames, delta)
  BY <1>2, DetachReturnsAs
<1>4. u \in Types /\ live \in [Types -> Nat] /\ stack # <<>>
      /\ Top = Frames[Len(stack)] /\ Len(stack) \in Nat
      /\ live' = [live EXCEPT ![u] = @ - 1]
  BY <1>1, TopFacts DEF BaseInv, TypeOK, DetachReturns
<1>5. \A t \in Types : Dying(Frames', t) = Dying(Frames, t) \ {Len(stack)}
  BY <1>1, <1>2, <1>3, <1>4, ReturnKeeps
<1>6. ASSUME Acyclic PROVE u \notin mapped' /\ Dying(Frames', u) = {} /\ live'[u] = 0
  <2>1. Dying(Frames, u) = {Len(stack)}
    BY <1>1, <1>6, DyingOfTop
  <2>2. u \notin mapped /\ live[u] = 1
    BY <1>4, <1>6, <2>1 DEF OneInstance
  <2> QED
    BY <1>1, <1>4, <1>5, <2>1, <2>2
<1>7. ASSUME NEW t \in Types \ {u}
      PROVE  live'[t] = live[t] /\ Dying(Frames', t) = Dying(Frames, t)
  <2>1. Len(stack) \notin Dying(Frames, t)
    BY <1>4 DEF Dying, Destroyed
  <2> QED
    BY <1>4, <1>5, <2>1
<1> QED
  BY <1>1, <1>4, <1>6, <1>7, InstanceNext

LEMMA StepKeepsOneInstance ==
  ASSUME BaseInv, Shape(Frames), CountInv, OneInstance(Frames), [Next]_vars
  PROVE  OneInstance(Frames)'
<1>0. stack \in Seq(FrameType) /\ UNCHANGED program
  BY ProgramSame DEF BaseInv
<1>1. ASSUME NEW th \in Threads, NEW t \in Types, BeginAttach(th, t) \/ BeginDetach(th, t)
      PROVE  OneInstance(Frames)'
  <2>1. PICK op \in {"attach", "detach"} : stack' = <<Call(op, t, FALSE)>>
    BY <1>1 DEF BeginAttach, BeginDetach
  <2>2. PICK f \in FrameType : f = Call(op, t, FALSE) /\ ~f.entered
    BY CallTyped
  <2>3. Len(Frames') = 1 /\ Frames'[1] = f
    BY <2>1, <2>2, OneFrame DEF Frames
  <2>4. Frames = <<>> /\ UNCHANGED <<mapped, live>>
    BY <1>0, <1>1, StackFacts DEF BeginAttach, BeginDetach, BaseInv, TypeOK
  <2>5. \A v : Dying(Frames', v) = {} /\ Dying(Frames, v) = {}
    <3>1. 1 .. Len(Frames') = {1} /\ 1 .. Len(Frames) = {}
      BY <2>3, <2>4
    <3>2. \A v : ~Destroyed(Frames'[1], v)
      BY <2>2, <2>3 DEF Destroyed
    <3> QED
      BY <3>1, <3>2 DEF Dying
  <2> QED
    BY <1>0, <2>4, <2>5, InstanceSame
<1>2. CASE AttachFound \/ DetachKeeps
  <2>1. PICK delta \in {-1, 1} :
          /\ Running /\ ~Top.entered /\ Return(stack, delta) /\ UNCHANGED <<mapped, live>>
          /\ Top.op = (IF delta = 1 THEN "attach" ELSE "detach")
    BY <1>2 DEF AttachFound, DetachKeeps, Entering
  <2>2. \A v \in Types : Dying(Frames', v) = Dying(Frames, v) \ {Len(stack)}
    BY <2>1, ReturnKeeps DEF Running
  <2>3. \A v \in Types : Dying(Frames', v) = Dying(Frames, v)
    BY <2>1, <2>2, TopNotDying
  <2> QED
    BY <1>0, <2>1, <2>3, InstanceSame
<1>3. CASE AttachCreates \/ ConstructorThrows
  <2>1. /\ Running /\ Top.op = "attach" /\ UNCHANGED <<mapped, live, clients, holder>>
    BY <1>3 DEF AttachCreates, ConstructorThrows, Entering, Constructed, InBody
  <2>2. PICK g \in FrameType : g.op = Top.op /\ g.type = Top.type /\ stack' = <<g>> \o Tail(stack)
    <3>1. Top \in FrameType /\ Top.type \in Types /\ program \in Programs
      BY <2>1, TopFacts DEF BaseInv
    <3>2. CASE AttachCreates
      <4>1. Construction(Top.type) \in Seq(CallType)
        BY <3>1, BodiesTyped
      <4>2. stack' = <<Entered(Top, Construction(Top.type))>> \o Tail(stack)
        BY <3>2 DEF AttachCreates, Enter, Entered
      <4>3. Entered(Top, Construction(Top.type)) \in FrameType
        BY <3>1, <4>1, FramesTyped
      <4> QED
        BY <3>1, <4>2, <4>3, SameKind
    <3>3. CASE ConstructorThrows
      <4>1. stack' = <<Unwinding(Top)>> \o Tail(stack) /\ Unwinding(Top) \in FrameType
        BY <3>1, <3>3, FramesTyped, EmptySeq DEF ConstructorThrows
      <4> QED
        BY <3>1, <4>1, SameKind
    <3> QED
      BY <1>3, <3>2, <3>3
  <2>3. \A v \in Types : Dying(Frames', v) = (Dying(Frames, v) \ {Len(stack)})
                           \cup (IF Destroyed(g, v) THEN {Len(stack)} ELSE {})
    BY <2>1, <2>2, GoesOnKeeps DEF Running
  <2>4. \A v : ~Destroyed(g, v)
    BY <2>1, <2>2 DEF Destroyed
  <2>5. \A v \in Types : Dying(Frames', v) = Dying(Frames, v)
    BY <2>1, <2>3, <2>4, TopNotDying
  <2> QED
    BY <1>0, <2>1, <2>5, InstanceSame
<1>4. CASE NextCall
  BY <1>0, <1>4, CallKeeps, InstanceSame DEF NextCall
<1>5. CASE ExceptionLeaves
  BY <1>0, <1>5, LeavesKeeps, InstanceSame DEF ExceptionLeaves
<1>6. CASE AttachInserts
  BY <1>6, InsertsOneInstance
<1>7. CASE AttachInsertsStale
  BY <1>7, InsertsOnServer DEF AttachInsertsStale
<1>8. CASE DetachDestroys
  BY <1>8, DestroysOneInstance
<1>9. CASE DetachReturns
  BY <1>9, DetachReturnsOneInstance
<1>10. CASE DestructorThrows \/ DetachMissing \/ DetachDies \/ UNCHANGED vars
  <2>1. UNCHANGED <<mapped, live>> /\ Frames' = Frames
    BY <1>10 DEF DestructorThrows, DetachMissing, DetachDies, vars, Frames
  <2> QED
    BY <1>0, <2>1, InstanceSame
<1> QED
  BY <1>1, <1>2, <1>3, <1>4, <1>5, <1>6, <1>7, <1>8, <1>9, <1>10 DEF Next, Step

-----------------------------------------------------------------------------
(* Exceptions, and what would be undefined.                                  *)

LEMMA ThrowsNext ==
  ASSUME UNCHANGED program, undefined' /\ Quiet => AsksDeletedMap' /\ mapped' = {},
         \A ts \in SUBSET Types : Nothrow(ts) =>
           \A j \in 1 .. Len(Frames') : Frames'[j].throwing => Frames'[j].type \notin ts
  PROVE  ThrowsNot(Frames)'
<1>1. /\ Quiet' = Quiet
      /\ \A ts \in SUBSET Types : Nothrow(ts)' <=> Nothrow(ts)
  BY DEF Quiet, Nothrow, Throwing, Members, DtorUses
<1> QED
  BY <1>1 DEF ThrowsNot

\* What detach() looks for is in the map.
LEMMA DetachFinds ==
  ASSUME BaseInv, CountInv, Entering("detach")
  PROVE  Top.type \in mapped
<1> DEFINE u == Top.type
<1>1. /\ Running /\ Top.op = "detach" /\ ~Top.entered
  BY DEF Entering
<1>2. /\ u \in Types /\ Top = Frames[Len(stack)] /\ Len(stack) \in Nat \ {0} /\ Frames # <<>>
      /\ Len(Frames) = Len(stack)
  BY <1>1, TopFacts, StackFacts DEF BaseInv
<1>3. PICK k \in Nat, c \in Nat, l \in Nat, m \in Nat :
        /\ k = Cardinality(ClientUses(u)) /\ c = Cardinality(CallUses(Frames, u))
        /\ l = LastUse(Frames, u) /\ m = NextUse(Frames, u) /\ k >= l
  BY <1>2, CountFacts
<1>4. (k + c + m - l) > 0
  <2>1. CASE Len(stack) = 1
    <3>1. clients[holder][u] > 0 /\ holder \in Threads
      BY <1>1, <1>2, <2>1 DEF BaseInv, Bottom
    <3>2. k >= 1
      BY <1>2, <1>3, <3>1, ClientOf DEF BaseInv
    <3>3. l = 0
      BY <1>1, <1>2, <1>3, <2>1 DEF LastUse, Destroyed
    <3> QED
      BY <3>2, <3>3
  <2>2. CASE Len(stack) # 1
    <3>1. Len(Frames) > 1
      BY <1>2, <2>2
    <3>2. m = 1
      BY <1>1, <1>2, <1>3, <3>1 DEF NextUse
    <3>3. k >= l
      BY <1>3
    <3> QED
      BY <3>2, <3>3
  <2> QED
    BY <2>1, <2>2
<1>5. Needs(k, Frames, u) > 0
  BY <1>3, <1>4 DEF Needs
<1>6. ref[u] > 0
  BY <1>2, <1>3, <1>5, NeedsFacts
<1> QED
  BY <1>2, <1>6 DEF CountInv, Counted

\* The constructor that the innermost call has to do with, if it throws.
LEMMA CallerOfThrowing ==
  ASSUME BaseInv, Shape(Frames), Thrown, NEW n, n = Len(stack), n > 1
  PROVE  /\ stack[2] = Frames[n - 1] /\ Frames[n - 1] \in FrameType /\ ~Frames[n - 1].throwing
         /\ Frames[n - 1].op = "attach" => Top.type \in ToSet(Members[Frames[n - 1].type])
         /\ Frames[n - 1].op = "detach" => Top.type \in ToSet(DtorUses[Frames[n - 1].type])
<1> DEFINE c == Frames[n - 1]
<1>1. Running /\ Top.op = "attach"
  BY DEF Thrown, InBody
<1>2. /\ c \in FrameType /\ CallShape(c, Top.op, Top.type, Top.keep) /\ n \in Nat
      /\ stack \in Seq(FrameType) /\ program \in Programs
  BY <1>1, CallerShape, TopShape
<1>3. stack[2] = Frames[n - 1]
  <2>1. n - 1 \in 1 .. n
    BY <1>2
  <2>2. Frames[n - 1] = stack[n + 1 - (n - 1)]
    BY <1>2, <2>1, UpFacts DEF Frames
  <2>3. n + 1 - (n - 1) = 2
    BY <1>2
  <2> QED
    BY <2>2, <2>3
<1>4. ~c.throwing
  BY <1>1, <1>2 DEF CallShape
<1>5. ASSUME c.op = "attach" PROVE Top.type \in ToSet(Members[c.type])
  <2>1. Constructs(c)
    BY <1>2, <1>4, <1>5 DEF CallShape, Constructs
  <2>2. Len(c.held) < Len(Members[c.type]) /\ Top.type = Members[c.type][Len(c.held) + 1]
    BY <1>2, <2>1 DEF CallShape
  <2>3. PICK a \in Nat, b \in Nat : a = Len(c.held) /\ b = Len(Members[c.type])
                                    /\ DOMAIN Members[c.type] = 1 .. b
    BY <1>2, FrameParts, MemberUsed
  <2>4. a + 1 \in 1 .. b
    BY <2>2, <2>3
  <2> QED
    BY <2>2, <2>3, <2>4 DEF ToSet
<1>6. ASSUME c.op = "detach" PROVE Top.type \in ToSet(DtorUses[c.type])
  BY <1>1, <1>2, <1>6 DEF CallShape
<1> QED
  BY <1>2, <1>3, <1>4, <1>5, <1>6

\* How the calls look to the others: a call that returns leaves them as they
\* are, but for the server they run on.
Looks(f, g, stale) ==
  /\ f.op = g.op /\ f.type = g.type /\ f.entered = g.entered /\ f.throwing = g.throwing
  /\ f.stale = stale

LEMMA ReturnLooks ==
  ASSUME BaseInv, Running, Shape(Frames), NEW delta, NEW n, n = Len(stack),
         NEW frames \in {stack, Staled(stack)}, Return(frames, delta),
         frames = stack \/ Top.entered
  PROVE  /\ Len(Frames') = n - 1
         /\ \A j \in 1 .. n - 1 :
              Looks(Frames'[j], Frames[j], IF frames = stack THEN Frames[j].stale ELSE TRUE)
<1>1. stack \in Seq(FrameType) /\ n \in Nat \ {0} /\ stack # <<>>
      /\ frames \in Seq(FrameType) /\ Len(frames) = Len(stack)
  BY TopShape, FramesSame
<1>2. CASE n = 1
  <2>1. stack' = <<>>
    BY <1>1, <1>2, ReturnUp
  <2>2. Frames' = <<>> /\ 1 .. n - 1 = {}
    BY <1>2, <2>1, BottomNone
  <2> QED
    BY <1>2, <2>2
<1>3. CASE n # 1
  <2>1. Len(stack) > 1
    BY <1>1, <1>3
  <2> QED
    BY <2>1, ReturnCounts DEF Looks
<1> QED
  BY <1>2, <1>3

\* What the innermost call of one that has not returned looks like.
LEMMA BeginLooks ==
  ASSUME NEW th \in Threads, NEW t \in Types, BeginAttach(th, t) \/ BeginDetach(th, t)
  PROVE  /\ Len(Frames') = 1 /\ Frames'[1] \in FrameType
         /\ ~Frames'[1].entered /\ ~Frames'[1].throwing
<1>1. PICK op \in {"attach", "detach"} : stack' = <<Call(op, t, FALSE)>>
  BY DEF BeginAttach, BeginDetach
<1>2. PICK f \in FrameType : f = Call(op, t, FALSE) /\ ~f.entered /\ ~f.throwing
  BY CallTyped DEF Waits
<1>3. Len(Frames') = 1 /\ Frames'[1] = f
  BY <1>1, <1>2, OneFrame DEF Frames
<1> QED
  BY <1>2, <1>3

LEMMA EntersLooks ==
  ASSUME BaseInv, Shape(Frames), AttachCreates \/ DetachDestroys, NEW n, n = Len(stack)
  PROVE  /\ Running /\ ~Top.throwing /\ ~Top.stale
         /\ Len(Frames') = n /\ \A j \in 1 .. n - 1 : Frames'[j] = Frames[j]
         /\ Frames'[n].entered /\ ~Frames'[n].throwing /\ ~Frames'[n].stale
<1>1. PICK body : /\ Running /\ ~Top.entered /\ UNCHANGED <<clients, holder>>
                  /\ stack' = <<Entered(Top, body)>> \o Tail(stack) /\ body \in Seq(CallType)
  <2>1. Running /\ ~Top.entered /\ UNCHANGED <<clients, holder>>
    BY DEF AttachCreates, DetachDestroys, Entering
  <2>2. Top.type \in Types /\ program \in Programs
    BY <2>1, TopFacts DEF BaseInv
  <2> QED
    BY <2>1, <2>2, BodiesTyped DEF AttachCreates, DetachDestroys, Enter, Entered
<1>2. ~Top.throwing /\ ~Top.stale
  BY <1>1, IdleTop
<1>3. Top \in FrameType /\ stack # <<>> /\ Len(Frames) = n
  BY <1>1, TopFacts
<1>4. PICK g \in FrameType : g = Entered(Top, body)
  BY <1>1, <1>3, FramesTyped
<1>5. g.op = Top.op /\ g.type = Top.type /\ g.entered /\ ~g.throwing /\ ~g.stale
  BY <1>2, <1>3, <1>4 DEF FrameType, Entered
<1>6. TopIs(Frames, g, Frames')
  BY <1>1, <1>3, <1>4, <1>5, GoesOnKeeps
<1> QED
  BY <1>1, <1>2, <1>3, <1>5, <1>6 DEF TopIs

LEMMA ThrowsLooks ==
  ASSUME BaseInv, ConstructorThrows, NEW n, n = Len(stack)
  PROVE  /\ Running /\ Frames[n] = Top
         /\ Len(Frames') = n /\ \A j \in 1 .. n - 1 : Frames'[j] = Frames[j]
         /\ Frames'[n].type = Top.type /\ Frames'[n].entered /\ Frames'[n].throwing
         /\ Frames'[n].stale = Top.stale /\ Frames'[n].todo = Detaches(Top.held)
<1>1. /\ Running /\ Top.entered /\ UNCHANGED <<clients, holder>>
      /\ stack' = <<Unwinding(Top)>> \o Tail(stack)
  BY DEF ConstructorThrows, Constructed, InBody
<1>2. Top \in FrameType /\ stack # <<>> /\ Len(Frames) = n /\ Frames[n] = Top
  BY <1>1, TopFacts
<1>3. PICK g \in FrameType : g = Unwinding(Top)
  BY <1>2, FramesTyped, EmptySeq
<1>4. g.op = Top.op /\ g.type = Top.type /\ g.entered /\ g.throwing /\ g.stale = Top.stale
      /\ g.todo = Detaches(Top.held)
  BY <1>1, <1>2, <1>3 DEF FrameType, Unwinding
<1>5. TopIs(Frames, g, Frames')
  BY <1>1, <1>2, <1>3, <1>4, GoesOnKeeps
<1> QED
  BY <1>1, <1>2, <1>4, <1>5 DEF TopIs

LEMMA CallLooks ==
  ASSUME BaseInv, NextCall, NEW n, n = Len(stack)
  PROVE  /\ Running /\ n \in Nat \ {0} /\ Len(Frames) = n
         /\ Len(Frames') = n + 1
         /\ \A j \in 1 .. n : Looks(Frames'[j], Frames[j], Frames[j].stale)
         /\ ~Frames'[n + 1].entered /\ ~Frames'[n + 1].throwing /\ ~Frames'[n + 1].stale
<1>1. Running /\ Top.todo # <<>> /\ Pushed(Frames, Proceeds(Top), Head(Top.todo), Frames')
      /\ Head(Top.todo) \in CallType
  BY CallKeeps DEF NextCall
<1>2. Top \in FrameType /\ Len(Frames) = n /\ Frames[n] = Top /\ n \in Nat \ {0}
  BY <1>1, TopFacts
<1>3. PICK f : f = Head(Top.todo) /\ ~f.entered /\ ~f.throwing /\ ~f.stale
  BY <1>1, CallOfType DEF Waits
<1>4. PICK g : /\ g = Proceeds(Top) /\ g.op = Top.op /\ g.type = Top.type
               /\ g.entered = Top.entered /\ g.throwing = Top.throwing /\ g.stale = Top.stale
  <2>1. LET p == Proceeds(Top)
        IN  /\ p.op = Top.op /\ p.type = Top.type /\ p.entered = Top.entered
            /\ p.throwing = Top.throwing /\ p.stale = Top.stale
    BY <1>2 DEF FrameType, Proceeds
  <2> QED
    BY <2>1, Zenon
<1>5. /\ Len(Frames') = n + 1 /\ Frames'[n] = g /\ Frames'[n + 1] = f
      /\ \A j \in 1 .. n - 1 : Frames'[j] = Frames[j]
  BY <1>1, <1>2, <1>3, <1>4 DEF Pushed
<1>6. ASSUME NEW j \in 1 .. n PROVE Looks(Frames'[j], Frames[j], Frames[j].stale)
  <2>1. j = n \/ j \in 1 .. n - 1
    BY <1>2
  <2> QED
    BY <1>2, <1>4, <1>5, <2>1 DEF Looks
<1> QED
  BY <1>1, <1>2, <1>3, <1>5, <1>6

LEMMA LeavesLooks ==
  ASSUME BaseInv, ExceptionLeaves, NEW n, n = Len(stack)
  PROVE  /\ Running /\ n \in Nat \ {0} /\ Len(Frames) = n /\ Frames[n] = Top
         /\ Len(Frames') = n - 1
         /\ n > 1 => LET c == Frames[n - 1]
                         d == Frames'[n - 1]
                     IN  d.type = c.type /\ d.entered = c.entered /\ d.throwing
                         /\ d.stale = c.stale
         /\ \A j \in 1 .. n - 2 : Frames'[j] = Frames[j]
<1>1. Running
  BY DEF ExceptionLeaves, Thrown, InBody
<1>2. Len(Frames) = n /\ Frames[n] = Top /\ n \in Nat \ {0} /\ stack \in Seq(FrameType)
  BY <1>1, TopFacts DEF BaseInv
<1>3. CASE n = 1
  <2>1. Frames' = <<>>
    BY <1>3, LeavesKeeps, BottomNone
  <2> QED
    BY <1>1, <1>2, <1>3, <2>1
<1>4. CASE n # 1
  <2>1. n > 1 /\ n - 1 \in 1 .. n
    BY <1>2, <1>4
  <2>2. PICK c \in FrameType : c = Frames[n - 1]
    BY <1>2, <2>1, StackFacts
  <2>3. PICK d : /\ d = Unwinding(c) /\ d.type = c.type /\ d.entered = c.entered /\ d.throwing
                 /\ d.stale = c.stale
    <3>1. LET u == Unwinding(c)
          IN  u.type = c.type /\ u.entered = c.entered /\ u.throwing /\ u.stale = c.stale
      BY <2>2 DEF FrameType, Unwinding
    <3> QED
      BY <3>1, Zenon
  <2>4. Popped(Frames, d, Frames')
    BY <2>1, <2>2, <2>3, LeavesKeeps
  <2> QED
    BY <1>1, <1>2, <2>1, <2>2, <2>3, <2>4 DEF Popped
<1> QED
  BY <1>3, <1>4

LEMMA StepKeepsThrows ==
  ASSUME BaseInv, Shape(Frames), CountInv, ThrowsNot(Frames), [Next]_vars
  PROVE  ThrowsNot(Frames)'
<1>0. UNCHANGED program /\ stack \in Seq(FrameType)
  BY ProgramSame DEF BaseInv
<1>1. PICK n \in Nat : n = Len(stack) /\ n = Len(Frames) /\ (n > 0 => Top = Frames[n])
  BY <1>0, StackFacts
<1>2. ASSUME undefined', Quiet PROVE AsksDeletedMap' /\ mapped' = {}
  <2>0. CASE undefined
    <3>1. UNCHANGED <<stack, mapped>>
      BY <2>0 DEF Next, Step, BeginAttach, BeginDetach, Running, Entering, InBody, Constructed,
                  Thrown, AttachFound, AttachCreates, NextCall, AttachInserts, AttachInsertsStale,
                  ConstructorThrows, ExceptionLeaves, DestructorThrows, DetachKeeps,
                  DetachDestroys, DetachMissing, DetachReturns, DetachDies, vars
    <3>2. AsksDeletedMap /\ mapped = {}
      BY <1>2, <2>0 DEF ThrowsNot
    <3> QED
      BY <3>1, <3>2 DEF AsksDeletedMap, Top
  <2>1. CASE UNCHANGED undefined
    BY <1>2, <2>0, <2>1
  <2>5. CASE DetachDies
    <3>1. mapped = {}
      BY <2>5, StaleReturnsEmpty DEF DetachDies
    <3> QED
      BY <2>5, <3>1 DEF DetachDies, InBody, Running, AsksDeletedMap, Top
  <2>2. CASE AttachInsertsStale
    BY <2>2, InsertsOnServer DEF AttachInsertsStale
  <2>3. CASE DetachMissing
    BY <2>3, DetachFinds DEF DetachMissing
  <2>4. CASE DestructorThrows
    <3>1. Thrown /\ n > 1 /\ stack[2].op = "detach"
      BY <1>1, <2>4 DEF DestructorThrows
    <3>2. /\ Top.type \in ToSet(DtorUses[Frames[n - 1].type]) /\ Frames[n - 1] \in FrameType
          /\ Top.throwing /\ Top = Frames[n] /\ n \in 1 .. n
      BY <1>1, <3>1, CallerOfThrowing DEF Thrown
    <3>3. ASSUME NEW ts \in SUBSET Types, Nothrow(ts),
                 \A t \in Types : ToSet(DtorUses[t]) \subseteq ts
          PROVE  FALSE
      <4>1. Top.type \in ts
        BY <3>2, <3>3, FrameParts
      <4> QED
        BY <1>1, <3>2, <3>3, <4>1 DEF ThrowsNot
    <3> QED
      BY <1>2, <3>3 DEF Quiet
  <2> QED
    BY <2>1, <2>2, <2>3, <2>4, <2>5
    DEF Next, Step, BeginAttach, BeginDetach, AttachFound, AttachCreates, NextCall, AttachInserts,
        ConstructorThrows, ExceptionLeaves, DetachKeeps, DetachDestroys, DetachReturns, vars
<1>3. SUFFICES ASSUME NEW ts \in SUBSET Types, Nothrow(ts),
                      NEW j \in 1 .. Len(Frames'), Frames'[j].throwing
               PROVE  Frames'[j].type \notin ts
  BY <1>0, <1>2, ThrowsNext
<1>4. \A i \in 1 .. n : Frames[i].throwing => Frames[i].type \notin ts
  BY <1>1, <1>3 DEF ThrowsNot
<1>5. ASSUME NEW th \in Threads, NEW t \in Types, BeginAttach(th, t) \/ BeginDetach(th, t)
      PROVE  FALSE
  <2>1. Len(Frames') = 1 /\ ~Frames'[1].throwing
    BY <1>5, BeginLooks
  <2>2. j = 1
    BY <2>1
  <2> QED
    BY <1>3, <2>1, <2>2
<1>6. CASE AttachFound \/ DetachKeeps \/ AttachInserts \/ DetachReturns
  <2>1. PICK delta \in {-1, 1}, frames \in {stack, Staled(stack)} :
          Running /\ Return(frames, delta) /\ (frames = stack \/ Top.entered)
    <3>1. CASE DetachReturns
      BY <3>1, DetachReturnsAs
    <3>2. CASE ~DetachReturns
      BY <1>6, <3>2 DEF AttachFound, DetachKeeps, AttachInserts, Entering, Constructed, InBody
    <3> QED
      BY <3>1, <3>2
  <2>2. /\ Len(Frames') = n - 1
        /\ \A i \in 1 .. n - 1 :
             Looks(Frames'[i], Frames[i], IF frames = stack THEN Frames[i].stale ELSE TRUE)
    BY <1>1, <2>1, ReturnLooks
  <2>3. j \in 1 .. n - 1 /\ j \in 1 .. n
    BY <1>1, <2>2
  <2>4. Frames[j].throwing /\ Frames'[j].type = Frames[j].type
    BY <1>3, <2>2, <2>3 DEF Looks
  <2> QED
    BY <1>4, <2>3, <2>4
<1>7. CASE AttachCreates \/ DetachDestroys
  <2>1. /\ Len(Frames') = n /\ \A i \in 1 .. n - 1 : Frames'[i] = Frames[i]
        /\ ~Frames'[n].throwing
    BY <1>1, <1>7, EntersLooks
  <2>2. j \in 1 .. n - 1 /\ j \in 1 .. n
    BY <1>1, <1>3, <2>1
  <2> QED
    BY <1>3, <1>4, <2>1, <2>2
<1>8. CASE NextCall
  <2>1. /\ Len(Frames') = n + 1
        /\ \A i \in 1 .. n : Looks(Frames'[i], Frames[i], Frames[i].stale)
        /\ ~Frames'[n + 1].throwing
    BY <1>1, <1>8, CallLooks
  <2>2. j \in 1 .. n
    BY <1>1, <1>3, <2>1
  <2>3. Frames[j].throwing /\ Frames'[j].type = Frames[j].type
    BY <1>3, <2>1, <2>2 DEF Looks
  <2> QED
    BY <1>4, <2>2, <2>3
<1>9. CASE ConstructorThrows
  <2>1. /\ Len(Frames') = n /\ \A i \in 1 .. n - 1 : Frames'[i] = Frames[i]
        /\ Frames'[n].type = Top.type
    BY <1>1, <1>9, ThrowsLooks
  <2>2. CASE j = n
    <3>1. Top.type \in Throwing
      BY <1>9 DEF ConstructorThrows
    <3> QED
      BY <1>3, <2>1, <2>2, <3>1 DEF Nothrow
  <2>3. CASE j # n
    <3>1. j \in 1 .. n - 1 /\ j \in 1 .. n
      BY <1>1, <2>1, <2>3
    <3> QED
      BY <1>3, <1>4, <2>1, <3>1
  <2> QED
    BY <2>2, <2>3
<1>10. CASE ExceptionLeaves
  <2>1. /\ Len(Frames') = n - 1 /\ \A i \in 1 .. n - 2 : Frames'[i] = Frames[i]
        /\ n > 1 => Frames'[n - 1].type = Frames[n - 1].type
        /\ Frames[n] = Top /\ n \in Nat \ {0}
    BY <1>1, <1>10, LeavesLooks
  <2>2. n > 1 /\ j \in 1 .. n /\ n \in 1 .. n
    BY <1>1, <2>1
  <2>3. CASE j = n - 1
    <3>1. Thrown /\ Top.throwing /\ stack[2].op = "attach"
      BY <1>1, <1>10, <2>2 DEF ExceptionLeaves, Thrown
    <3>2. Top.type \in ToSet(Members[Frames[n - 1].type]) /\ Frames[n - 1].type \in Types
      BY <1>1, <2>2, <3>1, CallerOfThrowing, FrameParts
    <3>3. Top.type \notin ts
      BY <1>4, <2>1, <2>2, <3>1
    <3>4. Frames[n - 1].type \notin ts
      BY <1>3, <3>2, <3>3 DEF Nothrow
    <3> QED
      BY <2>1, <2>2, <2>3, <3>4
  <2>4. CASE j # n - 1
    <3>1. j \in 1 .. n - 2
      BY <1>1, <2>1, <2>4
    <3> QED
      BY <1>3, <1>4, <2>1, <2>2, <3>1
  <2> QED
    BY <2>3, <2>4
<1>11. CASE AttachInsertsStale
  BY <1>11, InsertsOnServer DEF AttachInsertsStale
<1>12. CASE DestructorThrows \/ DetachMissing \/ DetachDies \/ UNCHANGED vars
  <2>1. Frames' = Frames
    BY <1>12 DEF DestructorThrows, DetachMissing, DetachDies, vars, Frames
  <2> QED
    BY <1>1, <1>3, <1>4, <2>1
<1> QED
  BY <1>5, <1>6, <1>7, <1>8, <1>9, <1>10, <1>11, <1>12 DEF Next, Step

-----------------------------------------------------------------------------
(* The server.                                                               *)

LEMMA ServerNext ==
  ASSUME UNCHANGED program,
         OnServer(Frames') \/ mapped' # {} => server',
         (\A t \in Throwing : Members[t] # <<>>) =>
            (server' => OnServer(Frames') \/ mapped' # {}) /\ (Failed(Frames') => mapped' # {})
  PROVE  ServerThere(Frames)'
<1>1. (\A t \in Throwing : Members[t] # <<>>)' <=> (\A t \in Throwing : Members[t] # <<>>)
  BY DEF Throwing, Members
<1>2. OnServer(Frames)' = OnServer(Frames') /\ Failed(Frames)' = Failed(Frames')
  BY DEF OnServer, Failed
<1> QED
  BY <1>1, <1>2 DEF ServerThere

\* A call on a deleted server has been made on it.
LEMMA StaleBelow ==
  ASSUME BaseInv, Running, CountInv, Top.stale, NEW n, n = Len(stack), n > 1
  PROVE  Frames[n - 1].stale
<1>1. Len(Frames) = n /\ Top = Frames[n] /\ n \in Nat \ {0} /\ n \in 1 .. n
  BY TopFacts
<1> QED
  BY <1>1 DEF CountInv, StaleUnused

LEMMA LeavesServer ==
  ASSUME BaseInv, CountInv, ServerThere(Frames), ExceptionLeaves
  PROVE  ServerThere(Frames)'
<1>1. PICK n : n = Len(stack)
  OBVIOUS
<1>2. /\ Running /\ n \in Nat \ {0} /\ Len(Frames) = n /\ Frames[n] = Top /\ Frames # <<>>
      /\ Len(Frames') = n - 1
      /\ n > 1 => /\ Frames'[n - 1].entered = Frames[n - 1].entered
                  /\ Frames'[n - 1].stale = Frames[n - 1].stale
      /\ \A j \in 1 .. n - 2 : Frames'[j] = Frames[j]
  BY <1>1, LeavesLooks
<1>3. Top.throwing /\ Top.todo = <<>> /\ UNCHANGED <<program, server, mapped>>
  BY DEF ExceptionLeaves, Thrown
<1>4. ASSUME NEW j \in 1 .. n - 1
      PROVE  Frames'[j].entered = Frames[j].entered /\ Frames'[j].stale = Frames[j].stale
  <2>1. (j = n - 1 /\ n > 1) \/ j \in 1 .. n - 2
    BY <1>2
  <2> QED
    BY <1>2, <2>1
<1>5. OnServer(Frames') => OnServer(Frames)
  <2>1. \A j \in 1 .. n - 1 : j \in 1 .. n
    BY <1>2
  <2> QED
    BY <1>2, <1>4, <2>1 DEF OnServer
<1>6. OnServer(Frames') \/ mapped' # {} => server'
  BY <1>3, <1>5 DEF ServerThere
<1>7. ASSUME \A t \in Throwing : Members[t] # <<>>, mapped = {}
      PROVE  (server => OnServer(Frames')) /\ ~Failed(Frames')
  <2>1. Top.stale
    BY <1>2, <1>3, <1>7 DEF ServerThere, Failed
  <2>2. ASSUME server PROVE OnServer(Frames')
    <3>1. OnServer(Frames)
      BY <1>7, <2>2 DEF ServerThere
    <3>2. PICK j \in 1 .. n : Frames[j].entered /\ ~Frames[j].stale
      BY <1>2, <3>1 DEF OnServer
    <3>3. j \in 1 .. n - 1
      BY <1>2, <2>1, <3>2
    <3> QED
      BY <1>2, <1>4, <3>2, <3>3 DEF OnServer
  <2>3. ASSUME Failed(Frames') PROVE FALSE
    <3>1. Frames' # <<>> /\ ~Frames'[Len(Frames')].stale
      BY <2>3 DEF Failed
    <3>2. n > 1
      <4>1. SUFFICES ASSUME n = 1 PROVE FALSE
        BY <1>2
      <4>2. stack' = <<>>
        BY <1>1, <4>1, LeavesKeeps
      <4> QED
        BY <3>1, <4>2, BottomNone
    <3>3. Frames[n - 1].stale
      BY <1>1, <1>2, <2>1, <3>2, StaleBelow
    <3> QED
      BY <1>2, <3>1, <3>2, <3>3
  <2> QED
    BY <2>2, <2>3
<1> QED
  BY <1>3, <1>6, <1>7, ServerNext

LEMMA DetachReturnsServer ==
  ASSUME BaseInv, Shape(Frames), CountInv, ServerThere(Frames), DetachReturns
  PROVE  ServerThere(Frames)'
<1>1. PICK n : n = Len(stack)
  OBVIOUS
<1>2. /\ Running /\ Top.op = "detach" /\ Top.entered /\ mapped' = mapped /\ UNCHANGED program
      /\ \/ Return(Staled(stack), -1) /\ ~server' /\ mapped = {}
         \/ Return(stack, -1) /\ UNCHANGED server /\ (Top.stale \/ mapped # {})
  BY DetachReturnsAs
<1>3. n \in Nat \ {0} /\ Len(Frames) = n /\ Frames[n] = Top /\ stack \in Seq(FrameType)
  BY <1>1, <1>2, TopFacts DEF BaseInv
<1>4. stack' \in Seq(FrameType) /\ Frames' \in Seq(FrameType)
  <2>1. PICK delta \in {-1, 1} : delta = -1
    OBVIOUS
  <2>2. stack' \in Seq(FrameType)
    BY <1>2, <2>1, ReturnKeeps DEF Running
  <2> QED
    BY <2>2, UpFacts DEF Frames
<1>5. ASSUME Return(Staled(stack), -1), ~server', mapped = {}
      PROVE  ~OnServer(Frames') /\ ~Failed(Frames')
  <2>1. PICK frames \in {stack, Staled(stack)} : frames = Staled(stack)
    OBVIOUS
  <2>2. /\ Len(Frames') = n - 1
        /\ \A j \in 1 .. n - 1 :
             Looks(Frames'[j], Frames[j], IF frames = stack THEN Frames[j].stale ELSE TRUE)
    BY <1>1, <1>2, <1>5, <2>1, ReturnLooks
  <2>3. ASSUME NEW j \in 1 .. n - 1 PROVE Frames'[j].stale
    <3>1. CASE frames # stack
      BY <2>2, <3>1 DEF Looks
    <3>2. CASE frames = stack
      <4>1. Frames[j].stale = TRUE
        <5>1. j \in 1 .. Len(stack) /\ Staled(stack) = stack
          BY <1>1, <1>3, <2>1, <3>2
        <5>2. Frames[j].stale
          <6>1. PICK f \in FrameType : f = Frames[j]
            BY <1>3, <5>1, StackFacts
          <6>2. Up(Staled(stack))[j] = [Up(stack)[j] EXCEPT !.stale = TRUE]
            BY <1>3, <5>1, StaledTyped
          <6>3. f = [f EXCEPT !.stale = TRUE]
            BY <5>1, <6>1, <6>2 DEF Frames
          <6>4. f.stale
            BY <6>3 DEF FrameType
          <6> QED
            BY <6>1, <6>4
        <5>3. Frames[j].stale \in BOOLEAN
          BY <1>1, <1>3, <5>1, StackFacts, FrameParts
        <5> QED
          BY <5>2, <5>3
      <4> QED
        BY <2>2, <3>2, <4>1 DEF Looks
    <3> QED
      BY <3>1, <3>2
  <2>4. ~OnServer(Frames')
    BY <2>2, <2>3 DEF OnServer
  <2>5. ASSUME Failed(Frames') PROVE FALSE
    <3>1. Frames' # <<>> /\ ~Frames'[Len(Frames')].stale
      BY <2>5 DEF Failed
    <3>2. Len(Frames') \in 1 .. n - 1
      BY <1>4, <2>2, <3>1
    <3> QED
      BY <2>3, <3>1, <3>2
  <2> QED
    BY <2>4, <2>5
<1>6. ASSUME Return(stack, -1)
      PROVE  /\ Len(Frames') = n - 1
             /\ \A j \in 1 .. n - 1 : /\ Frames'[j].entered = Frames[j].entered
                                      /\ Frames'[j].stale = Frames[j].stale
  <2>1. PICK frames \in {stack, Staled(stack)} : frames = stack
    OBVIOUS
  <2>2. /\ Len(Frames') = n - 1
        /\ \A j \in 1 .. n - 1 :
             Looks(Frames'[j], Frames[j], IF frames = stack THEN Frames[j].stale ELSE TRUE)
    BY <1>1, <1>2, <1>6, <2>1, ReturnLooks
  <2> QED
    BY <2>1, <2>2 DEF Looks
<1>7. ASSUME Return(stack, -1) PROVE OnServer(Frames') => OnServer(Frames)
  <2>1. \A j \in 1 .. n - 1 : j \in 1 .. n
    BY <1>3
  <2> QED
    BY <1>3, <1>6, <1>7, <2>1 DEF OnServer
<1>8. ASSUME Return(stack, -1), mapped = {}, Top.stale
      PROVE  (OnServer(Frames) => OnServer(Frames')) /\ ~Failed(Frames')
  <2>1. ASSUME OnServer(Frames) PROVE OnServer(Frames')
    <3>1. PICK j \in 1 .. n : Frames[j].entered /\ ~Frames[j].stale
      BY <1>3, <2>1 DEF OnServer
    <3>2. j \in 1 .. n - 1
      BY <1>3, <1>8, <3>1
    <3> QED
      BY <1>6, <1>8, <3>1, <3>2 DEF OnServer
  <2>2. ASSUME Failed(Frames') PROVE FALSE
    <3>1. Frames' # <<>> /\ ~Frames'[Len(Frames')].stale
      BY <2>2 DEF Failed
    <3>2. n > 1 /\ n - 1 \in 1 .. n - 1
      BY <1>3, <1>4, <1>6, <1>8, <3>1
    <3>3. Frames[n - 1].stale
      BY <1>1, <1>2, <1>8, <3>2, StaleBelow
    <3> QED
      BY <1>6, <1>8, <3>1, <3>2, <3>3
  <2> QED
    BY <2>1, <2>2
<1>9. OnServer(Frames') \/ mapped' # {} => server'
  BY <1>2, <1>5, <1>7 DEF ServerThere
<1>10. (\A t \in Throwing : Members[t] # <<>>) =>
         (server' => OnServer(Frames') \/ mapped' # {}) /\ (Failed(Frames') => mapped' # {})
  BY <1>2, <1>5, <1>8 DEF ServerThere
<1> QED
  BY <1>2, <1>9, <1>10, ServerNext

LEMMA ThrowsServer ==
  ASSUME BaseInv, Shape(Frames), ServerThere(Frames), ConstructorThrows
  PROVE  ServerThere(Frames)'
<1>1. PICK n : n = Len(stack)
  OBVIOUS
<1>2. /\ Running /\ Frames[n] = Top
      /\ Len(Frames') = n /\ \A j \in 1 .. n - 1 : Frames'[j] = Frames[j]
      /\ Frames'[n].entered /\ Frames'[n].throwing
      /\ Frames'[n].stale = Top.stale /\ Frames'[n].todo = Detaches(Top.held)
  BY <1>1, ThrowsLooks
<1>3. /\ Top.op = "attach" /\ Top.entered /\ ~Top.throwing /\ Top.todo = <<>>
      /\ Top.type \in Throwing /\ Constructs(Top) /\ UNCHANGED <<program, server, mapped>>
  BY DEF ConstructorThrows, Constructed, InBody, Constructs
<1>4. /\ n \in Nat \ {0} /\ Len(Frames) = n /\ Top \in FrameType /\ OwnShape(Top, 0)
      /\ program \in Programs
  BY <1>1, <1>2, TopShape
<1>5. OnServer(Frames') <=> OnServer(Frames)
  <2>1. \A j \in 1 .. n : Frames'[j].entered = Frames[j].entered
                          /\ Frames'[j].stale = Frames[j].stale
    <3>1. ASSUME NEW j \in 1 .. n PROVE j = n \/ j \in 1 .. n - 1
      BY <1>4
    <3>2. Top.entered \in BOOLEAN /\ Frames'[n].entered = Top.entered
      <4>1. PICK e : e = Top.entered /\ e = TRUE
        BY <1>3, <1>4, FrameParts
      <4>2. Frames'[n].entered = TRUE
        <5>1. stack' \in Seq(FrameType)
          <6>1. stack # <<>> /\ Unwinding(Top) \in FrameType /\ stack' = <<Unwinding(Top)>> \o Tail(stack)
            BY <1>4, TopShape, <1>2, FramesTyped, EmptySeq DEF ConstructorThrows
          <6>2. stack \in Seq(FrameType)
            BY DEF BaseInv
          <6> QED
            BY <6>1, <6>2
        <5>2. Frames' \in Seq(FrameType)
          BY <5>1, UpFacts DEF Frames
        <5>3. n \in 1 .. Len(Frames')
          BY <1>2, <1>4
        <5>4. Frames'[n] \in FrameType
          BY <5>2, <5>3
        <5> QED
          BY <1>2, <5>4, FrameParts
      <4> QED
        BY <4>1, <4>2
    <3> QED
      BY <1>2, <3>1, <3>2
  <2> QED
    BY <1>2, <1>4, <2>1 DEF OnServer
<1>6. ASSUME \A t \in Throwing : Members[t] # <<>>, Failed(Frames') PROVE FALSE
  <2>1. Detaches(Top.held) = <<>>
    BY <1>2, <1>6 DEF Failed
  <2>2. Top.held \in Seq(Types) /\ Len(Top.held) \in Nat /\ Top.type \in Types
    BY <1>4, FrameParts
  <2>3. Len(Top.held) = 0
    BY <2>1, <2>2, DetachesTyped
  <2>4. Constructing(Top, 0)
    BY <1>3, <1>4 DEF OwnShape
  <2>5. Len(Members[Top.type]) = 0
    <3>1. Len(Top.todo) = 0
      BY <1>3
    <3> QED
      BY <2>3, <2>4, <3>1 DEF Constructing
  <2>6. Members[Top.type] \in Seq(Types)
    BY <1>4, <2>2, MemberUsed
  <2> QED
    BY <1>3, <1>6, <2>5, <2>6
<1> QED
  BY <1>3, <1>5, <1>6, ServerNext DEF ServerThere

LEMMA StepKeepsServer ==
  ASSUME BaseInv, Shape(Frames), CountInv, ServerThere(Frames), [Next]_vars
  PROVE  ServerThere(Frames)'
<1>0. UNCHANGED program /\ stack \in Seq(FrameType)
  BY ProgramSame DEF BaseInv
<1>1. PICK n \in Nat : n = Len(stack) /\ n = Len(Frames) /\ (n > 0 => Top = Frames[n])
  BY <1>0, StackFacts
<1>2. ASSUME NEW th \in Threads, NEW t \in Types, BeginAttach(th, t) \/ BeginDetach(th, t)
      PROVE  ServerThere(Frames)'
  <2>1. Len(Frames') = 1 /\ ~Frames'[1].entered /\ ~Frames'[1].throwing
    BY <1>2, BeginLooks
  <2>2. ~OnServer(Frames') /\ ~Failed(Frames')
    <3>1. 1 .. Len(Frames') = {1}
      BY <2>1
    <3> QED
      BY <2>1, <3>1 DEF OnServer, Failed
  <2>3. UNCHANGED <<mapped, server>> /\ Frames = <<>>
    BY <1>0, <1>2, StackFacts DEF BeginAttach, BeginDetach, BaseInv, TypeOK
  <2>4. ~OnServer(Frames)
    <3>1. 1 .. Len(Frames) = {}
      BY <2>3
    <3> QED
      BY <3>1 DEF OnServer
  <2> QED
    BY <1>0, <2>2, <2>3, <2>4, ServerNext DEF ServerThere
<1>3. CASE AttachFound \/ DetachKeeps \/ AttachInserts
  <2>1. CASE AttachFound \/ DetachKeeps
    <3>1. mapped # {} /\ UNCHANGED <<mapped, server>>
      BY <2>1 DEF AttachFound, DetachKeeps
    <3> QED
      BY <1>0, <3>1, ServerNext DEF ServerThere
  <2>2. CASE AttachInserts
    <3>1. Running /\ Top.entered /\ ~Top.stale /\ mapped' # {} /\ UNCHANGED server
      BY <2>2 DEF AttachInserts, Constructed, InBody
    <3>2. n \in 1 .. n /\ Top = Frames[n]
      BY <1>1, <3>1, TopFacts
    <3>3. OnServer(Frames)
      BY <1>1, <3>1, <3>2 DEF OnServer
    <3> QED
      BY <1>0, <3>1, <3>3, ServerNext DEF ServerThere
  <2> QED
    BY <1>3, <2>1, <2>2
<1>4. CASE AttachCreates \/ DetachDestroys
  <2>1. /\ Running /\ Len(Frames') = n
        /\ Frames'[n].entered /\ ~Frames'[n].throwing /\ ~Frames'[n].stale
    BY <1>1, <1>4, EntersLooks
  <2>2. n \in 1 .. n
    BY <1>1, <2>1, TopFacts
  <2>3. OnServer(Frames') /\ ~Failed(Frames')
    BY <2>1, <2>2 DEF OnServer, Failed
  <2>4. server'
    BY <1>4 DEF AttachCreates, DetachDestroys, ServerThere
  <2> QED
    BY <1>0, <2>3, <2>4, ServerNext
<1>5. CASE NextCall
  <2>1. /\ Len(Frames') = n + 1
        /\ \A j \in 1 .. n : Looks(Frames'[j], Frames[j], Frames[j].stale)
        /\ ~Frames'[n + 1].entered /\ ~Frames'[n + 1].throwing
    BY <1>1, <1>5, CallLooks
  <2>2. ~Failed(Frames')
    BY <2>1 DEF Failed
  <2>3. OnServer(Frames') <=> OnServer(Frames)
    <3>1. \A j \in 1 .. n + 1 : j = n + 1 \/ j \in 1 .. n
      BY <1>1
    <3>2. \A j \in 1 .. n : j \in 1 .. n + 1
      BY <1>1
    <3>3. \A j \in 1 .. n : /\ Frames'[j].entered <=> Frames[j].entered
                            /\ Frames'[j].stale <=> Frames[j].stale
      BY <2>1 DEF Looks
    <3> QED
      BY <1>1, <2>1, <3>1, <3>2, <3>3 DEF OnServer
  <2>4. UNCHANGED <<mapped, server>>
    BY <1>5 DEF NextCall
  <2> QED
    BY <1>0, <2>2, <2>3, <2>4, ServerNext DEF ServerThere
<1>6. CASE AttachInsertsStale
  BY <1>6, InsertsOnServer DEF AttachInsertsStale
<1>7. CASE ConstructorThrows
  BY <1>7, ThrowsServer
<1>8. CASE ExceptionLeaves
  BY <1>8, LeavesServer
<1>9. CASE DetachReturns
  BY <1>9, DetachReturnsServer
<1>10. CASE DestructorThrows \/ DetachMissing \/ DetachDies \/ UNCHANGED vars
  <2>1. Frames' = Frames /\ UNCHANGED <<mapped, server>>
    BY <1>10 DEF DestructorThrows, DetachMissing, DetachDies, vars, Frames
  <2> QED
    BY <1>0, <2>1, ServerNext DEF ServerThere
<1> QED
  BY <1>2, <1>3, <1>4, <1>5, <1>6, <1>7, <1>8, <1>9, <1>10 DEF Next, Step

-----------------------------------------------------------------------------
(* The theorems.                                                             *)

LEMMA InitLasting ==
  ASSUME Init
  PROVE  SingletonInv
<1>1. BaseInv /\ Frames = <<>> /\ 1 .. Len(Frames) = {} /\ mapped = {} /\ ~server /\ ~undefined
  <2>1. Frames = <<>>
    BY DEF Init, Frames, Up
  <2>2. 1 .. Len(Frames) = {}
    BY <2>1
  <2> QED
    BY <2>1, <2>2, InitBase DEF Init
<1>2. ASSUME NEW t \in Types
      PROVE  /\ ref[t] = 0 /\ live[t] = 0 /\ Cardinality(ClientUses(t)) = 0
             /\ CallUses(Frames, t) = {} /\ MemberUses(t) = {} /\ Dying(Frames, t) = {}
             /\ LastUse(Frames, t) = 0 /\ NextUse(Frames, t) = 0
  <2>1. ClientUses(t) = {}
    <3>1. \A c \in Threads \X (1 .. MaxUses) : clients[c[1]][t] = 0
      BY <1>2 DEF Init
    <3>2. \A c \in Threads \X (1 .. MaxUses) : ~(c[2] <= 0)
      BY SingletonAssumption
    <3> QED
      BY <3>1, <3>2 DEF ClientUses
  <2>2. CallUses(Frames, t) = {} /\ Dying(Frames, t) = {} /\ MemberUses(t) = {}
    BY <1>1 DEF CallUses, Dying, MemberUses
  <2>3. LastUse(Frames, t) = 0 /\ NextUse(Frames, t) = 0
    BY <1>1 DEF LastUse, NextUse
  <2> QED
    BY <2>1, <2>2, <2>3, FS_EmptySet DEF Init
<1>3. Counted(Frames)
  <2>1. Cardinality({}) = 0
    BY FS_EmptySet
  <2>2. \A t \in Types : Needs(Cardinality(ClientUses(t)), Frames, t) = 0
    BY <1>2, <2>1 DEF Needs
  <2>3. \A t \in Types : Cardinality(MemberUses(t)) = 0
    BY <1>2, <2>1
  <2>4. \A t \in Types : ref[t] = 0 /\ t \notin mapped
    BY <1>1, <1>2
  <2> QED
    BY <2>2, <2>3, <2>4 DEF Counted
<1>4. CountInv
  BY <1>1, <1>3 DEF CountInv, NotYet, Rooted, StaleUnused
<1>5. Shape(Frames)
  <2>1. 1 .. Len(Frames) - 1 = {}
    BY <1>1
  <2> QED
    BY <1>1, <2>1 DEF Shape
<1>6. ServerThere(Frames)
  BY <1>1 DEF ServerThere, OnServer, Failed
<1>7. OneInstance(Frames)
  BY <1>1, <1>2 DEF OneInstance
<1>8. ThrowsNot(Frames)
  BY <1>1 DEF ThrowsNot
<1> QED
  BY <1>1, <1>4, <1>5, <1>6, <1>7, <1>8 DEF SingletonInv, LastingInv

LEMMA StepKeepsInv ==
  ASSUME SingletonInv, [Next]_vars
  PROVE  SingletonInv'
<1>1. BaseInv /\ BaseInv'
  BY StepKeepsBase DEF SingletonInv
<1>2. Lasting' = Lasting
  BY ProgramSame DEF Lasting, CtorUses
<1>3. ASSUME Lasting
      PROVE  LastingInv' /\ ServerThere(Frames)' /\ OneInstance(Frames)' /\ ThrowsNot(Frames)'
  <2>1. Shape(Frames) /\ CountInv /\ ServerThere(Frames) /\ OneInstance(Frames) /\ ThrowsNot(Frames)
    BY <1>3 DEF SingletonInv, LastingInv
  <2>2. Shape(Frames)'
    BY <1>1, <1>3, <2>1, StepKeepsShape
  <2>3. CountInv'
    BY <1>1, <1>3, <2>1, StepKeepsCount
  <2>4. ServerThere(Frames)'
    BY <1>1, <2>1, StepKeepsServer
  <2>5. OneInstance(Frames)'
    BY <1>1, <2>1, StepKeepsOneInstance
  <2>6. ThrowsNot(Frames)'
    BY <1>1, <2>1, StepKeepsThrows
  <2> QED
    BY <2>2, <2>3, <2>4, <2>5, <2>6 DEF LastingInv
<1> QED
  BY <1>1, <1>2, <1>3 DEF SingletonInv

\* The inductive invariant: what the calls on the stack have done and have still
\* to do accounts for every reference, instance and server there is.
THEOREM SingletonInvariant == Spec => []SingletonInv
<1>1. Init => SingletonInv
  BY InitLasting
<1>2. SingletonInv /\ [Next]_vars => SingletonInv'
  BY StepKeepsInv
<1> QED
  BY <1>1, <1>2, PTL DEF Spec

\* If constructors use other singletons as members only, and what destructors
\* use for a moment cannot throw, no lookup of detach() finds nothing, no
\* deleted server is written to, and no exception leaves a destructor; the only
\* behaviour that is not defined is that detach() reads the map of a server
\* deleted below it, and there is no singleton then that the answer could cost.
THEOREM SingletonDefined == Spec => []Defined
<1>1. SingletonInv => Defined
  <2>1. ASSUME SingletonInv PROVE Defined
    <3>1. TypeOK
      BY <2>1 DEF SingletonInv, BaseInv
    <3>2. ASSUME Lasting, Quiet, undefined PROVE AsksDeletedMap /\ mapped = {}
      BY <2>1, <3>2 DEF SingletonInv, ThrowsNot
    <3>3. ASSUME Lasting, AsksDeletedMap, ~undefined PROVE mapped = {}
      BY <2>1, <3>3, StaleReturnsEmpty
      DEF SingletonInv, LastingInv, AsksDeletedMap, InBody, Running
    <3> QED
      BY <3>1, <3>2, <3>3 DEF Defined
  <2> QED
    BY <2>1
<1> QED
  BY <1>1, SingletonInvariant, PTL

\* Between the calls.
LEMMA FreeCounts ==
  ASSUME SingletonInv, Lasting, Free, NEW t \in Types
  PROVE  /\ ref[t] = Cardinality(ClientUses(t)) + Cardinality(MemberUses(t))
         /\ ref[t] > 0 <=> t \in mapped
<1>1. BaseInv /\ CountInv /\ Frames = <<>>
  <2>1. stack \in Seq(FrameType) /\ stack = <<>>
    BY DEF SingletonInv, BaseInv, TypeOK, Free
  <2> QED
    BY <2>1, StackFacts DEF SingletonInv, LastingInv
<1>2. Cardinality(CallUses(Frames, t)) = 0 /\ LastUse(Frames, t) = 0 /\ NextUse(Frames, t) = 0
  <2>1. 1 .. Len(Frames) = {}
    BY <1>1
  <2>2. CallUses(Frames, t) = {}
    BY <2>1 DEF CallUses
  <2>3. Cardinality(CallUses(Frames, t)) = 0
    BY <2>2, FS_EmptySet
  <2>4. LastUse(Frames, t) = 0
    BY <1>1 DEF LastUse
  <2>5. NextUse(Frames, t) = 0
    BY <1>1 DEF NextUse
  <2> QED
    BY <2>3, <2>4, <2>5
<1>3. PICK k \in Nat, m \in Nat : k = Cardinality(ClientUses(t)) /\ m = Cardinality(MemberUses(t))
  BY <1>1, CountFacts
<1>4. Needs(k, Frames, t) = k
  BY <1>2 DEF Needs
<1> QED
  BY <1>1, <1>3, <1>4 DEF CountInv, Counted

\* Whenever the mutex is free, the reference counter of each singleton is the
\* number of its use<> objects, those of clients and those of other singletons.
THEOREM SingletonRefCounts == Spec => []RefCountsUses
<1>1. SingletonInv => RefCountsUses
  <2>1. ASSUME SingletonInv, Lasting, Free, NEW t \in mapped
        PROVE  ref[t] = Cardinality(ClientUses(t)) + Cardinality(MemberUses(t))
    BY <2>1, FreeCounts DEF SingletonInv, BaseInv, TypeOK
  <2> QED
    BY <2>1 DEF RefCountsUses
<1> QED
  BY <1>1, SingletonInvariant, PTL

LEMMA ExistingNeeded ==
  ASSUME SingletonInv, Lasting, Free, NEW t \in Types
  PROVE  t \in mapped <=> (\E th \in Threads : clients[th][t] > 0)
                            \/ \E u \in mapped : t \in ToSet(Members[u])
<1>1. BaseInv /\ TypeOK /\ clients \in [Threads -> [Types -> 0 .. MaxUses]] /\ MaxUses \in Nat
  BY SingletonAssumption DEF SingletonInv, BaseInv, TypeOK
<1>2. PICK k \in Nat, m \in Nat : k = Cardinality(ClientUses(t)) /\ m = Cardinality(MemberUses(t))
  BY <1>1, CountFacts
<1>3. t \in mapped <=> k > 0 \/ m > 0
  <2>1. ref[t] = k + m /\ (ref[t] > 0 <=> t \in mapped)
    BY <1>2, FreeCounts
  <2>2. k + m > 0 <=> k > 0 \/ m > 0
    OBVIOUS
  <2> QED
    BY <2>1, <2>2
<1>4. k > 0 <=> \E th \in Threads : clients[th][t] > 0
  <2>1. ASSUME NEW th \in Threads, clients[th][t] > 0 PROVE k > 0
    BY <1>1, <1>2, <2>1, ClientOf
  <2>2. ASSUME k > 0 PROVE \E th \in Threads : clients[th][t] > 0
    <3>1. ClientUses(t) # {}
      <4>1. SUFFICES ASSUME ClientUses(t) = {} PROVE FALSE
        OBVIOUS
      <4>2. k = 0
        BY <1>2, <4>1, FS_EmptySet
      <4> QED
        BY <2>2, <4>2
    <3>2. PICK c \in Threads \X (1 .. MaxUses) : c[2] <= clients[c[1]][t]
      BY <3>1 DEF ClientUses
    <3>3. PICK x \in 1 .. MaxUses, y \in 0 .. MaxUses : x = c[2] /\ y = clients[c[1]][t] /\ x <= y
      BY <1>1, <3>2
    <3>4. y > 0 /\ c[1] \in Threads
      BY <1>1, <3>2, <3>3
    <3> QED
      BY <3>3, <3>4
  <2> QED
    BY <2>1, <2>2
<1>5. m > 0 <=> \E u \in mapped : t \in ToSet(Members[u])
  <2>1. MemberUses(t) # {} <=> \E u \in mapped : t \in ToSet(Members[u])
    <3>1. ASSUME MemberUses(t) # {} PROVE \E u \in mapped : t \in ToSet(Members[u])
      <4>1. PICK u \in mapped : {u} \X Entries(Members[u], t) # {}
        BY <3>1 DEF MemberUses
      <4>2. PICK i \in DOMAIN Members[u] : Members[u][i] = t
        BY <4>1 DEF Entries
      <4> QED
        BY <4>2 DEF ToSet
    <3>2. ASSUME NEW u \in mapped, t \in ToSet(Members[u]) PROVE MemberUses(t) # {}
      <4>1. PICK i \in DOMAIN Members[u] : Members[u][i] = t
        BY <3>2 DEF ToSet
      <4>2. <<u, i>> \in MemberUses(t)
        BY <4>1 DEF MemberUses, Entries
      <4> QED
        BY <4>2
    <3> QED
      BY <3>1, <3>2
  <2>2. m = 0 <=> MemberUses(t) = {}
    BY <1>1, <1>2, CountFacts, FS_EmptySet
  <2> QED
    BY <1>2, <2>1, <2>2
<1> QED
  BY <1>3, <1>4, <1>5

\* An instance exists if and only if a client or another instance uses it, there
\* are never two of types that do not use themselves, its members exist whenever
\* it can be found, and the server is there exactly as long as there are instances.
THEOREM SingletonLifetimes == Spec => []Lifetimes
<1>1. ASSUME SingletonInv PROVE Lifetimes
  <2>1. ExistsIffNeeded
    BY <1>1, ExistingNeeded DEF ExistsIffNeeded
  <2>2. AtMostOne
    <3>1. ASSUME Lasting, Acyclic, NEW t \in Types PROVE live[t] <= 1
      BY <1>1, <3>1 DEF SingletonInv, OneInstance
    <3> QED
      BY <3>1 DEF AtMostOne
  <2>3. MembersExist
    <3>1. ASSUME Lasting, NEW t \in mapped, NEW v \in ToSet(Members[t]) PROVE v \in mapped
      <4>1. BaseInv /\ CountInv /\ program \in Programs /\ t \in Types
        BY <1>1, <3>1 DEF SingletonInv, LastingInv, BaseInv, TypeOK
      <4>2. v \in Types
        <5>1. PICK i \in DOMAIN Members[t] : v = Members[t][i]
          BY DEF ToSet
        <5> QED
          BY <4>1, <5>1, MemberUsed
      <4> QED
        BY <4>1, <4>2, UnmappedNoMember
    <3> QED
      BY <3>1 DEF MembersExist
  <2>4. ServerIffSingletons
    <3>1. ASSUME Lasting, Free, \A t \in Throwing : Members[t] # <<>>
          PROVE  server = (mapped # {})
      <4>1. ServerThere(Frames) /\ stack \in Seq(FrameType) /\ stack = <<>> /\ server \in BOOLEAN
        BY <1>1, <3>1 DEF SingletonInv, BaseInv, TypeOK, Free
      <4>2. Frames = <<>>
        BY <4>1, StackFacts
      <4>3. 1 .. Len(Frames) = {}
        BY <4>2
      <4>4. ~OnServer(Frames)
        BY <4>3 DEF OnServer
      <4> QED
        BY <3>1, <4>1, <4>4 DEF ServerThere
    <3> QED
      BY <3>1 DEF ServerIffSingletons
  <2> QED
    BY <2>1, <2>2, <2>3, <2>4 DEF Lifetimes
<1> QED
  BY <1>1, SingletonInvariant, PTL
=============================================================================
