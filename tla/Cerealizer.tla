----------------------------- MODULE Cerealizer -----------------------------
(***************************************************************************)
(* A message on the wire.  A message is a list, of lists, dictionaries and *)
(* tuples that may share parts; Dumper.dump writes all of its objects, then*)
(* what is in them, and Dumper.undump makes them anew at the other end.    *)
(* Tuples cannot be changed once made, so they are made in the order of    *)
(* their depth.  The connection may end at any byte of a message.          *)
(*                                                                         *)
(* Left out: sets, instances and the classes to register for them, which   *)
(* no message has.                                                         *)
(***************************************************************************)
EXTENDS Naturals, Sequences, FiniteSets, SequencesExt, FiniteSetsExt

CONSTANTS
    Messages    \* sets of objects: [id -> [class, items]], of which Root is the message

Root == 1

\* In a dictionary each value comes before its key.
ASSUME MessageConstants ==
    \A h \in Messages : h[Root].class = "list"

VARIABLES
    heap,           \* the message
    collecting,     \* values that are yet to be collected
    objs,           \* those of its objects that can be changed, in order
    priorities_objs,\* its tuples, in order
    wire,           \* what is to be read: tokens
    cut,            \* "no", or what the connection has taken with it
    reader,         \* how far undump is
    at,             \* the object that it is at
    id2obj,         \* the objects it has made
    result          \* what has become of the message

dumper      == <<heap, collecting, objs, priorities_objs>>
undumper    == <<reader, at, id2obj, result>>
messageVars     == <<dumper, wire, cut, undumper>>

\* Values: references, and what stands for itself (a text by its length).
Ref(i)   == [code |-> "r", value |-> i]
Raw(c, x) == [code |-> c, value |-> x]
None     == Raw("n", 0)

IsTuple(v) == v.code = "r" /\ heap[v.value].class = "tuple"

MessageInit ==
    /\ heap \in Messages
    /\ collecting = <<Ref(Root)>> /\ objs = << >> /\ priorities_objs = << >>
    /\ wire = << >> /\ cut = "no"
    /\ reader = "waits" /\ at = 1 /\ id2obj = << >> /\ result = None

-----------------------------------------------------------------------------
(* dump *)

\* Keys are collected before values.
Contents(o) ==
    LET items == heap[o].items
        Half(rest) == [k \in 1..(Len(items) \div 2) |-> items[2 * k - rest]]
    IN  IF heap[o].class = "dict" THEN Half(0) \o Half(1) ELSE items

\* An object that has not been met before, and then what is in it, or nothing.
Collect ==
    /\ collecting # << >>
    /\ LET v == Head(collecting)
           seen == ToSet(objs \o priorities_objs)
       IN  IF v.code # "r" \/ v.value \in seen
             THEN collecting' = Tail(collecting) /\ UNCHANGED <<objs, priorities_objs>>
             ELSE /\ collecting' = Contents(v.value) \o Tail(collecting)
                  /\ IF IsTuple(v)
                       THEN priorities_objs' = Append(priorities_objs, v.value) /\ UNCHANGED objs
                       ELSE objs' = Append(objs, v.value) /\ UNCHANGED priorities_objs
    /\ UNCHANGED <<heap, wire, cut, undumper>>

\* immutable_depth: how many tuples there are in one another.
ImmutableDepth ==
    LET depth[o \in DOMAIN heap] ==
            1 + Max({0} \cup {depth[v.value] : v \in {w \in ToSet(heap[o].items) : IsTuple(w)}})
    IN  depth

\* Bug: the length of a tuple is taken for its depth.
SortByLength ==
    FlattenSeq([d \in 1..3 |-> SelectSeq(priorities_objs, LAMBDA o : Len(heap[o].items) = d)])

\* The shallow ones first, and those of one depth as they were met.
Sorted ==
    FlattenSeq([d \in 1..Cardinality(DOMAIN heap) |->
        SelectSeq(priorities_objs, LAMBDA o : ImmutableDepth[o] = d)])

Order == objs \o Sorted

Written(v) ==
    IF v.code = "r" THEN Ref((CHOOSE k \in DOMAIN Order : Order[k] = v.value) - 1) ELSE v

\* How many there are, and each; of a dictionary value and key.
Items(o) ==
    LET items == heap[o].items
    IN  <<Raw("number", IF heap[o].class = "dict" THEN Len(items) \div 2 ELSE Len(items))>>
            \o [k \in DOMAIN items |-> Written(items[k])]

\* What is in a tuple goes with it, what is in the others comes after all objects.
DumpedObj(o) ==
    <<Raw("class", heap[o].class)>> \o IF heap[o].class = "tuple" THEN Items(o) ELSE << >>
DumpedData(o) ==
    IF heap[o].class = "tuple" THEN << >> ELSE Items(o)

Dumped ==
    <<Raw("cereal1", 0), Raw("number", Len(Order))>>
        \o FlattenSeq([k \in DOMAIN Order |-> DumpedObj(Order[k])])
        \o FlattenSeq([k \in DOMAIN Order |-> DumpedData(Order[k])])
        \o <<Written(Ref(Root))>>

Dump ==
    /\ collecting = << >> /\ wire = << >> /\ reader = "waits"
    /\ wire' = Dumped /\ reader' = "begins"
    /\ UNCHANGED <<dumper, cut, at, id2obj, result>>

-----------------------------------------------------------------------------
(* The end of the connection *)

\* What a token is read as if it has lost its end.  Of a number the newline or
\* digits are gone; a text is shorter, without an error; a class needs its
\* newline, and "cereal1" all of its bytes.
Bad == Raw("bad", 0)
Parts(t) ==
    CASE t.code \in {"number", "i", "r"} ->
            {Bad, t} \cup (IF t.value > 9 THEN {[t EXCEPT !.value = @ \div 10]} ELSE {})
      [] t.code = "s" -> {Bad, [t EXCEPT !.value = @ - 1]}
      [] t.code = "n" -> {}
      [] OTHER        -> {Bad}

Cut ==
    /\ reader = "begins" /\ cut = "no"
    /\ \E k \in 0..(Len(wire) - 1) :
         \/ /\ wire' = SubSeq(wire, 1, k)
            /\ cut' = IF k = 0 THEN "all" ELSE "some"
         \/ \E part \in Parts(wire[k + 1]) :
              wire' = Append(SubSeq(wire, 1, k), part) /\ cut' = "some"
    /\ UNCHANGED <<dumper, undumper>>

-----------------------------------------------------------------------------
(* undump *)

Fails == reader' = "ended" /\ result' = Raw("exception", 0) /\ UNCHANGED <<at, id2obj, wire>>

\* At the end of the connection read and readline return what there is.
Legible(k) == Len(wire) >= k /\ \A j \in 1..k : wire[j].code # "bad"

\* It reads, of the wire, a number of objects...
UndumpHeader ==
    /\ reader = "begins"
    /\ \/ /\ wire = << >>
          /\ reader' = "ended" /\ result' = Raw("EndOfFile", 0) /\ UNCHANGED <<at, id2obj, wire>>
       \/ wire # << >> /\ ~Legible(2) /\ Fails
       \/ /\ Legible(2)
          /\ id2obj' = [k \in 1..wire[2].value |-> None]
          /\ wire' = SubSeq(wire, 3, Len(wire))
          /\ reader' = "objects" /\ at' = 1 /\ UNCHANGED result
    /\ UNCHANGED <<dumper, cut>>

\* undump_ref: an object that has not been made yet is None.
UndumpRef(t) == IF t.code = "r" /\ id2obj[t.value + 1] = None THEN None ELSE t

\* A number, and as many references: the values read, and what is left to read.
ItemsAt(k, each) == k + each * wire[k].value
ReadsItems(k, each) == Legible(k) /\ Legible(ItemsAt(k, each))
ItemsRead(k, each) == [j \in 1..(ItemsAt(k, each) - k) |-> UndumpRef(wire[k + j])]
Rest(k) == SubSeq(wire, k + 1, Len(wire))

GoOn(phase) ==
    IF at = Len(id2obj) THEN reader' = phase /\ at' = 1 ELSE at' = at + 1 /\ UNCHANGED reader

\* ... the objects, and what is in the tuples...
UndumpObj ==
    /\ reader = "objects"
    /\ LET class == wire[1].value
       IN  \/ /\ Legible(1) /\ class # "tuple"
              /\ id2obj' = [id2obj EXCEPT ![at] = [class |-> class, items |-> << >>]]
              /\ wire' = Rest(1) /\ GoOn("data") /\ UNCHANGED result
           \/ /\ Legible(1) /\ class = "tuple" /\ ReadsItems(2, 1)
              /\ id2obj' = [id2obj EXCEPT ![at] = [class |-> class, items |-> ItemsRead(2, 1)]]
              /\ wire' = Rest(ItemsAt(2, 1)) /\ GoOn("data") /\ UNCHANGED result
           \/ ~(Legible(1) /\ (class = "tuple" => ReadsItems(2, 1))) /\ Fails
    /\ UNCHANGED <<dumper, cut>>

\* ... what is in the others...
UndumpData ==
    /\ reader = "data"
    /\ LET each == IF id2obj[at].class = "dict" THEN 2 ELSE 1
       IN  \/ id2obj[at].class = "tuple" /\ GoOn("root") /\ UNCHANGED <<wire, id2obj, result>>
           \/ /\ id2obj[at].class # "tuple" /\ ReadsItems(1, each)
              /\ id2obj' = [id2obj EXCEPT ![at].items = ItemsRead(1, each)]
              /\ wire' = Rest(ItemsAt(1, each)) /\ GoOn("root") /\ UNCHANGED result
           \/ id2obj[at].class # "tuple" /\ ~ReadsItems(1, each) /\ Fails
    /\ UNCHANGED <<dumper, cut>>

\* ... and which of them is the message.
UndumpRoot ==
    /\ reader = "root"
    /\ \/ /\ Legible(1)
          /\ result' = UndumpRef(wire[1]) /\ wire' = Rest(1)
          /\ reader' = "ended" /\ UNCHANGED <<at, id2obj>>
       \/ ~Legible(1) /\ Fails
    /\ UNCHANGED <<dumper, cut>>

MessageNext ==
    Collect \/ Dump \/ Cut \/ UndumpHeader \/ UndumpObj \/ UndumpData \/ UndumpRoot

-----------------------------------------------------------------------------
(* Properties *)

\* There is one new object for each that the message had, with the same in it:
\* f says which.
SameMessage ==
    LET made == DOMAIN id2obj
        here == ToSet(objs \o priorities_objs)
    IN  \E f \in [here -> made] :
            /\ f[Root] = result.value + 1
            /\ \A a, b \in here : f[a] = f[b] => a = b
            /\ \A o \in here :
                 /\ id2obj[f[o]].class = heap[o].class
                 /\ id2obj[f[o]].items =
                      [k \in DOMAIN heap[o].items |->
                          LET v == heap[o].items[k]
                          IN  IF v.code = "r" THEN Ref(f[v.value] - 1) ELSE v]

\* What is read is what was written, with what was shared still shared; if the
\* connection has taken some of it the listener gets an exception, never a
\* part of the message, unless nothing but the last newline is gone; and it
\* takes nothing but the end of the connection between two messages for an
\* orderly end.
ReadsWhatWasWritten ==
    /\ result.code = "r" => SameMessage
    /\ result.code = "EndOfFile" => cut = "all"
    /\ result.code = "exception" => cut = "some"
    /\ result.code = "n" => reader # "ended"
=============================================================================
