------------------------------ MODULE CppCodec ------------------------------
(***************************************************************************)
(* The values that computers and the C++ server exchange (Serialize.h,     *)
(* Serialize.cpp, serialize.lua): how a computer encodes the answer to     *)
(* List, how Deserializer reads it from the pieces the network makes of    *)
(* it, and how List::onResult and parseItemStack make stacks of it.        *)
(*                                                                         *)
(* A value is [t, ...] with t nil, num (n), str (s, a sequence of          *)
(* characters), bool (b) or table (m, a set of <<key, value>>).  Numbers   *)
(* are whole and below 100.                                                *)
(***************************************************************************)
EXTENDS Integers, Sequences, FiniteSets, SequencesExt, FiniteSetsExt

CONSTANTS
    Inventories,    \* the inventories listed: sequences of stacks and NoStack
    NoStack,
    MaxLists,       \* bound: how often a computer answers
    MaxRead         \* the sizes of the pieces, but for a last one: 1 .. MaxRead

VARIABLES
    sent,       \* the inventories a computer answered with
    wire,       \* the characters on their way
    stack,      \* Deserializer.s and those below it, the top last
    received,   \* the values given to the callback
    failed      \* the exception that ended the connection, or "no"

vars == <<sent, wire, stack, received, failed>>

Nil == [t |-> "nil"]
Num(n) == [t |-> "num", n |-> n]
Str(s) == [t |-> "str", s |-> s]
Table(m) == [t |-> "table", m |-> m]

\* A stack is [size, name, others]; the other fields that parseItemStack takes
\* out of the table are like the name.
SizeKey == Str(<<"s">>)
NameKey == Str(<<"n">>)
StackValue(x) == Table({<<SizeKey, Num(x.size)>>, <<NameKey, Str(x.name)>>} \cup x.others)

\* The computer's answer: what is empty is left out, but a last empty slot is
\* the empty string, so that the number of slots is known.
ListValue(inventory) ==
    LET last == Len(inventory)
    IN Table({<<Num(n), IF inventory[n] = NoStack THEN Str(<<>>) ELSE StackValue(inventory[n])>> :
                n \in {m \in DOMAIN inventory : inventory[m] # NoStack \/ m = last}})
-----------------------------------------------------------------------------
(***************************************************************************)
(* Serializer.  A table is written in the order of its map, or of pairs(). *)
(***************************************************************************)
DigitChars == <<"0", "1", "2", "3", "4", "5", "6", "7", "8", "9">>
Digits(n) == IF n < 10 THEN <<DigitChars[n + 1]>> ELSE <<DigitChars[(n \div 10) + 1], DigitChars[(n % 10) + 1]>>
NumberOf(buffer) == FoldLeft(LAMBDA n, c : 10 * n + (CHOOSE d \in 0 .. 9 : DigitChars[d + 1] = c), 0, buffer)

\* Mutant of Escaped: nothing is escaped.
EscapedNot(c) == <<c>>

Escaped(c) == IF c = "@" THEN <<"@", ".">> ELSE <<c>>

RECURSIVE Serialized(_, _)
Serialized(v, order) ==
    CASE v.t = "nil" -> <<"!">>
      [] v.t = "num" -> <<"#">> \o Digits(v.n) \o <<"@">>
      [] v.t = "str" -> <<"@">> \o FlattenSeq([n \in DOMAIN v.s |-> Escaped(v.s[n])]) \o <<"@", "~">>
      [] v.t = "bool" -> <<IF v.b = 1 THEN "+" ELSE "-">>
      [] v.t = "table" ->
            LET entries == SetToSeq(v.m)
                ordered == IF order = 1 THEN entries ELSE Reverse(entries)
                Entry(e) == Serialized(e[1], order) \o Serialized(e[2], order)
            IN <<"=">> \o FlattenSeq([n \in DOMAIN ordered |-> Entry(ordered[n])]) \o <<"!">>
-----------------------------------------------------------------------------
(***************************************************************************)
(* Deserializer.  x is [stack, received, failed]; a state has what it was  *)
(* entered with until characters or values change it.                      *)
(***************************************************************************)
State(kind) == [kind |-> kind, buffer |-> <<>>, escape |-> 0, result |-> {}, key |-> Nil]
Start0 == <<State("start"), State("root")>>

TypeOK ==
    /\ sent \in Seq(Inventories) /\ Len(sent) <= MaxLists
    /\ failed \in {"no", "invalid tag", "unknown escape", "invalid table key", "invalid shift"}
    /\ stack[1].kind = "start"
    /\ \A n \in 2 .. Len(stack) - 1 : stack[n].kind = "table"
    /\ failed = "no" => Last(stack).kind \in {"root", "number", "string"}

Top(x) == Last(x.stack)
Push(x, kind) == [x EXCEPT !.stack = Append(@, State(kind))]
Pop(x) == [x EXCEPT !.stack = Front(@)]
Throw(x, what) == [x EXCEPT !.failed = what]
OnTop(x, f) == [x EXCEPT !.stack = Append(Front(@), f)]

\* The first value of a key stays.
Emplaced(table, v) ==
    [table EXCEPT !.key = Nil,
                  !.result = IF \E e \in table.result : e[1] = table.key THEN @ ELSE @ \cup {<<table.key, v>>}]

\* Start::reduce and Table::reduce of a value that does not end the table.
Take(x, v) ==
    IF Top(x).kind = "start" THEN Push([x EXCEPT !.received = Append(@, v)], "root")
    ELSE IF Top(x).key # Nil THEN Push(OnTop(x, Emplaced(Top(x), v)), "root")
    ELSE IF v.t = "table" THEN Throw(x, "invalid table key")
    ELSE Push(OnTop(x, [Top(x) EXCEPT !.key = v]), "root")

\* A nil in the place of a key ends the table, which goes to the state below.
Ends(x, v) == Top(x).kind = "table" /\ Top(x).key = Nil /\ v = Nil

Reduce(x, v) == IF Ends(x, v) THEN Take(Pop(x), Table(Top(x).result)) ELSE Take(x, v)

ShiftNumber(x, c) ==
    IF c = "@" THEN Reduce(Pop(x), Num(NumberOf(Top(x).buffer)))
    ELSE OnTop(x, [Top(x) EXCEPT !.buffer = Append(@, c)])

ShiftString(x, c) ==
    LET s == Top(x) IN
    IF s.escape = 1 /\ c = "." THEN OnTop(x, [s EXCEPT !.buffer = Append(@, "@"), !.escape = 0])
    ELSE IF s.escape = 1 /\ c = "~" THEN Reduce(Pop(x), Str(s.buffer))
    ELSE IF s.escape = 1 THEN Throw(x, "unknown escape")
    ELSE IF c = "@" THEN OnTop(x, [s EXCEPT !.escape = 1])
    ELSE OnTop(x, [s EXCEPT !.buffer = Append(@, c)])

EnterTable(x) == Push(Push(x, "table"), "root")

ShiftRoot(x, c) ==
    CASE c = "!" -> Reduce(Pop(x), Nil)
      [] c = "#" -> Push(Pop(x), "number")
      [] c = "@" -> Push(Pop(x), "string")
      [] c = "+" -> Reduce(Pop(x), [t |-> "bool", b |-> 1])
      [] c = "-" -> Reduce(Pop(x), [t |-> "bool", b |-> 0])
      [] c = "=" -> EnterTable(Pop(x))
      [] OTHER -> Throw(x, "invalid tag")

Shift(x, c) ==
    CASE Top(x).kind = "root" -> ShiftRoot(x, c)
      [] Top(x).kind = "number" -> ShiftNumber(x, c)
      [] Top(x).kind = "string" -> ShiftString(x, c)
      [] OTHER -> Throw(x, "invalid shift")

\* All characters of s, unless one throws; by halves, which are less deep for
\* TLC than one by one.
RECURSIVE Shifts(_, _)
Shifts(x, s) ==
    LET half == Len(s) \div 2 IN
    IF s = <<>> \/ x.failed # "no" THEN x
    ELSE IF Len(s) = 1 THEN Shift(x, s[1])
    ELSE Shifts(Shifts(x, SubSeq(s, 1, half)), SubSeq(s, half + 1, Len(s)))
-----------------------------------------------------------------------------
(***************************************************************************)
(* What onResult makes of a value.                                         *)
(***************************************************************************)
Keys(v) == {e[1] : e \in v.m}
Value(v, k) == (CHOOSE e \in v.m : e[1] = k)[2]

\* Lua counts from 1: the positions here do, too.
Index(k) == k.n

\* sTableToArray: what no key leads to is nil.
ToArray(v) ==
    LET size == Max({0} \cup {Index(k) : k \in Keys(v)})
    IN [n \in 1 .. size |-> IF \E k \in Keys(v) : Index(k) = n
                            THEN Value(v, CHOOSE k \in Keys(v) : Index(k) = n) ELSE Nil]

\* parseItemStack: what is not taken out of the table stays in others.
ParseItemStack(v) ==
    [size |-> Value(v, SizeKey).n, name |-> Value(v, NameKey).s,
     others |-> {e \in v.m : e[1] \notin {SizeKey, NameKey}}]

\* List::onResult
Stacks(v) == [n \in DOMAIN ToArray(v) |->
    IF ToArray(v)[n].t = "table" THEN ParseItemStack(ToArray(v)[n]) ELSE NoStack]
-----------------------------------------------------------------------------
Init ==
    /\ sent = <<>> /\ wire = <<>>
    /\ stack = Start0 /\ received = <<>> /\ failed = "no"

\* A computer answers.
Answer(inventory, order) ==
    /\ Len(sent) < MaxLists
    /\ sent' = Append(sent, inventory)
    /\ wire' = wire \o Serialized(ListValue(inventory), order)
    /\ UNCHANGED <<stack, received, failed>>

\* The server reads some of what has arrived; an exception removes the client.
Read(size) ==
    /\ size <= Len(wire) /\ failed = "no"
    /\ LET x == Shifts([stack |-> stack, received |-> received, failed |-> failed],
                       SubSeq(wire, 1, size))
       IN stack' = x.stack /\ received' = x.received /\ failed' = x.failed
    /\ wire' = SubSeq(wire, size + 1, Len(wire))
    /\ UNCHANGED sent

Next ==
    \/ \E inventory \in Inventories, order \in {1, 2} : Answer(inventory, order)
    \/ \E size \in 1 .. MaxRead : Read(size)
    \/ wire # <<>> /\ Read(Len(wire))

Spec == Init /\ [][Next]_vars
-----------------------------------------------------------------------------
\* What arrives is what was listed, slot by slot and with all of its slots, in
\* the order of the answers, however the network cuts it into pieces.
ListsArrive ==
    /\ Len(received) <= Len(sent)
    /\ \A n \in DOMAIN received : Stacks(received[n]) = sent[n]

\* When all has been read every answer has arrived, and the next one starts
\* afresh.
NothingIsHeldBack == wire = <<>> => Len(received) = Len(sent) /\ stack = Start0

\* What the server cannot read is never sent.
NeverFails == failed = "no"
=============================================================================
