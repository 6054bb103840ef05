------------------------------- MODULE CdrCodec -------------------------------
(***************************************************************************)
(* What the generated class of a struct or a union does at run time: the   *)
(* methods serialize() and deserialize() whose text is printed by          *)
(* generate_serialize_method(), generate_deserialize_method() and          *)
(* generate_java_union() (src/src/java_record.c:129-462 and 777-815).      *)
(* A sender serializes objects, one after the other, and a receiver        *)
(* deserializes what arrives, whole or cut off, into one object that it    *)
(* uses again and again, and that may have been a sender's.                *)
(*                                                                         *)
(* A value is NULL or a record with a number, with a text, or with items:  *)
(* the elements of a list, or the values of an object's fields.  A         *)
(* character of a text is one byte.  A byte on the wire is a pair: which   *)
(* byte it is of which number, or 0 and a character.  A number whose bytes *)
(* are not those of one number is read as GARBAGE, and a call that finds   *)
(* GARBAGE for a length ends with "Garbled": it may throw, allocate        *)
(* without end or go on with whatever the length happens to be, and no     *)
(* property depends on which.                                              *)
(*                                                                         *)
(* A class that the Java compiler rejects (see JavaTypes) is never run.    *)
(*                                                                         *)
(* A definition named X_Bug is X with a bug a change of the code might     *)
(* bring in; no specification uses it, it shows that a property can fail.  *)
(***************************************************************************)
EXTENDS JavaTypes

CONSTANTS
  Classes,      \* the structs and unions
  Capacity,     \* of the buffer in serialize(): 256 in the code
  Values,       \* for each type, NULL and what a program sends of it
  NULL,
  GARBAGE,
  MaxMessages   \* how many objects are sent, to bound TLC

Class == {t \in Types : t.kind \in Nested}

(* Values with items in items, d levels deep. *)
ValuesUpTo[d \in 0..MaxDepth] ==
  {NULL} \cup [number : Int \cup {GARBAGE}] \cup [text : Seq(Int)]
         \cup [items : Seq(IF d = 0 THEN {} ELSE ValuesUpTo[d-1])]

(* What is of type t, where numbers are the numbers there may be and parts
   says what is of the type of a part. *)
OfType(t, numbers, parts) ==
  CASE t.kind \in {"string", "wstring"} -> [text : Seq(Int)]
    [] t.kind = "sequence" -> [items : Seq(parts[t.elem])]
    [] t.kind \in Nested   ->
         {o \in [items : Seq(ValuesUpTo[MaxDepth])] :
            /\ Len(o.items) = Len(Fields(t))
            /\ \A k \in DOMAIN o.items : o.items[k] \in parts[Fields(t)[k]]}
    [] OTHER               -> [number : numbers]

(* What a field of type t may hold, after a broken message as well. *)
Held[t \in Types] == OfType(t, Int \cup {GARBAGE}, Held) \cup {NULL}

ASSUME ClassesAssumption == Classes \subseteq Class
ASSUME CapacityAssumption == Capacity \in Nat
ASSUME MaxMessagesAssumption == MaxMessages \in Nat
ASSUME NullAssumption ==
  NULL \notin [number : Int \cup {GARBAGE}] \cup [text : Seq(Int)]
             \cup [items : Seq(ValuesUpTo[MaxDepth])]
ASSUME GarbageAssumption == GARBAGE \notin Int
(* An element of a list may be null, a field with a primitive type not. *)
ASSUME ValuesAssumption ==
  \A t \in Types :
    /\ NULL \in Values[t]
    /\ \A v \in Values[t] \ {NULL} :
         /\ v \in OfType(t, Int, Values)
         /\ t.kind \in Nested =>
              \A k \in DOMAIN v.items :
                Fields(t)[k].kind \in Scalars => v.items[k] # NULL

VARIABLES
  class,        \* the struct or union
  pc,           \* new, rejected, idle, sent, refused or received
  sent,         \* the object serialized last
  wire,         \* what serialize() returned
  thrown,       \* the exception of the last call, or "none"
  cut,          \* the bytes missing from what arrived
  receiver,     \* the receiver's object
  before,       \* history: the same before the last call
  messages      \* objects sent so far

vars == <<class, pc, sent, wire, thrown, cut, receiver, before, messages>>

Exceptions == {"BufferOverflow", "BufferUnderflow", "IndexOutOfBounds",
               "NullPointer", "Garbled"}
Errors == {"none"} \cup Exceptions

Byte == (0..8) \X Int

(* What n steps make of start. *)
After(Step(_, _), start, n) ==
  LET after[k \in 0..n] == IF k = 0 THEN start ELSE Step(k, after[k-1])
  IN after[n]

(* new C(): Java's defaults. *)
Fresh(t) ==
  [items |-> [k \in DOMAIN Fields(t) |->
                IF Fields(t)[k].kind \in Scalars THEN [number |-> 0] ELSE NULL]]

-----------------------------------------------------------------------------
(* serialize().  What the classes of the fields do is the parameter         *)
(* serialize.                                                              *)

Number(n, width) == [j \in 1..width |-> <<j, n>>]
Chars(text) == [j \in 1..Len(text) |-> <<0, text[j]>>]

Throw(buffer, exception) ==
  IF buffer.error = "none" THEN [buffer EXCEPT !.error = exception] ELSE buffer

(* buffer.put...(): all of the bytes or an exception. *)
Put_OffByOne(buffer, bytes) ==
  IF Len(buffer.bytes) + Len(bytes) >= Capacity
  THEN Throw(buffer, "BufferOverflow")
  ELSE IF buffer.error = "none" THEN [buffer EXCEPT !.bytes = @ \o bytes] ELSE buffer
Put(buffer, bytes) ==
  IF Len(buffer.bytes) + Len(bytes) > Capacity
  THEN Throw(buffer, "BufferOverflow")
  ELSE IF buffer.error = "none" THEN [buffer EXCEPT !.bytes = @ \o bytes] ELSE buffer

PutText(buffer, v) ==
  IF v = NULL
  THEN Put(buffer, Number(-1, 4))
  ELSE Put(Put(buffer, Number(Len(v.text), 4)), Chars(v.text))

(* A null element of a list of scalars or bitmasks is unboxed, or asked for
   its value. *)
PutNumber(buffer, v, width) ==
  IF v = NULL THEN Throw(buffer, "NullPointer")
  ELSE Put(buffer, Number(v.number, width))

(* A null struct or union writes nothing; any other puts the array its own
   serialize() returns. *)
PutObject_Reallocates(serialize, buffer, t, o) ==
  LET inner == serialize[t][o]
  IN CASE o = NULL              -> buffer
       [] o # NULL /\ inner.error = "none" /\ buffer.error = "none" ->
            [buffer EXCEPT !.bytes = @ \o inner.bytes]
       [] OTHER                 -> Throw(buffer, inner.error)
PutObject(serialize, buffer, t, o) ==
  LET inner == serialize[t][o]
  IN CASE o = NULL              -> buffer
       [] o # NULL /\ inner.error = "none" -> Put(buffer, inner.bytes)
       [] OTHER                 -> Throw(buffer, inner.error)

PutElement(serialize, buffer, t, e) ==
  CASE t.kind \in Scalars  -> PutNumber(buffer, e, Width[t.kind])
    [] t.kind = "wstring"  -> PutText(buffer, e)
    [] t.kind = "bitmask"  -> PutNumber(buffer, e, 8)
    [] t.kind \in Nested   -> PutObject(serialize, buffer, t, e)
    [] OTHER               -> buffer

PutSequence(serialize, buffer, t, list) ==
  IF list = NULL
  THEN Put(buffer, Number(-1, 4))
  ELSE After(LAMBDA k, b : PutElement(serialize, b, t.elem, list.items[k]),
             Put(buffer, Number(Len(list.items), 4)), Len(list.items))

(* A typedef, bitmask, wide string or other member is skipped. *)
PutMember(serialize, buffer, t, v) ==
  CASE t.kind \in Scalars  -> PutNumber(buffer, v, Width[t.kind])
    [] t.kind = "string"   -> PutText(buffer, v)
    [] t.kind = "sequence" -> PutSequence(serialize, buffer, t, v)
    [] t.kind \in Nested   -> PutObject(serialize, buffer, t, v)
    [] OTHER               -> buffer

(* What is written: of a union the discriminator and every case. *)
PutMembers(serialize, t, o) ==
  After(LAMBDA k, b : PutMember(serialize, b, Fields(t)[k], o.items[k]),
        [bytes |-> <<>>, error |-> "none"], Len(o.items))

Serialize[t \in Class] == [o \in Values[t] \ {NULL} |-> PutMembers(Serialize, t, o)]

-----------------------------------------------------------------------------
(* deserialize().  A read gives the new position, the exception or "none",  *)
(* and the value that is in the member afterwards, the old one if the       *)
(* exception comes first.                                                  *)

Read(pos, value) == [pos |-> pos, error |-> "none", value |-> value]
Failed(pos, exception, value) == [pos |-> pos, error |-> exception, value |-> value]

GetNumber(data, pos, width, old) ==
  IF pos + width > Len(data)
  THEN Failed(pos, "BufferUnderflow", old)
  ELSE LET n == data[pos + 1][2]
       IN Read(pos + width,
               [number |-> IF \A j \in 1..width : data[pos + j] = <<j, n>>
                           THEN n ELSE GARBAGE])

TextAt(data, pos, n) == [text |-> [j \in 1..n |-> data[pos + j][2]]]

(* A length of 0 or less means null. *)
GetText_KeepsOld(data, pos, old, exception) ==
  LET n == GetNumber(data, pos, 4, old)
      len == n.value.number
  IN IF n.error # "none" THEN n
     ELSE IF len = GARBAGE THEN Failed(n.pos, "Garbled", old)
     ELSE IF len <= 0 THEN Read(n.pos, old)
     ELSE IF n.pos + len > Len(data) THEN Failed(n.pos, exception, old)
     ELSE Read(n.pos + len, TextAt(data, n.pos, len))
GetText_TakesWhatIsThere(data, pos, old, exception) ==
  LET n == GetNumber(data, pos, 4, old)
      len == n.value.number
      to == IF n.pos + len > Len(data) THEN Len(data) ELSE n.pos + len
  IN IF n.error # "none" THEN n
     ELSE IF len = GARBAGE THEN Failed(n.pos, "Garbled", old)
     ELSE IF len <= 0 THEN Read(n.pos, NULL)
     ELSE Read(to, TextAt(data, n.pos, to - n.pos))
GetText(data, pos, old, exception) ==
  LET n == GetNumber(data, pos, 4, old)
      len == n.value.number
  IN IF n.error # "none" THEN n
     ELSE IF len = GARBAGE THEN Failed(n.pos, "Garbled", old)
     ELSE IF len <= 0 THEN Read(n.pos, NULL)
     ELSE IF n.pos + len > Len(data) THEN Failed(n.pos, exception, old)
     ELSE Read(n.pos + len, TextAt(data, n.pos, len))

(* A nested object takes all the bytes that are left. *)
GetObject(deserialize, data, pos, t, old) ==
  LET target == IF old = NULL THEN Fresh(t) ELSE old
      inner == deserialize[t][SubSeq(data, pos + 1, Len(data))][target]
  IN [inner EXCEPT !.pos = Len(data)]

GetElement(deserialize, data, pos, t) ==
  CASE t.kind \in Scalars  -> GetNumber(data, pos, Width[t.kind], NULL)
    [] t.kind = "wstring"  -> GetText(data, pos, NULL, "BufferUnderflow")
    [] t.kind = "bitmask"  -> GetNumber(data, pos, 8, NULL)
    [] t.kind \in Nested   -> GetObject(deserialize, data, pos, t, NULL)

CodedElements == Scalars \cup {"wstring", "bitmask"} \cup Nested

(* An element is added once it has been read; nothing is read or added for
   an element of any other kind. *)
AddElement(deserialize, data, t, list) ==
  LET e == GetElement(deserialize, data, list.pos, t)
  IN IF list.error # "none" \/ t.kind \notin CodedElements THEN list
     ELSE IF e.error # "none" THEN Failed(e.pos, e.error, list.value)
     ELSE Read(e.pos, [items |-> Append(list.value.items, e.value)])

(* A new list, an empty one for a length below 0. *)
GetSequence(deserialize, data, pos, t, old) ==
  LET n == GetNumber(data, pos, 4, old)
      len == n.value.number
  IN IF n.error # "none" THEN n
     ELSE IF len = GARBAGE THEN Failed(n.pos, "Garbled", old)
     ELSE After(LAMBDA k, list : AddElement(deserialize, data, t.elem, list),
                Read(n.pos, [items |-> <<>>]), IF len < 0 THEN 0 ELSE len)

GetMember(deserialize, data, pos, t, old) ==
  CASE t.kind \in Scalars  -> GetNumber(data, pos, Width[t.kind], old)
    [] t.kind = "string"   -> GetText(data, pos, old, "IndexOutOfBounds")
    [] t.kind = "sequence" -> GetSequence(deserialize, data, pos, t, old)
    [] t.kind \in Nested   -> GetObject(deserialize, data, pos, t, old)
    [] OTHER               -> Read(pos, old)

(* What is read: of a union the discriminator and, whatever that says, a new
   object of the first case. *)
FieldsRead(t) == IF t.kind = "union" THEN 2 ELSE Len(Fields(t))
Old(t, o, k) == IF t.kind = "union" /\ k = 2 THEN NULL ELSE o.items[k]

GetField(deserialize, data, t, o, k, d) ==
  LET r == GetMember(deserialize, data, d.pos, Fields(t)[k], Old(t, o, k))
  IN IF d.error # "none" THEN d
     ELSE [r EXCEPT !.value = [items |-> [d.value.items EXCEPT ![k] = r.value]]]

GetMembers(deserialize, data, t, o) ==
  After(LAMBDA k, d : GetField(deserialize, data, t, o, k, d), Read(0, o), FieldsRead(t))

Deserialize[t \in Class] ==
  [data \in Seq(Byte) |->
     [o \in Held[t] \ {NULL} |-> GetMembers(Deserialize, data, t, o)]]

-----------------------------------------------------------------------------

Init ==
  /\ class \in Classes
  /\ pc = "new"
  /\ sent = NULL /\ wire = <<>> /\ thrown = "none" /\ cut = 0
  /\ receiver = Fresh(class) /\ before = receiver
  /\ messages = 0

(* javac takes the class or rejects it. *)
Compile ==
  /\ pc = "new"
  /\ pc' = IF Agrees[class] THEN "idle" ELSE "rejected"
  /\ UNCHANGED <<class, sent, wire, thrown, cut, receiver, before, messages>>

Send ==
  /\ pc \in {"idle", "refused", "received"} /\ messages < MaxMessages
  /\ \E o \in Values[class] \ {NULL} :
       LET buffer == Serialize[class][o]
       IN /\ sent' = o
          /\ thrown' = buffer.error
          /\ wire' = IF buffer.error = "none" THEN buffer.bytes ELSE <<>>
          /\ pc' = IF buffer.error = "none" THEN "sent" ELSE "refused"
  /\ cut' = 0
  /\ messages' = messages + 1
  /\ UNCHANGED <<class, receiver, before>>

(* What arrives is all of it, or its beginning. *)
Deliver(object) ==
  /\ pc = "sent"
  /\ cut' \in 0..Len(wire)
  /\ LET d == Deserialize[class][SubSeq(wire, 1, Len(wire) - cut')][object]
     IN /\ receiver' = d.value
        /\ thrown' = d.error
  /\ before' = receiver
  /\ pc' = "received"
  /\ UNCHANGED <<class, sent, wire, messages>>

Receive_ClearsFirst == Deliver(Fresh(class))
Receive == Deliver(receiver)

(* The program goes on with the object it serialized and deserializes what
   comes next, an answer perhaps, into that one. *)
ReceiveIntoSent ==
  /\ pc \in {"sent", "refused"}
  /\ receiver' = sent
  /\ pc' = "idle"
  /\ UNCHANGED <<class, sent, wire, thrown, cut, before, messages>>

Next == Compile \/ Send \/ Receive \/ ReceiveIntoSent

Spec == Init /\ [][Next]_vars

-----------------------------------------------------------------------------

(* The type of every variable; no array is longer than the buffer. *)
TypeOK ==
  /\ class \in Classes
  /\ pc \in {"new", "rejected", "idle", "sent", "refused", "received"}
  /\ sent \in Values[class]
  /\ wire \in Seq(Byte) /\ Len(wire) <= Capacity /\ cut \in 0..Len(wire)
  /\ thrown \in Errors
  /\ receiver \in Held[class] \ {NULL} /\ before \in Held[class] \ {NULL}
  /\ messages \in 0..MaxMessages

(* The classes whose objects deserialize() finds the end of: a nested object
   only at the end, and no lists of objects, strings or lists. *)
Framed[t \in Class] ==
  \A k \in 1..FieldsRead(t) :
    /\ Fields(t)[k].kind \in Nested => k = FieldsRead(t) /\ Framed[Fields(t)[k]]
    /\ Fields(t)[k].kind = "sequence" =>
         Fields(t)[k].elem.kind \in Scalars \cup {"wstring", "bitmask"}

(* No nested object is null, and of a union's cases the first is set. *)
Complete[t \in Class] ==
  [o \in Values[t] \ {NULL} |->
     \A k \in DOMAIN o.items :
       Fields(t)[k].kind \in Nested /\ (t.kind = "union" => k = 2) =>
         o.items[k] # NULL /\ Complete[Fields(t)[k]][o.items[k]]]

(* Of a union's cases no other is set. *)
OneCase[t \in Class] ==
  [o \in Values[t] \ {NULL} |->
     \A k \in DOMAIN o.items :
       Fields(t)[k].kind \in Nested /\ o.items[k] # NULL =>
         (t.kind = "union" => k = 2) /\ OneCase[Fields(t)[k]][o.items[k]]]

(* What a field that has old is to have after v was sent: an empty text
   arrives as null, a null list as an empty one; members that are skipped
   and all but the first case of a union do not arrive. *)
ArrivesText(v) == IF v = [text |-> <<>>] THEN NULL ELSE v

Arrival(arrives, t, v, old) ==
  LET into == IF old = NULL THEN Fresh(t) ELSE old
      elements == [k \in DOMAIN v.items |->
                     IF t.elem.kind = "wstring" THEN ArrivesText(v.items[k]) ELSE v.items[k]]
      fields == [k \in DOMAIN Fields(t) |->
                   IF t.kind = "union" /\ k > 2 THEN into.items[k]
                   ELSE arrives[Fields(t)[k]][v.items[k]]
                          [IF t.kind = "union" THEN NULL ELSE into.items[k]]]
  IN CASE t.kind \in Scalars  -> v
       [] t.kind = "string"   -> ArrivesText(v)
       [] t.kind = "sequence" -> [items |-> IF v = NULL THEN <<>> ELSE elements]
       [] t.kind \in Nested   -> [items |-> fields]
       [] OTHER               -> old

Arrives[t \in Types] ==
  [v \in Values[t] |-> [old \in Held[t] |-> Arrival(Arrives, t, v, old)]]

Expected == Arrives[class][sent][before]
Sound == Framed[class] /\ Complete[class][sent]

(* Of the members and cases that are sent the receiver gets the values,
   whatever an earlier message, whole or cut, left in its object; in the
   others (bitmask, typedef, wide string, every case of a union but the
   first) it keeps exactly what it had, against what is written of them, see
   ComesBack (src/src/java_record.c:262, 317, 423 and 803). *)
RoundTrip ==
  pc = "received" /\ cut = 0 /\ Sound => thrown = "none" /\ receiver = Expected

(* An array that was cut off anywhere is not taken for a whole one.  A union
   with two cases set, which its setters (761-763) allow, is left out by
   OneCase: the bytes of the second are never read, nor missed
   (src/src/java_record.c:285-458 and 799-814). *)
CutIsNoticed ==
  pc = "received" /\ cut > 0 /\ Sound /\ OneCase[class][sent] => thrown # "none"

(* A call of deserialize() that throws has overwritten the fields before
   the one it failed at, and not touched those after it: the receiver has a
   mixture of two messages (src/src/java_record.c:285-458 and 799-814). *)
FailureSplits ==
  pc = "received" /\ thrown # "none" /\ Sound =>
    \E k \in DOMAIN receiver.items :
      /\ \A j \in 1..(k - 1) : receiver.items[j] = Expected.items[j]
      /\ \A j \in (k + 1)..Len(receiver.items) : receiver.items[j] = before.items[j]

(* How many bytes an object takes; NULL elements of lists aside. *)
ElementsSize(sizes, t, list) ==
  After(LAMBDA k, sum : sum + sizes[t.elem][list.items[k]], 0, Len(list.items))
FieldsSize(sizes, t, o) ==
  After(LAMBDA k, sum :
          IF Fields(t)[k].kind \in {"bitmask", "wstring"} THEN sum
          ELSE sum + sizes[Fields(t)[k]][o.items[k]],
        0, Len(o.items))

Size(sizes, t, v) ==
  CASE t.kind \in Scalars -> Width[t.kind]
    [] t.kind \in {"string", "wstring"} -> 4 + (IF v = NULL THEN 0 ELSE Len(v.text))
    [] t.kind = "bitmask" -> 8
    [] t.kind = "sequence" ->
         4 + (IF v = NULL \/ t.elem.kind \notin CodedElements THEN 0
              ELSE ElementsSize(sizes, t, v))
    [] t.kind \in Nested -> IF v = NULL THEN 0 ELSE FieldsSize(sizes, t, v)
    [] OTHER -> 0

SizeOf[t \in Types] == [v \in Values[t] |-> Size(SizeOf, t, v)]

(* A list in the value has a null element that is asked for its value. *)
Asks(asked, t, v) ==
  CASE t.kind = "sequence" /\ v # NULL ->
         \E k \in DOMAIN v.items :
           IF v.items[k] = NULL THEN t.elem.kind \in Scalars \cup {"bitmask"}
           ELSE t.elem.kind \in Nested /\ asked[t.elem][v.items[k]]
    [] t.kind \in Nested /\ v # NULL ->
         \E k \in DOMAIN v.items : asked[Fields(t)[k]][v.items[k]]
    [] OTHER -> FALSE

NullAsked[t \in Types] == [v \in Values[t] |-> Asks(NullAsked, t, v)]

(* serialize() throws exactly for the objects that need more than the
   buffer has, or that have a null number in a list: a nested object, an
   element, a second case or a skipped member does not change that
   (src/src/java_record.c:131-276 and 777-794). *)
RefusesExactly ==
  /\ pc = "sent" => /\ SizeOf[class][sent] = Len(wire)
                    /\ ~NullAsked[class][sent]
  /\ pc = "refused" => SizeOf[class][sent] > Capacity \/ NullAsked[class][sent]

(* An object comes back as it was sent: "Built-in CDR serialization/
   deserialization" and "Full Type Support - Structs, enums, unions, bitmasks,
   sequences" (src/README.md:8 and 17).
   Violated: a nested struct takes the bytes of the members after it; a bitmask
   is skipped on both sides, and so is a typedef, although the code means to
   "Resolve typedef to get the underlying type" (src/src/java_record.c:136
   and 287); of a union only the first case is read, although each is to be
   tried, "Try to deserialize into each case field" (803). *)
ComesBack ==
  pc = "received" /\ cut = 0 => thrown = "none" /\ receiver = sent

(* "Type-Safe - Full type mapping with compile-time safety"
   (src/README.md:9): the Java types of the members are those of the
   methods that write and read them, so that the class compiles.  Violated:
   a boolean is put as a byte. *)
TypesAgree == pc # "rejected"

=============================================================================
