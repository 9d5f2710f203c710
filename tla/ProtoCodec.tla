------------------------------ MODULE ProtoCodec ------------------------------
(***************************************************************************)
(* What the generated methods do to an object, driven by the tables of     *)
(* CommonMessages.tla: constructors, accessors, Clear, MergeFrom, CopyFrom,*)
(* ByteSizeLong, _InternalSerialize and _InternalParse.  The protobuf      *)
(* library beneath them is external.                                       *)
(*                                                                         *)
(* An object is a function of its members; a pointer and the result of a   *)
(* parse are a sequence of at most one object.  What is written is a       *)
(* sequence of fields, each with the length of its content left to be      *)
(* counted (SizeOf) and not the bytes themselves.                          *)
(*                                                                         *)
(* A method that works on an object calls itself, or the same method of    *)
(* another class, for the objects inside.  That call is a constant here,   *)
(* Inner_MergeFrom for MergeFrom; MCInnerCalls gives it the method itself  *)
(* for its value, and the proofs use that the two agree on objects.        *)
(***************************************************************************)
EXTENDS CommonMessages, Integers, FiniteSets

CONSTANTS
  TextLength,      \* the texts in use and the number of bytes of each
  NotUtf8,         \* those that are not valid UTF-8
  Numbers,         \* the integers in use
  MaxRepeated,     \* bound: elements that add_ puts into a repeated member
  RecursionLimit   \* how deep a reader follows messages in messages

CONSTANTS          \* the methods below, as they call themselves
  Inner_MergeFrom(_, _, _), Inner_Accessed(_, _), Inner_ByteSizeLong(_, _),
  Inner_Serialize(_, _), Inner_SizeOf(_), Inner_Parse(_, _, _, _, _), Inner_Readable(_, _, _)

EmptyString == ""
Texts == DOMAIN TextLength

ASSUME CodecAssumption ==
  /\ EmptyString \in Texts /\ TextLength[EmptyString] = 0 /\ EmptyString \notin NotUtf8
  /\ NotUtf8 \subseteq Texts
  /\ \A text \in Texts : TextLength[text] \in Nat
  /\ 0 \in Numbers /\ \A n \in Numbers : n \in Int /\ n < 2097152   \* at most three bytes
  /\ RecursionLimit \in Nat /\ MaxRepeated \in Nat

NOT_SET == [case |-> "NOT_SET"]

\* SharedCtor, and so the default constructor and Clear().
Default(cell) ==
  CASE cell.cell = "text"   -> EmptyString
    [] cell.cell = "number" -> 0
    [] cell.cell = "choice" -> NOT_SET
    [] OTHER                -> <<>>

New(class) ==
  [f \in DOMAIN Cells[class] \cup {"unknown_fields"} |->
     IF f = "unknown_fields" THEN <<>> ELSE Default(Cells[class][f])]

------------------------------------------------------------------------------
\* MergeFrom.  A scalar of the default value says nothing; an object is merged
\* into the one that is there; entries of a map replace those of the same key.
Over(from, to) == [key \in DOMAIN from \cup DOMAIN to |->
                     IF key \in DOMAIN from THEN from[key] ELSE to[key]]

MergeKind(cell, to, from) ==
  IF from = NOT_SET THEN to
  ELSE IF cell.of[from.case].cell # "object" THEN from
  ELSE LET class == cell.of[from.case].of
           old == IF to.case = from.case THEN to.value ELSE New(class)
       IN [from EXCEPT !.value = Inner_MergeFrom(class, old, from.value)]

MergeMember(cell, to, from) ==
  CASE cell.cell \in {"text", "number"} -> IF from = Default(cell) THEN to ELSE from
    [] cell.cell = "repeated"           -> to \o from
    [] cell.cell = "map"                -> Over(from, to)
    [] cell.cell = "choice"             -> MergeKind(cell, to, from)
    [] cell.cell = "pointer" ->
         IF from = <<>> THEN to
         ELSE <<Inner_MergeFrom(cell.of, IF to = <<>> THEN New(cell.of) ELSE to[1], from[1])>>

MergeFrom(class, to, from) ==
  [f \in DOMAIN to |->
     IF f = "unknown_fields" THEN to[f] \o from[f]
     ELSE MergeMember(Cells[class][f], to[f], from[f])]

\* CopyFrom of another object.  (Mutant: without Clear.)
CopyFrom_Merges(class, to, from) == MergeFrom(class, to, from)
CopyFrom(class, to, from) == MergeFrom(class, New(class), from)

------------------------------------------------------------------------------
\* The accessors: what one call on a member may leave in it, and what one call
\* on an object, or on one that it contains, may leave in the object.
\* operator[] of a map, and the assignment to what it gives out.
Put(map, key, v) == [k \in DOMAIN map \cup {key} |-> IF k = key THEN v ELSE map[k]]

\* The numbers that a member can be set to.
NumbersOf(cell) ==
  {n \in Numbers : (cell.sort = "signed" \/ n >= 0) /\ (cell.sort = "flag" => n <= 1)}

\* mutable_, add_ and operator[] give out a new object; a scalar is set.
Fresh(cell) ==
  CASE cell.cell = "text"   -> Texts
    [] cell.cell = "number" -> NumbersOf(cell)
    [] OTHER                -> {New(cell.of)}

Changed(cell, old) ==
  IF cell.cell = "object" THEN Inner_Accessed(cell.of, old) ELSE Fresh(cell)

AccessedMember(cell, old) ==
  CASE cell.cell \in {"text", "number"} -> Fresh(cell)
    [] cell.cell = "pointer" ->
         IF old = <<>> THEN {<<New(cell.of)>>}
         ELSE {<<>>} \cup {<<new>> : new \in Inner_Accessed(cell.of, old[1])}
    [] cell.cell = "repeated" ->
         {<<>>}
         \cup {Append(old, new) : new \in IF Len(old) < MaxRepeated THEN Fresh(cell.of) ELSE {}}
         \cup UNION {{[old EXCEPT ![i] = new] : new \in Changed(cell.of, old[i])} : i \in DOMAIN old}
    [] cell.cell = "map" ->
         {<<>>}
         \cup {Put(old, key, new) : key \in Fresh(cell.key) \ DOMAIN old,
                                     new \in IF Cardinality(DOMAIN old) < MaxRepeated
                                             THEN Fresh(cell.of) ELSE {}}
         \cup UNION {{[old EXCEPT ![key] = new] : new \in Changed(cell.of, old[key])} :
                     key \in DOMAIN old}
    [] cell.cell = "choice" ->
         {NOT_SET} \cup
         UNION {{[case |-> c, value |-> new] :
                   new \in IF old.case = c THEN Changed(cell.of[c], old.value) ELSE Fresh(cell.of[c])} :
                c \in DOMAIN cell.of}

Accessed(class, m) ==
  UNION {{[m EXCEPT ![f] = new] : new \in AccessedMember(Cells[class][f], m[f])} :
         f \in DOMAIN Cells[class]}

------------------------------------------------------------------------------
\* What the object holds for a field, in the order written: a scalar unless it
\* has the default value, the object of a pointer unless it is null, the elements
\* of a repeated member or map (of a map, in whatever order it iterates: no
\* reader can tell), and of a oneof what it holds, even a default value.
\* The keys of a map from begin() to end().
Iterated(map) ==
  CHOOSE keys \in [1 .. Cardinality(DOMAIN map) -> DOMAIN map] :
    \A key \in DOMAIN map : \E i \in DOMAIN keys : keys[i] = key

Unpack(cell, v) ==
  CASE cell.cell \in {"text", "number"} -> IF v = Default(cell) THEN <<>> ELSE <<v>>
    [] cell.cell = "map" -> LET keys == Iterated(v)
                            IN [i \in DOMAIN keys |-> <<keys[i], v[keys[i]]>>]
    [] OTHER -> v

\* (Mutant: a oneof treated like any other member.)
UnpackKind_SkipsDefault(cell, v) ==
  IF cell.cell = "object" THEN <<v>> ELSE Unpack(cell, v)
UnpackKind(cell, v) == <<v>>

InMember(class, field) == field.member \in DOMAIN Cells[class]

Held(class, m, field) ==
  CASE ~InMember(class, field) ->
         IF m.kind.case # field.member THEN <<>>
         ELSE UnpackKind(Cells[class].kind.of[field.member], m.kind.value)
    [] field.coding.coding = "packed" ->
         IF m[field.member] = <<>> THEN <<>> ELSE <<m[field.member]>>
    [] OTHER -> Unpack(Cells[class][field.member], m[field.member])

\* Numbers of bytes: of a varint (a negative number takes ten), and of a content
\* with its length in front of it.
VarintSize(n) == IF n < 0 THEN 10 ELSE IF n < 128 THEN 1 ELSE IF n < 16384 THEN 2 ELSE 3
LengthDelimited(size) == VarintSize(size) + size
Sum(n, s) == LET sum[i \in 0 .. n] == IF i = 0 THEN 0 ELSE sum[i - 1] + s[i] IN sum[n]

\* ByteSizeLong: counted from the object, before anything is written.
\* (Mutant: packed integers counted without the length in front of them.)
PackedSize_NoLength(ints) == Sum(Len(ints), [i \in DOMAIN ints |-> VarintSize(ints[i])])
PackedSize(ints) == LengthDelimited(Sum(Len(ints), [i \in DOMAIN ints |-> VarintSize(ints[i])]))

ValueSize(coding, v) ==
  CASE coding.coding = "varint" -> VarintSize(v)
    [] coding.coding \in {"utf8", "bytes"} -> LengthDelimited(TextLength[v])
    [] coding.coding = "message" -> LengthDelimited(Inner_ByteSizeLong(coding.of, v))
    [] coding.coding = "packed" -> PackedSize(v)

FieldSize(coding, v) ==
  1 + IF coding.coding = "entry"
      THEN LengthDelimited(2 + ValueSize(coding.key, v[1]) + ValueSize(coding.value, v[2]))
      ELSE ValueSize(coding, v)

\* _InternalSerialize: the fields in the order of their numbers and then what was
\* read and not understood.  Invalid UTF-8 is logged and written all the same.
\* (Mutant: without the unknown fields.)
Encode(number, coding, v) ==
  CASE coding.coding = "varint" -> [number |-> number, int |-> v]
    [] coding.coding \in {"utf8", "bytes"} -> [number |-> number, text |-> v]
    [] coding.coding = "message" -> [number |-> number, fields |-> Inner_Serialize(coding.of, v)]
    [] coding.coding = "packed" -> [number |-> number, ints |-> v]

EncodeField(field, v) ==
  IF field.coding.coding = "entry"
  THEN [number |-> field.number, fields |-> <<Encode(1, field.coding.key, v[1]),
                                              Encode(2, field.coding.value, v[2])>>]
  ELSE Encode(field.number, field.coding, v)

FieldsOf(class, m, i) ==
  LET held == Held(class, m, Wire[class][i])
  IN [j \in DOMAIN held |-> EncodeField(Wire[class][i], held[j])]

KnownFields(class, m) ==
  LET written[i \in 0 .. Len(Wire[class])] ==
        IF i = 0 THEN <<>> ELSE written[i - 1] \o FieldsOf(class, m, i)
  IN written[Len(Wire[class])]

Serialize_Known(class, m) == KnownFields(class, m)
Serialize(class, m) == KnownFields(class, m) \o m.unknown_fields

\* The number of bytes that fields take on the wire.
PayloadSize(x) ==
  CASE "int" \in DOMAIN x    -> VarintSize(x.int)
    [] "text" \in DOMAIN x   -> LengthDelimited(TextLength[x.text])
    [] "ints" \in DOMAIN x   -> LengthDelimited(Sum(Len(x.ints), [j \in DOMAIN x.ints |-> VarintSize(x.ints[j])]))
    [] "fields" \in DOMAIN x -> LengthDelimited(Inner_SizeOf(x.fields))

SizeOf(fields) == Sum(Len(fields), [i \in DOMAIN fields |-> 1 + PayloadSize(fields[i])])

MemberSize(class, m, i) ==
  LET held == Held(class, m, Wire[class][i])
  IN Sum(Len(held), [j \in DOMAIN held |-> FieldSize(Wire[class][i].coding, held[j])])

ByteSizeLong(class, m) ==
  SizeOf(m.unknown_fields) +
  Sum(Len(Wire[class]), [i \in DOMAIN Wire[class] |-> MemberSize(class, m, i)])

------------------------------------------------------------------------------
\* _InternalParse, into an object that may hold something already.  depth is how
\* many levels of messages the reader still follows, and hidden the fields, as
\* <<class, number>>, that the reader's version of common.proto does not have.
\* (Mutant: any text will do.)
VerifyUTF8_Any(text) == TRUE
VerifyUTF8(text) == text \notin NotUtf8

\* One value: a sequence of it, or an empty one if it cannot be read.
Decode(coding, old, x, depth, hidden) ==
  CASE coding.coding = "varint" -> <<x.int>>
    [] coding.coding = "bytes" -> <<x.text>>
    [] coding.coding = "utf8" -> IF VerifyUTF8(x.text) THEN <<x.text>> ELSE <<>>
    [] coding.coding = "packed" -> <<x.ints>>
    [] coding.coding = "message" ->
         IF depth = 0 THEN <<>> ELSE Inner_Parse(coding.of, old, x.fields, depth - 1, hidden)

\* The object that a value is read into: the one of a pointer or of a oneof of the
\* same case is kept and merged with; anything else starts anew.
\* (Mutant: a submessage always starts anew.)
Target_Anew(class, m, field) == New(field.coding.of)

Target(class, m, field) ==
  CASE InMember(class, field) /\ Cells[class][field.member].cell = "pointer" /\ m[field.member] # <<>> ->
         m[field.member][1]
    [] ~InMember(class, field) /\ m.kind.case = field.member -> m.kind.value
    [] OTHER -> New(field.coding.of)

Store(class, m, field, v) ==
  IF ~InMember(class, field) THEN [m EXCEPT !.kind = [case |-> field.member, value |-> v]]
  ELSE LET cell == Cells[class][field.member] IN
    [m EXCEPT ![field.member] =
       CASE cell.cell \in {"text", "number"} -> v
         [] cell.cell = "pointer" -> <<v>>
         [] cell.cell = "repeated" -> IF field.coding = Packed THEN @ \o v ELSE Append(@, v)]

\* An entry of a map: its value is read into a new object and replaces what the
\* map has for the key.  The entry is one level of messages, its value another.
ParseEntry(class, m, field, x, depth, hidden) ==
  LET coding == field.coding
      key == Decode(coding.key, 0, x.fields[1], depth - 1, hidden)
      value == Decode(coding.value, New(coding.value.of), x.fields[2], depth - 1, hidden)
  IN IF depth = 0 \/ key = <<>> \/ value = <<>> THEN <<>>
     ELSE <<[m EXCEPT ![field.member] = Put(@, key[1], value[1])]>>

\* The fields of that number that the reader knows: one or none.
Known(class, number, hidden) ==
  {Wire[class][i] : i \in {k \in DOMAIN Wire[class] :
                             Wire[class][k].number = number /\ <<class, number>> \notin hidden}}

ParseKnown(class, m, field, x, depth, hidden) ==
  IF field.coding.coding = "entry" THEN ParseEntry(class, m, field, x, depth, hidden)
  ELSE LET v == Decode(field.coding, Target(class, m, field), x, depth, hidden)
       IN IF v = <<>> THEN <<>> ELSE <<Store(class, m, field, v[1])>>

ParseField(class, m, x, depth, hidden) ==
  LET known == Known(class, x.number, hidden)
  IN IF known = {} THEN <<[m EXCEPT !.unknown_fields = Append(@, x)]>>
     ELSE ParseKnown(class, m, CHOOSE field \in known : TRUE, x, depth, hidden)

\* The loop over the fields: one, and then the rest in the same way.
Parse(class, m, fields, depth, hidden) ==
  IF fields = <<>> THEN <<m>>
  ELSE LET read == ParseField(class, m, Head(fields), depth, hidden)
       IN IF read = <<>> THEN <<>> ELSE Inner_Parse(class, read[1], Tail(fields), depth, hidden)

\* ParseFromArray of a reader that has all of common.proto.
ParseFrom(class, fields) == Parse(class, New(class), fields, RecursionLimit, {})

------------------------------------------------------------------------------
\* What a reader can make no sense of: text that is not UTF-8 where the class says
\* string, and messages nested too deep.
ReadableValue(coding, v, depth) ==
  CASE coding.coding = "utf8" -> v \notin NotUtf8
    [] coding.coding = "message" -> depth > 0 /\ Inner_Readable(coding.of, v, depth - 1)
    [] OTHER -> TRUE

ReadableField(coding, v, depth) ==
  IF coding.coding = "entry"
  THEN /\ depth > 0
       /\ ReadableValue(coding.key, v[1], depth - 1)
       /\ ReadableValue(coding.value, v[2], depth - 1)
  ELSE ReadableValue(coding, v, depth)

Readable(class, m, depth) ==
  \A i \in DOMAIN Wire[class] :
    LET held == Held(class, m, Wire[class][i])
    IN \A j \in DOMAIN held : ReadableField(Wire[class][i].coding, held[j], depth)
==============================================================================
