-------------------------------- MODULE Bson --------------------------------
(***************************************************************************)
(* The BSON codec of the controller, over streams of symbols. A symbol     *)
(* below 256 is a byte, a number, or a length, which counts symbols; one   *)
(* from 256 on stands for a name or a string without NUL. A value is a     *)
(* TypeInfoBase: its type, and what it holds.                              *)
(***************************************************************************)
EXTENDS Integers, Sequences, FiniteSets, SequencesExt

Null == [type |-> "null", val |-> <<>>]
Number(type, n) == [type |-> type, val |-> n]
Text(s) == [type |-> "string", val |-> s]
ArrayOf(list) == [type |-> "array", val |-> list]
ObjectOf(table) == [type |-> "object", val |-> table]   \* table: from names to values

\* the names of CommStructures, in the order of std::map
RFID == <<256>>
list == <<257>>
position == <<258>>
status == <<259>>

Fixed == {"double", "boolean", "datetime", "int32", "int64"}   \* types of fixed size
Types == Fixed \cup {"string", "object", "array", "binary"}
ElementType == [double |-> 1, string |-> 2, object |-> 3, array |-> 4, binary |-> 5,
                boolean |-> 8, datetime |-> 9, int32 |-> 16, int64 |-> 18]

\* what the decoder takes a code for: code and symbol are strings, a timestamp is an int64
Known == {ElementType[t] : t \in Types} \cup {13, 14, 17}
TypeOf(code) == CASE code \in {13, 14} -> "string"
                  [] code = 17 -> "int64"
                  [] OTHER -> CHOOSE t \in Types : ElementType[t] = code

-----------------------------------------------------------------------------
(* The keys of an array.                                                   *)

Power(j) == CASE j = 0 -> 1 [] j = 1 -> 10 [] j = 2 -> 100
Places(i) == CASE i < 10 -> 1 [] i < 100 -> 2 [] OTHER -> 3

\* a mutated KeyChar, whose divisor stays the same
KeyCharFirst(i, j) == (48 + i \div Power(Places(i) - 1)) % 256

\* the character of key i that stands for 10^j: a char, and never taken % 10
KeyChar(i, j) == (48 + i \div Power(j)) % 256

Digit(i, j) == 48 + ((i \div Power(j)) % 10)

\* of the codec, and as the format has them
Keys == [i \in 0..255 |-> [k \in 1..Places(i) |-> KeyChar(i, Places(i) - k)]]
DecimalKeys == [i \in 0..255 |-> [k \in 1..Places(i) |-> Digit(i, Places(i) - k)]]

-----------------------------------------------------------------------------
(* Serialize. An element that is null leaves nothing, not even its key.    *)

CString(s) == Append(s, 0)
BsonString(s) == <<Len(s) + 1>> \o CString(s)
BsonBinary(s) == IF s = <<>> THEN <<>> ELSE <<Len(s), 0>> \o s   \* length, subtype, content

\* parts i to j one after the other; in halves, for TLC not to recurse once for every part
RECURSIVE Joined(_, _, _)
Joined(parts, i, j) ==
  CASE i > j -> <<>>
    [] i = j -> parts[i]
    [] OTHER -> LET m == (i + j) \div 2 IN Joined(parts, i, m) \o Joined(parts, m + 1, j)

RECURSIVE Serialize(_, _)

SerializeElement(key, v, keys) ==
  CASE v.type = "null" -> <<>>
    [] v.type = "string" -> <<ElementType.string>> \o CString(key) \o BsonString(v.val)
    [] v.type = "binary" -> <<ElementType.binary>> \o CString(key) \o BsonBinary(v.val)
    [] v.type \in Fixed -> <<ElementType[v.type]>> \o CString(key) \o <<v.val>>
    [] v.type \in {"object", "array"} ->
         <<ElementType[v.type]>> \o CString(key) \o Serialize(v, keys)

InOrder(table) == SetToSortSeq(DOMAIN table, LAMBDA a, b : a[1] < b[1])

\* length, elements, NUL
Serialize(doc, keys) ==
  LET names == IF doc.type = "array" THEN [i \in 1..Len(doc.val) |-> keys[i - 1]]
               ELSE InOrder(doc.val)
      value(i) == IF doc.type = "array" THEN doc.val[i] ELSE doc.val[names[i]]
      elements == [i \in DOMAIN names |-> SerializeElement(names[i], value(i), keys)]
      body == Joined(elements, 1, Len(elements))
  IN  <<Len(body) + 2>> \o CString(body)

-----------------------------------------------------------------------------
(* Deserialize, from place p of stream s: what is read, and the next place. *)

\* MemStream reads zeros beyond its end
Get(s, p) == IF p <= Len(s) THEN s[p] ELSE 0
Segment(s, p, n) == [i \in 1..n |-> Get(s, p + i - 1)]
NulFrom(s, p) ==
  IF Get(s, p) = 0 THEN p
  ELSE CHOOSE q \in p + 1..Len(s) + 1 : Get(s, q) = 0 /\ \A r \in p + 1..q - 1 : Get(s, r) # 0
UpToNul(s, p) == SubSeq(s, p, NulFrom(s, p) - 1)

RECURSIVE Deserialize(_, _, _)

ReadString(s, p) ==
  [val |-> Text(UpToNul(Segment(s, p + 1, Get(s, p)), 1)), next |-> p + 1 + Get(s, p)]

\* subtype 2 has a second length
ReadBinary(s, p) ==
  LET q == IF Get(s, p + 1) = 2 THEN p + 2 ELSE p
      first == p + 2 + (q - p) \div 2
      n == Get(s, q)
  IN  [val |-> [type |-> "binary", val |-> Segment(s, first, n)], next |-> first + n]

ReadNumber(type, s, p) ==
  [val |-> Number(type, IF type = "boolean" /\ Get(s, p) # 0 THEN 1 ELSE Get(s, p)), next |-> p + 1]

\* the value of an element; a type the decoder does not know takes nothing from the stream
DeserializeValue(code, s, p) ==
  IF code \notin Known THEN [val |-> Null, next |-> p]
  ELSE LET type == TypeOf(code) IN
       CASE type = "string" -> ReadString(s, p)
         [] type = "binary" -> ReadBinary(s, p)
         [] type \in Fixed -> ReadNumber(type, s, p)
         [] OTHER -> Deserialize(type, s, p)

DeserializeElement(s, p) ==
  LET value == DeserializeValue(s[p], s, NulFrom(s, p + 1) + 1) IN
  [val |-> <<[key |-> UpToNul(s, p + 1), val |-> value.val]>>, next |-> value.next]

\* the elements up to the NUL that stands in the place of a type, 2^k at most: read in
\* halves, for TLC to recurse k deep and not once for every element
RECURSIVE DeserializeElements(_, _, _)
DeserializeElements(s, p, k) ==
  IF Get(s, p) = 0 THEN [val |-> <<>>, next |-> p]
  ELSE IF k = 0 THEN DeserializeElement(s, p)
  ELSE LET half == DeserializeElements(s, p, k - 1)
           rest == DeserializeElements(s, half.next, k - 1)
       IN  [val |-> half.val \o rest.val, next |-> rest.next]

\* bound: 2^12 elements, more than there are symbols in any stream of a run
Depth == 12

\* std::map::insert: the first of a name stays
TableOf(elements) ==
  [name \in {elements[i].key : i \in DOMAIN elements} |->
     SelectSeq(elements, LAMBDA e : e.key = name)[1].val]

\* a document; its length is not looked at
Deserialize(type, s, p) ==
  LET elements == DeserializeElements(s, p + 1, Depth) IN
  [val |-> IF type = "array" THEN ArrayOf([i \in DOMAIN elements.val |-> elements.val[i].val])
           ELSE ObjectOf(TableOf(elements.val)),
   next |-> elements.next + 1]

-----------------------------------------------------------------------------
(* InstantiateObject: what a member of a class takes from a table. A       *)
(* member is declared with its type and, if it is an array, the class of   *)
(* its elements; no constructor gives a number a value. The classes have no *)
(* members that are objects, and nobody sends them a null, which the code   *)
(* would follow.                                                           *)

Garbage == -1
Member(type) == [type |-> type, of |-> <<>>]
Unset(type) == CASE type = "string" -> Text(<<>>)
                 [] type = "array" -> ArrayOf(<<>>)
                 [] type \in Fixed -> Number(type, Garbage)

RECURSIVE InstantiateObject(_, _)

AddAll(source, class) ==
  LET valid == SelectSeq(source, LAMBDA e : e.type # "null") IN
  [i \in DOMAIN valid |-> IF valid[i].type = "object"
                          THEN ObjectOf(InstantiateObject(valid[i].val, class))
                          ELSE valid[i]]

InstantiateObject(table, class) ==
  [name \in DOMAIN class |->
     IF name \notin DOMAIN table \/ table[name].type # class[name].type
     THEN Unset(class[name].type)
     ELSE IF class[name].type = "array"
          THEN ArrayOf(AddAll(table[name].val, class[name].of))
          ELSE table[name]]

\* the classes that commands carry
BasketStatus == (RFID :> Member("string")) @@ (status :> Member("int32"))
InventoryRequest == (list :> Member("array")) @@ (position :> Member("int32"))
Inventory == list :> [type |-> "array", of |-> BasketStatus]

\* Bson::Deserialize into an object of a class
ReadAs(class, s) == ObjectOf(InstantiateObject(Deserialize("object", s, 1).val.val, class))
=============================================================================
