------------------------------- MODULE JsonValue -------------------------------
(***************************************************************************)
(* Json::Value (jsoncpp.cpp): what a value holds, how values are compared, *)
(* converted and reached.  Numbers have a width here: IntBits for the      *)
(* code's Int (32 there), LargestBits for its LargestInt (64 there).       *)
(*                                                                         *)
(* An array is a map from indices to values, as in the code: an index that *)
(* was skipped is not there, and reads as null.  RealValue(h) is the number     *)
(* h / 2.  A failed JSON_ASSERT throws; comments, offsets and the sharing  *)
(* of strings are left out, and so are NaN and the infinities.             *)
(***************************************************************************)
EXTENDS Json, SequencesExt

CONSTANTS IntBits, LargestBits,
          Throws                     \* what a failed assertion leaves

ASSUME WidthAssumption ==
  IntBits \in Nat /\ LargestBits \in Nat /\ 1 < IntBits /\ IntBits < LargestBits

MinInt == -(2 ^ (IntBits - 1))
MaxInt == 2 ^ (IntBits - 1) - 1
MaxUInt == 2 ^ IntBits - 1
MinLargestInt == -(2 ^ (LargestBits - 1))
MaxLargestInt == 2 ^ (LargestBits - 1) - 1
MaxLargestUInt == 2 ^ LargestBits - 1

IntValue(n)  == [type |-> "int", value |-> n]
UIntValue(n) == [type |-> "uint", value |-> n]
RealValue(h) == [type |-> "real", value |-> h]
ArrayMap(f) == [type |-> "array", value |-> f]

\* ValueType: the order of the types.
ValueType == <<"null", "int", "uint", "real", "string", "boolean", "array", "object">>
Rank(v) == CHOOSE i \in DOMAIN ValueType : ValueType[i] = v.type

\* Value(ValueType).
DefaultOf(type) == CASE type = "null" -> Null
                     [] type \in {"int", "uint", "real"} -> [type |-> type, value |-> 0]
                     [] type = "string" -> String(<<>>)
                     [] type = "boolean" -> Bool(FALSE)
                     [] OTHER -> [type |-> type, value |-> NoMembers]

(***************************************************************************)
(* Order                                                                   *)
(***************************************************************************)
Common(a, b) == CHOOSE n \in 0 .. Len(a) :
                  /\ n <= Len(b) /\ SubSeq(a, 1, n) = SubSeq(b, 1, n)
                  /\ n = Len(a) \/ n = Len(b) \/ a[n + 1] # b[n + 1]

\* CZString: memcmp over the shorter length, then the lengths.
NameLess(a, b) ==
  LET n == Common(a, b)
  IN IF n = Len(a) \/ n = Len(b) THEN Len(a) < Len(b) ELSE a[n + 1] < b[n + 1]
KeyLess(type, a, b) == IF type = "array" THEN a < b ELSE NameLess(a, b)

\* getMemberNames, or the indices of an array: the keys in the order of the map.
Keys(v) == SetToSortSeq(DOMAIN v.value, LAMBDA a, b : KeyLess(v.type, a, b))

\* operator<: the types, then the numbers of entries, then the first that differ.
RECURSIVE Less(_, _)
Less(v, w) ==
  LET MapLess ==
        LET ks == Keys(v)
            ls == Keys(w)
            Before(i) == \/ KeyLess(v.type, ks[i], ls[i])
                         \/ ks[i] = ls[i] /\ Less(v.value[ks[i]], w.value[ls[i]])
            After(i)  == \/ KeyLess(v.type, ls[i], ks[i])
                         \/ ks[i] = ls[i] /\ Less(w.value[ls[i]], v.value[ks[i]])
        IN \E i \in DOMAIN ks :
             Before(i) /\ \A j \in 1 .. i - 1 : ~Before(j) /\ ~After(j)
  IN CASE v.type # w.type   -> Rank(v) < Rank(w)
       [] v.type # w.type \/ v.type = "null" -> FALSE
       [] v.type \in {"int", "uint", "real"} -> v.value < w.value
       [] v.type = "boolean" -> ~v.value /\ w.value
       [] v.type = "string"  -> NameLess(v.value, w.value)
       [] OTHER -> IF Cardinality(DOMAIN v.value) # Cardinality(DOMAIN w.value)
                   THEN Cardinality(DOMAIN v.value) < Cardinality(DOMAIN w.value)
                   ELSE MapLess

RECURSIVE Equal(_, _)
Equal(v, w) ==
  /\ v.type = w.type
  /\ CASE v.type = "null" -> TRUE
       [] v.type \in {"array", "object"} ->
            /\ DOMAIN v.value = DOMAIN w.value
            /\ \A k \in DOMAIN v.value : Equal(v.value[k], w.value[k])
       [] OTHER -> v.value = w.value

Compare(v, w) == IF Less(v, w) THEN -1 ELSE IF Less(w, v) THEN 1 ELSE 0

(***************************************************************************)
(* Numbers                                                                 *)
(***************************************************************************)
IsNumeric(v) == v.type \in {"int", "uint", "real"}
Halves(v)    == IF v.type = "real" THEN v.value ELSE 2 * v.value
Whole(v)     == Halves(v) % 2 = 0
InRange(v, least, most) == 2 * least <= Halves(v) /\ Halves(v) <= 2 * most
Truncated(v) == IF Halves(v) < 0 THEN -((-Halves(v)) \div 2) ELSE Halves(v) \div 2

IsInt(v)  == IsNumeric(v) /\ InRange(v, MinInt, MaxInt) /\ Whole(v)
IsUInt(v) == IsNumeric(v) /\ InRange(v, 0, MaxUInt) /\ Whole(v)

\* The largest integers are no doubles: as doubles they are one larger.
IsInt64(v) == CASE v.type = "int"  -> TRUE
                [] v.type = "uint" -> v.value <= MaxLargestInt
                [] v.type = "real" -> /\ InRange(v, MinLargestInt, MaxLargestInt + 1)
                                      /\ Halves(v) < 2 * (MaxLargestInt + 1) /\ Whole(v)
                [] OTHER -> FALSE
IsUInt64(v) == CASE v.type = "int"  -> v.value >= 0
                 [] v.type = "uint" -> TRUE
                 [] v.type = "real" -> /\ Halves(v) >= 0
                                       /\ Halves(v) < 2 * (MaxLargestUInt + 1) /\ Whole(v)
                 [] OTHER -> FALSE
IsIntegral(v) == CASE v.type \in {"int", "uint"} -> TRUE
                   [] v.type = "real" -> /\ Halves(v) >= 2 * MinLargestInt
                                         /\ Halves(v) < 2 * (MaxLargestUInt + 1) /\ Whole(v)
                   [] OTHER -> FALSE

\* asInt and its like: integer(v) is asked of integers, least and most of reals.
As(v, integer, least, most) ==
  CASE v.type \in {"int", "uint"} /\ integer -> v.value
    [] v.type = "real" /\ InRange(v, least, most) -> Truncated(v)
    [] v.type = "null" -> 0
    [] v.type = "boolean" -> IF v.value THEN 1 ELSE 0
    [] OTHER -> Throws
AsInt(v)    == As(v, IsInt(v), MinInt, MaxInt)
AsUInt(v)   == As(v, IsUInt(v), 0, MaxUInt)
AsInt64(v)  == As(v, IsInt64(v), MinLargestInt, MaxLargestInt + 1)
AsUInt64(v) == As(v, IsUInt64(v), 0, MaxLargestUInt + 1)
AsDouble(v) == CASE IsNumeric(v) -> Halves(v)
                 [] v.type = "null" -> 0
                 [] v.type = "boolean" -> IF v.value THEN 2 ELSE 0
                 [] OTHER -> Throws
AsBool(v) == CASE v.type = "boolean" -> v.value
               [] v.type = "null" -> FALSE
               [] IsNumeric(v) -> Halves(v) # 0
               [] OTHER -> Throws

\* valueToString: a real that is whole keeps a ".0".
Decimal(n) == LET digits[m \in Nat] == IF m < 10 THEN <<48 + m>>
                                       ELSE Append(digits[m \div 10], 48 + (m % 10))
              IN IF n < 0 THEN <<Minus>> \o digits[-n] ELSE digits[n]
RealText(h) == (IF h < 0 THEN <<Minus>> ELSE <<>>) \o Decimal((IF h < 0 THEN -h ELSE h) \div 2)
               \o <<Dot, IF h % 2 = 0 THEN 48 ELSE 53>>
WordOf(b) == LET first == IF b THEN 116 ELSE 102 IN <<first>> \o Words[first]
ValueToString(v) == IF v.type = "real" THEN RealText(v.value) ELSE Decimal(v.value)
AsString(v) == CASE v.type = "null" -> <<>>
                 [] v.type = "string" -> v.value
                 [] v.type = "boolean" -> WordOf(v.value)
                 [] IsNumeric(v) -> ValueToString(v)
                 [] OTHER -> Throws

IsConvertibleTo(v, type) ==
  CASE type = "null" -> \/ v.type = "null"
                        \/ IsNumeric(v) /\ AsDouble(v) = 0
                        \/ v.type = "boolean" /\ ~v.value
                        \/ v.type = "string" /\ v.value = <<>>
                        \/ v.type \in {"array", "object"} /\ DOMAIN v.value = {}
    [] type = "int"  -> \/ IsInt(v) \/ v.type \in {"boolean", "null"}
                        \/ v.type = "real" /\ InRange(v, MinInt, MaxInt)
    [] type = "uint" -> \/ IsUInt(v) \/ v.type \in {"boolean", "null"}
                        \/ v.type = "real" /\ InRange(v, 0, MaxUInt)
    [] type \in {"real", "boolean"} -> IsNumeric(v) \/ v.type \in {"boolean", "null"}
    [] type = "string" -> IsNumeric(v) \/ v.type \in {"boolean", "null", "string"}
    [] OTHER -> v.type \in {type, "null"}

\* decodeNumber of the reader, digit by digit; NotInteger: left to decodeDouble.
\* The least integer is negated as what it wraps to.
NotInteger == [type |-> "not an integer"]
DecodeNumber(t) ==
  LET negative == t[1] = Minus
      most == IF negative THEN -MinLargestInt ELSE MaxLargestUInt
      TooLarge(i, v, digit) == v >= most \div 10
                               /\ (v > most \div 10 \/ i # Len(t) \/ digit > most % 10)
      from[i \in 1 .. Len(t) + 1, v \in 0 .. most] ==
        CASE i > Len(t) -> v
          [] i <= Len(t) /\ (t[i] \notin Digits \/ TooLarge(i, v, t[i] - 48)) -> -1
          [] OTHER -> from[i + 1, 10 * v + t[i] - 48]
      n == from[IF negative THEN 2 ELSE 1, 0]
  IN CASE n < 0 -> NotInteger
       [] n >= 0 /\ negative -> IntValue(-n)
       [] n >= 0 /\ ~negative /\ n <= MaxInt -> IntValue(n)
       [] OTHER -> UIntValue(n)

(***************************************************************************)
(* Arrays and objects.  What changes a value gives the new value, or       *)
(* Throws; a null becomes an empty array or object when it is used as one. *)
(***************************************************************************)
Holds(v, type) == v.type \in {type, "null"}
MapOf(v) == IF v.type = "null" THEN NoMembers ELSE v.value
WithEntry(m, k, v) == (k :> v) @@ m
Without(m, ks) == Restrict(m, DOMAIN m \ ks)

\* The size of an array is its highest index and one.
Size(v) == CASE v.type = "array"  -> IF DOMAIN v.value = {} THEN 0 ELSE Max(DOMAIN v.value) + 1
             [] v.type = "object" -> Cardinality(DOMAIN v.value)
             [] OTHER -> 0
IsEmpty(v) == v.type \in {"null", "array", "object"} /\ Size(v) = 0
Clear(v) == CASE v.type \in {"array", "object"} -> [v EXCEPT !.value = NoMembers]
              [] v.type = "null" -> v
              [] OTHER -> Throws

\* operator[](index) of a constant value, and of one that may change: there it
\* makes the index, as null.
Element(v, i) == CASE ~Holds(v, "array") -> Throws
                   [] Holds(v, "array") /\ i \in DOMAIN MapOf(v) -> MapOf(v)[i]
                   [] OTHER -> Null
Touched(v, i) == CASE ~Holds(v, "array") -> Throws
                   [] Holds(v, "array") /\ i \in DOMAIN MapOf(v) -> v
                   [] OTHER -> ArrayMap(WithEntry(MapOf(v), i, Null))
IsValidIndex(v, i) == i < Size(v)
GetElement(v, i, default) == IF Holds(v, "array") /\ i \notin DOMAIN MapOf(v)
                             THEN default ELSE Element(v, i)
AppendValue(v, w) == IF ~Holds(v, "array") THEN Throws
                     ELSE ArrayMap(WithEntry(MapOf(v), Size(v), w))

\* resize ends with an assertion on the size.
Resize(v, n) ==
  LET shorter == Without(MapOf(v), n .. Size(v))
  IN CASE ~Holds(v, "array") -> Throws
       [] Holds(v, "array") /\ n = 0 -> ArrayMap(NoMembers)
       [] Holds(v, "array") /\ n > Size(v) -> Touched(v, n - 1)
       [] OTHER -> IF Size(ArrayMap(shorter)) = n THEN ArrayMap(shorter) ELSE Throws

\* removeIndex: whether it removed something, and what it leaves.  The items to
\* the right move left; one that was not there is made, as null, on the way.
RemoveIndex(v, i) ==
  IF v.type # "array" \/ i \notin DOMAIN v.value THEN [ok |-> FALSE, left |-> v, removed |-> Null]
  ELSE [ok |-> TRUE, removed |-> v.value[i],
        left |-> ArrayMap([k \in {j \in DOMAIN v.value : j < i} \cup i .. Size(v) - 2 |->
                             IF k < i THEN v.value[k] ELSE Element(v, k + 1)])]

\* find, operator[](key) of a constant value and of one that may change.
NotFound == [type |-> "not found"]
Find(v, name) == CASE ~Holds(v, "object") -> Throws
                   [] Holds(v, "object") /\ name \in DOMAIN MapOf(v) -> MapOf(v)[name]
                   [] OTHER -> NotFound
MemberOf(v, name) == IF Find(v, name) = NotFound THEN Null ELSE Find(v, name)
IsMember(v, name) == IF Find(v, name) = Throws THEN Throws ELSE Find(v, name) # NotFound
ResolveReference(v, name) ==
  CASE ~Holds(v, "object") -> Throws
    [] Holds(v, "object") /\ name \in DOMAIN MapOf(v) -> v
    [] OTHER -> Object(WithEntry(MapOf(v), name, Null))
RemoveMember(v, name) ==
  IF v.type # "object" \/ name \notin DOMAIN v.value THEN [ok |-> FALSE, left |-> v, removed |-> Null]
  ELSE [ok |-> TRUE, left |-> Object(Without(v.value, {name})), removed |-> v.value[name]]
GetMemberNames(v) == CASE v.type = "object" -> Keys(v) [] v.type = "null" -> <<>> [] OTHER -> Throws

(***************************************************************************)
(* Path: a way into a value, given as a text                               *)
(***************************************************************************)
OpenBracket  == 91
CloseBracket == 93
Percent      == 37
Key(name) == [kind |-> "key", key |-> name]
Index(i)  == [kind |-> "index", index |-> i]
Argument(given, kind) == IF given # <<>> /\ Head(given).kind = kind THEN <<Head(given)>> ELSE <<>>

\* makePath: from is what the rest of the path p adds, given the arguments left.
\* A % takes the next argument, if that is of its kind; the brackets are not
\* checked (invalidPath does nothing).
MakePath(p, given) ==
  LET NumberOf(i, j) == LET n[k \in i .. j] == IF k = i THEN 0 ELSE 10 * n[k - 1] + At(p, k - 1) - 48
                        IN n[j]
      from[i \in 0 .. Len(p), g \in 0 .. Len(given)] ==
        LET left == SubSeq(given, g + 1, Len(given))
            Taken(kind, next) == Argument(left, kind) \o from[next, g + Len(Argument(left, kind))]
            digitsEnd == Past(p, i + 1, Digits)
            nameEnd   == Past(p, i, (1 .. 255) \ {OpenBracket, Dot})
            Bracket(e) == IF e < Len(p) THEN e + 1 ELSE e
        IN CASE i = Len(p) -> <<>>
             [] At(p, i) = OpenBracket /\ At(p, i + 1) = Percent -> Taken("index", Bracket(i + 1))
             [] At(p, i) = OpenBracket /\ At(p, i + 1) # Percent ->
                  <<Index(NumberOf(i + 1, digitsEnd))>> \o from[Bracket(digitsEnd), g]
             [] At(p, i) = Percent -> Taken("key", i + 1)
             [] i < Len(p) /\ At(p, i) \in {Dot, CloseBracket} -> from[i + 1, g]
             [] OTHER -> <<Key(SubSeq(p, i + 1, nameEnd))>> \o from[nameEnd, g]
  IN from[0, 0]

\* resolve with a default (without one the default is null), and make.
Resolve(root, args, default) ==
  LET Step(v, a) ==
        CASE a.kind = "index" -> IF v.type = "array" /\ IsValidIndex(v, a.index)
                                 THEN Element(v, a.index) ELSE NotFound
          [] a.kind = "key"   -> IF v.type = "object" THEN Find(v, a.key) ELSE NotFound
      node[i \in 0 .. Len(args)] ==
        IF i = 0 THEN root
        ELSE LET above == node[i - 1] IN IF above = NotFound THEN NotFound ELSE Step(above, args[i])
  IN IF node[Len(args)] = NotFound THEN default ELSE node[Len(args)]

RECURSIVE Make(_, _)
Make(v, args) ==
  IF args = <<>> THEN v
  ELSE LET a == Head(args)
           k == IF a.kind = "index" THEN a.index ELSE a.key
           here == IF a.kind = "index" THEN Touched(v, a.index) ELSE ResolveReference(v, a.key)
           below == IF here = Throws THEN Throws ELSE Make(here.value[k], Tail(args))
       IN IF below = Throws THEN Throws ELSE [here EXCEPT !.value[k] = below]
================================================================================
