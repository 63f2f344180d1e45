-------------------------------- MODULE MCJson --------------------------------
(***************************************************************************)
(* The reader, the values and the writers of jsoncpp on their own: what    *)
(* they compute against what they ought to, over small documents, values   *)
(* and paths.  TLC evaluates the assumptions before it starts on the       *)
(* states of MCRetroactive.                                                *)
(***************************************************************************)
EXTENDS JsonWriter

Bytes(name) == FlattenSeq([i \in DOMAIN name |-> UTF8(name[i])])

(***************************************************************************)
(* Values, of every type and at the limits of their width                  *)
(***************************************************************************)
Numbers == {IntValue(n) : n \in {MinLargestInt, MinInt - 1, MinInt, -1, 0, 1, MaxInt, MaxInt + 1, MaxLargestInt}}
           \cup {UIntValue(n) : n \in {0, 1, MaxUInt, MaxUInt + 1, MaxLargestInt + 1, MaxLargestUInt}}
           \cup {RealValue(h) : h \in {2 * MinLargestInt - 1, 2 * MinInt, -3, -1, 0, 1, 2, 2 * MaxInt + 1,
                                        2 * (MaxLargestInt + 1), 2 * (MaxLargestUInt + 1)}}
Scalars == Numbers \cup {Null, Bool(TRUE), Bool(FALSE)}
           \cup {String(s) : s \in {<<>>, <<65>>, <<65, 32>>, <<66>>, <<Quote, 65>>}}
Few     == {Null, Bool(FALSE), IntValue(1), String(<<65>>)}
ArrayOf(s) == ArrayMap([i \in 0 .. Len(s) - 1 |-> s[i + 1]])
Sequences(n) == UNION {[1 .. k -> Few] : k \in 0 .. n}
Arrays  == {ArrayOf(s) : s \in Sequences(2)} \cup {ArrayMap(1 :> Null), ArrayMap(2 :> IntValue(1))}
Objects == {Object(f) : f \in UNION {[D -> Few] : D \in SUBSET {<<65>>, <<65, 66>>}}}
Nested  == {ArrayOf(<<v, w>>) : v \in {Null, ArrayOf(<<>>), ArrayOf(<<Null>>)}, w \in {Object(NoMembers), Object(<<66>> :> Null)}}
           \cup {Object(<<66>> :> v @@ <<>> :> w) : v \in {ArrayOf(<<Null>>), Object(NoMembers)}, w \in {Null, Object(<<65>> :> Null)}}
Universe == Scalars \cup Arrays \cup Objects \cup Nested

\* operator< and operator== make a strict total order: of two values just one
\* holds, and the order is transitive (a std::map needs no less of its keys).
ASSUME OrderIsTotal ==
  \A v, w \in Universe :
    /\ (Less(v, w) => ~Less(w, v) /\ ~Equal(v, w))
    /\ (~Less(v, w) /\ ~Less(w, v) => Equal(v, w))
    /\ Compare(v, w) = -Compare(w, v)
ASSUME OrderIsTransitive ==
  LET Some == Arrays \cup Nested \cup {Null, IntValue(1), UIntValue(0), String(<<65>>), String(<<65, 32>>), Object(NoMembers)}
      less == [p \in Some \X Some |-> Less(p[1], p[2])]
  IN \A u, v, w \in Some : less[u, v] /\ less[v, w] => less[u, w]

\* isConvertibleTo promises what asInt and its like then do without throwing.
ASSUME ConvertibleIsConverted ==
  \A v \in Universe :
    /\ (IsConvertibleTo(v, "int") <=> AsInt(v) # Throws)
    /\ (IsConvertibleTo(v, "uint") <=> AsUInt(v) # Throws)
    /\ (IsConvertibleTo(v, "real") <=> AsDouble(v) # Throws)
    /\ (IsConvertibleTo(v, "boolean") <=> AsBool(v) # Throws)
    /\ (IsConvertibleTo(v, "string") <=> AsString(v) # Throws)
    /\ (IsConvertibleTo(v, "null") /\ AsInt(v) # Throws => AsInt(v) = 0)

\* What asInt gives fits an Int, and is the value of an integer.  What asInt64
\* gives need not fit: the largest integer as a double is one too large, and
\* asInt64 takes it although isInt64 does not.
ASSUME ConvertedFits ==
  /\ \A v \in Numbers :
       /\ (AsInt(v) # Throws => AsInt(v) \in MinInt .. MaxInt)
       /\ (AsUInt(v) # Throws => AsUInt(v) \in 0 .. MaxUInt)
       /\ (IsInt(v) => 2 * AsInt(v) = Halves(v))
       /\ (IsInt64(v) => 2 * AsInt64(v) = Halves(v))
       /\ (IsUInt64(v) => 2 * AsUInt64(v) = Halves(v))
       /\ (IsIntegral(v) <=> IsInt64(v) \/ IsUInt64(v))
  /\ LET v == RealValue(2 * (MaxLargestInt + 1)) IN AsInt64(v) > MaxLargestInt /\ ~IsInt64(v)

(***************************************************************************)
(* Numbers as texts                                                        *)
(***************************************************************************)
NumberChars == {Minus, Dot, 48, 49, 50, 51, 52, 54, 57}
NumberTexts == UNION {[1 .. n -> NumberChars] : n \in 1 .. 4}

\* A text of digits is an Int if it fits one, else a UInt of the largest width;
\* with a minus, an Int of the largest width; a minus alone is zero.
Meant(t) ==
  LET negative == t[1] = Minus
      digits == IF negative THEN Tail(t) ELSE t
      n == FoldFunction(+, 0, [i \in DOMAIN digits |-> (digits[i] - 48) * 10 ^ (Len(digits) - i)])
  IN CASE Range(digits) \subseteq Digits /\ negative /\ -n >= MinLargestInt -> IntValue(-n)
       [] Range(digits) \subseteq Digits /\ ~negative /\ n <= MaxInt -> IntValue(n)
       [] Range(digits) \subseteq Digits /\ ~negative /\ n > MaxInt /\ n <= MaxLargestUInt -> UIntValue(n)
       [] OTHER -> NotInteger
ASSUME NumbersAreDecoded == \A t \in NumberTexts : DecodeNumber(t) = Meant(t)

(***************************************************************************)
(* Arrays without holes are sequences.  A resize that grows an array makes *)
(* holes of all but its last index; cut back, it is found too short.       *)
(***************************************************************************)
ASSUME ArraysAreSequences ==
  \A s \in Sequences(3) :
    /\ Size(ArrayOf(s)) = Len(s)
    /\ AppendValue(ArrayOf(s), IntValue(1)) = ArrayOf(Append(s, IntValue(1)))
    /\ \A n \in 0 .. Len(s) : Resize(ArrayOf(s), n) = ArrayOf(SubSeq(s, 1, n))
    /\ \A i \in DOMAIN s : RemoveIndex(ArrayOf(s), i - 1) =
                             [ok |-> TRUE, removed |-> s[i], left |-> ArrayOf(RemoveAt(s, i))]
ASSUME HolesAreLeft ==
  LET one   == ArrayOf(<<IntValue(1)>>)
      grown == Resize(one, 3)
  IN /\ Size(grown) = 3 /\ Keys(grown) = <<0, 2>> /\ ~Equal(grown, ArrayOf(<<IntValue(1), Null, Null>>))
     /\ Resize(grown, 2) = Throws
     /\ IsValidIndex(grown, 1) /\ ~RemoveIndex(grown, 1).ok /\ RemoveIndex(grown, 2).ok
     /\ GetElement(grown, 1, MinusOne) = MinusOne /\ Element(grown, 1) = Null

\* A member set is a member found, until it is removed.
ASSUME MembersAreKept ==
  \A v \in Objects \cup {Null} : \A name \in {<<>>, <<65>>, <<66>>} :
    LET there == ResolveReference(v, name)
    IN /\ IsMember(there, name) /\ ~IsMember(RemoveMember(there, name).left, name)
       /\ MemberOf(there, name) = MemberOf(v, name)
       /\ \A other \in {<<>>, <<65>>, <<66>>} \ {name} : IsMember(there, other) = IsMember(v, other)
       /\ Range(GetMemberNames(there)) = Range(GetMemberNames(v)) \cup {name}
       /\ \A i, j \in DOMAIN GetMemberNames(there) :
            i < j => NameLess(GetMemberNames(there)[i], GetMemberNames(there)[j])

(***************************************************************************)
(* Paths                                                                   *)
(***************************************************************************)
Steps == {Key(<<65>>), Key(<<66, 67>>), Index(0), Index(12)}
Ways  == UNION {[1 .. n -> Steps] : n \in 0 .. 3}
Written(a) == IF a.kind = "key" THEN <<Dot>> \o a.key
              ELSE <<OpenBracket>> \o Decimal(a.index) \o <<CloseBracket>>
Asked(a) == IF a.kind = "key" THEN <<Dot, Percent>> ELSE <<OpenBracket, Percent, CloseBracket>>
TextOf(way, Text(_)) == FlattenSeq([i \in DOMAIN way |-> Text(way[i])])

\* A path is parsed as written, also when its steps are given as arguments.
ASSUME PathsAreParsed == \A way \in Ways : /\ MakePath(TextOf(way, Written), <<>>) = way
                                           /\ MakePath(TextOf(way, Asked), way) = way

\* make makes the whole way or throws, and then the path leads somewhere.
ASSUME WaysAreMade ==
  \A way \in Ways : \A root \in {Null, ArrayOf(<<Null>>), Object(<<65>> :> Null), Bool(TRUE)} :
    LET made == Make(root, way)
    IN /\ (made # Throws => Resolve(made, way, MinusOne) # MinusOne)
       /\ (root = Null => made # Throws)
       /\ (made = Throws => Resolve(root, way, MinusOne) = MinusOne)

(***************************************************************************)
(* The writers, read back                                                  *)
(***************************************************************************)
RealIn(t) == IF \E v \in Numbers : v.type = "real" /\ RealText(v.value) = t
             THEN CHOOSE v \in Numbers : v.type = "real" /\ RealText(v.value) = t ELSE NotInteger
RECURSIVE Loaded(_)
Loaded(v) ==
  CASE v.type = "number" -> IF DecodeNumber(v.value) = NotInteger THEN RealIn(v.value) ELSE DecodeNumber(v.value)
    [] v.type = "array"  -> ArrayOf([i \in DOMAIN v.value |-> Loaded(v.value[i])])
    [] v.type = "object" -> Object([k \in DOMAIN v.value |-> Loaded(v.value[k])])
    [] OTHER -> v

\* What is lost: holes become null, and an integer has the type of its size.
RECURSIVE Normal(_)
Normal(v) ==
  CASE v.type = "array"  -> ArrayOf([i \in 1 .. Size(v) |-> Normal(Children(v)[i])])
    [] v.type = "object" -> Object([k \in DOMAIN v.value |-> Normal(v.value[k])])
    [] v.type \in {"int", "uint"} -> IF v.value > MaxInt THEN UIntValue(v.value) ELSE IntValue(v.value)
    [] OTHER -> v

Texts(v) == {FastWriter(v, yaml, FALSE, omit) : yaml \in BOOLEAN, omit \in BOOLEAN}
            \cup {StyledWriter(v), StyledStreamWriter(v, <<9>>)}
            \cup {BuiltStyledStreamWriter(v, [SetDefaults EXCEPT !.indentation = indentation,
                                              !.commentStyle = style, !.enableYAMLCompatibility = yaml]) :
                   indentation \in {<<>>, <<9>>}, style \in {"All", "None"}, yaml \in BOOLEAN}
ReadBack(text) == LET r == ParseFromStream(text, Null) IN IF r.ok THEN Loaded(r.value) ELSE NotFound
Bare(text) == SelectSeq(text, LAMBDA c : c \notin Spaces)

\* Every writer's text is read back as the value, and they differ in white
\* space only; what the server draws is what WriteString says.
ASSUME WritersAgree ==
  \A v \in Universe :
    /\ \A text \in Texts(v) : ReadBack(text) = Normal(v) /\ Bare(text) = Bare(StyledWriter(v))
    /\ (v.type \in {"string", "null"} => BuiltStyledStreamWriter(v, SetDefaults) = WriteString(v))

\* With dropNullPlaceholders a null among others is written as nothing, which
\* the reader does not read.
ASSUME DroppedNullsAreNotRead ==
  LET v == ArrayOf(<<Null, IntValue(1)>>)
      Dropped(w) == BuiltStyledStreamWriter(w, [SetDefaults EXCEPT !.dropNullPlaceholders = TRUE])
  IN ReadBack(FastWriter(v, FALSE, TRUE, TRUE)) = NotFound /\ ReadBack(Dropped(v)) = NotFound

(***************************************************************************)
(* The reader against a grammar: values of 1, "..." without escapes, {}    *)
(* and [], over every document of up to six characters.                    *)
(***************************************************************************)
One == 49
Concat(A, B) == {a \o b : a \in A, b \in B}
Splits(n) == {x \in (0 .. n) \X (0 .. n) : x[1] + x[2] = n}

\* The texts of exactly n characters of alphabet A that the grammar derives.
RECURSIVE Grammar(_, _, _)
Grammar(what, A, n) ==
  IF n = 0 THEN {}
  ELSE CASE what = "string" ->
              IF n < 2 THEN {}
              ELSE Concat({<<Quote>>}, Concat([1 .. n - 2 -> A \ {Quote}], {<<Quote>>}))
         [] what = "member" ->
              UNION {Concat(Grammar("string", A, x[1]), Concat({<<58>>}, Grammar("value", A, x[2]))) :
                     x \in Splits(n - 1)}
         [] what \in {"members", "values"} ->
              LET one == IF what = "members" THEN "member" ELSE "value"
              IN Grammar(one, A, n) \cup
                 UNION {Concat(Grammar(one, A, x[1]), Concat({<<44>>}, Grammar(what, A, x[2]))) :
                        x \in Splits(n - 1)}
         [] what = "value" ->
              {[i \in 1 .. n |-> One]} \cup Grammar("string", A, n)
              \cup (IF n < 2 THEN {} ELSE
                      Concat({<<123>>}, Concat((IF n = 2 THEN {<<>>} ELSE Grammar("members", A, n - 2)), {<<125>>}))
                      \cup Concat({<<91>>}, Concat((IF n = 2 THEN {<<>>} ELSE Grammar("values", A, n - 2)), {<<93>>})))

Reads(d) == ParseFromStream(d, Null).ok /\ ParseFromStream(d, Null).at = Len(d)

ObjectChars == {123, 125, Quote, 58, 44, One}
ArrayChars  == {91, 93, Quote, 44, One}

ASSUME ReaderReadsTheGrammar ==
  \A A \in {ObjectChars, ArrayChars} : \A n \in 1 .. 6 :
    {d \in [1 .. n -> A] : Reads(d)} = {d \in Grammar("value", A, n) : Range(d) \subseteq A}

\* Beyond it: a comma before the brace is read after a member without a name
\* only, after a comment any token is read as the comma, and an apostrophe begins
\* a comment as a slash does.
ASSUME ReaderReadsMore ==
  /\ Reads(<<123, Quote, Quote, 58, One, 44, 125>>)
  /\ ~Reads(<<123, Quote, One, Quote, 58, One, 44, 125>>)
  /\ Reads(<<123, Quote, One, Quote, 58, One, Slash, Star, Star, Slash, 58,
             Quote, Quote, 58, One, 125>>)
  /\ Reads(<<Apostrophe, Star, Star, Slash, One>>) /\ ~Reads(<<Apostrophe, One, Apostrophe>>)

(***************************************************************************)
(* What the writer escapes, the reader reads back - but for the characters *)
(* from U+DFFF on, which the test for surrogates drops, and those from     *)
(* U+40000 on, whose first bits are shifted too far.                       *)
(***************************************************************************)
Kept == {1, 9, 10, 31, Quote, Backslash, Slash, 65, 127, 128, 2047, 2048, 55295, 65536, 128512, 262143}
Lost == {57343, 57344, 65281, 65533 - 1}

Rewritten(s) == ParseFromStream(WriteString(String(s)), Null).value

ASSUME WriterRoundTrip ==
  /\ \A x, y \in Kept : Rewritten(Bytes(<<x, y>>)) = String(Bytes(<<x, y>>))
  /\ \A x \in Lost : Rewritten(Bytes(<<65, x>>)) = String(Bytes(<<65, 65533>>))
  /\ Rewritten(Bytes(<<65, 262144>>)) # String(Bytes(<<65, 262144>>))

\* The bytes of four characters, written down.
ASSUME UTF8Bytes ==
  /\ UTF8(65) = <<65>> /\ UTF8(233) = <<195, 169>>
  /\ UTF8(8364) = <<226, 130, 172>> /\ UTF8(128512) = <<240, 159, 152, 128>>
================================================================================
