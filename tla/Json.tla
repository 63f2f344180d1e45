--------------------------------- MODULE Json ---------------------------------
(***************************************************************************)
(* What the server uses of jsoncpp: the reader with the default features   *)
(* of CharReaderBuilder, which load_poi_data runs over the file on the     *)
(* people of interest, Value::get, and the writer of a string or a null,   *)
(* which draw_detections runs over what it found.                          *)
(*                                                                         *)
(* A document is a sequence of bytes without NUL; a location is the number *)
(* of bytes before it.  Numbers keep their text: decoding them is left to  *)
(* sscanf.  Error messages, the offsets a value remembers and the limit on *)
(* the depth of a document (1000) are left out.                            *)
(***************************************************************************)
EXTENDS Integers, Sequences, FiniteSetsExt, TLC

Quote     == 34
Backslash == 92
Slash     == 47
Apostrophe == 39
Star      == 42
Minus     == 45
Dot       == 46
NewLine   == 10
Return    == 13
LetterU   == 117
LetterI   == 73
Spaces == {32, 9, 13, 10}
Digits == 48 .. 57
HexDigit == [c \in Digits \cup (97 .. 102) \cup (65 .. 70) |->
               IF c \in Digits THEN c - 48 ELSE IF c >= 97 THEN c - 87 ELSE c - 55]
HexText(x) == LET digit(n) == IF n < 10 THEN 48 + n ELSE 87 + n
              IN <<digit((x \div 4096) % 16), digit((x \div 256) % 16),
                   digit((x \div 16) % 16), digit(x % 16)>>

(***************************************************************************)
(* Values                                                                  *)
(***************************************************************************)
Null       == [type |-> "null"]
Bool(b)    == [type |-> "boolean", value |-> b]
Number(t)  == [type |-> "number", value |-> t]
String(s)  == [type |-> "string", value |-> s]
Array(es)  == [type |-> "array", value |-> es]
Object(ms) == [type |-> "object", value |-> ms]
NoMembers  == [name \in {} |-> Null]
MinusOne   == Number(<<Minus, 49>>)          \* Value(-1)

\* Value::get; on a value that is neither null nor an object it throws.
Get(v, name, default) ==
  IF v.type = "object" /\ name \in DOMAIN v.value THEN v.value[name] ELSE default

(***************************************************************************)
(* Tokens                                                                  *)
(***************************************************************************)
At(d, p) == IF p < Len(d) THEN d[p + 1] ELSE 0     \* getNextChar, without moving

\* The first location from p on whose character is not in S.
Past(d, p, S) ==
  LET past[q \in 0 .. Len(d)] == IF q < Len(d) /\ At(d, q) \in S THEN past[q + 1] ELSE q
  IN past[p]

Matches(d, p, word) == SubSeq(d, p + 1, p + Len(word)) = word

\* readString: past the closing quote, or at the end of the document.
ReadString(d, p) ==
  LET rest[q \in 0 .. Len(d) + 1] ==
        CASE q >= Len(d)           -> [ok |-> FALSE, at |-> Len(d)]
          [] At(d, q) = Quote      -> [ok |-> TRUE, at |-> q + 1]
          [] At(d, q) = Backslash  -> rest[q + 2]
          [] OTHER                 -> rest[q + 1]
  IN rest[p]

ReadNumber(d, p) ==
  LET Signed(q) == IF At(d, q) \in {43, Minus} THEN q + 1 ELSE q
      Exponent(q) == IF At(d, q) \in {101, 69} THEN Past(d, Signed(q + 1), Digits) ELSE q
      Fraction(q) == Exponent(IF At(d, q) = Dot THEN Past(d, q + 1, Digits) ELSE q)
  IN Fraction(Past(d, p, Digits))

\* readComment, p after the slash.
ReadComment(d, p) ==
  LET Closed(closes) == IF closes # {} THEN [ok |-> TRUE, at |-> Min(closes) + 2]
                        ELSE [ok |-> At(d, Max({p + 1, Len(d) - 1})) = Slash, at |-> Len(d)]
      Line(q) == IF At(d, q) = Return /\ At(d, q + 1) = NewLine THEN q + 2 ELSE q + 1
  IN CASE At(d, p) = Star  -> Closed({q \in p + 1 .. Len(d) - 2 :
                                     At(d, q) = Star /\ At(d, q + 1) = Slash})
       [] At(d, p) = Slash -> [ok |-> TRUE,
                               at |-> Min({Len(d), Line(Past(d, p + 1, (1 .. 255) \ {NewLine, Return}))})]
       [] OTHER            -> [ok |-> FALSE, at |-> Min({Len(d), p + 1})]

Punctuation == [c \in {123, 125, 91, 93, 44, 58} |->
                  CASE c = 123 -> "{" [] c = 125 -> "}" [] c = 91 -> "[" [] c = 93 -> "]"
                    [] c = 44 -> "," [] c = 58 -> ":"]
Words == [c \in {116, 102, 110} |->
            CASE c = 116 -> <<114, 117, 101>> [] c = 102 -> <<97, 108, 115, 101>> [] c = 110 -> <<117, 108, 108>>]
WordValue == 116 :> Bool(TRUE) @@ 102 :> Bool(FALSE) @@ 110 :> Null

\* readToken: the token that starts at s, past the white space.  An apostrophe is
\* taken for a slash: without allowSingleQuotes_ its case falls through.
Slashes == {Slash, Apostrophe}
TokenAt(d, s) ==
  LET c == At(d, s)
      Token(type, e) == [type |-> type, start |-> s, end |-> e]
      Ends(type, r) == Token(IF r.ok THEN type ELSE "error", r.at)
  IN CASE s = Len(d)               -> Token("end", s)
       [] c \in DOMAIN Punctuation -> Token(Punctuation[c], s + 1)
       [] c = Quote                -> Ends("string", ReadString(d, s + 1))
       [] c \in Slashes            -> Ends("comment", ReadComment(d, s + 1))
       [] c \in Digits             -> Token("number", ReadNumber(d, s + 1))
       [] c = Minus                -> IF At(d, s + 1) = LetterI THEN Token("error", s + 2)
                                      ELSE Token("number", ReadNumber(d, s + 1))
       [] c \in DOMAIN Words       -> IF Matches(d, s + 1, Words[c])
                                      THEN Token("word", s + 1 + Len(Words[c]))
                                      ELSE Token("error", s + 1)
       [] OTHER                    -> Token("error", s + 1)
ReadToken(d, p) == TokenAt(d, Past(d, p, Spaces))

\* skipCommentTokens, and the loops of readObject and readArray over comments.
TokenPastComments(d, p) ==
  LET next[q \in 0 .. Len(d)] ==
        LET Skip(token) == IF token.type = "comment" THEN next[token.end] ELSE token
        IN Skip(ReadToken(d, q))
  IN next[p]

(***************************************************************************)
(* Strings                                                                 *)
(***************************************************************************)
Low(n, bits) == n % bits                           \* masks off what is above
SixBits(cp, place) == 128 + Low(cp \div place, 64)
UTF8(cp) ==
  CASE cp <= 127                      -> <<cp>>
    [] 127 < cp /\ cp <= 2047         -> <<192 + (cp \div 64), SixBits(cp, 1)>>
    [] 2047 < cp /\ cp <= 65535       -> <<224 + (cp \div 4096), SixBits(cp, 64), SixBits(cp, 1)>>
    [] 65535 < cp /\ cp <= 1114111    -> <<240 + (cp \div 262144), SixBits(cp, 4096), SixBits(cp, 64), SixBits(cp, 1)>>
    [] OTHER -> <<>>

Escapes == [c \in {34, 47, 92, 98, 102, 110, 114, 116} |->
              CASE c = 98 -> 8 [] c = 102 -> 12 [] c = 110 -> 10 [] c = 114 -> 13 [] c = 116 -> 9 [] OTHER -> c]

\* decodeUnicodeEscapeSequence: four digits from p on.
AllHex(digits) == \A i \in 1 .. 4 : digits[i] \in DOMAIN HexDigit
HexNumber(digits) == 4096 * HexDigit[digits[1]] + 256 * HexDigit[digits[2]]
                     + 16 * HexDigit[digits[3]] + HexDigit[digits[4]]
FourDigits(d, p, end) ==
  LET digits == [i \in 1 .. 4 |-> At(d, p + i - 1)]
  IN IF end - p >= 4 /\ AllHex(digits) THEN [ok |-> TRUE, at |-> p + 4, cp |-> HexNumber(digits)]
     ELSE [ok |-> FALSE, at |-> p + 4, cp |-> 0]

\* decodeUnicodeCodePoint; any second escape is taken as the low surrogate.
OfSurrogates(high, low) == 65536 + 1024 * Low(high, 1024) + Low(low, 1024)
SecondEscape(d, p, end) == end - p >= 6 /\ At(d, p) = Backslash /\ At(d, p + 1) = LetterU
CodePoint(d, p, end) ==
  LET high == FourDigits(d, p, end)
      low == FourDigits(d, p + 6, end)
  IN IF ~high.ok \/ high.cp < 55296 \/ 56319 < high.cp THEN high
     ELSE IF SecondEscape(d, p + 4, end) /\ low.ok
       THEN [ok |-> TRUE, at |-> p + 10, cp |-> OfSurrogates(high.cp, low.cp)]
       ELSE [ok |-> FALSE, at |-> p + 4, cp |-> 0]

\* The character of a string that starts at q: whether it is one, what it
\* stands for, and where the next starts.
DecodedChar(d, q, end) ==
  LET c == At(d, q)
      escape == At(d, q + 1)
      Char(s, at) == [ok |-> TRUE, s |-> s, at |-> at]
      NoChar == [ok |-> FALSE, s |-> <<>>, at |-> end]
      Unicode(u) == IF u.ok THEN Char(UTF8(u.cp), u.at) ELSE NoChar
  IN CASE c # Backslash -> Char(<<c>>, q + 1)
       [] c = Backslash /\ q + 1 < end /\ escape \in DOMAIN Escapes -> Char(<<Escapes[escape]>>, q + 2)
       [] c = Backslash /\ q + 1 < end /\ escape = LetterU -> Unicode(CodePoint(d, q + 2, end))
       [] OTHER -> NoChar

\* decodeString over the characters from p up to the closing quote at end.
DecodeString(d, p, end) ==
  LET from[q \in 0 .. end] ==
        LET char == DecodedChar(d, q, end)
            Then(rest) == [ok |-> rest.ok, s |-> char.s \o rest.s]
        IN IF q = end THEN [ok |-> TRUE, s |-> <<>>]
           ELSE IF char.ok THEN Then(from[char.at]) ELSE [ok |-> FALSE, s |-> <<>>]
  IN from[p]

Decoded(d, token) == DecodeString(d, token.start + 1, token.end - 1)

(***************************************************************************)
(* Reading a value from a location on: whether it was read, what, and      *)
(* where the reader is then.  A reader that fails has already stored what  *)
(* it had read; Unset stands for a value it did not get to store.          *)
(***************************************************************************)
Read(ok, value, at) == [ok |-> ok, value |-> value, at |-> at]
Unset   == [type |-> "unset"]
Over(old, v) == IF v = Unset THEN old ELSE v

\* recoverFromError: what was read stays; tokens are skipped up to type.
Recover(d, p, type, value) ==
  LET skip[q \in 0 .. Len(d)] ==
        LET Skip(token) == IF token.type \in {type, "end"} THEN token.end ELSE skip[token.end]
        IN Skip(ReadToken(d, q))
  IN Read(FALSE, value, skip[p])

\* What follows in the document: a value, or the loop of readObject or of
\* readArray from one of its rounds on.  After a member without a name a
\* closing brace ends an object, as it does at the start.
Rounds == {"value", "members", "membersAfterNoName", "elements"}

\* Members read later replace those read earlier, unless they were not read.
WithMember(name, v, later) ==
  IF name \in DOMAIN later
  THEN [later EXCEPT ![name] = Over(v, later[name])] ELSE (name :> v) @@ later

\* A member whose value could not be read is null.
Settled(members) == [n \in DOMAIN members |-> Over(Null, members[n])]

Reader(d) ==
  LET
   read[what \in Rounds, p \in 0 .. Len(d)] ==
     LET
      Text(token) == SubSeq(d, token.start + 1, token.end)
      ObjectOf(ms) == Read(ms.ok, Object(Settled(ms.value)), ms.at)
      ArrayOf(es) == Read(es.ok, Array(es.value), es.at)
      ArrayFrom(q, inner) == IF At(d, inner) = 93 THEN Read(TRUE, Array(<<>>), inner + 1)
                             ELSE ArrayOf(read["elements", q])
      StringOf(s, q) == Read(s.ok, IF s.ok THEN String(s.s) ELSE Unset, q)
      Value(token) ==
        CASE token.type = "{"      -> ObjectOf(read["membersAfterNoName", token.end])
          [] token.type = "["      -> ArrayFrom(token.end, Past(d, token.end, Spaces))
          [] token.type = "number" -> Read(TRUE, Number(Text(token)), token.end)
          [] token.type = "string" -> StringOf(Decoded(d, token), token.end)
          [] token.type = "word"   -> Read(TRUE, WordValue[Text(token)[1]], token.end)
          [] OTHER                 -> Read(FALSE, Unset, token.end)

      \* A member is there, as null, before its value is read.  Only the first
      \* token after a value has to be a comma: after a comment any will do.
      Fail(at, ms) == Recover(d, at, "}", ms)
      Joined(name, v, later) == Read(later.ok, WithMember(name, v, later.value), later.at)
      AfterComma(name, v, token) ==
        IF token.type = "}" THEN Read(TRUE, name :> v, token.end)
        ELSE Joined(name, v, read[IF name = <<>> THEN "membersAfterNoName" ELSE "members", token.end])
      AfterValue(name, v, token) ==
        CASE ~v.ok -> Fail(v.at, name :> v.value)
          [] v.ok /\ token.type \notin {",", "}", "comment"} -> Fail(token.end, name :> v.value)
          [] OTHER -> AfterComma(name, v.value, TokenPastComments(d, v.at))
      MemberIs(name, v) == AfterValue(name, v, ReadToken(d, v.at))
      AfterName(name, colon) ==
        IF colon.type # ":" THEN Fail(colon.end, NoMembers)
        ELSE MemberIs(name, read["value", colon.end])
      NameIs(s, q) == IF s.ok THEN AfterName(s.s, ReadToken(d, q)) ELSE Fail(q, NoMembers)
      Members(key) ==
        CASE key.type = "}" /\ what = "membersAfterNoName" -> Read(TRUE, NoMembers, key.end)
          [] key.type = "string" -> NameIs(Decoded(d, key), key.end)
          [] OTHER -> Fail(key.end, NoMembers)

      Followed(one, later) == Read(later.ok, one \o later.value, later.at)
      AfterElement(one, token) ==
        CASE token.type = "," -> Followed(one, read["elements", token.end])
          [] token.type = "]" -> Read(TRUE, one, token.end)
          [] OTHER -> Recover(d, token.end, "]", one)
      Elements(v) ==
        IF v.ok THEN AfterElement(<<v.value>>, TokenPastComments(d, v.at))
        ELSE Recover(d, v.at, "]", <<Over(Null, v.value)>>)
     IN CASE what = "value"    -> Value(TokenPastComments(d, p))
          [] what = "elements" -> Elements(read["value", p])
          [] OTHER             -> Members(TokenPastComments(d, p))
  IN read

\* parseFromStream over root: what comes after the value is not looked at.
Parsed(d) == Reader(d)["value", 0].value
ParseFromStream(d, root) ==
  LET r == Reader(d)["value", 0] IN Read(r.ok, Over(root, r.value), r.at)

(***************************************************************************)
(* Writing a string or a null                                              *)
(***************************************************************************)
ShortEscape == [c \in {34, 92, 8, 12, 10, 13, 9} |->
                  CASE c = 8 -> 98 [] c = 12 -> 102 [] c = 10 -> 110 [] c = 13 -> 114 [] c = 9 -> 116 [] OTHER -> c]

\* The bits of the n bytes from the i-th on.  The shift of 24 is the code's.
BitsOf(s, i, n) ==
  LET low(k) == Low(s[i + k], 64)
  IN CASE n = 2 -> 64 * Low(s[i], 32) + low(1)
       [] n = 3 -> 4096 * Low(s[i], 16) + 64 * low(1) + low(2)
       [] n = 4 -> 16777216 * Low(s[i], 8) + 4096 * low(1) + 64 * low(2) + low(3)

NoSurrogate(cp) == IF cp >= 57343 THEN 65533 ELSE cp

\* n bytes from the i-th on for cp, unless the text ends before or fewer would do.
SeenAs(s, i, n, least, cp) ==
  IF Len(s) - i + 1 < n THEN [cp |-> 65533, bytes |-> 1]
  ELSE [cp |-> IF cp < least THEN 65533 ELSE cp, bytes |-> n]

\* utf8ToCodepoint: the code point that starts at the i-th byte, and its bytes.
Utf8ToCodepoint(s, i) ==
  LET first == s[i]
  IN CASE first < 128                  -> [cp |-> first, bytes |-> 1]
       [] 128 <= first /\ first < 224 -> SeenAs(s, i, 2, 128, BitsOf(s, i, 2))
       [] 224 <= first /\ first < 240 -> SeenAs(s, i, 3, 2048, NoSurrogate(BitsOf(s, i, 3)))
       [] 240 <= first /\ first < 248 -> SeenAs(s, i, 4, 65536, BitsOf(s, i, 4))
       [] OTHER                       -> [cp |-> 65533, bytes |-> 1]

Plain(cp) == 32 <= cp /\ cp <= 127
UnicodeEscape(x) == <<Backslash, LetterU>> \o HexText(x)
SurrogatePair(cp) == UnicodeEscape(55296 + ((cp - 65536) \div 1024)) \o UnicodeEscape(56320 + ((cp - 65536) % 1024))

\* What is written for the character that starts at the i-th byte, and its bytes.
EscapedChar(s, i) ==
  LET u == Utf8ToCodepoint(s, i)
      short == s[i] \in DOMAIN ShortEscape
      Text(t) == [text |-> t, bytes |-> u.bytes]
  IN CASE short                                        -> [text |-> <<Backslash, ShortEscape[s[i]]>>, bytes |-> 1]
       [] ~short /\ Plain(u.cp)                        -> Text(<<u.cp>>)
       [] ~short /\ ~Plain(u.cp) /\ u.cp < 65536        -> Text(UnicodeEscape(u.cp))
       [] ~short /\ ~Plain(u.cp) /\ ~(u.cp < 65536)     -> Text(SurrogatePair(u.cp))

Escaped(s) ==
  LET from[i \in 1 .. Len(s) + 1] ==
        LET char == EscapedChar(s, i)
        IN IF i > Len(s) THEN <<>> ELSE char.text \o from[i + char.bytes]
  IN from[1]

\* valueToQuotedStringN: a string without an ASCII character is not escaped.
ValueToQuotedString(s) ==
  <<Quote>> \o (IF \E i \in 1 .. Len(s) : s[i] < 128 THEN Escaped(s) ELSE s) \o <<Quote>>

WriteString(v) == IF v.type = "string" THEN ValueToQuotedString(v.value) ELSE <<110, 117, 108, 108>>
================================================================================
