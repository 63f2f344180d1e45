------------------------------ MODULE JsonWriter -------------------------------
(***************************************************************************)
(* The four writers of jsoncpp.  The server writes through the last one,   *)
(* BuiltStyledStreamWriter, with the settings of setDefaults.  The three   *)
(* styled writers differ in how they break lines, so each is a layout of   *)
(* one operator.  Comments kept in values are left out.                    *)
(***************************************************************************)
EXTENDS JsonValue

Comma   == <<44>>
Space   == <<32>>
Newline == <<NewLine>>
NullWord == <<110>> \o Words[110]
Colon       == <<58>>
WideColon   == <<32, 58, 32>>
YamlColon   == <<58, 32>>
RightMargin == 74

Children(v) == [i \in 1 .. Size(v) |-> Element(v, i - 1)]
Joined(items, separator) ==
  FlattenSeq([i \in DOMAIN items |-> IF i = 1 THEN items[i] ELSE separator \o items[i]])

\* A value without children; null may be written as nothing.
Scalar(v, null) == CASE v.type = "null"   -> null
                     [] v.type = "string" -> ValueToQuotedString(v.value)
                     [] v.type = "boolean" -> WordOf(v.value)
                     [] OTHER -> ValueToString(v)

RECURSIVE FastValue(_, _, _)
FastValue(v, null, colon) ==
  CASE v.type = "array" ->
         <<OpenBracket>> \o Joined([i \in 1 .. Size(v) |-> FastValue(Children(v)[i], null, colon)], Comma)
         \o <<CloseBracket>>
    [] v.type = "object" ->
         LET names == GetMemberNames(v)
             Member(n) == ValueToQuotedString(n) \o colon \o FastValue(v.value[n], null, colon)
         IN <<123>> \o Joined([i \in DOMAIN names |-> Member(names[i])], Comma) \o <<125>>
    [] OTHER -> Scalar(v, null)

FastWriter(v, yaml, dropNull, omitLineFeed) ==
  FastValue(v, IF dropNull THEN <<>> ELSE NullWord, IF yaml THEN YamlColon ELSE Colon)
  \o (IF omitLineFeed THEN <<>> ELSE Newline)

(***************************************************************************)
(* The styled writers.  A layout says how far a level is indented, what    *)
(* stands for a colon and for null, what follows the root, whether lines   *)
(* are broken and one-line arrays spaced, whether every array is broken,   *)
(* and whether the brace of a member begins on the line of its name.       *)
(***************************************************************************)
StyledWriterLayout ==
  [indentation |-> Space \o Space \o Space, colon |-> WideColon, null |-> NullWord,
   ending |-> Newline, breaks |-> TRUE, allMultiLine |-> FALSE, sameLine |-> TRUE]
StyledStreamWriterLayout(indentation) ==
  [StyledWriterLayout EXCEPT !.indentation = indentation, !.sameLine = FALSE]

\* newStreamWriter; any other comment style throws.
NewStreamWriter(settings) ==
  [indentation |-> settings.indentation,
   colon |-> CASE settings.enableYAMLCompatibility -> YamlColon
               [] ~settings.enableYAMLCompatibility /\ settings.indentation = <<>> -> Colon
               [] OTHER -> WideColon,
   null |-> IF settings.dropNullPlaceholders THEN <<>> ELSE NullWord,
   ending |-> <<>>,
   breaks |-> settings.indentation # <<>>,
   allMultiLine |-> settings.commentStyle = "All",
   sameLine |-> FALSE]
SetDefaults == [indentation |-> <<9>>, commentStyle |-> "All",
                enableYAMLCompatibility |-> FALSE, dropNullPlaceholders |-> FALSE]

Break(layout, indent) == IF layout.breaks THEN Newline \o indent ELSE <<>>

\* isMultineArray: by the number of elements, by an element that has elements,
\* or by the length of the line.
IsMultilineArray(v, null) ==
  LET items == Children(v)
      Text(w) == IF Size(w) = 0 /\ w.type \in {"array", "object"} THEN 2 ELSE Len(Scalar(w, null))
  IN \/ Size(v) * 3 >= RightMargin
     \/ \E i \in DOMAIN items : Size(items[i]) > 0
     \/ 4 + 2 * (Size(v) - 1) + FoldSet(LAMBDA i, sum : sum + Text(items[i]), 0, DOMAIN items)
        >= RightMargin

\* placed: the writer already is where the value may begin.
RECURSIVE StyledValue(_, _, _, _)
StyledValue(layout, v, indent, placed) ==
  LET inner == indent \o layout.indentation
      Block(open, items, close) ==
        (IF placed THEN <<>> ELSE Break(layout, indent)) \o <<open>>
        \o FlattenSeq([i \in DOMAIN items |->
             (IF i = 1 THEN <<>> ELSE Comma) \o Break(layout, inner) \o items[i]])
        \o Break(layout, indent) \o <<close>>
      Line(items) == LET space == IF layout.breaks THEN Space ELSE <<>>
                     IN <<OpenBracket>> \o space \o Joined(items, Comma \o space)
                        \o space \o <<CloseBracket>>
      Member(n) == ValueToQuotedString(n) \o layout.colon
                   \o StyledValue(layout, v.value[n], inner, layout.sameLine)
      elements == [i \in 1 .. Size(v) |-> StyledValue(layout, Children(v)[i], inner, TRUE)]
  IN CASE v.type \notin {"array", "object"} -> Scalar(v, layout.null)
       [] v.type = "array" /\ Size(v) = 0   -> <<OpenBracket, CloseBracket>>
       [] v.type = "object" /\ Size(v) = 0  -> <<123, 125>>
       [] v.type = "object" /\ Size(v) > 0  ->
            Block(123, [i \in 1 .. Size(v) |-> Member(GetMemberNames(v)[i])], 125)
       [] OTHER -> IF layout.allMultiLine \/ IsMultilineArray(v, layout.null)
                   THEN Block(OpenBracket, elements, CloseBracket) ELSE Line(elements)

Styled(layout, v) == StyledValue(layout, v, <<>>, TRUE) \o layout.ending

StyledWriter(v) == Styled(StyledWriterLayout, v)
StyledStreamWriter(v, indentation) == Styled(StyledStreamWriterLayout(indentation), v)
BuiltStyledStreamWriter(v, settings) == Styled(NewStreamWriter(settings), v)
================================================================================
