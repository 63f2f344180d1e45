----------------------------- MODULE MCRetroactive -----------------------------
(***************************************************************************)
(* Retroactive with the texts of Json: people have names, the generator    *)
(* writes what Python's json.dumps writes, the server reads it with the    *)
(* reader of jsoncpp, and draws what its writer writes.                    *)
(***************************************************************************)
EXTENDS Retroactive, MCJson

\* The code points of the names Ana, and E-acute followed by a smiling face.
Ana      == <<65, 110, 97>>
Edgar    == <<201, 128512>>
MCPerson == {Ana, Edgar}
MCShows(shot) == IF shot = 2 THEN Edgar ELSE Ana
MCNoFile == <<0>>

TimeText(t) == <<48, 58, 48 + t>>            \* the "0:3" of a time

\* json.dumps(data, indent=4), ASCII only: one \u or two per character.
Escape(cp) ==
  LET u(x) == <<Backslash, LetterU>> \o HexText(x)
  IN CASE cp \in DOMAIN ShortEscape -> <<Backslash, ShortEscape[cp]>>
       [] cp \in 32 .. 126 \ DOMAIN ShortEscape -> <<cp>>
       [] cp >= 65536 -> u(55296 + ((cp - 65536) \div 1024)) \o u(56320 + (cp % 1024))
       [] OTHER -> u(cp)
PyString(name) == <<Quote>> \o FlattenSeq([i \in DOMAIN name |-> Escape(name[i])]) \o <<Quote>>
Member(name, t) == <<NewLine, 32, 32, 32, 32>> \o PyString(name) \o <<58, 32>> \o PyString(TimeText(t))
Commas(ms) == FlattenSeq([i \in DOMAIN ms |-> IF i = 1 THEN ms[i] ELSE <<44>> \o ms[i]])
MCDumps(times) ==
  LET names == SetToSeq(DOMAIN times)
  IN <<123>> \o Commas([i \in DOMAIN names |-> Member(names[i], times[names[i]])])
     \o <<NewLine, 125>>

\* The texts the generator may write, and every prefix of them.
Files == {MCDumps(times) : times \in Times}
Cut(text, n) == SubSeq(text, 1, n)
Cuts == UNION {{Cut(text, n) : n \in 0 .. Len(text)} : text \in Files}

\* What each is read as, and what is left of a file: every prefix, but one
\* only of those that are read as the same value.  TLC works out a constant
\* once, a definition whenever it meets it.
CONSTANTS ReadAs, Remains
MCReadAs == [text \in Cuts |-> Parsed(text)]
MCRemains ==
  [text \in Files |->
     LET read == [n \in 0 .. Len(text) |-> Parsed(Cut(text, n))] @@ <<>>
     IN {Cut(text, n) : n \in {m \in 0 .. Len(text) : \A k \in 0 .. m - 1 : read[k] # read[m]}}]

MCPoiValue == {Over(Null, Parsed(text)) : text \in Cuts}
MCTorn(text) == Remains[text]
\* ParseFromStream(text, old).value, with the reader's part looked up.
MCLoadPoi(text, old) == Over(old, ReadAs[text])

\* get(encoding, -1) != -1; the text is that of some time, or of null.
MCDrawn(poi, p) ==
  LET detected == Get(poi, Bytes(p), MinusOne)
      written  == WriteString(detected)
      times    == {t \in 1 .. MaxShots : written = <<Quote>> \o TimeText(t) \o <<Quote>>}
  IN CASE detected = MinusOne -> NothingDrawn
       [] written = <<110, 117, 108, 108>> -> NullDrawn
       [] times # {} -> CHOOSE t \in times : TRUE
       [] OTHER -> MaxShots + 1
================================================================================
