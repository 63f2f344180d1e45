------------------------------ MODULE Retroactive ------------------------------
(***************************************************************************)
(* Retroactive mode: the pictures of unknown faces, their history, and the *)
(* people of interest the history later names.                             *)
(*                                                                         *)
(* In retroactive mode the prediction thread saves the picture of an       *)
(* unknown face under the next number and writes "unknown-N.jpg:time" to   *)
(* the history.  The user copies such pictures into the data set, under    *)
(* the name of the person they show, and asks for a rescan: the server     *)
(* exits, and generate_person_of_interest_info.py writes down, for every   *)
(* such person, the time its history gives for one of the pictures.  The   *)
(* command for retroactive mode makes the main thread count the history's  *)
(* lines to find the next number, and read that file; draw_detections then *)
(* puts the time beside the name of everyone it finds in it.               *)
(*                                                                         *)
(* The pictures, the history, the data set and the file outlive the server *)
(* process, which may crash between any two steps; the device may lose its *)
(* power while the file is written.  A picture is known by the order in    *)
(* which it was taken, which is also its time.                             *)
(***************************************************************************)
EXTENDS Integers, Sequences

CONSTANTS
  Person,          \* the people whose unknown faces are seen
  Shows(_),        \* whom a picture shows; the user knows
  NoFile,          \* the content of a file that does not exist
  PoiValue,        \* what poi_data can hold
  NoPoi,           \* poi_data before a file was read
  Dumps(_),        \* json.dumps of a function from people to times
  Torn(_),         \* what a power loss may leave of a text being written
  LoadPoi(_, _),   \* poi_data after parsing a text over its old value
  Drawn(_, _),     \* draw_detections: what it puts beside a name: a time,
                   \* NothingDrawn, or NullDrawn for a member without a value
  MaxShots,        \* bound: pictures of unknown faces
  MaxRescans,      \* bound: rescans
  MaxCrashes,      \* bound: crashes of the server
  MaxPowerLosses   \* bound: power losses

ASSUME RetroactiveAssumption ==
  /\ \A shot \in 1 .. MaxShots : Shows(shot) \in Person
  /\ {MaxShots, MaxRescans, MaxCrashes, MaxPowerLosses} \subseteq Nat

NothingDrawn == 0
NullDrawn    == -1

Time  == 1 .. MaxShots
Times == UNION {[S -> Time] : S \in SUBSET Person}

\* The two programs understand each other: what json.dumps wrote is read and
\* drawn as it was meant; of a text cut short, what is read is right or null.
ASSUME TextAssumption ==
  /\ NoPoi \in PoiValue /\ \A p \in Person : Drawn(NoPoi, p) = NothingDrawn
  /\ \A times \in Times, old \in PoiValue :
       LET read == LoadPoi(Dumps(times), old) IN
       /\ Dumps(times) # NoFile /\ read \in PoiValue
       /\ \A p \in Person :
            Drawn(read, p) = IF p \in DOMAIN times THEN times[p] ELSE NothingDrawn
  /\ \A times \in Times : \A text \in Torn(Dumps(times)) : \A old \in PoiValue :
       LET read == LoadPoi(text, old) IN
       /\ text # NoFile /\ read \in PoiValue
       /\ \A p \in Person : \/ Drawn(read, p) \in {Drawn(old, p), NothingDrawn, NullDrawn}
                            \/ p \in DOMAIN times /\ Drawn(read, p) = times[p]

VARIABLES
  pictures,        \* faces/unknown: which picture is stored under which number
  history,         \* faces/unknown_history.txt: its lines
  dataset,         \* pictures of unknown faces in the data set, and of whom
  poi_info_file,   \* the text of faces/poi_info_file.txt
  server,          \* "boot", "up"; "collect", "write": the generator runs
  main,            \* where the main thread is in the command for retroactive mode
  predict,         \* where the prediction thread is in handle_unknown_data
  unknown_index, poi_data,     \* fields of face_classifier
  retroactive_mode,
  img,             \* the number handle_unknown_data took
  loaded,          \* unknown_index, read to be incremented
  found,           \* poi_data of the generator; history: of its last run
  shots,           \* history: pictures taken
  raced,           \* history: retroactive_init ran beside handle_unknown_data
  rewritten,       \* history: numbers that got a second picture
  whole,           \* history: the file the last run wrote was not cut
  faults           \* history: how often what happened

disk   == <<pictures, history, dataset, poi_info_file>>
memory == <<unknown_index, poi_data, retroactive_mode, img, loaded>>
ghosts == <<shots, raced, rewritten, whole, faults>>
vars   == <<disk, server, main, predict, memory, found, ghosts>>

Init ==
  /\ pictures = {} /\ history = <<>> /\ dataset = {} /\ poi_info_file = NoFile
  /\ server = "boot" /\ main = "idle" /\ predict = "idle"
  /\ unknown_index = 0 /\ poi_data = NoPoi /\ retroactive_mode = FALSE
  /\ img = 0 /\ loaded = 0 /\ found = [p \in {} |-> 0]
  /\ shots = 0 /\ raced = FALSE /\ rewritten = {} /\ whole = FALSE
  /\ faults = [rescans |-> 0, crashes |-> 0, losses |-> 0]

(***************************************************************************)
(* The prediction thread.  The mode is a parameter of the call; a face is  *)
(* due or not by a count of the faces since the last one, which is left    *)
(* out.  unknown_index is shared without a lock: its increment is a load   *)
(* and a store.                                                            *)
(***************************************************************************)
Predicting(step) == server = "up" /\ predict = step

PredictionCall ==
  /\ Predicting("idle") /\ retroactive_mode /\ shots < MaxShots
  /\ predict' = "called"
  /\ UNCHANGED <<disk, server, main, memory, found, ghosts>>

NothingDue ==
  /\ Predicting("called") /\ predict' = "idle"
  /\ UNCHANGED <<disk, server, main, memory, found, ghosts>>

TakeNumber ==
  /\ Predicting("called") /\ img' = unknown_index /\ predict' = "save"
  /\ UNCHANGED <<disk, server, main, unknown_index, poi_data, retroactive_mode, loaded,
                 found, ghosts>>

Stored(k) == \E pic \in pictures : pic.number = k
Overwriting(k, shot) ==
  {pic \in pictures : pic.number # k} \cup {[number |-> k, shot |-> shot]}

SavePicture ==
  /\ Predicting("save") /\ predict' = "print"
  /\ shots' = shots + 1
  /\ pictures' = Overwriting(img, shots')
  /\ rewritten' = IF Stored(img) THEN rewritten \cup {img} ELSE rewritten
  /\ UNCHANGED <<history, dataset, poi_info_file, server, main, memory, found,
                 raced, whole, faults>>

WriteHistory ==
  /\ Predicting("print") /\ predict' = "load"
  /\ history' = Append(history, [number |-> img, time |-> shots])
  /\ UNCHANGED <<pictures, dataset, poi_info_file, server, main, memory, found, ghosts>>

LoadIndex ==
  /\ Predicting("load") /\ predict' = "store"
  /\ loaded' = unknown_index
  /\ UNCHANGED <<disk, server, main, unknown_index, poi_data, retroactive_mode, img,
                 found, ghosts>>

StoreIndex ==
  /\ Predicting("store") /\ predict' = "idle"
  /\ unknown_index' = loaded + 1
  /\ UNCHANGED <<disk, server, main, poi_data, retroactive_mode, img, loaded, found, ghosts>>

Prediction ==
  \/ PredictionCall \/ NothingDue \/ TakeNumber \/ SavePicture
  \/ WriteHistory \/ LoadIndex \/ StoreIndex

(***************************************************************************)
(* The main thread.  Every command ends retroactive mode and flushes the   *)
(* pipeline, which may leave the prediction thread with one picture.       *)
(***************************************************************************)
Commanded(step) == server = "up" /\ main = step

OtherCommand ==
  /\ Commanded("idle") /\ retroactive_mode' = FALSE
  /\ UNCHANGED <<disk, server, main, predict, unknown_index, poi_data, img, loaded, found,
                 ghosts>>

RarunCommand ==
  /\ Commanded("idle") /\ retroactive_mode' = FALSE /\ main' = "reset"
  /\ UNCHANGED <<disk, server, predict, unknown_index, poi_data, img, loaded, found, ghosts>>

SetsIndex(n) ==
  /\ unknown_index' = n
  /\ raced' = (raced \/ predict # "idle")
  /\ UNCHANGED <<disk, server, predict, poi_data, retroactive_mode, img, loaded, found,
                 shots, rewritten, whole, faults>>

ResetIndex == Commanded("reset") /\ main' = "count" /\ SetsIndex(1)

LinesForgottenOne == Len(history) - 1        \* mutant: the ++ of line 97 is missing
HistoryNotFound == 0                         \* mutant: the history is looked for elsewhere
get_lines == Len(history)

CountLines == Commanded("count") /\ main' = "load" /\ SetsIndex(get_lines + 1)

LoadForgotten ==                             \* mutant: retroactive_init without load_poi_data
  /\ Commanded("load") /\ main' = "idle" /\ retroactive_mode' = TRUE
  /\ UNCHANGED <<disk, server, predict, unknown_index, poi_data, img, loaded, found, ghosts>>

LoadPoiData ==
  /\ Commanded("load") /\ main' = "idle"
  /\ poi_data' = IF poi_info_file = NoFile THEN poi_data ELSE LoadPoi(poi_info_file, poi_data)
  /\ retroactive_mode' = TRUE
  /\ UNCHANGED <<disk, server, predict, unknown_index, img, loaded, found, ghosts>>

\* The process ends, whatever its threads are doing.
Exits(next) ==
  /\ server = "up" /\ server' = next
  /\ main' = "idle" /\ predict' = "idle"
  /\ unknown_index' = 0 /\ poi_data' = NoPoi /\ retroactive_mode' = FALSE
  /\ img' = 0 /\ loaded' = 0

RescanCommand ==
  /\ main = "idle" /\ faults.rescans < MaxRescans
  /\ Exits("collect")
  /\ faults' = [faults EXCEPT !.rescans = @ + 1]
  /\ UNCHANGED <<disk, found, shots, raced, rewritten, whole>>

Crash ==
  /\ faults.crashes < MaxCrashes
  /\ Exits("boot")
  /\ faults' = [faults EXCEPT !.crashes = @ + 1]
  /\ UNCHANGED <<disk, found, shots, raced, rewritten, whole>>

Boot ==
  /\ server = "boot" /\ server' = "up"
  /\ UNCHANGED <<disk, main, predict, memory, found, ghosts>>

Main ==
  \/ OtherCommand \/ RarunCommand \/ ResetIndex \/ CountLines \/ LoadPoiData
  \/ RescanCommand \/ Crash \/ Boot

(***************************************************************************)
(* The user, at any time: a stored picture goes into the data set.         *)
(***************************************************************************)
Classify(pic) ==
  LET p == Shows(pic.shot) IN
  /\ dataset' = {x \in dataset : ~(x.person = p /\ x.number = pic.number)}
                \cup {[person |-> p, number |-> pic.number, shot |-> pic.shot]}
  /\ UNCHANGED <<pictures, history, poi_info_file, server, main, predict, memory, found, ghosts>>

(***************************************************************************)
(* generate_person_of_interest_info.py.  It takes the first picture find   *)
(* lists for a person, and the last line the history has for its number.   *)
(* A picture without a line raises KeyError; the file is then not touched. *)
(***************************************************************************)
Logged(k) == \E i \in DOMAIN history : history[i].number = k
FirstTimeOf(k) ==                            \* mutant: the first picture ever taken
  LET i == CHOOSE i \in DOMAIN history : \A j \in DOMAIN history : i <= j
  IN history[i].time
TimeOf(k) ==
  LET i == CHOOSE i \in DOMAIN history :
             /\ history[i].number = k
             /\ \A j \in DOMAIN history : history[j].number = k => j <= i
  IN history[i].time

Labelled == {x.person : x \in dataset}
Findings == {x \in [Labelled -> {y.number : y \in dataset}] :
               \A p \in Labelled : \E y \in dataset : y.person = p /\ y.number = x[p]}

NothingLabelled ==
  /\ server = "collect" /\ Labelled = {} /\ server' = "boot"
  /\ UNCHANGED <<disk, main, predict, memory, found, ghosts>>

KeyError ==
  /\ server = "collect" /\ Labelled # {}
  /\ \E chosen \in Findings : \E p \in Labelled : ~Logged(chosen[p])
  /\ server' = "boot"
  /\ UNCHANGED <<disk, main, predict, memory, found, ghosts>>

\* The data is complete before the file is opened, which truncates it.
Collect ==
  /\ server = "collect" /\ Labelled # {}
  /\ \E chosen \in Findings :
       /\ \A p \in Labelled : Logged(chosen[p])
       /\ found' = [p \in Labelled |-> TimeOf(chosen[p])]
  /\ poi_info_file' = <<>> /\ server' = "write"
  /\ whole' = FALSE
  /\ UNCHANGED <<pictures, history, dataset, main, predict, memory, shots, raced,
                 rewritten, faults>>

WriteFile ==
  /\ server = "write" /\ server' = "boot"
  /\ poi_info_file' = Dumps(found) /\ whole' = TRUE
  /\ UNCHANGED <<pictures, history, dataset, main, predict, memory, found, shots, raced,
                 rewritten, faults>>

PowerLoss ==
  /\ server = "write" /\ faults.losses < MaxPowerLosses
  /\ poi_info_file' \in Torn(Dumps(found)) /\ server' = "boot"
  /\ faults' = [faults EXCEPT !.losses = @ + 1]
  /\ UNCHANGED <<pictures, history, dataset, main, predict, memory, found, shots, raced,
                 rewritten, whole>>

Generator == NothingLabelled \/ KeyError \/ Collect \/ WriteFile \/ PowerLoss

Next ==
  \/ Prediction
  \/ Main
  \/ \E pic \in pictures : Classify(pic)
  \/ Generator

Spec == Init /\ [][Next]_vars

(***************************************************************************)
(* Properties                                                              *)
(***************************************************************************)
PositiveNumber == Nat \ {0}                        \* numbers start at 1
Picture == [number : PositiveNumber, shot : Time]

\* Every variable but the texts and what is parsed of them has its type.
TypeOK ==
  /\ pictures \subseteq Picture
  /\ history \in Seq([number : PositiveNumber, time : Time])
  /\ dataset \subseteq [person : Person, number : PositiveNumber, shot : Time]
  /\ server \in {"boot", "up", "collect", "write"}
  /\ main \in {"idle", "reset", "count", "load"}
  /\ predict \in {"idle", "called", "save", "print", "load", "store"}
  /\ unknown_index \in Nat /\ img \in Nat /\ loaded \in Nat /\ shots \in 0 .. MaxShots
  /\ retroactive_mode \in BOOLEAN /\ raced \in BOOLEAN
  /\ rewritten \subseteq PositiveNumber
  /\ found \in Times /\ whole \in BOOLEAN
  /\ faults \in [rescans : Nat, crashes : Nat, losses : Nat]

\* A picture whose line is in the history is never overwritten, whatever
\* crashes and however often the mode is entered - unless retroactive_init
\* once set the index while the prediction thread was still using it.
LoggedKept ==
  [][\A pic \in pictures : Logged(pic.number) => pic \in pictures' \/ raced]_vars

\* A time drawn beside a name is the time of an unknown picture of that
\* person in the data set; only a number that was given twice may show the
\* time of the other picture.  A name is drawn with "null" only after a
\* power loss cut the file.
PoiTruthful ==
  \A p \in Person :
    LET drawn == Drawn(poi_data, p) IN
    \/ drawn = NothingDrawn
    \/ drawn = NullDrawn /\ faults.losses > 0
    \/ \E x \in dataset : x.person = p /\ (x.shot = drawn \/ x.number \in rewritten)

\* Once retroactive mode is on, everyone the last complete file was written
\* for is drawn with a time: nobody is lost between the two programs.
PoiComplete ==
  server = "up" /\ retroactive_mode /\ whole =>
    \A p \in DOMAIN found : Drawn(poi_data, p) \in Time
================================================================================
