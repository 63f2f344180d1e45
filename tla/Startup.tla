------------------------------- MODULE Startup -------------------------------
(***************************************************************************)
(* How the recognition server comes up, again and again: Monitor.cpp       *)
(* starts it, waits for it to end, runs rescan.sh when it ended with       *)
(* status 3, sleeps, and starts it again.  rescan.sh deletes what was      *)
(* learned and generates the cropped training pictures.  The server's      *)
(* start (face_classifier's constructor, then the TensorRT engines) either *)
(* loads what an earlier process stored or trains, stores, and asks to be  *)
(* restarted.                                                              *)
(*                                                                         *)
(* The processes share nothing but files: the data set, the cropped        *)
(* pictures, info.txt, labels.txt, svm/*.dat and engines/*.  A file that   *)
(* is written is first truncated; a fault may fall between any two steps:  *)
(* the server crashes, the generator raises, or the whole device loses its *)
(* power.  Nothing is ever synced to the disk: the pictures of a run of    *)
(* the generator that the power loss ends may be cut short, all of them.   *)
(* Of the other files the model takes it that one written and closed is    *)
(* there after a power loss, and that the one being written is cut short.  *)
(***************************************************************************)
EXTENDS Integers, Sequences, FiniteSets

CONSTANTS
  Person,          \* the people whose pictures the data set may hold
  InitialPersons,  \* the people of the shipped data set
  ListDir,         \* ListDir[S]: the order in which a directory lists S
  NEngines,        \* engines built for the cascade: one per scale, R-net, O-net
  MaxRescans,      \* bound: rescans asked for
  MaxCrashes,      \* bound: crashes of the server, by its own fault
  MaxRaises,       \* bound: runs of the generator that end in an exception
  MaxPowerLosses   \* bound: power losses of the device

\* A directory lists whom it holds, each once.
Lists(order, S) == /\ Len(order) = Cardinality(S)
                   /\ \A p \in S : \E i \in 1 .. Len(order) : order[i] = p

ASSUME StartupAssumption ==
  /\ IsFiniteSet(Person)
  /\ InitialPersons \subseteq Person
  /\ ListDir \in [SUBSET Person -> Seq(Person)]
  /\ \A S \in SUBSET Person : Lists(ListDir[S], S)
  /\ NEngines \in Nat
  /\ {MaxRescans, MaxCrashes, MaxRaises, MaxPowerLosses} \subseteq Nat

Absent == "absent"        \* there is no such file
Torn   == "torn"          \* the file was opened for writing, not yet written
Whole  == "whole"

Pairs(n)   == {ik \in (1 .. n) \X (1 .. n) : ik[1] < ik[2]}
Classifier == Person \X Person           \* an SVM, named by whom it tells apart
TornSvm    == <<>>                       \* the content of a file cut short
Training(order) == [ik \in Pairs(Len(order)) |-> <<order[ik[1]], order[ik[2]]>>]
Engines    == 1 .. NEngines

VARIABLES
  dataset,         \* faces/train/datasets: people with pictures
  cropped,         \* faces/train/cropped: people who have a directory there
  unreadable,      \* those with a picture there that was cut short
  info,            \* faces/info.txt: Absent, Torn (empty), "required" or "plus"
  labels,          \* faces/labels.txt: the names it lists; empty when absent
  svm,             \* svm/: a function from the stored pairs to SVMs
  knows,           \* the SVMs last trained recognise the face of faces/test.jpg
  engines,         \* engines/: Absent, Torn or Whole
  monitor,         \* Monitor.cpp: "fork", "wait", "rescan", "sleep"
  script,          \* where rescan.sh is
  walk,            \* the people the generator has still to process
  server,          \* where the server process is; "down" without one
  label_encoding, classifiers, restart,   \* fields of face_classifier
  engine,          \* the engine being looked for
  status,          \* WEXITSTATUS of the last process
  asked,           \* history: the people in the data set when a rescan was asked for
  undone,          \* history: power was lost after a rescan began to delete
                   \* and before it had deleted info.txt
  faults           \* history: how often what happened

memory == <<label_encoding, classifiers, restart, engine>>
disk   == <<dataset, cropped, unreadable, info, labels, svm, knows, engines>>
vars   == <<disk, monitor, script, walk, server, memory, status, asked, undone, faults>>

NoSvm == [ik \in {} |-> TornSvm]

Init ==
  /\ dataset = InitialPersons /\ cropped = InitialPersons /\ unreadable = {}
  /\ info = "plus" /\ knows = TRUE
  /\ labels = ListDir[InitialPersons] /\ svm = Training(ListDir[InitialPersons])
  /\ engines \in {[e \in Engines |-> f] : f \in {Absent, Whole}}
  /\ monitor = "fork" /\ script = "rm_svm" /\ walk = {}
  /\ server = "down" /\ label_encoding = <<>> /\ classifiers = NoSvm
  /\ restart = 0 /\ engine = 1 /\ status = 0
  /\ asked = InitialPersons /\ undone = FALSE
  /\ faults = [rescans |-> 0, crashes |-> 0, raises |-> 0, losses |-> 0]

(***************************************************************************)
(* Monitor.cpp                                                             *)
(***************************************************************************)
Fork ==
  /\ monitor = "fork"
  /\ monitor' = "wait" /\ server' = "read"
  /\ label_encoding' = <<>> /\ classifiers' = NoSvm /\ restart' = 0 /\ engine' = 1
  /\ UNCHANGED <<disk, script, walk, status, asked, undone, faults>>

RescanOnFailure(st) == st = 1                \* mutant: the status of a failed exec
NeedsRescan(st) == st = 3

Waited ==
  /\ monitor = "wait" /\ server = "down"
  /\ monitor' = IF NeedsRescan(status) THEN "rescan" ELSE "sleep"
  /\ script' = "rm_svm"
  /\ UNCHANGED <<disk, walk, server, memory, status, asked, undone, faults>>

Slept ==
  /\ monitor = "sleep" /\ monitor' = "fork"
  /\ UNCHANGED <<disk, script, walk, server, memory, status, asked, undone, faults>>

(***************************************************************************)
(* rescan.sh: what it deletes, then the generator.  An rm of several files *)
(* deletes them one by one.                                                *)
(***************************************************************************)
InScript(line) == monitor = "rescan" /\ script = line

Without(f, x) == [y \in DOMAIN f \ {x} |-> f[y]]

DeleteSvm ==
  \/ \E ik \in DOMAIN svm : svm' = Without(svm, ik) /\ UNCHANGED script
  \/ DOMAIN svm = {} /\ script' = "rm_cropped" /\ UNCHANGED svm

RmSvm ==
  /\ InScript("rm_svm") /\ DeleteSvm
  /\ UNCHANGED <<dataset, cropped, unreadable, info, labels, knows, engines, monitor, walk, server,
                 memory, status, asked, undone, faults>>

RmCropped ==
  /\ InScript("rm_cropped")
  /\ \/ \E p \in cropped : /\ cropped' = cropped \ {p} /\ unreadable' = unreadable \ {p}
                          /\ UNCHANGED script
     \/ cropped = {} /\ script' = "rm_info" /\ UNCHANGED <<cropped, unreadable>>
  /\ UNCHANGED <<dataset, info, labels, svm, knows, engines, monitor, walk, server, memory,
                 status, asked, undone, faults>>

InfoForgotten  == info           \* mutant: the script does not delete info.txt
InfoAfterRm    == Absent

RmInfo ==
  /\ InScript("rm_info")
  /\ info' = InfoAfterRm /\ undone' = FALSE /\ script' = "rm_labels"
  /\ UNCHANGED <<dataset, cropped, unreadable, labels, svm, knows, engines, monitor, walk,
                 server, memory, status, asked, faults>>

RmLabels ==
  /\ InScript("rm_labels") /\ labels' = <<>> /\ script' = "generate"
  /\ UNCHANGED <<dataset, cropped, unreadable, info, svm, knows, engines, monitor, walk,
                 server, memory, status, asked, undone, faults>>

\* generate_training_data.py: empties cropped, lists the data set, crops the
\* pictures of one person after the other, writes info.txt anew.  Somebody of
\* whom no picture can be cropped has a directory and a name all the same.
ClearCropped ==
  /\ InScript("generate")
  /\ cropped' = {} /\ unreadable' = {} /\ walk' = dataset /\ script' = "walk"
  /\ UNCHANGED <<dataset, info, labels, svm, knows, engines, monitor, server, memory, status,
                 asked, undone, faults>>

\* The directory of a person is made before the first picture is read.
Cropping == walk \cap cropped

MakeDir ==
  /\ InScript("walk") /\ Cropping = {}
  /\ \/ \E p \in walk : cropped' = cropped \cup {p} /\ UNCHANGED <<info, script>>
     \/ walk = {} /\ info' = Torn /\ script' = "write_info" /\ UNCHANGED cropped
  /\ UNCHANGED <<dataset, unreadable, labels, svm, knows, engines, monitor, walk, server, memory,
                 status, asked, undone, faults>>

CropPerson ==
  /\ InScript("walk") /\ Cropping # {} /\ walk' = walk \ Cropping
  /\ UNCHANGED <<disk, monitor, script, server, memory, status, asked, undone, faults>>

WriteRequired ==
  /\ InScript("write_info")
  /\ info' = "required" /\ monitor' = "sleep"
  /\ UNCHANGED <<dataset, cropped, unreadable, labels, svm, knows, engines, script, walk,
                 server, memory, status, asked, undone, faults>>

\* The generator raises: the script goes on, the Monitor does not notice.
GeneratorRaises ==
  /\ InScript("walk") /\ faults.raises < MaxRaises
  /\ faults' = [faults EXCEPT !.raises = @ + 1]
  /\ monitor' = "sleep"
  /\ UNCHANGED <<disk, script, walk, server, memory, status, asked, undone>>

Exit(st) == server' = "down" /\ status' = st

(***************************************************************************)
(* face_classifier's constructor: load, or train.                          *)
(***************************************************************************)
TrustedByLabels == labels # <<>>             \* mutant: info.txt is not looked at
Trusted         == labels # <<>> /\ info = "plus"

\* get_labels and get_info.
ReadMarks ==
  /\ server = "read"
  /\ label_encoding' = labels
  /\ server' = IF Trusted THEN "load" ELSE "clear"
  /\ UNCHANGED <<disk, monitor, script, walk, classifiers, restart, engine, status, asked,
                 undone, faults>>

StoredAnyhow(ik) == ik \in DOMAIN svm        \* mutant: a torn file does not throw

\* A missing or torn file makes deserialize throw; nothing is kept then.
Stored(ik) == ik \in DOMAIN svm /\ svm[ik] # TornSvm

deserialize_svm ==
  /\ server = "load"
  /\ IF \A ik \in Pairs(Len(label_encoding)) : Stored(ik)
       THEN /\ classifiers' = [ik \in Pairs(Len(label_encoding)) |-> svm[ik]]
            /\ server' = "self_test"
       ELSE /\ classifiers' = NoSvm /\ server' = "clear"
  /\ UNCHANGED <<disk, monitor, script, walk, label_encoding, restart, engine, status, asked,
                 undone, faults>>

\* Then get_training_data, where load_image throws on a picture cut short and
\* nobody catches it.  What the training will make of the test picture is open:
\* the face is named when the values of the SVMs for one person sum up to
\* sum_threshold, which is hard to reach with few of them.
clear_svm_dir ==
  /\ server = "clear"
  /\ \/ \E ik \in DOMAIN svm :
          svm' = Without(svm, ik) /\ UNCHANGED <<server, label_encoding, knows, status>>
     \/ /\ DOMAIN svm = {} /\ UNCHANGED svm
        /\ \/ /\ unreadable = {} /\ server' = "train" /\ knows' \in BOOLEAN
              /\ label_encoding' = ListDir[cropped] /\ UNCHANGED status
           \/ unreadable # {} /\ Exit(0) /\ UNCHANGED <<label_encoding, knows>>
  /\ UNCHANGED <<dataset, cropped, unreadable, info, labels, engines, monitor, script, walk,
                 classifiers, restart, engine, asked, undone, faults>>

Before(a, b) == a[1] < b[1] \/ (a[1] = b[1] /\ a[2] < b[2])

\* The next pair to train, in the order of label1 and label2.
IsNextPair(ik) ==
  /\ ik \in Pairs(Len(label_encoding)) \ DOMAIN classifiers
  /\ \A other \in Pairs(Len(label_encoding)) \ DOMAIN classifiers :
       other = ik \/ Before(ik, other)

With(f, x, v) == [y \in DOMAIN f \cup {x} |-> IF y = x THEN v ELSE f[y]]

\* trainer.train, and serialize opens the file ...
TrainPair ==
  /\ server = "train"
  /\ \E ik \in Pairs(Len(label_encoding)) :
       /\ IsNextPair(ik)
       /\ classifiers' = With(classifiers, ik, Training(label_encoding)[ik])
       /\ svm' = With(svm, ik, TornSvm)
  /\ server' = "serialize"
  /\ UNCHANGED <<dataset, cropped, unreadable, info, labels, knows, engines, monitor, script, walk,
                 label_encoding, restart, engine, status, asked, undone, faults>>

\* ... and writes it.
SerializePair ==
  /\ server = "serialize"
  /\ svm' = [ik \in DOMAIN svm |-> IF ik \in DOMAIN classifiers THEN classifiers[ik]
                                                               ELSE svm[ik]]
  /\ server' = "train"
  /\ UNCHANGED <<dataset, cropped, unreadable, info, labels, knows, engines, monitor, script, walk,
                 memory, status, asked, undone, faults>>

Trained ==
  /\ server = "train" /\ Pairs(Len(label_encoding)) \subseteq DOMAIN classifiers
  /\ labels' = <<>> /\ server' = "write_labels"
  /\ UNCHANGED <<dataset, cropped, unreadable, info, svm, knows, engines, monitor, script,
                 walk, memory, status, asked, undone, faults>>

\* One endl, one line in the file.  After the last, info.txt is truncated.
WriteLabel ==
  /\ server = "write_labels"
  /\ IF Len(labels) < Len(label_encoding)
       THEN /\ labels' = Append(labels, label_encoding[Len(labels) + 1])
            /\ UNCHANGED <<info, server>>
       ELSE info' = Torn /\ server' = "write_info" /\ UNCHANGED labels
  /\ UNCHANGED <<dataset, cropped, unreadable, svm, knows, engines, monitor, script, walk,
                 memory, status, asked, undone, faults>>

InfoKept == "required"                       \* mutant: info[0] is written back
Marked   == "plus"

WritePlus ==
  /\ server = "write_info"
  /\ info' = Marked /\ restart' = 1 /\ server' = "self_test"
  /\ UNCHANGED <<dataset, cropped, unreadable, labels, svm, knows, engines, monitor, script,
                 walk, label_encoding, classifiers, engine, status, asked, undone, faults>>

\* init prints label_encoding[label]; label is -1 when the SVMs do not know the
\* face, as they never do without any, and what the build does then is open: it
\* may die.  camera_face_recognition returns after a training.
Recognised == knows /\ Len(label_encoding) > 1

SelfTest ==
  /\ server = "self_test"
  /\ \/ IF restart = 1
          THEN Exit(0)
          ELSE server' = "engines" /\ UNCHANGED status
     \/ ~Recognised /\ Exit(0)
  /\ UNCHANGED <<disk, monitor, script, walk, memory, asked, undone, faults>>

(***************************************************************************)
(* The mtcnn constructor: each engine is read back or built and stored.    *)
(***************************************************************************)
EngineSkipped == engine + 2                  \* mutant: advances twice
NextEngine    == engine + 1

deserialize_engine ==
  /\ server = "engines" /\ engine <= NEngines
  /\ \/ engines[engine] = Whole /\ engine' = NextEngine /\ UNCHANGED <<server, status>>
     \/ engines[engine] = Torn /\ Exit(0) /\ UNCHANGED engine     \* assert(engine)
  /\ UNCHANGED <<disk, monitor, script, walk, label_encoding, classifiers, restart, asked,
                 undone, faults>>

\* No such file: the engine is built, and serialize_engine opens the file ...
caffeToGIEModel ==
  /\ server = "engines" /\ engine <= NEngines /\ engines[engine] = Absent
  /\ engines' = [engines EXCEPT ![engine] = Torn] /\ server' = "serialize_engine"
  /\ UNCHANGED <<dataset, cropped, unreadable, info, labels, svm, knows, monitor, script, walk,
                 memory, status, asked, undone, faults>>

\* ... and writes it.
serialize_engine ==
  /\ server = "serialize_engine"
  /\ engines' = [engines EXCEPT ![engine] = Whole]
  /\ engine' = NextEngine /\ server' = "engines"
  /\ UNCHANGED <<dataset, cropped, unreadable, info, labels, svm, knows, monitor, script, walk,
                 label_encoding, classifiers, restart, status, asked, undone, faults>>

Listen ==
  /\ server = "engines" /\ engine > NEngines
  /\ server' = "serving"
  /\ UNCHANGED <<disk, monitor, script, walk, memory, status, asked, undone, faults>>

\* handle_client_msg, CMD_RESCAN: exit(3).
Rescan ==
  /\ server = "serving" /\ faults.rescans < MaxRescans
  /\ Exit(3) /\ asked' = dataset
  /\ faults' = [faults EXCEPT !.rescans = @ + 1]
  /\ UNCHANGED <<disk, monitor, script, walk, memory, undone>>

(***************************************************************************)
(* The environment: pictures of another person are copied to the data set  *)
(* (LearnMode, by scp, which needs no server), and the faults.             *)
(***************************************************************************)
AddPerson ==
  /\ \E p \in Person \ dataset : dataset' = dataset \cup {p}
  /\ UNCHANGED <<cropped, unreadable, info, labels, svm, knows, engines, monitor, script, walk,
                 server, memory, status, asked, undone, faults>>

Crash ==
  /\ server # "down" /\ faults.crashes < MaxCrashes
  /\ Exit(0)
  /\ faults' = [faults EXCEPT !.crashes = @ + 1]
  /\ UNCHANGED <<disk, monitor, script, walk, memory, asked, undone>>

\* The Monitor is started again at boot.  Of the pictures that the generator has
\* written by then any may be cut short.
PowerLoss ==
  /\ faults.losses < MaxPowerLosses
  /\ faults' = [faults EXCEPT !.losses = @ + 1]
  /\ Exit(0) /\ monitor' = "fork"
  /\ undone' = (undone \/ \E line \in {"rm_svm", "rm_cropped", "rm_info"} : InScript(line))
  /\ \/ UNCHANGED unreadable
     \/ (InScript("walk") \/ InScript("write_info")) /\ unreadable' \in SUBSET cropped
  /\ UNCHANGED <<dataset, cropped, info, labels, svm, knows, engines, script, walk, memory, asked>>

Monitor   == Fork \/ Waited \/ Slept
Script    == RmSvm \/ RmCropped \/ RmInfo \/ RmLabels \/ ClearCropped
             \/ MakeDir \/ CropPerson \/ WriteRequired
Server    == ReadMarks \/ deserialize_svm \/ clear_svm_dir \/ TrainPair
             \/ SerializePair \/ Trained \/ WriteLabel \/ WritePlus \/ SelfTest
             \/ deserialize_engine \/ caffeToGIEModel \/ serialize_engine \/ Listen
Next      == Monitor \/ Script \/ Server \/ Rescan \/ AddPerson \/ GeneratorRaises
             \/ Crash \/ PowerLoss

\* The Monitor, the script and a starting server run by themselves; nobody has
\* to ask for a rescan, add pictures, or meet a fault.
Spec     == Init /\ [][Next]_vars
LiveSpec == Spec /\ WF_vars(Monitor) /\ WF_vars(Script) /\ WF_vars(Server)

(***************************************************************************)
(* Properties.                                                             *)
(***************************************************************************)
ServerSteps == {"down", "read", "load", "clear", "train", "serialize",
                "write_labels", "write_info", "self_test", "engines",
                "serialize_engine", "serving"}
ScriptLines == {"rm_svm", "rm_cropped", "rm_info", "rm_labels", "generate",
                "walk", "write_info"}
Restored == {"load", "self_test", "engines", "serialize_engine", "serving"}

SvmType(f) == \A ik \in DOMAIN f : ik \in Nat \X Nat /\ f[ik] \in Classifier \cup {TornSvm}

\* The types of the variables.
TypeOK ==
  /\ dataset \subseteq Person /\ cropped \subseteq Person
  /\ walk \subseteq Person /\ asked \subseteq Person
  /\ unreadable \subseteq Person /\ knows \in BOOLEAN
  /\ info \in {Absent, Torn, "required", "plus"}
  /\ labels \in Seq(Person) /\ label_encoding \in Seq(Person)
  /\ SvmType(svm) /\ SvmType(classifiers)
  /\ engines \in [Engines -> {Absent, Torn, Whole}]
  /\ monitor \in {"fork", "wait", "rescan", "sleep"} /\ script \in ScriptLines
  /\ server \in ServerSteps /\ restart \in {0, 1} /\ engine \in 1 .. NEngines + 1
  /\ server = "serialize_engine" => engine <= NEngines
  /\ status \in {0, 3} /\ undone \in BOOLEAN
  /\ faults \in [rescans : Nat, crashes : Nat, raises : Nat, losses : Nat]

\* rescan.sh has begun to delete and has not come to info.txt.
Deleting == monitor = "rescan" /\ script \in {"rm_svm", "rm_cropped", "rm_info"}

\* The "+" in info.txt means what the next start takes it for: labels.txt lists
\* every person whose faces were cropped, and there is a whole SVM for each two
\* of them, trained on these two.  A crash anywhere in a training or in the
\* generator keeps this; only a rescan that has begun to delete, or that a power
\* loss left there, may not (train_svm, face_classifier.cpp:506).
InfoTruthful ==
  (info = "plus" /\ ~Deleting /\ ~undone) =>
    /\ labels = ListDir[cropped]
    /\ \A ik \in Pairs(Len(labels)) : ik \in DOMAIN svm /\ svm[ik] = Training(labels)[ik]

\* A server that serves votes with SVMs that stand for the names it draws: the
\* classifier of the pair (i, k) was trained on the persons named i and k,
\* whatever crashes came between the files, and unless power was lost while a
\* rescan was deleting and once more (deserialize_svm pairs files and labels by
\* their numbers alone, face_classifier.cpp:379).
ServedNamesRight ==
  (server = "serving" /\ (~undone \/ faults.losses <= 1)) =>
    /\ DOMAIN classifiers = Pairs(Len(label_encoding))
    /\ \A ik \in DOMAIN classifiers : classifiers[ik] = Training(label_encoding)[ik]

\* A server that serves knows exactly the people whose faces were cropped,
\* unless power was lost while a rescan was deleting.
ServedComplete == (server = "serving" /\ ~undone) => label_encoding = ListDir[cropped]

\* A rescan teaches: once the server serves again it knows everybody who was in
\* the data set when the rescan was asked for, however often it crashed
\* meanwhile, if the generator did not raise and the power stayed on.
RescanTeaches ==
  (server = "serving" /\ faults.raises = 0 /\ faults.losses = 0) =>
    \A p \in asked : \E i \in 1 .. Len(label_encoding) : label_encoding[i] = p

\* What a restart cannot mend: an engine file cut short by a crash (each start
\* dies at the assertion on it); SVMs that do not know the face of the test
\* picture, or fewer than two people cropped and so no SVM at all (each start may
\* die printing the self test); a cropped picture cut short by a power loss (each
\* start dies reading it); or, after a power loss that left the "+" in info.txt,
\* a crash that cut labels.txt short (each start loads the few names it lists).
Stuck ==
  \/ \E e \in Engines : engines[e] = Torn
  \/ ~knows \/ Len(ListDir[cropped]) < 2
  \/ unreadable # {}
  \/ undone /\ info = "plus" /\ labels # ListDir[cropped]

\* The Monitor brings the server back: again and again it serves, or it is
\* stuck for one of the reasons above - the server of a training that has made
\* SVMs that know the test picture, from pictures that can be read, serves.
\* (Monitor.cpp, face_classifier's constructor, init, the mtcnn constructor)
ServesAgain == []<>(server = "serving" \/ Stuck)

\* Server/README.md:61: the engines "will be serialized and reused".  So after
\* any crash of the server a later start serves again.
CrashedServerReturns == []<>(server = "serving")
=============================================================================
