---------------------------- MODULE StartupProofs ----------------------------
(***************************************************************************)
(* Proofs about Startup for any people, any order in which directories     *)
(* list them, any number of engines and any number of faults.              *)
(***************************************************************************)
EXTENDS Startup, FiniteSetTheorems, TLAPS

\* There is a right SVM for each two of the names.
Complete(f, order) ==
  \A ik \in Pairs(Len(order)) : ik \in DOMAIN f /\ f[ik] = Training(order)[ik]

\* Every SVM of f is the one of its place in order.
Fits(f, order) ==
  \A ik \in DOMAIN f : ik \in Pairs(Len(order)) /\ f[ik] = Training(order)[ik]

Training1 == {"train", "serialize", "write_labels", "write_info"}

\* The processes take turns: a server only under a waiting Monitor.
Turns == monitor # "wait" => server = "down"

\* info.txt does not come back while the script generates.
ScriptInfo ==
  /\ (monitor = "rescan" /\ script \in {"rm_labels", "generate", "walk"}) => info = Absent
  /\ (monitor = "rescan" /\ script = "write_info") => info = Torn

\* What a training has done so far.
TrainingSoFar ==
  /\ server \in Training1 => label_encoding = ListDir[cropped]
  /\ server \in {"train", "serialize"} =>
       /\ Fits(classifiers, label_encoding)
       /\ \A ik \in DOMAIN classifiers :
            ik \in DOMAIN svm /\ svm[ik] \in {TornSvm, classifiers[ik]}
  /\ server = "train" => \A ik \in DOMAIN classifiers : svm[ik] = classifiers[ik]
  /\ server \in {"write_labels", "write_info"} =>
       Complete(svm, label_encoding) /\ Complete(classifiers, label_encoding)
       /\ Fits(classifiers, label_encoding)
  /\ server = "write_labels" =>
       Len(labels) <= Len(label_encoding)
       /\ \A i \in 1 .. Len(labels) : labels[i] = label_encoding[i]
  /\ server = "write_info" => labels = label_encoding
  /\ server \in {"read", "load", "clear"} => classifiers = NoSvm

\* Who trains although info.txt says it was done has nobody to train.
NothingToTrain ==
  (server \in {"clear"} \cup Training1 /\ info = "plus" /\ ~undone) => ListDir[cropped] = <<>>

\* What a loaded server holds.
Loaded ==
  /\ server = "load" => label_encoding = labels /\ info = "plus"
  /\ (server \in Restored /\ ~undone) => label_encoding = ListDir[cropped]
  /\ (server \in Restored \ {"load"} /\ ~undone) =>
       Complete(classifiers, label_encoding) /\ Fits(classifiers, label_encoding)

IInv == /\ TypeOK /\ Turns /\ ScriptInfo /\ TrainingSoFar /\ NothingToTrain
        /\ Loaded /\ InfoTruthful

-----------------------------------------------------------------------------
(* Types.                                                                  *)

\* The SVM of two names of a list of people tells two people apart.
LEMMA TrainingType ==
  ASSUME NEW order \in Seq(Person), NEW ik \in Pairs(Len(order))
  PROVE  /\ ik \in Nat \X Nat
         /\ Training(order)[ik] = <<order[ik[1]], order[ik[2]]>>
         /\ Training(order)[ik] \in Classifier
         /\ Training(order)[ik] # TornSvm
BY DEF Training, Pairs, Classifier, TornSvm

\* No SVM is needed for no names.
LEMMA NoPairs == Pairs(Len(<<>>)) = {}
BY DEF Pairs

\* Deleting a file leaves the others.
LEMMA WithoutType ==
  ASSUME NEW f, NEW x, SvmType(f) PROVE SvmType(Without(f, x))
BY DEF SvmType, Without

LEMMA InitType == Init => TypeOK
<1> SUFFICES ASSUME Init PROVE TypeOK
  OBVIOUS
<1> USE StartupAssumption DEF Init
<1>1. ListDir[InitialPersons] \in Seq(Person)
  OBVIOUS
<1>2. engines \in [Engines -> {Absent, Torn, Whole}]
  OBVIOUS
<1>3. SvmType(svm)
  <2>1. DOMAIN svm = Pairs(Len(ListDir[InitialPersons]))
    BY DEF Training
  <2> QED
    BY <1>1, <2>1, TrainingType DEF SvmType
<1>4. SvmType(classifiers)
  BY DEF NoSvm, SvmType
<1>5. engine \in 1 .. NEngines + 1
  OBVIOUS
<1>6. faults \in [rescans : Nat, crashes : Nat, raises : Nat, losses : Nat]
  BY DEF Init
<1>7. info \in {Absent, Torn, "required", "plus"} /\ labels \in Seq(Person)
  BY <1>1
<1>8. label_encoding \in Seq(Person)
  OBVIOUS
<1>9. undone \in BOOLEAN /\ walk \subseteq Person /\ asked \subseteq Person
  OBVIOUS
<1> QED
  BY <1>2, <1>3, <1>4, <1>5, <1>6, <1>7, <1>8, <1>9 DEF TypeOK, ServerSteps, ScriptLines

LEMMA NextType == TypeOK /\ [Next]_vars => TypeOK'
<1> SUFFICES ASSUME TypeOK, [Next]_vars PROVE TypeOK'
  OBVIOUS
<1> USE DEF TypeOK, disk, memory, ServerSteps, ScriptLines, Exit, InScript
<1>1. CASE Fork
  <2>1. SvmType(NoSvm)
    BY DEF SvmType, NoSvm
  <2> QED
    BY <1>1, <2>1, StartupAssumption DEF Fork
<1>2. CASE Waited
  BY <1>2 DEF Waited
<1>3. CASE Slept
  BY <1>3 DEF Slept
<1>4. CASE RmSvm
  <2>1. SvmType(svm')
    BY <1>4, WithoutType DEF RmSvm, DeleteSvm
  <2> QED
    BY <1>4, <2>1 DEF RmSvm, DeleteSvm
<1>5. CASE RmCropped
  BY <1>5 DEF RmCropped
<1>6. CASE RmInfo
  BY <1>6 DEF RmInfo, InfoAfterRm
<1>7. CASE RmLabels
  BY <1>7 DEF RmLabels
<1>8. CASE ClearCropped
  BY <1>8 DEF ClearCropped
<1>9. CASE MakeDir
  BY <1>9 DEF MakeDir
<1>30. CASE CropPerson
  BY <1>30 DEF CropPerson
<1>10. CASE WriteRequired
  BY <1>10 DEF WriteRequired
<1>11. CASE ReadMarks
  BY <1>11 DEF ReadMarks
<1>12. CASE deserialize_svm
  <2>1. SvmType(classifiers')
    BY <1>12 DEF deserialize_svm, Stored, NoSvm, Pairs, SvmType
  <2> QED
    BY <1>12, <2>1 DEF deserialize_svm
<1>13. CASE clear_svm_dir
  <2>1. SvmType(svm')
    BY <1>13, WithoutType DEF clear_svm_dir
  <2>2. label_encoding' \in Seq(Person)
    BY <1>13, StartupAssumption DEF clear_svm_dir
  <2> QED
    BY <1>13, <2>1, <2>2 DEF clear_svm_dir
<1>14. CASE TrainPair
  <2>1. PICK ik \in Pairs(Len(label_encoding)) :
          /\ classifiers' = With(classifiers, ik, Training(label_encoding)[ik])
          /\ svm' = With(svm, ik, TornSvm)
    BY <1>14 DEF TrainPair
  <2>2. SvmType(classifiers')
    BY <2>1, TrainingType DEF With, SvmType
  <2>3. SvmType(svm')
    BY <2>1, TrainingType DEF With, SvmType
  <2> QED
    BY <1>14, <2>2, <2>3 DEF TrainPair
<1>15. CASE SerializePair
  <2>1. SvmType(svm')
    BY <1>15 DEF SerializePair, SvmType
  <2> QED
    BY <1>15, <2>1 DEF SerializePair
<1>16. CASE Trained
  BY <1>16 DEF Trained
<1>17. CASE WriteLabel
  <2>1. CASE Len(labels) < Len(label_encoding)
    <3>1. label_encoding[Len(labels) + 1] \in Person
      BY <2>1
    <3>2. labels' = Append(labels, label_encoding[Len(labels) + 1])
      BY <1>17, <2>1 DEF WriteLabel
    <3>3. labels' \in Seq(Person)
      BY <3>1, <3>2
    <3> QED
      BY <1>17, <2>1, <3>3 DEF WriteLabel
  <2>2. CASE ~(Len(labels) < Len(label_encoding))
    BY <1>17, <2>2 DEF WriteLabel
  <2> QED
    BY <2>1, <2>2
<1>18. CASE WritePlus
  BY <1>18 DEF WritePlus, Marked
<1>19. CASE SelfTest
  BY <1>19 DEF SelfTest
<1>20. CASE deserialize_engine
  <2>1. engine' \in 1 .. NEngines + 1
    BY <1>20, StartupAssumption DEF deserialize_engine, NextEngine
  <2> QED
    BY <1>20, <2>1 DEF deserialize_engine
<1>29. CASE caffeToGIEModel
  <2>1. engines' \in [Engines -> {Absent, Torn, Whole}]
    BY <1>29 DEF caffeToGIEModel
  <2> QED
    BY <1>29, <2>1 DEF caffeToGIEModel
<1>21. CASE serialize_engine
  <2>1. engines' \in [Engines -> {Absent, Torn, Whole}]
    BY <1>21 DEF serialize_engine
  <2>2. engine <= NEngines
    BY <1>21 DEF serialize_engine
  <2>3. engine' \in 1 .. NEngines + 1
    BY <1>21, <2>2, StartupAssumption DEF serialize_engine, NextEngine
  <2> QED
    BY <1>21, <2>1, <2>3 DEF serialize_engine
<1>22. CASE Listen
  BY <1>22 DEF Listen
<1>23. CASE Rescan
  BY <1>23 DEF Rescan
<1>24. CASE AddPerson
  BY <1>24 DEF AddPerson
<1>25. CASE GeneratorRaises
  <2>1. faults' \in [rescans : Nat, crashes : Nat, raises : Nat, losses : Nat]
    BY <1>25 DEF GeneratorRaises
  <2>2. /\ monitor' = "sleep"
        /\ UNCHANGED <<disk, script, walk, server, memory, status, asked, undone>>
    BY <1>25 DEF GeneratorRaises
  <2> QED
    BY <2>1, <2>2
<1>26. CASE Crash
  BY <1>26 DEF Crash
<1>27. CASE PowerLoss
  <2>1. undone' \in BOOLEAN
    BY <1>27 DEF PowerLoss
  <2>2. faults' \in [rescans : Nat, crashes : Nat, raises : Nat, losses : Nat]
    <3>1. faults' = [faults EXCEPT !.losses = @ + 1]
      BY <1>27 DEF PowerLoss
    <3> QED
      BY <3>1
  <2>3. server' = "down" /\ status' = 0 /\ monitor' = "fork"
    BY <1>27 DEF PowerLoss
  <2>4. UNCHANGED <<dataset, cropped, info, labels, svm, knows, engines, script, walk,
                    memory, asked>>
    BY <1>27 DEF PowerLoss
  <2>5. unreadable' \subseteq Person
    BY <1>27 DEF PowerLoss
  <2> QED
    BY <2>1, <2>2, <2>3, <2>4, <2>5
<1>28. CASE UNCHANGED vars
  BY <1>28 DEF vars
<1> QED
  BY <1>1, <1>2, <1>3, <1>4, <1>5, <1>6, <1>7, <1>8, <1>9, <1>10, <1>11, <1>12,
     <1>13, <1>14, <1>15, <1>16, <1>17, <1>18, <1>19, <1>20, <1>21, <1>22, <1>23,
     <1>24, <1>25, <1>26, <1>27, <1>28, <1>29, <1>30 DEF Next, Monitor, Script, Server

\* The variables keep their types (TypeOK, checked by the run startup).
THEOREM TypeCorrect == Spec => []TypeOK
BY InitType, NextType, PTL DEF Spec

-----------------------------------------------------------------------------
(* The hand-over through the files.                                        *)

LEMMA InitInv == Init => IInv
<1> SUFFICES ASSUME Init PROVE IInv
  OBVIOUS
<1>1. TypeOK
  BY InitType
<1>2. server = "down" /\ monitor = "fork"
  BY DEF Init
<1>3. Complete(svm, labels) /\ labels = ListDir[cropped]
  BY DEF Init, Complete, Training
<1>4. InfoTruthful
  BY <1>3 DEF InfoTruthful, Complete
<1> QED
  BY <1>1, <1>2, <1>4 DEF IInv, Turns, ScriptInfo, TrainingSoFar, NothingToTrain,
     Loaded, Restored, Training1

LEMMA NextTurns == IInv /\ [Next]_vars => Turns'
BY DEF IInv, Turns, Next, Monitor, Script, Server, vars, Fork, Waited, Slept, RmSvm,
   RmCropped, RmInfo, RmLabels, ClearCropped, MakeDir, CropPerson, WriteRequired,
   GeneratorRaises, InScript, Exit, ReadMarks, deserialize_svm, clear_svm_dir,
   TrainPair, SerializePair, Trained, WriteLabel, WritePlus, SelfTest,
   deserialize_engine, caffeToGIEModel, serialize_engine, Listen, Rescan, AddPerson,
   Crash, PowerLoss

LEMMA NextScriptInfo == IInv /\ [Next]_vars => ScriptInfo'
BY DEF IInv, Turns, ScriptInfo, Next, Monitor, Script, Server, vars, disk, Fork,
   Waited, Slept, RmSvm, DeleteSvm, RmCropped, RmInfo, InfoAfterRm, RmLabels,
   ClearCropped, MakeDir, CropPerson, WriteRequired, GeneratorRaises, InScript, Exit,
   ReadMarks, deserialize_svm, clear_svm_dir, TrainPair, SerializePair, Trained,
   WriteLabel, WritePlus, SelfTest, deserialize_engine, caffeToGIEModel,
   serialize_engine, Listen,
   Rescan, AddPerson, Crash, PowerLoss

\* Only a server writes what a training has done: under another actor's step
\* there is no server, or nothing of this changes.
LEMMA NextTrainingSoFar == IInv /\ [Next]_vars => TrainingSoFar'
<1> SUFFICES ASSUME IInv, [Next]_vars PROVE TrainingSoFar'
  OBVIOUS
<1> USE DEF Training1
<1>1. TrainingSoFar /\ TypeOK /\ Turns
  BY DEF IInv
<1>2. CASE server' = "down"
  BY <1>2 DEF TrainingSoFar
<1>3. CASE Fork
  BY <1>3 DEF Fork, TrainingSoFar
<1>4. CASE ReadMarks
  BY <1>4, <1>1 DEF ReadMarks, TrainingSoFar
<1>5. CASE deserialize_svm
  BY <1>5, <1>1 DEF deserialize_svm, TrainingSoFar
<1>6. CASE clear_svm_dir
  BY <1>6, <1>1 DEF clear_svm_dir, Exit, TrainingSoFar, Fits, NoSvm
<1>7. CASE TrainPair
  <2>1. PICK ik \in Pairs(Len(label_encoding)) :
          /\ ik \notin DOMAIN classifiers
          /\ classifiers' = With(classifiers, ik, Training(label_encoding)[ik])
          /\ svm' = With(svm, ik, TornSvm)
    BY <1>7 DEF TrainPair, IsNextPair
  <2>2. server = "train" /\ server' = "serialize" /\ UNCHANGED <<label_encoding, cropped, labels>>
    BY <1>7 DEF TrainPair, memory
  <2>3. Fits(classifiers', label_encoding')
    BY <1>1, <2>1, <2>2 DEF TrainingSoFar, Fits, With
  <2>4. \A y \in DOMAIN classifiers' :
          y \in DOMAIN svm' /\ svm'[y] \in {TornSvm, classifiers'[y]}
    BY <1>1, <2>1, <2>2 DEF TrainingSoFar, With
  <2> QED
    BY <1>1, <2>2, <2>3, <2>4 DEF TrainingSoFar
<1>8. CASE SerializePair
  BY <1>8, <1>1 DEF SerializePair, TrainingSoFar, memory, Fits
<1>9. CASE Trained
  <2>1. /\ server = "train" /\ server' = "write_labels" /\ labels' = <<>>
        /\ Pairs(Len(label_encoding)) \subseteq DOMAIN classifiers
        /\ UNCHANGED <<cropped, svm, label_encoding, classifiers>>
    BY <1>9 DEF Trained, memory
  <2>2. Complete(svm, label_encoding) /\ Complete(classifiers, label_encoding)
    BY <1>1, <2>1 DEF TrainingSoFar, Complete, Fits
  <2>3. Len(labels') = 0 /\ 0 <= Len(label_encoding)
    BY <1>1, <2>1 DEF TypeOK
  <2> QED
    BY <1>1, <2>1, <2>2, <2>3 DEF TrainingSoFar, Complete, Fits
<1>10. CASE WriteLabel
  <2>1. /\ server = "write_labels" /\ UNCHANGED <<cropped, svm, label_encoding, classifiers>>
    BY <1>10 DEF WriteLabel, memory
  <2>2. labels \in Seq(Person) /\ label_encoding \in Seq(Person)
    BY <1>1 DEF TypeOK
  <2>3. CASE Len(labels) < Len(label_encoding)
    <3>1. labels' = Append(labels, label_encoding[Len(labels) + 1]) /\ server' = server
      BY <1>10, <2>3 DEF WriteLabel
    <3>2. /\ Len(labels') <= Len(label_encoding)
          /\ \A i \in 1 .. Len(labels') : labels'[i] = label_encoding[i]
      BY <1>1, <2>1, <2>2, <2>3, <3>1 DEF TrainingSoFar
    <3> QED
      BY <1>1, <2>1, <3>1, <3>2 DEF TrainingSoFar, Complete, Fits
  <2>4. CASE ~(Len(labels) < Len(label_encoding))
    <3>1. labels' = labels /\ server' = "write_info"
      BY <1>10, <2>4 DEF WriteLabel
    <3>2. Len(labels) = Len(label_encoding)
      BY <1>1, <2>1, <2>2, <2>4 DEF TrainingSoFar
    <3>3. labels = label_encoding
      BY <1>1, <2>1, <2>2, <3>2 DEF TrainingSoFar
    <3> QED
      BY <1>1, <2>1, <3>1, <3>3 DEF TrainingSoFar, Complete, Fits
  <2> QED
    BY <2>3, <2>4
<1>11. CASE UNCHANGED <<server, cropped, labels, svm, label_encoding, classifiers>>
  BY <1>11, <1>1 DEF TrainingSoFar, Complete, Fits
<1>12. CASE server' \in {"self_test", "engines", "serialize_engine", "serving"}
  BY <1>12 DEF TrainingSoFar
<1>13. CASE Monitor \/ Script
  <2>1. CASE Waited \/ Slept
    BY <1>11, <2>1 DEF Waited, Slept, disk, memory
  <2>2. CASE Script
    <3>1. server = "down" /\ server' = server
      BY <1>1, <2>2 DEF Script, Turns, InScript, RmSvm, RmCropped, RmInfo, RmLabels,
         ClearCropped, MakeDir, CropPerson, WriteRequired
    <3> QED
      BY <1>2, <3>1
  <2> QED
    BY <1>3, <1>13, <2>1, <2>2 DEF Monitor
<1>14. CASE \/ WritePlus \/ SelfTest \/ Listen
            \/ deserialize_engine \/ caffeToGIEModel \/ serialize_engine
  <2>1. server' \in {"down", "self_test", "engines", "serialize_engine", "serving"}
    BY <1>14 DEF WritePlus, SelfTest, deserialize_engine, caffeToGIEModel, serialize_engine,
       Listen, Exit
  <2> QED
    BY <1>2, <1>12, <2>1
<1>15. CASE Rescan \/ Crash \/ PowerLoss
  BY <1>2, <1>15 DEF Rescan, Crash, PowerLoss, Exit
<1>16. CASE AddPerson \/ GeneratorRaises
  BY <1>11, <1>16 DEF AddPerson, GeneratorRaises, disk, memory
<1>17. CASE UNCHANGED vars
  BY <1>11, <1>17 DEF vars, disk, memory
<1> QED
  BY <1>4, <1>5, <1>6, <1>7, <1>8, <1>9, <1>10, <1>13, <1>14, <1>15, <1>16, <1>17
     DEF Next, Server

\* What info.txt promises holds when a server looks at it.
LEMMA PromiseKept ==
  ASSUME IInv, server # "down", info = "plus", ~undone
  PROVE  labels = ListDir[cropped] /\ Complete(svm, labels)
BY DEF IInv, Turns, InfoTruthful, Deleting, Complete

\* Steps that touch none of what the last three conjuncts of IInv speak of.
Quiet == UNCHANGED <<server, cropped, info, labels, svm, label_encoding, classifiers, undone>>

LEMMA NextNothingToTrain == IInv /\ [Next]_vars => NothingToTrain'
<1> SUFFICES ASSUME IInv, [Next]_vars PROVE NothingToTrain'
  OBVIOUS
<1> USE DEF Training1
<1>1. NothingToTrain /\ TypeOK /\ Turns /\ Loaded
  BY DEF IInv
<1>2. CASE server' \notin {"clear"} \cup Training1
  BY <1>2 DEF NothingToTrain
<1>3. CASE /\ UNCHANGED <<cropped, undone>> /\ server \in {"clear"} \cup Training1
           /\ info' = info \/ info' # "plus"
  BY <1>1, <1>3 DEF NothingToTrain
<1>4. CASE ReadMarks
  <2>1. server = "read" /\ UNCHANGED <<cropped, undone, info, labels>>
    BY <1>4 DEF ReadMarks, disk
  <2>2. CASE Trusted
    BY <1>2, <1>4, <2>2 DEF ReadMarks
  <2>3. CASE ~Trusted
    BY <2>1, <2>3, PromiseKept DEF Trusted, NothingToTrain
  <2> QED
    BY <2>2, <2>3
<1>5. CASE deserialize_svm
  <2>1. /\ server = "load" /\ UNCHANGED <<cropped, undone, info, labels>>
        /\ labels \in Seq(Person) /\ label_encoding = labels /\ info = "plus"
    BY <1>1, <1>5 DEF deserialize_svm, disk, Loaded, TypeOK
  <2>2. CASE \A ik \in Pairs(Len(label_encoding)) : Stored(ik)
    BY <1>2, <1>5, <2>2 DEF deserialize_svm
  <2>3. CASE ~undone
    <3>1. \A ik \in Pairs(Len(labels)) : ik \in DOMAIN svm /\ svm[ik] # TornSvm
      BY <2>1, <2>3, PromiseKept, TrainingType DEF Complete
    <3> QED
      BY <2>1, <2>2, <3>1 DEF Stored
  <2>4. CASE undone
    BY <2>1, <2>4 DEF NothingToTrain
  <2> QED
    BY <2>3, <2>4
<1>6. CASE clear_svm_dir
  BY <1>3, <1>6 DEF clear_svm_dir
<1>7. CASE TrainPair \/ SerializePair \/ Trained
  BY <1>3, <1>7 DEF TrainPair, SerializePair, Trained
<1>8. CASE WriteLabel
  BY <1>3, <1>8 DEF WriteLabel, Torn
<1>9. CASE \/ Fork \/ Listen \/ SelfTest \/ WritePlus
           \/ serialize_engine \/ deserialize_engine \/ caffeToGIEModel
  <2>1. server' \notin {"clear"} \cup Training1
    BY <1>9 DEF Fork, Listen, SelfTest, WritePlus, serialize_engine, deserialize_engine,
       caffeToGIEModel, Exit
  <2> QED
    BY <1>2, <2>1
<1>10. CASE Script
  <2>1. server' = "down"
    BY <1>1, <1>10 DEF Script, Turns, InScript, RmSvm, RmCropped, RmInfo, RmLabels,
       ClearCropped, MakeDir, CropPerson, WriteRequired
  <2> QED
    BY <1>2, <2>1
<1>11. CASE Rescan \/ Crash \/ PowerLoss
  BY <1>2, <1>11 DEF Rescan, Crash, PowerLoss, Exit
<1>12. CASE Quiet
  BY <1>1, <1>12 DEF Quiet, NothingToTrain
<1>13. CASE Waited \/ Slept \/ AddPerson \/ GeneratorRaises \/ UNCHANGED vars
  BY <1>12, <1>13 DEF Waited, Slept, AddPerson, GeneratorRaises, vars, disk, memory, Quiet
<1> QED
  BY <1>4, <1>5, <1>6, <1>7, <1>8, <1>9, <1>10, <1>11, <1>13 DEF Next, Monitor, Server

LEMMA NextLoaded == IInv /\ [Next]_vars => Loaded'
<1> SUFFICES ASSUME IInv, [Next]_vars PROVE Loaded'
  OBVIOUS
<1> USE DEF Restored
<1>1. Loaded /\ TrainingSoFar /\ TypeOK /\ Turns
  BY DEF IInv
<1>2. CASE server' \notin Restored
  BY <1>2 DEF Loaded
<1>3. CASE /\ UNCHANGED <<cropped, undone, label_encoding, classifiers>>
           /\ server \in Restored \ {"load"} /\ server' # "load"
  BY <1>1, <1>3 DEF Loaded, Complete, Fits
<1>4. CASE ReadMarks
  <2>1. /\ server = "read" /\ UNCHANGED <<cropped, undone, info, labels>>
        /\ label_encoding' = labels
    BY <1>4 DEF ReadMarks, disk
  <2>2. CASE Trusted
    BY <1>4, <2>1, <2>2, PromiseKept DEF ReadMarks, Trusted, Loaded
  <2>3. CASE ~Trusted
    BY <1>2, <1>4, <2>3 DEF ReadMarks
  <2> QED
    BY <2>2, <2>3
<1>5. CASE deserialize_svm
  <2>1. /\ server = "load" /\ UNCHANGED <<cropped, undone, info, labels, svm, label_encoding>>
        /\ label_encoding = labels /\ info = "plus"
    BY <1>1, <1>5 DEF deserialize_svm, disk, Loaded
  <2>2. CASE \A ik \in Pairs(Len(label_encoding)) : Stored(ik)
    <3>1. /\ server' = "self_test"
          /\ classifiers' = [ik \in Pairs(Len(label_encoding)) |-> svm[ik]]
      BY <1>5, <2>2 DEF deserialize_svm
    <3>2. ~undone => label_encoding = ListDir[cropped] /\ Complete(svm, label_encoding)
      BY <2>1, PromiseKept
    <3>3. ~undone => Complete(classifiers', label_encoding) /\ Fits(classifiers', label_encoding)
      BY <3>1, <3>2 DEF Complete, Fits
    <3> QED
      BY <2>1, <3>1, <3>2, <3>3 DEF Loaded, Complete, Fits
  <2>3. CASE ~\A ik \in Pairs(Len(label_encoding)) : Stored(ik)
    BY <1>2, <1>5, <2>3 DEF deserialize_svm
  <2> QED
    BY <2>2, <2>3
<1>6. CASE WritePlus
  <2>1. /\ server = "write_info" /\ server' = "self_test"
        /\ UNCHANGED <<cropped, label_encoding, classifiers>>
    BY <1>6 DEF WritePlus
  <2> QED
    BY <1>1, <2>1 DEF TrainingSoFar, Loaded, Training1, Complete, Fits
<1>7. CASE SelfTest \/ Listen
  <2>1. server' # "load" /\ UNCHANGED <<cropped, undone, label_encoding, classifiers>>
        /\ server \in Restored \ {"load"}
    BY <1>7 DEF SelfTest, Listen, Exit, disk, memory
  <2> QED
    BY <1>3, <2>1
<1>8. CASE deserialize_engine \/ caffeToGIEModel \/ serialize_engine
  <2>1. server' # "load" /\ UNCHANGED <<cropped, undone, label_encoding, classifiers>>
        /\ server \in Restored \ {"load"}
    BY <1>8 DEF deserialize_engine, caffeToGIEModel, serialize_engine, Exit, disk, memory
  <2> QED
    BY <1>3, <2>1
<1>9. CASE Fork \/ clear_svm_dir \/ TrainPair \/ SerializePair \/ Trained \/ WriteLabel
  <2>1. server' \notin Restored
    BY <1>9 DEF Fork, clear_svm_dir, Exit, TrainPair, SerializePair, Trained, WriteLabel
  <2> QED
    BY <1>2, <2>1
<1>10. CASE Script
  <2>1. server' = "down"
    BY <1>1, <1>10 DEF Script, Turns, InScript, RmSvm, RmCropped, RmInfo, RmLabels,
       ClearCropped, MakeDir, CropPerson, WriteRequired
  <2> QED
    BY <1>2, <2>1
<1>11. CASE Rescan \/ Crash \/ PowerLoss
  BY <1>2, <1>11 DEF Rescan, Crash, PowerLoss, Exit
<1>12. CASE Quiet
  BY <1>1, <1>12 DEF Quiet, Loaded, Complete, Fits
<1>13. CASE Waited \/ Slept \/ AddPerson \/ GeneratorRaises \/ UNCHANGED vars
  BY <1>12, <1>13 DEF Waited, Slept, AddPerson, GeneratorRaises, vars, disk, memory, Quiet
<1> QED
  BY <1>4, <1>5, <1>6, <1>7, <1>8, <1>9, <1>10, <1>11, <1>13 DEF Next, Monitor, Server

LEMMA NextInfoTruthful == IInv /\ [Next]_vars => InfoTruthful'
<1> SUFFICES ASSUME IInv, [Next]_vars PROVE InfoTruthful'
  OBVIOUS
<1> USE DEF Training1
<1>1. InfoTruthful /\ TrainingSoFar /\ NothingToTrain /\ TypeOK /\ Turns /\ ScriptInfo
  BY DEF IInv
<1>2. CASE info' # "plus" \/ undone' \/ Deleting'
  BY <1>2 DEF InfoTruthful
<1>3. CASE /\ UNCHANGED <<cropped, info, labels, svm, undone>> /\ ~Deleting
  BY <1>1, <1>3 DEF InfoTruthful
<1>4. CASE Script
  <2>1. CASE RmSvm \/ RmCropped
    BY <1>2, <2>1 DEF RmSvm, DeleteSvm, RmCropped, InScript, Deleting
  <2>2. CASE RmInfo \/ RmLabels \/ ClearCropped
    BY <1>1, <1>2, <2>2 DEF RmInfo, InfoAfterRm, RmLabels, ClearCropped, InScript,
       ScriptInfo, Absent
  <2>3. CASE MakeDir \/ CropPerson \/ WriteRequired
    BY <1>1, <1>2, <2>3 DEF MakeDir, CropPerson, WriteRequired, InScript, ScriptInfo, disk,
       Absent, Torn
  <2> QED
    BY <1>4, <2>1, <2>2, <2>3 DEF Script
<1>5. CASE Waited
  <2>1. CASE monitor' = "rescan"
    BY <1>2, <1>5, <2>1 DEF Waited, Deleting
  <2>2. CASE monitor' # "rescan"
    BY <1>3, <1>5, <2>2 DEF Waited, Deleting, disk
  <2> QED
    BY <2>1, <2>2
<1>6. CASE GeneratorRaises
  BY <1>1, <1>2, <1>6 DEF GeneratorRaises, InScript, ScriptInfo, disk, Absent
<1>7. CASE PowerLoss
  <2>1. CASE Deleting
    BY <1>2, <1>7, <2>1 DEF PowerLoss, Deleting, InScript
  <2>2. CASE ~Deleting /\ ~undone
    <3>1. undone' = FALSE /\ UNCHANGED <<cropped, info, labels, svm>>
      BY <1>7, <2>2 DEF PowerLoss, Deleting, InScript, disk
    <3> QED
      BY <1>1, <2>2, <3>1 DEF InfoTruthful, TypeOK
  <2>3. CASE undone
    BY <1>2, <1>7, <2>3 DEF PowerLoss
  <2> QED
    BY <2>1, <2>2, <2>3
<1>8. CASE Fork \/ Slept
  BY <1>3, <1>8 DEF Fork, Slept, disk, Deleting
<1>9. CASE AddPerson
  <2>1. CASE Deleting
    BY <1>2, <1>9, <2>1 DEF AddPerson, Deleting
  <2> QED
    BY <1>3, <1>9, <2>1 DEF AddPerson
<1>10. CASE server # "down" /\ Server
  <2>1. ~Deleting
    BY <1>1, <1>10 DEF Turns, Deleting
  <2>2. CASE ReadMarks \/ deserialize_svm \/ SelfTest \/ Listen
    BY <1>3, <2>1, <2>2 DEF ReadMarks, deserialize_svm, SelfTest, Listen, disk
  <2>3. CASE deserialize_engine \/ caffeToGIEModel \/ serialize_engine
    BY <1>3, <2>1, <2>3 DEF deserialize_engine, caffeToGIEModel, serialize_engine, disk
  <2>4. CASE clear_svm_dir \/ TrainPair \/ SerializePair \/ Trained
    <3>1. server \in {"clear"} \cup Training1 /\ UNCHANGED <<cropped, info, undone>>
      BY <2>4 DEF clear_svm_dir, TrainPair, SerializePair, Trained
    <3>2. labels' \in {labels, <<>>}
      BY <2>4 DEF clear_svm_dir, TrainPair, SerializePair, Trained
    <3>3. CASE info = "plus" /\ ~undone
      <4>1. ListDir[cropped] = <<>> /\ labels = <<>>
        BY <1>1, <2>1, <3>1, <3>3 DEF NothingToTrain, InfoTruthful
      <4> QED
        BY <3>1, <3>2, <4>1, NoPairs DEF InfoTruthful
    <3> QED
      BY <1>2, <3>1, <3>3
  <2>5. CASE WriteLabel
    <3>1. server = "write_labels" /\ UNCHANGED <<cropped, undone, svm, label_encoding>>
      BY <2>5 DEF WriteLabel, memory
    <3>2. CASE Len(labels) < Len(label_encoding)
      <4>1. info' = info
        BY <2>5, <3>2 DEF WriteLabel
      <4>2. CASE info = "plus" /\ ~undone
        <5>1. label_encoding = <<>> /\ labels = <<>>
          BY <1>1, <2>1, <3>1, <4>2 DEF NothingToTrain, InfoTruthful, TrainingSoFar
        <5> QED
          BY <3>2, <5>1
      <4> QED
        BY <1>2, <3>1, <4>1, <4>2
    <3>3. CASE ~(Len(labels) < Len(label_encoding))
      BY <1>2, <2>5, <3>3 DEF WriteLabel, Torn
    <3> QED
      BY <3>2, <3>3
  <2>6. CASE WritePlus
    <3>1. server = "write_info" /\ UNCHANGED <<cropped, labels, svm>>
      BY <2>6 DEF WritePlus
    <3>2. labels = ListDir[cropped] /\ Complete(svm, labels)
      BY <1>1, <3>1 DEF TrainingSoFar
    <3> QED
      BY <3>1, <3>2 DEF InfoTruthful, Complete
  <2> QED
    BY <1>10, <2>2, <2>3, <2>4, <2>5, <2>6 DEF Server
<1>11. CASE Rescan \/ Crash
  <2>1. ~Deleting /\ ~Deleting'
    BY <1>1, <1>11 DEF Turns, Deleting, Rescan, Crash
  <2> QED
    BY <1>3, <1>11, <2>1 DEF Rescan, Crash, disk
<1>12. CASE UNCHANGED vars
  <2>1. CASE Deleting
    BY <1>2, <1>12, <2>1 DEF vars, Deleting
  <2> QED
    BY <1>3, <1>12, <2>1 DEF vars, disk
<1>13. Server => server # "down"
  BY DEF Server, ReadMarks, deserialize_svm, clear_svm_dir, TrainPair, SerializePair,
     Trained, WriteLabel, WritePlus, SelfTest, deserialize_engine, caffeToGIEModel,
     serialize_engine, Listen
<1> QED
  BY <1>4, <1>5, <1>6, <1>7, <1>8, <1>9, <1>10, <1>11, <1>12, <1>13 DEF Next, Monitor

LEMMA NextInv == IInv /\ [Next]_vars => IInv'
<1> SUFFICES ASSUME IInv, [Next]_vars PROVE IInv'
  OBVIOUS
<1>1. TypeOK'
  BY NextType DEF IInv
<1>2. Turns' /\ ScriptInfo'
  BY NextTurns, NextScriptInfo
<1>3. TrainingSoFar' /\ NothingToTrain' /\ Loaded' /\ InfoTruthful'
  BY NextTrainingSoFar, NextNothingToTrain, NextLoaded, NextInfoTruthful
<1> QED
  BY <1>1, <1>2, <1>3 DEF IInv

\* The "+" in info.txt is to be believed, wherever the server crashed, whatever
\* the generator did, and however often: InfoTruthful.
THEOREM InfoIsTruthful == Spec => []InfoTruthful
<1>1. IInv => InfoTruthful
  BY DEF IInv
<1> QED
  BY InitInv, NextInv, <1>1, PTL DEF Spec

\* A serving server knows exactly the people cropped: ServedComplete.
THEOREM ServesWhatWasCropped == Spec => []ServedComplete
<1>1. IInv => ServedComplete
  BY DEF IInv, Loaded, ServedComplete, Restored
<1> QED
  BY InitInv, NextInv, <1>1, PTL DEF Spec

-----------------------------------------------------------------------------
(* The names of a server after a power loss: files and labels of two       *)
(* different sets of people may lie side by side, but after one loss       *)
(* labels.txt either begins the list of the people cropped, or lists more  *)
(* people than there are SVMs for, and loading fails.                      *)

\* A whole SVM of f is the one of its place in order.
Sound(f, order) ==
  \A ik \in DOMAIN f : f[ik] = TornSvm \/ (ik \in Pairs(Len(order)) /\ f[ik] = Training(order)[ik])

Begins(names, order) ==
  Len(names) <= Len(order) /\ \A i \in 1 .. Len(names) : names[i] = order[i]

LossCounted == faults.losses = 0 => ~undone

SoundWhileTraining == server \in Training1 => Sound(svm, label_encoding)

Emptied == (Deleting /\ script # "rm_svm") => DOMAIN svm = {}

\* Rescans that delete are of interest until the first loss only.
MayLoad == info = "plus" /\ faults.losses <= 1 /\ (Deleting => faults.losses = 0)

LabelsApart ==
  /\ Begins(labels, ListDir[cropped]) \/ Len(ListDir[cropped]) < Len(labels)
  /\ Deleting => Len(ListDir[cropped]) <= Len(labels)

OneLoss == MayLoad => Sound(svm, ListDir[cropped]) /\ LabelsApart

LoadedRight ==
  (server \in Restored \ {"load"} /\ (~undone \/ faults.losses <= 1)) =>
     Complete(classifiers, label_encoding) /\ Fits(classifiers, label_encoding)

NamesInv == IInv /\ LossCounted /\ SoundWhileTraining /\ Emptied /\ OneLoss /\ LoadedRight

\* Who is removed from a directory is missing from its list.
LEMMA ShorterList ==
  ASSUME NEW C \in SUBSET Person, NEW p \in C
  PROVE  Len(ListDir[C \ {p}]) < Len(ListDir[C])
<1>1. IsFiniteSet(C)
  BY FS_Subset, StartupAssumption
<1>2. /\ Cardinality(C \ {p}) <= Cardinality(C) /\ IsFiniteSet(C \ {p})
      /\ Cardinality(C) = Cardinality(C \ {p}) => C = C \ {p}
  BY <1>1, FS_Subset
<1>3. Cardinality(C) \in Nat /\ Cardinality(C \ {p}) \in Nat
  BY <1>1, <1>2, FS_CardinalityType
<1>4. Cardinality(C \ {p}) < Cardinality(C)
  BY <1>2, <1>3
<1>5. /\ Len(ListDir[C]) = Cardinality(C)
      /\ Len(ListDir[C \ {p}]) = Cardinality(C \ {p})
  BY StartupAssumption DEF Lists
<1> QED
  BY <1>4, <1>5

\* A file fewer, or all of them in place, and what is stored stays sound.
LEMMA SoundWithout ==
  ASSUME NEW f, NEW x, NEW order, Sound(f, order) PROVE Sound(Without(f, x), order)
BY DEF Sound, Without

LEMMA SoundEmpty ==
  ASSUME NEW f, NEW order, DOMAIN f = {} PROVE Sound(f, order)
BY DEF Sound

\* Loading SVMs that are sound for the people cropped yields the right ones for
\* the labels, or fails.
LEMMA LoadsRight ==
  ASSUME NEW names \in Seq(Person), NEW order \in Seq(Person), NEW f, Sound(f, order),
         Begins(names, order) \/ Len(order) < Len(names),
         \A ik \in Pairs(Len(names)) : ik \in DOMAIN f /\ f[ik] # TornSvm
  PROVE  \A ik \in Pairs(Len(names)) : f[ik] = Training(names)[ik]
<1>1. SUFFICES ASSUME NEW ik \in Pairs(Len(names)) PROVE f[ik] = Training(names)[ik]
  OBVIOUS
<1>2. ik \in Pairs(Len(order)) /\ f[ik] = Training(order)[ik]
  BY DEF Sound
<1>3. CASE Begins(names, order)
  <2>1. /\ ik[1] \in 1 .. Len(names) /\ ik[2] \in 1 .. Len(names)
        /\ Training(names)[ik] = <<names[ik[1]], names[ik[2]]>>
        /\ Training(order)[ik] = <<order[ik[1]], order[ik[2]]>>
    BY <1>2 DEF Pairs, Training
  <2> QED
    BY <1>2, <1>3, <2>1 DEF Begins
<1>4. CASE Len(order) < Len(names)
  <2>1. Len(names) \in Nat /\ Len(order) \in Nat
    OBVIOUS
  <2>2. <<1, Len(names)>> \in Pairs(Len(names))
    BY <2>1 DEF Pairs
  <2>3. <<1, Len(names)>> \in Pairs(Len(order))
    BY <2>2 DEF Sound
  <2>4. Len(names) <= Len(order)
    BY <2>1, <2>3 DEF Pairs
  <2> QED
    BY <1>4, <2>1, <2>4
<1> QED
  BY <1>3, <1>4

LEMMA InitNames == Init => NamesInv
<1> SUFFICES ASSUME Init PROVE NamesInv
  OBVIOUS
<1>1. IInv
  BY InitInv
<1>2. server = "down" /\ monitor = "fork" /\ undone = FALSE
  BY DEF Init
<1>3. Sound(svm, ListDir[cropped])
  BY DEF Init, Sound, Training
<1>4. LabelsApart
  <2>1. labels = ListDir[cropped] /\ labels \in Seq(Person)
    BY <1>1 DEF Init, IInv, TypeOK
  <2> QED
    BY <1>2, <2>1 DEF LabelsApart, Begins, Deleting
<1> QED
  BY <1>1, <1>2, <1>3, <1>4 DEF NamesInv, LossCounted, SoundWhileTraining, Emptied, OneLoss,
     LoadedRight, Restored, Training1, Deleting

LEMMA NextLossCounted == NamesInv /\ [Next]_vars => LossCounted'
<1> SUFFICES ASSUME NamesInv, [Next]_vars PROVE LossCounted'
  OBVIOUS
<1>1. LossCounted /\ TypeOK
  BY DEF NamesInv, IInv
<1>2. CASE PowerLoss
  <2>1. faults' = [faults EXCEPT !.losses = @ + 1]
    BY <1>2 DEF PowerLoss
  <2>2. faults'.losses # 0
    BY <1>1, <2>1 DEF TypeOK
  <2> QED
    BY <2>2 DEF LossCounted
<1>3. CASE Rescan \/ Crash \/ GeneratorRaises
  <2>1. undone' = undone /\ faults'.losses = faults.losses
    BY <1>1, <1>3 DEF Rescan, Crash, GeneratorRaises, TypeOK
  <2> QED
    BY <1>1, <2>1 DEF LossCounted
<1>4. CASE Monitor \/ Script \/ AddPerson \/ UNCHANGED vars
  <2>1. undone' \in {undone, FALSE} /\ faults' = faults
    BY <1>4 DEF Monitor, Script, AddPerson, vars, Fork, Waited, Slept, RmSvm, RmCropped, RmInfo,
       RmLabels, ClearCropped, MakeDir, CropPerson, WriteRequired
  <2> QED
    BY <1>1, <2>1 DEF LossCounted
<1>5. CASE Server
  <2>1. undone' = undone /\ faults' = faults
    BY <1>5 DEF Server, ReadMarks, deserialize_svm, clear_svm_dir, TrainPair, SerializePair,
       Trained, WriteLabel, WritePlus, SelfTest, deserialize_engine, caffeToGIEModel,
       serialize_engine, Listen
  <2> QED
    BY <1>1, <2>1 DEF LossCounted
<1> QED
  BY <1>2, <1>3, <1>4, <1>5 DEF Next

LEMMA NextSoundWhileTraining == NamesInv /\ [Next]_vars => SoundWhileTraining'
<1> SUFFICES ASSUME NamesInv, [Next]_vars PROVE SoundWhileTraining'
  OBVIOUS
<1>1. SoundWhileTraining /\ TrainingSoFar /\ Turns
  BY DEF NamesInv, IInv
<1>2. CASE server' \notin Training1
  BY <1>2 DEF SoundWhileTraining
<1>3. CASE server \in Training1 /\ UNCHANGED <<svm, label_encoding>>
  BY <1>1, <1>3 DEF SoundWhileTraining, Sound
<1>4. CASE clear_svm_dir
  <2>1. CASE DOMAIN svm = {} /\ UNCHANGED svm
    BY <2>1, SoundEmpty DEF SoundWhileTraining
  <2>2. CASE server' = server
    BY <1>2, <1>4, <2>2 DEF clear_svm_dir, Training1
  <2> QED
    BY <1>4, <2>1, <2>2 DEF clear_svm_dir
<1>5. CASE TrainPair
  <2>1. PICK ik : svm' = With(svm, ik, TornSvm)
    BY <1>5 DEF TrainPair
  <2>2. server \in Training1 /\ label_encoding' = label_encoding
    BY <1>5 DEF TrainPair, Training1
  <2> QED
    BY <1>1, <2>1, <2>2 DEF SoundWhileTraining, Sound, With
<1>6. CASE SerializePair
  <2>1. /\ server = "serialize" /\ label_encoding' = label_encoding
        /\ svm' = [ik \in DOMAIN svm |-> IF ik \in DOMAIN classifiers THEN classifiers[ik]
                                                                     ELSE svm[ik]]
    BY <1>6 DEF SerializePair, memory
  <2>2. Fits(classifiers, label_encoding) /\ Sound(svm, label_encoding)
    BY <1>1, <2>1 DEF TrainingSoFar, SoundWhileTraining, Training1
  <2>3. Sound(svm', label_encoding)
    BY <2>1, <2>2 DEF Sound, Fits
  <2> QED
    BY <2>1, <2>3 DEF SoundWhileTraining
<1>7. CASE Trained \/ WriteLabel \/ WritePlus
  BY <1>3, <1>7 DEF Trained, WriteLabel, WritePlus, memory, Training1
<1>8. CASE \/ Fork \/ ReadMarks \/ deserialize_svm \/ SelfTest \/ Listen \/ serialize_engine
           \/ deserialize_engine \/ caffeToGIEModel \/ Rescan \/ Crash \/ PowerLoss
  <2>1. server' \notin Training1
    BY <1>8 DEF Fork, ReadMarks, deserialize_svm, SelfTest, Listen, serialize_engine, Exit,
       deserialize_engine, caffeToGIEModel, Rescan, Crash, PowerLoss, Training1
  <2> QED
    BY <1>2, <2>1
<1>9. CASE Script
  <2>1. server' = "down"
    BY <1>1, <1>9 DEF Script, Turns, InScript, RmSvm, RmCropped, RmInfo, RmLabels,
       ClearCropped, MakeDir, CropPerson, WriteRequired
  <2> QED
    BY <1>2, <2>1 DEF Training1
<1>10. CASE Waited \/ Slept \/ AddPerson \/ GeneratorRaises \/ UNCHANGED vars
  <2>1. UNCHANGED <<server, svm, label_encoding>>
    BY <1>10 DEF Waited, Slept, AddPerson, GeneratorRaises, vars, disk, memory
  <2> QED
    BY <1>2, <1>3, <2>1
<1> QED
  BY <1>4, <1>5, <1>6, <1>7, <1>8, <1>9, <1>10 DEF Next, Monitor, Server

LEMMA NextEmptied == NamesInv /\ [Next]_vars => Emptied'
<1> SUFFICES ASSUME NamesInv, [Next]_vars PROVE Emptied'
  OBVIOUS
<1>1. Emptied /\ Turns
  BY DEF NamesInv, IInv
<1>2. CASE ~Deleting'
  BY <1>2 DEF Emptied
<1>3. CASE RmSvm
  BY <1>1, <1>3 DEF RmSvm, DeleteSvm, InScript, Emptied, Deleting
<1>4. CASE Script /\ ~RmSvm
  <2>1. svm' = svm /\ (Deleting' => Deleting /\ script # "rm_svm")
    BY <1>4 DEF Script, InScript, RmCropped, RmInfo, RmLabels, ClearCropped, MakeDir,
       CropPerson, WriteRequired, disk, Deleting
  <2> QED
    BY <1>1, <2>1 DEF Emptied
<1>5. CASE Waited
  BY <1>5 DEF Waited, Emptied
<1>6. CASE Fork \/ Slept \/ GeneratorRaises \/ PowerLoss
  BY <1>2, <1>6 DEF Fork, Slept, GeneratorRaises, PowerLoss, Deleting
<1>7. CASE Server \/ Rescan \/ Crash
  <2>1. monitor' = "wait"
    BY <1>1, <1>7 DEF Turns, Server, ReadMarks, deserialize_svm, clear_svm_dir, TrainPair,
       SerializePair, Trained, WriteLabel, WritePlus, SelfTest, deserialize_engine,
       caffeToGIEModel, serialize_engine, Listen, Rescan, Crash
  <2> QED
    BY <1>2, <2>1 DEF Deleting
<1>8. CASE AddPerson \/ UNCHANGED vars
  BY <1>1, <1>8 DEF AddPerson, vars, disk, Emptied, Deleting
<1> QED
  BY <1>3, <1>4, <1>5, <1>6, <1>7, <1>8 DEF Next, Monitor

LEMMA NextOneLoss == NamesInv /\ [Next]_vars => OneLoss'
<1> SUFFICES ASSUME NamesInv, [Next]_vars, MayLoad'
             PROVE  (Sound(svm, ListDir[cropped]) /\ LabelsApart)'
  BY DEF OneLoss
<1>1. /\ OneLoss /\ Emptied /\ LossCounted /\ SoundWhileTraining
      /\ TypeOK /\ Turns /\ TrainingSoFar /\ InfoTruthful /\ ScriptInfo
  BY DEF NamesInv, IInv
<1>a. info' = "plus" /\ faults'.losses <= 1 /\ (Deleting' => faults'.losses = 0)
  BY DEF MayLoad
<1>b. faults.losses \in Nat
  BY <1>1 DEF TypeOK
\* Where the files stay and the Monitor does not begin to delete.
<1>2. CASE /\ MayLoad /\ UNCHANGED <<svm, cropped, labels>> /\ (Deleting' => Deleting)
  <2>1. Sound(svm, ListDir[cropped]) /\ LabelsApart
    BY <1>1, <1>2 DEF OneLoss
  <2> QED
    BY <1>2, <2>1 DEF Sound, LabelsApart, Begins
\* A server that trains.
<1>3. CASE /\ server # "down" /\ UNCHANGED <<cropped, info, faults, monitor>>
           /\ \/ UNCHANGED <<svm, labels>>
              \/ clear_svm_dir \/ TrainPair \/ SerializePair \/ Trained \/ WriteLabel
  <2>1. ~Deleting /\ ~Deleting'
    BY <1>1, <1>3 DEF Turns, Deleting
  <2>2. MayLoad
    BY <1>a, <1>3, <2>1 DEF MayLoad
  <2>3. Sound(svm, ListDir[cropped]) /\ LabelsApart
    BY <1>1, <2>2 DEF OneLoss
  <2>4. CASE UNCHANGED <<svm, labels>>
    BY <1>2, <1>3, <2>1, <2>2, <2>4
  <2>5. CASE clear_svm_dir
    <3>1. labels' = labels /\ (svm' = svm \/ \E ik \in DOMAIN svm : svm' = Without(svm, ik))
      BY <2>5 DEF clear_svm_dir
    <3>2. Sound(svm', ListDir[cropped])
      BY <2>3, <3>1, SoundWithout
    <3> QED
      BY <1>3, <2>1, <2>3, <3>1, <3>2 DEF LabelsApart, Begins
  <2>6. CASE TrainPair \/ SerializePair
    <3>1. /\ labels' = labels /\ server' \in Training1
          /\ label_encoding' = label_encoding /\ label_encoding = ListDir[cropped]
      BY <1>1, <2>6 DEF TrainPair, SerializePair, memory, Training1, TrainingSoFar
    <3>2. Sound(svm', ListDir[cropped])
      BY <3>1, NextSoundWhileTraining DEF SoundWhileTraining
    <3> QED
      BY <1>3, <2>1, <2>3, <3>1, <3>2 DEF LabelsApart, Begins
  <2>7. CASE Trained
    <3>1. labels' = <<>> /\ svm' = svm
      BY <2>7 DEF Trained
    <3>2. ListDir[cropped] \in Seq(Person)
      BY <1>1, StartupAssumption DEF TypeOK
    <3>3. Begins(<<>>, ListDir[cropped])
      BY <3>2 DEF Begins
    <3> QED
      BY <1>3, <2>1, <2>3, <3>1, <3>3 DEF LabelsApart, Sound
  <2>8. CASE WriteLabel
    <3>1. /\ server = "write_labels" /\ svm' = svm /\ label_encoding' = label_encoding
          /\ server' = "write_labels"
      BY <1>a, <1>3, <2>8 DEF WriteLabel, memory, Torn
    <3>2. TrainingSoFar'
      BY NextTrainingSoFar DEF NamesInv
    <3>3. label_encoding = ListDir[cropped]
      BY <1>1, <3>1 DEF TrainingSoFar, Training1
    <3>4. Begins(labels', ListDir[cropped])
      BY <3>1, <3>2, <3>3 DEF TrainingSoFar, Begins
    <3> QED
      BY <1>3, <2>1, <2>3, <3>1, <3>4 DEF LabelsApart, Begins, Sound
  <2> QED
    BY <1>3, <2>4, <2>5, <2>6, <2>7, <2>8
\* The training is over, and the "+" is written.
<1>4. CASE WritePlus
  <2>1. /\ server = "write_info" /\ UNCHANGED <<cropped, labels, svm, monitor>>
    BY <1>4 DEF WritePlus
  <2>2. /\ labels = ListDir[cropped] /\ Sound(svm, ListDir[cropped]) /\ labels \in Seq(Person)
    BY <1>1, <2>1 DEF TrainingSoFar, SoundWhileTraining, Training1, TypeOK
  <2>3. ~Deleting'
    BY <1>1, <2>1 DEF Turns, Deleting
  <2> QED
    BY <2>1, <2>2, <2>3 DEF LabelsApart, Begins
<1>5. CASE Server /\ ~WritePlus
  <2>1. server # "down" /\ UNCHANGED <<cropped, faults, monitor>>
    BY <1>5 DEF Server, ReadMarks, deserialize_svm, clear_svm_dir, TrainPair, SerializePair,
       Trained, WriteLabel, SelfTest, deserialize_engine, caffeToGIEModel, serialize_engine,
       Listen, disk
  <2>2. CASE clear_svm_dir \/ TrainPair \/ SerializePair \/ Trained
    BY <1>3, <2>1, <2>2 DEF clear_svm_dir, TrainPair, SerializePair, Trained
  <2>3. CASE WriteLabel
    <3>1. info' = info
      BY <1>a, <2>3 DEF WriteLabel, Torn
    <3> QED
      BY <1>3, <2>1, <2>3, <3>1
  <2>4. CASE \/ ReadMarks \/ deserialize_svm \/ SelfTest \/ Listen \/ serialize_engine
             \/ deserialize_engine \/ caffeToGIEModel
    <3>1. UNCHANGED <<info, svm, labels>>
      BY <2>4 DEF ReadMarks, deserialize_svm, SelfTest, Listen, serialize_engine,
         deserialize_engine, caffeToGIEModel, disk
    <3> QED
      BY <1>3, <2>1, <3>1
  <2> QED
    BY <1>5, <2>2, <2>3, <2>4 DEF Server
\* A script that deletes before any loss.
<1>6. CASE RmSvm \/ RmCropped
  <2>1. /\ Deleting /\ monitor = "rescan" /\ UNCHANGED <<info, labels, faults>>
    BY <1>6 DEF RmSvm, RmCropped, DeleteSvm, InScript, Deleting
  <2>2. Deleting'
    BY <1>6 DEF RmSvm, RmCropped, DeleteSvm, InScript, Deleting
  <2>3. MayLoad
    BY <1>a, <2>1, <2>2 DEF MayLoad
  <2>4. Sound(svm, ListDir[cropped]) /\ LabelsApart
    BY <1>1, <2>3 DEF OneLoss
  <2>5. CASE RmSvm
    <3>1. cropped' = cropped /\ (svm' = svm \/ \E ik \in DOMAIN svm : svm' = Without(svm, ik))
      BY <2>5 DEF RmSvm, DeleteSvm
    <3>2. Sound(svm', ListDir[cropped])
      BY <2>4, <3>1, SoundWithout
    <3> QED
      BY <2>1, <2>2, <2>4, <3>1, <3>2 DEF LabelsApart, Begins
  <2>6. CASE RmCropped
    <3>1. /\ svm' = svm
          /\ cropped' = cropped \/ \E p \in cropped : cropped' = cropped \ {p}
      BY <2>6 DEF RmCropped
    <3>2. CASE cropped' = cropped
      BY <2>1, <2>2, <2>4, <3>1, <3>2 DEF LabelsApart, Begins, Sound
    <3>3. CASE \E p \in cropped : cropped' = cropped \ {p}
      <4>1. DOMAIN svm = {}
        BY <1>1, <2>1, <2>6 DEF RmCropped, InScript, Emptied
      <4>2. Sound(svm', ListDir[cropped'])
        BY <3>1, <4>1, SoundEmpty
      <4>3. Len(ListDir[cropped']) < Len(ListDir[cropped])
        BY <1>1, <3>3, ShorterList DEF TypeOK
      <4>4. /\ Len(ListDir[cropped]) \in Nat /\ Len(ListDir[cropped']) \in Nat
            /\ Len(labels) \in Nat
        BY <1>1, <3>3, StartupAssumption DEF TypeOK
      <4>5. Len(ListDir[cropped']) < Len(labels')
        BY <2>1, <2>4, <4>3, <4>4 DEF LabelsApart
      <4> QED
        BY <4>2, <4>4, <4>5, <2>1 DEF LabelsApart
    <3> QED
      BY <3>1, <3>2, <3>3
  <2> QED
    BY <1>6, <2>5, <2>6
\* The rest of the script runs without the "+".
<1>7. CASE (Script /\ ~RmSvm /\ ~RmCropped) \/ GeneratorRaises
  <2>1. info' # "plus"
    BY <1>1, <1>7 DEF Script, GeneratorRaises, InScript, ScriptInfo, RmInfo, InfoAfterRm,
       RmLabels, ClearCropped, MakeDir, CropPerson, WriteRequired, Absent, Torn, disk
  <2> QED
    BY <1>a, <2>1
<1>8. CASE Waited
  <2>1. UNCHANGED <<cropped, info, labels, svm, faults, undone>> /\ ~Deleting
    BY <1>8 DEF Waited, disk, Deleting
  <2>2. MayLoad
    BY <1>a, <2>1 DEF MayLoad
  <2>3. CASE ~Deleting'
    BY <1>2, <2>1, <2>2, <2>3
  <2>4. CASE Deleting'
    <3>1. faults.losses = 0 /\ ~undone
      BY <1>1, <1>a, <2>1, <2>4 DEF LossCounted
    <3>2. labels = ListDir[cropped] /\ labels \in Seq(Person)
      BY <1>1, <2>1, <2>2, <3>1 DEF InfoTruthful, MayLoad, TypeOK
    <3>3. Sound(svm, ListDir[cropped])
      BY <1>1, <2>2 DEF OneLoss
    <3> QED
      BY <2>1, <3>2, <3>3 DEF LabelsApart, Begins
  <2> QED
    BY <2>3, <2>4
<1>9. CASE Fork \/ Slept \/ AddPerson \/ UNCHANGED vars
  <2>1. UNCHANGED <<cropped, info, labels, svm, faults>> /\ (Deleting' <=> Deleting)
    BY <1>9 DEF Fork, Slept, AddPerson, vars, disk, Deleting
  <2>2. MayLoad
    BY <1>a, <2>1 DEF MayLoad
  <2> QED
    BY <1>2, <2>1, <2>2
<1>10. CASE Rescan \/ Crash
  <2>1. /\ ~Deleting /\ ~Deleting' /\ UNCHANGED <<cropped, info, labels, svm>>
    BY <1>1, <1>10 DEF Rescan, Crash, Turns, Deleting, disk
  <2>2. faults'.losses = faults.losses
    BY <1>1, <1>10 DEF Rescan, Crash, TypeOK
  <2>3. MayLoad
    BY <1>a, <2>1, <2>2 DEF MayLoad
  <2> QED
    BY <1>2, <2>1, <2>3
\* The first loss.
<1>11. CASE PowerLoss
  <2>1. /\ ~Deleting' /\ UNCHANGED <<cropped, info, labels, svm>>
    BY <1>11 DEF PowerLoss, Deleting, disk
  <2>2. faults'.losses = faults.losses + 1
    BY <1>1, <1>11 DEF PowerLoss, TypeOK
  <2>3. faults.losses = 0
    BY <1>a, <1>b, <2>2
  <2>4. MayLoad
    BY <1>a, <2>1, <2>3 DEF MayLoad
  <2> QED
    BY <1>2, <2>1, <2>4
<1> QED
  BY <1>4, <1>5, <1>6, <1>7, <1>8, <1>9, <1>10, <1>11 DEF Next, Monitor

LEMMA NextLoadedRight == NamesInv /\ [Next]_vars => LoadedRight'
<1> SUFFICES ASSUME NamesInv, [Next]_vars,
                    server' \in Restored \ {"load"}, (~undone \/ faults.losses <= 1)'
             PROVE  (Complete(classifiers, label_encoding) /\ Fits(classifiers, label_encoding))'
  BY DEF LoadedRight
<1> USE DEF Restored
<1>1. LoadedRight /\ OneLoss /\ LossCounted /\ TypeOK /\ Turns /\ TrainingSoFar /\ Loaded
  BY DEF NamesInv, IInv
<1>2. CASE /\ server \in Restored \ {"load"} /\ UNCHANGED <<label_encoding, classifiers>>
           /\ undone' = undone /\ faults'.losses = faults.losses
  BY <1>1, <1>2 DEF LoadedRight, Complete, Fits
<1>3. CASE deserialize_svm
  <2>1. /\ server = "load" /\ UNCHANGED <<svm, label_encoding, undone, faults>>
        /\ label_encoding = labels /\ info = "plus" /\ ~Deleting
    BY <1>1, <1>3 DEF deserialize_svm, disk, Loaded, Turns, Deleting
  <2>2. /\ \A ik \in Pairs(Len(label_encoding)) : Stored(ik)
        /\ classifiers' = [ik \in Pairs(Len(label_encoding)) |-> svm[ik]]
    BY <1>3 DEF deserialize_svm
  <2>3. \A ik \in Pairs(Len(labels)) : svm[ik] = Training(labels)[ik]
    <3>1. CASE ~undone
      BY <2>1, <3>1, PromiseKept DEF Complete, NamesInv
    <3>2. CASE faults.losses <= 1
      <4>1. Sound(svm, ListDir[cropped]) /\ LabelsApart
        BY <1>1, <2>1, <3>2 DEF OneLoss, MayLoad
      <4>2. labels \in Seq(Person) /\ ListDir[cropped] \in Seq(Person)
        BY <1>1, StartupAssumption DEF TypeOK
      <4>3. \A ik \in Pairs(Len(labels)) : ik \in DOMAIN svm /\ svm[ik] # TornSvm
        BY <2>1, <2>2 DEF Stored
      <4> QED
        BY <4>1, <4>2, <4>3, LoadsRight DEF LabelsApart
    <3> QED
      BY <2>1, <3>1, <3>2
  <2> QED
    BY <2>1, <2>2, <2>3 DEF Complete, Fits
<1>4. CASE WritePlus
  <2>1. server = "write_info" /\ UNCHANGED <<label_encoding, classifiers>>
    BY <1>4 DEF WritePlus
  <2> QED
    BY <1>1, <2>1 DEF TrainingSoFar, Complete, Fits
<1>5. CASE SelfTest \/ Listen \/ deserialize_engine \/ caffeToGIEModel \/ serialize_engine
  <2>1. /\ server \in Restored \ {"load"}
        /\ UNCHANGED <<label_encoding, classifiers, undone, faults>>
    BY <1>5 DEF SelfTest, Listen, deserialize_engine, caffeToGIEModel, serialize_engine, memory
  <2> QED
    BY <1>2, <2>1
<1>6. CASE \/ Fork \/ ReadMarks \/ clear_svm_dir \/ TrainPair \/ SerializePair \/ Trained
           \/ WriteLabel \/ Rescan \/ Crash \/ PowerLoss
  <2>1. server' \notin Restored \ {"load"}
    BY <1>6 DEF Fork, ReadMarks, clear_svm_dir, TrainPair, SerializePair, Trained, WriteLabel,
       Rescan, Crash, PowerLoss, Exit
  <2> QED
    BY <2>1
<1>7. CASE Script
  <2>1. server' = "down"
    BY <1>1, <1>7 DEF Script, Turns, InScript, RmSvm, RmCropped, RmInfo, RmLabels,
       ClearCropped, MakeDir, CropPerson, WriteRequired
  <2> QED
    BY <2>1
<1>8. CASE Waited \/ Slept \/ AddPerson \/ UNCHANGED vars
  <2>1. UNCHANGED <<server, label_encoding, classifiers, undone, faults>>
    BY <1>8 DEF Waited, Slept, AddPerson, vars, memory
  <2> QED
    BY <1>2, <2>1
<1>9. CASE GeneratorRaises
  <2>1. server = "down" /\ server' = server
    BY <1>1, <1>9 DEF GeneratorRaises, InScript, Turns
  <2> QED
    BY <2>1
<1> QED
  BY <1>3, <1>4, <1>5, <1>6, <1>7, <1>8, <1>9 DEF Next, Monitor, Server

LEMMA NextNames == NamesInv /\ [Next]_vars => NamesInv'
<1> SUFFICES ASSUME NamesInv, [Next]_vars PROVE NamesInv'
  OBVIOUS
<1>1. IInv'
  BY NextInv DEF NamesInv
<1>2. LossCounted' /\ SoundWhileTraining' /\ Emptied' /\ OneLoss' /\ LoadedRight'
  BY NextLossCounted, NextSoundWhileTraining, NextEmptied, NextOneLoss, NextLoadedRight
<1> QED
  BY <1>1, <1>2 DEF NamesInv

\* The SVM a serving server keeps for two names was trained on the two people so
\* named, unless power was lost twice and a rescan was deleting:
\* ServedNamesRight.
THEOREM ServesRightNames == Spec => []ServedNamesRight
<1>1. NamesInv => ServedNamesRight
  BY DEF NamesInv, LoadedRight, ServedNamesRight, Restored, Complete, Fits
<1> QED
  BY InitNames, NextNames, <1>1, PTL DEF Spec

-----------------------------------------------------------------------------
(* What a rescan teaches.                                                  *)

\* Nobody waits to be cropped: no rescan was asked for that has not run yet, and
\* the generator, if it runs, has only info.txt left to write.
Generated ==
  /\ ~(monitor = "wait" /\ server = "down" /\ status = 3)
  /\ monitor = "rescan" => script = "write_info"

Taught ==
  (faults.raises = 0 /\ faults.losses = 0) =>
    /\ asked \subseteq dataset
    /\ (monitor = "rescan" /\ script = "walk") => asked \subseteq cropped \cup walk
    /\ Generated => asked \subseteq cropped

LEMMA InitTaught == Init => Taught
BY DEF Init, Taught

LEMMA NextTaught == NamesInv /\ Taught /\ [Next]_vars => Taught'
<1> SUFFICES ASSUME NamesInv, Taught, [Next]_vars, faults'.raises = 0, faults'.losses = 0
             PROVE  Taught'
  BY DEF Taught
<1>1. TypeOK /\ Turns
  BY DEF NamesInv, IInv
<1>2. CASE Script
  <2>1. monitor = "rescan" /\ UNCHANGED <<asked, dataset, faults>>
    BY <1>2 DEF Script, InScript, RmSvm, RmCropped, RmInfo, RmLabels, ClearCropped, MakeDir,
       CropPerson, WriteRequired, disk
  <2>2. CASE RmSvm \/ RmCropped \/ RmInfo \/ RmLabels
    <3>1. monitor' = "rescan" /\ script' \notin {"walk", "write_info"}
      BY <2>1, <2>2 DEF RmSvm, DeleteSvm, RmCropped, RmInfo, RmLabels, InScript
    <3> QED
      BY <2>1, <3>1 DEF Taught, Generated
  <2>3. CASE ClearCropped
    BY <2>1, <2>3 DEF ClearCropped, Taught, Generated
  <2>4. CASE MakeDir
    BY <2>1, <2>4 DEF MakeDir, Cropping, InScript, Taught, Generated
  <2>6. CASE CropPerson
    BY <2>1, <2>6 DEF CropPerson, Cropping, disk, InScript, Taught, Generated
  <2>5. CASE WriteRequired
    BY <2>1, <2>5 DEF WriteRequired, InScript, Taught, Generated
  <2> QED
    BY <1>2, <2>2, <2>3, <2>4, <2>5, <2>6 DEF Script
<1>3. CASE Server
  <2>1. /\ server # "down" /\ UNCHANGED <<monitor, cropped, asked, dataset, faults>>
        /\ server' # "down" \/ status' = 0
    BY <1>3 DEF Server, ReadMarks, deserialize_svm, clear_svm_dir, TrainPair, SerializePair,
       Trained, WriteLabel, WritePlus, SelfTest, deserialize_engine, caffeToGIEModel,
       serialize_engine, Listen, disk, Exit
  <2> QED
    BY <1>1, <2>1 DEF Turns, Taught, Generated
<1>4. CASE Fork \/ Slept
  BY <1>4 DEF Fork, Slept, disk, Taught, Generated
<1>5. CASE Waited
  BY <1>5 DEF Waited, NeedsRescan, disk, Taught, Generated
<1>6. CASE Rescan
  <2>1. /\ server = "serving" /\ server' = "down" /\ status' = 3 /\ asked' = dataset
        /\ UNCHANGED <<monitor, dataset, cropped>>
    BY <1>6 DEF Rescan, Exit, disk
  <2> QED
    BY <1>1, <2>1 DEF Turns, Taught, Generated
<1>7. CASE Crash
  <2>1. /\ server # "down" /\ status' = 0 /\ UNCHANGED <<monitor, dataset, cropped, asked>>
        /\ faults'.raises = faults.raises /\ faults'.losses = faults.losses
    BY <1>1, <1>7 DEF Crash, Exit, disk, TypeOK
  <2> QED
    BY <1>1, <2>1 DEF Turns, Taught, Generated
<1>8. CASE GeneratorRaises \/ PowerLoss
  BY <1>1, <1>8 DEF GeneratorRaises, PowerLoss, TypeOK
<1>9. CASE AddPerson
  <2>1. /\ dataset \subseteq dataset'
        /\ UNCHANGED <<monitor, script, server, status, cropped, walk, asked, faults>>
    BY <1>9 DEF AddPerson
  <2> QED
    BY <2>1 DEF Taught, Generated
<1>10. CASE UNCHANGED vars
  BY <1>10 DEF vars, disk, Taught, Generated
<1> QED
  BY <1>2, <1>3, <1>4, <1>5, <1>6, <1>7, <1>8, <1>9, <1>10 DEF Next, Monitor

\* Once a server serves after a rescan it knows everybody who was in the data
\* set when the rescan was asked for, however often it crashed: RescanTeaches.
THEOREM RescanTeachesAll == Spec => []RescanTeaches
<1>1. NamesInv /\ Taught => RescanTeaches
  <2> SUFFICES ASSUME NamesInv, Taught, server = "serving", faults.raises = 0, faults.losses = 0,
                      NEW p \in asked
               PROVE  \E i \in 1 .. Len(label_encoding) : label_encoding[i] = p
    BY DEF RescanTeaches
  <2>1. TypeOK /\ Turns /\ Loaded /\ ~undone
    BY DEF NamesInv, IInv, LossCounted
  <2>2. p \in cropped
    BY <2>1 DEF Taught, Generated, Turns
  <2>3. label_encoding = ListDir[cropped]
    BY <2>1 DEF Loaded, Restored
  <2>4. Lists(ListDir[cropped], cropped)
    BY <2>1, StartupAssumption DEF TypeOK
  <2> QED
    BY <2>2, <2>3, <2>4 DEF Lists
<1> QED
  BY InitNames, NextNames, InitTaught, NextTaught, <1>1, PTL DEF Spec
=============================================================================
