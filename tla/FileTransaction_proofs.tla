----------------------- MODULE FileTransaction_proofs -----------------------
(***************************************************************************)
(* Proofs about FileTransaction, for any number of processes, edits, names *)
(* and attempts, and any of the failures.                                  *)
(*                                                                         *)
(* The inductive invariant says, besides the properties: under the lock,   *)
(* only its holder is past waiting for it (OneHolder), so what it read is  *)
(* still what the file holds when it renames (ReadIsCurrent); a temporary  *)
(* file is what its writer has made of it so far (TempAsWritten); without  *)
(* the lock, names that are in use exist (OwnTempExists), so nobody else   *)
(* creates them; and after a rename the edit is there (EditIsThere).       *)
(***************************************************************************)
EXTENDS FileTransaction, TLAPS

\* A mode is a string that no step changes.
USE DEF Locking, Synced, Modes

OneHolder == Locking => \A p \in Processes : step[p] \notin {"idle", "lock"} <=> lock = p

ReadIsCurrent ==
  Locking => \A p \in Processes :
    step[p] \in {"create", "write", "sync", "rename"} =>
      base[p] = IF target = Torn THEN {} ELSE target

TempAsWritten ==
  \A p \in Processes :
    /\ step[p] = "sync" => Synced /\ temps[temp[p]] = Whole(p)
    /\ step[p] = "rename" =>
         temps[temp[p]] = [data |-> base[p] \cup {edit[p]}, synced |-> Synced]
    /\ step[p] = "write" => temps[temp[p]] # NoFile

OwnTempExists ==
  ~Synced => \A p \in Processes : step[p] \in HasTemp => temps[temp[p]] # NoFile

EditIsThere ==
  \A p \in Processes :
    /\ step[p] # "idle" => edit[p] \in Edits
    /\ step[p] = "syncdir" => Synced /\ edit[p] \in target

DiskBehind == Synced => target \in onDisk /\ \A c \in onDisk : c \subseteq target

\* When the file is torn nothing is promised; the machine lost power.
TornPromise == target = Torn => ~Synced /\ "power" \in Faults /\ acked = {}

\* What a failed transaction read is what the file holds, unless the file was
\* renamed and the directory could not be synced.
FailedBase ==
  Locking => \A p \in Processes :
    /\ step[p] = "syncdir" => target = base[p] \cup {edit[p]}
    /\ step[p] = "remove" => \/ base[p] = IF target = Torn THEN {} ELSE target
                             \/ Synced /\ target = base[p] \cup {edit[p]}

IInv ==
  /\ TypeOK /\ OneHolder /\ OwnTemp /\ OwnTempExists /\ TempAsWritten
  /\ ReadIsCurrent /\ FailedBase /\ EditIsThere
  /\ DiskBehind /\ TornPromise /\ NoUpdateLost /\ SyncedSurvives /\ NoLitter

LEMMA WholeIsFile ==
  ASSUME NEW d \in Contents, NEW b \in BOOLEAN
  PROVE  [data |-> d, synced |-> b] \in TempFile /\ [data |-> d, synced |-> b] # NoFile
BY NoFileAssumption DEF TempFile, Contents

LEMMA InitInv == Init => IInv
<1> SUFFICES ASSUME Init PROVE IInv
  OBVIOUS
<1>1. TypeOK
  BY AttemptsAssumption DEF Init, TypeOK, Contents, Steps
<1>2. OneHolder /\ OwnTemp /\ OwnTempExists /\ TempAsWritten /\ ReadIsCurrent /\ FailedBase
  BY NobodyAssumption DEF Init, OneHolder, OwnTemp, OwnTempExists, TempAsWritten, ReadIsCurrent,
     FailedBase, HasTemp
<1>3. EditIsThere /\ DiskBehind /\ TornPromise /\ NoUpdateLost /\ SyncedSurvives /\ NoLitter
  BY TornAssumption DEF Init, EditIsThere, DiskBehind, TornPromise, NoUpdateLost, SyncedSurvives,
     NoLitter
<1> QED BY <1>1, <1>2, <1>3 DEF IInv

-----------------------------------------------------------------------------
(* Steps that touch neither the file nor a temporary file. *)

\* What the parts of IInv that speak of the file system need.
SameFiles == UNCHANGED <<target, temps, onDisk, acked>>

LEMMA FilesKept ==
  ASSUME IInv, SameFiles, UNCHANGED mode
  PROVE  DiskBehind' /\ TornPromise' /\ NoUpdateLost' /\ SyncedSurvives'
BY DEF IInv, SameFiles, DiskBehind, TornPromise, NoUpdateLost, SyncedSurvives

LEMMA BeginStep == ASSUME IInv, NEW p \in Processes, Begin(p), UNCHANGED mode
  PROVE IInv'
<1> USE DEF IInv, Begin, Goto
<1>1. TypeOK'
  BY AttemptsAssumption DEF TypeOK, Steps
<1>2. OneHolder' /\ OwnTemp' /\ OwnTempExists' /\ TempAsWritten' /\ ReadIsCurrent' /\ FailedBase'
  BY DEF TypeOK, OneHolder, OwnTemp, OwnTempExists, TempAsWritten, ReadIsCurrent, FailedBase,
     HasTemp, Whole
<1>3. EditIsThere' /\ NoLitter'
  BY DEF TypeOK, EditIsThere, NoLitter, HasTemp
<1>4. SameFiles
  BY DEF SameFiles
<1> QED BY <1>1, <1>2, <1>3, <1>4, FilesKept

LEMMA AcquireStep == ASSUME IInv, NEW p \in Processes, Acquire(p), UNCHANGED mode
  PROVE IInv'
<1> USE DEF IInv, Acquire, Goto
<1>1. TypeOK'
  BY DEF TypeOK, Steps
<1>2. OneHolder' /\ OwnTemp' /\ OwnTempExists' /\ TempAsWritten' /\ ReadIsCurrent' /\ FailedBase'
  BY NobodyAssumption
     DEF TypeOK, OneHolder, OwnTemp, OwnTempExists, TempAsWritten, ReadIsCurrent, FailedBase,
         HasTemp, Whole
<1>3. EditIsThere' /\ NoLitter'
  BY DEF TypeOK, EditIsThere, NoLitter, HasTemp
<1>4. SameFiles
  BY DEF SameFiles
<1> QED BY <1>1, <1>2, <1>3, <1>4, FilesKept

LEMMA ReadStep == ASSUME IInv, NEW p \in Processes, Read(p), UNCHANGED mode
  PROVE IInv'
<1> USE DEF IInv, Read, Goto
<1>1. TypeOK'
  BY DEF TypeOK, Steps, Contents
<1>2. OneHolder' /\ OwnTemp' /\ OwnTempExists' /\ TempAsWritten' /\ ReadIsCurrent' /\ FailedBase'
  BY DEF TypeOK, OneHolder, OwnTemp, OwnTempExists, TempAsWritten, ReadIsCurrent, FailedBase,
         HasTemp, Whole
<1>3. EditIsThere' /\ NoLitter'
  BY DEF TypeOK, EditIsThere, NoLitter, HasTemp
<1>4. SameFiles
  BY DEF SameFiles
<1> QED BY <1>1, <1>2, <1>3, <1>4, FilesKept

LEMMA GiveUpStep == ASSUME IInv, NEW p \in Processes, GiveUp(p), UNCHANGED mode
  PROVE IInv'
<1> USE DEF IInv, GiveUp, End, Goto
<1>1. TypeOK'
  BY DEF TypeOK, Steps
<1>2. OneHolder' /\ OwnTemp' /\ OwnTempExists' /\ TempAsWritten' /\ ReadIsCurrent' /\ FailedBase'
  BY NobodyAssumption
     DEF TypeOK, OneHolder, OwnTemp, OwnTempExists, TempAsWritten, ReadIsCurrent, FailedBase,
         HasTemp, Whole
<1>3. EditIsThere' /\ NoLitter'
  BY DEF TypeOK, EditIsThere, NoLitter, HasTemp
<1>4. SameFiles
  BY DEF SameFiles
<1> QED BY <1>1, <1>2, <1>3, <1>4, FilesKept

LEMMA FailStep == ASSUME IInv, NEW p \in Processes, Fail(p), UNCHANGED mode
  PROVE IInv'
<1> USE DEF IInv, Fail, Goto
<1>1. TypeOK'
  BY DEF TypeOK, Steps
<1>2. OneHolder' /\ ReadIsCurrent' /\ FailedBase' /\ TempAsWritten'
  BY DEF TypeOK, OneHolder, TempAsWritten, ReadIsCurrent, FailedBase, EditIsThere, Whole
<1>3. OwnTemp'
  <2>1. CASE Synced
    BY <2>1 DEF TypeOK, OwnTemp, OneHolder, HasTemp
  <2>2. CASE ~Synced
    BY <2>2 DEF TypeOK, OwnTemp, HasTemp, EditIsThere
  <2> QED BY <2>1, <2>2
<1>4. OwnTempExists' /\ EditIsThere' /\ NoLitter'
  BY DEF TypeOK, OwnTempExists, EditIsThere, NoLitter, HasTemp, TempAsWritten
<1>5. SameFiles
  BY DEF SameFiles
<1> QED BY <1>1, <1>2, <1>3, <1>4, <1>5, FilesKept

LEMMA CrashStep == ASSUME IInv, NEW p \in Processes, Crash(p), UNCHANGED mode
  PROVE IInv'
<1> USE DEF IInv, Crash, End, Goto
<1>1. TypeOK'
  BY DEF TypeOK, Steps
<1>2. OneHolder' /\ OwnTemp' /\ OwnTempExists' /\ TempAsWritten' /\ ReadIsCurrent' /\ FailedBase'
  BY NobodyAssumption
     DEF TypeOK, OneHolder, OwnTemp, OwnTempExists, TempAsWritten, ReadIsCurrent, FailedBase,
         HasTemp, Whole
<1>3. EditIsThere' /\ NoLitter'
  BY DEF TypeOK, EditIsThere, NoLitter, HasTemp
<1>4. SameFiles
  BY DEF SameFiles
<1> QED BY <1>1, <1>2, <1>3, <1>4, FilesKept

-----------------------------------------------------------------------------
(* Steps on files. *)

LEMMA WrittenExists ==
  ASSUME IInv, NEW p \in Processes, step[p] \in {"write", "sync", "rename"}
  PROVE  temps[temp[p]] # NoFile
<1>1. base[p] \cup {edit[p]} \in Contents
  BY DEF IInv, TypeOK, EditIsThere, Contents
<1> QED BY <1>1, WholeIsFile, AttemptsAssumption DEF IInv, TempAsWritten, Whole

LEMMA CreateStep == ASSUME IInv, NEW p \in Processes, Create(p), UNCHANGED mode
  PROVE IInv'
<1> USE DEF IInv, Create, Goto
<1> PICK n \in TempNames :
      IF temps[n] = NoFile
      THEN /\ temp' = [temp EXCEPT ![p] = n]
           /\ temps' = [temps EXCEPT ![n] = Empty]
           /\ Goto(p, "write")
           /\ UNCHANGED attempt
      ELSE /\ attempt' = [attempt EXCEPT ![p] = @ + 1]
           /\ UNCHANGED <<temp, temps, step>>
  OBVIOUS
<1>a. Empty \in TempFile /\ Empty # NoFile
  BY WholeIsFile DEF Empty, Contents
<1>1. TypeOK'
  BY <1>a, AttemptsAssumption DEF TypeOK, Steps
<1>2. OneHolder' /\ ReadIsCurrent' /\ FailedBase' /\ EditIsThere'
  BY DEF TypeOK, OneHolder, ReadIsCurrent, FailedBase, EditIsThere
<1>3. OwnTemp'
  <2>1. CASE Synced
    BY <2>1 DEF TypeOK, OwnTemp, OneHolder, HasTemp
  <2>2. CASE ~Synced
    BY <2>2 DEF TypeOK, OwnTemp, OwnTempExists, HasTemp
  <2> QED BY <2>1, <2>2
<1>4. OwnTempExists'
  BY <1>a DEF TypeOK, OwnTempExists, HasTemp
<1>5. TempAsWritten'
  BY <1>a, WrittenExists DEF TypeOK, TempAsWritten, Whole
<1>6. NoLitter'
  BY DEF TypeOK, NoLitter, HasTemp
<1>7. DiskBehind' /\ TornPromise' /\ NoUpdateLost' /\ SyncedSurvives'
  BY DEF DiskBehind, TornPromise, NoUpdateLost, SyncedSurvives
<1> QED BY <1>1, <1>2, <1>3, <1>4, <1>5, <1>6, <1>7

LEMMA WriteStep == ASSUME IInv, NEW p \in Processes, Write(p), UNCHANGED mode
  PROVE IInv'
<1> USE DEF IInv, Write, Goto
<1>a. Whole(p) \in TempFile /\ Whole(p) # NoFile
  BY WholeIsFile DEF Whole, TypeOK, EditIsThere, Contents
<1>1. TypeOK'
  BY <1>a DEF TypeOK, Steps
<1>2. OneHolder' /\ OwnTemp' /\ ReadIsCurrent' /\ FailedBase' /\ EditIsThere'
  BY DEF TypeOK, OneHolder, OwnTemp, HasTemp, ReadIsCurrent, FailedBase, EditIsThere
<1>3. OwnTempExists' /\ NoLitter'
  BY <1>a DEF TypeOK, OwnTempExists, NoLitter, HasTemp
<1>4. TempAsWritten'
  <2>1. ASSUME NEW q \in Processes, q # p, step[q] \in {"write", "sync", "rename"}
        PROVE  temps'[temp[q]] = temps[temp[q]]
    BY <2>1 DEF OwnTemp, HasTemp, TypeOK
  <2>2. temps'[temp[p]] = Whole(p)
    BY DEF TypeOK
  <2> QED BY <1>a, <2>1, <2>2, AttemptsAssumption DEF TypeOK, TempAsWritten, Whole
<1>5. DiskBehind' /\ TornPromise' /\ NoUpdateLost' /\ SyncedSurvives'
  BY DEF DiskBehind, TornPromise, NoUpdateLost, SyncedSurvives
<1> QED BY <1>1, <1>2, <1>3, <1>4, <1>5

LEMMA SyncStep == ASSUME IInv, NEW p \in Processes, Sync(p), UNCHANGED mode
  PROVE IInv'
<1> USE DEF IInv, Sync, Goto
<1>a. temps' = [temps EXCEPT ![temp[p]] = [data |-> base[p] \cup {edit[p]}, synced |-> TRUE]]
  <2>1. temps[temp[p]] = [data |-> base[p] \cup {edit[p]}, synced |-> FALSE]
    BY DEF TempAsWritten, Whole
  <2>2. temps[temp[p]].data = base[p] \cup {edit[p]}
    BY <2>1
  <2> QED BY <2>2
<1>b. /\ [data |-> base[p] \cup {edit[p]}, synced |-> TRUE] \in TempFile
      /\ [data |-> base[p] \cup {edit[p]}, synced |-> TRUE] # NoFile
  BY WholeIsFile DEF TypeOK, EditIsThere, Contents
<1>1. TypeOK'
  BY <1>a, <1>b DEF TypeOK, Steps
<1>2. OneHolder' /\ OwnTemp' /\ ReadIsCurrent' /\ FailedBase' /\ EditIsThere'
  BY DEF TypeOK, OneHolder, OwnTemp, HasTemp, ReadIsCurrent, FailedBase, EditIsThere
<1>3. OwnTempExists' /\ NoLitter'
  BY <1>a, <1>b DEF TypeOK, OwnTempExists, NoLitter, HasTemp
<1>4. TempAsWritten'
  <2>1. ASSUME NEW q \in Processes, q # p, step[q] \in {"write", "sync", "rename"}
        PROVE  temps'[temp[q]] = temps[temp[q]]
    BY <2>1, <1>a DEF OwnTemp, HasTemp, TypeOK
  <2>2. temps'[temp[p]] = [data |-> base[p] \cup {edit[p]}, synced |-> TRUE]
    BY <1>a DEF TypeOK
  <2>3. mode = "synced"
    BY DEF TempAsWritten
  <2> QED BY <2>1, <2>2, <2>3 DEF TypeOK, TempAsWritten, Whole
<1>5. DiskBehind' /\ TornPromise' /\ NoUpdateLost' /\ SyncedSurvives'
  BY DEF DiskBehind, TornPromise, NoUpdateLost, SyncedSurvives
<1> QED BY <1>1, <1>2, <1>3, <1>4, <1>5

\* What a rename makes of the file.
LEMMA RenameEffect ==
  ASSUME IInv, NEW p \in Processes, Rename(p)
  PROVE  /\ target' = base[p] \cup {edit[p]}
         /\ target' \subseteq Edits /\ target' # Torn
         /\ onDisk' = onDisk \cup {target'} \cup (IF Synced THEN {} ELSE {Torn})
         /\ Locking /\ target # Torn => target' = target \cup {edit[p]}
         /\ edit[p] \in Edits
<1>1. temps[temp[p]] = [data |-> base[p] \cup {edit[p]}, synced |-> Synced]
  BY DEF IInv, TempAsWritten, Rename
<1>2. edit[p] \in Edits /\ base[p] \subseteq Edits
  BY DEF IInv, TypeOK, EditIsThere, Rename
<1>3. Locking /\ target # Torn => base[p] = target
  BY DEF IInv, ReadIsCurrent, Rename
<1>4. /\ temps[temp[p]].data = base[p] \cup {edit[p]}
      /\ temps[temp[p]].synced = Synced
  BY <1>1
<1>5. onDisk' = onDisk \cup {target'} \cup (IF Synced THEN {} ELSE {Torn})
  <2>1. CASE Synced
    BY <2>1, <1>4 DEF Rename
  <2>2. CASE ~Synced
    BY <2>2, <1>4 DEF Rename
  <2> QED BY <2>1, <2>2
<1> QED BY <1>2, <1>3, <1>4, <1>5, TornAssumption DEF Rename

LEMMA RenameStep == ASSUME IInv, NEW p \in Processes, Rename(p), UNCHANGED mode
  PROVE IInv'
<1> USE DEF IInv
<1>a. /\ target' = base[p] \cup {edit[p]}
      /\ target' \subseteq Edits /\ target' # Torn
      /\ onDisk' = onDisk \cup {target'} \cup (IF Synced THEN {} ELSE {Torn})
      /\ Locking /\ target # Torn => target' = target \cup {edit[p]}
      /\ edit[p] \in Edits
  BY RenameEffect
<1>b. /\ temps' = [temps EXCEPT ![temp[p]] = NoFile]
      /\ step[p] = "rename"
      /\ step' = [step EXCEPT ![p] = IF Synced THEN "syncdir" ELSE "idle"]
      /\ lock' = IF ~Synced /\ lock = p THEN Nobody ELSE lock
      /\ acked' = IF Synced THEN acked ELSE acked \cup {edit[p]}
      /\ UNCHANGED <<edit, base, temp, attempt, litter>>
  BY DEF Rename, Goto, End
<1>1. TypeOK'
  BY <1>a, <1>b DEF TypeOK, Steps, Contents
<1>2. OneHolder' /\ OwnTemp'
  BY <1>b, NobodyAssumption DEF TypeOK, OneHolder, OwnTemp, HasTemp
<1>3. OwnTempExists' /\ NoLitter'
  BY <1>b DEF TypeOK, OwnTempExists, OwnTemp, NoLitter, HasTemp
<1>4. TempAsWritten'
  <2>1. ASSUME NEW q \in Processes, q # p, step[q] \in {"write", "sync", "rename"}
        PROVE  temps'[temp[q]] = temps[temp[q]]
    BY <1>b, <2>1 DEF OwnTemp, HasTemp, TypeOK
  <2> QED BY <1>b, <2>1 DEF TypeOK, TempAsWritten, Whole
<1>5. ReadIsCurrent' /\ FailedBase'
  <2>1. ASSUME Locking, NEW q \in Processes, q # p PROVE step'[q] \in {"idle", "lock"}
    BY <1>b, <2>1, NobodyAssumption DEF TypeOK, OneHolder
  <2>2. step'[p] = IF Synced THEN "syncdir" ELSE "idle"
    BY <1>b DEF TypeOK
  <2>3. (base[p] \cup {edit[p]})' = base[p] \cup {edit[p]}
    BY <1>b
  <2>4. ReadIsCurrent'
    BY <1>b, <2>1, <2>2 DEF ReadIsCurrent
  <2>5. FailedBase'
    BY <1>a, <1>b, <2>1, <2>2, <2>3 DEF FailedBase
  <2> QED BY <2>4, <2>5
<1>6. EditIsThere'
  BY <1>a, <1>b DEF TypeOK, EditIsThere, OneHolder
<1>7. DiskBehind'
  BY <1>a, <1>b DEF DiskBehind, TornPromise
<1>8. TornPromise' /\ NoUpdateLost'
  BY <1>a, <1>b DEF TornPromise, NoUpdateLost
<1>9. SyncedSurvives'
  BY <1>a, <1>b DEF SyncedSurvives, NoUpdateLost, TornPromise
<1> QED BY <1>1, <1>2, <1>3, <1>4, <1>5, <1>6, <1>7, <1>8, <1>9

LEMMA SyncDirStep == ASSUME IInv, NEW p \in Processes, SyncDir(p), UNCHANGED mode
  PROVE IInv'
<1> USE DEF IInv, SyncDir, End, Goto
<1>a. Synced /\ Locking /\ edit[p] \in target /\ edit[p] \in Edits /\ target # Torn
  BY DEF EditIsThere, TornPromise
<1>1. TypeOK'
  BY <1>a DEF TypeOK, Steps
<1>2. OneHolder' /\ OwnTemp' /\ OwnTempExists' /\ TempAsWritten' /\ ReadIsCurrent' /\ FailedBase'
  BY NobodyAssumption
     DEF TypeOK, OneHolder, OwnTemp, OwnTempExists, TempAsWritten, ReadIsCurrent, FailedBase,
         HasTemp, Whole
<1>3. EditIsThere' /\ NoLitter'
  BY DEF TypeOK, EditIsThere, NoLitter, HasTemp
<1>4. DiskBehind' /\ TornPromise' /\ NoUpdateLost' /\ SyncedSurvives'
  BY <1>a DEF DiskBehind, TornPromise, NoUpdateLost, SyncedSurvives
<1> QED BY <1>1, <1>2, <1>3, <1>4

LEMMA RemoveTempStep == ASSUME IInv, NEW p \in Processes, RemoveTemp(p), UNCHANGED mode
  PROVE IInv'
<1> USE DEF IInv, RemoveTemp, End, Goto
<1>1. TypeOK'
  BY DEF TypeOK, Steps
<1>2. OneHolder' /\ OwnTemp' /\ ReadIsCurrent' /\ FailedBase' /\ EditIsThere'
  BY NobodyAssumption
     DEF TypeOK, OneHolder, OwnTemp, ReadIsCurrent, FailedBase, EditIsThere, HasTemp
<1>3. \A q \in Processes : q # p /\ step[q] \in HasTemp => temps'[temp[q]] = temps[temp[q]]
  BY DEF OwnTemp, HasTemp, TypeOK
<1>4. OwnTempExists' /\ TempAsWritten'
  BY <1>3 DEF TypeOK, OwnTempExists, TempAsWritten, HasTemp, Whole
<1>5. NoLitter'
  BY DEF TypeOK, NoLitter, HasTemp
<1>6. DiskBehind' /\ TornPromise' /\ NoUpdateLost' /\ SyncedSurvives'
  BY DEF DiskBehind, TornPromise, NoUpdateLost, SyncedSurvives
<1> QED BY <1>1, <1>2, <1>4, <1>5, <1>6

LEMMA PowerLossStep == ASSUME IInv, PowerLoss, UNCHANGED mode PROVE IInv'
<1> USE DEF IInv, PowerLoss
<1>1. TypeOK'
  BY DEF TypeOK, Steps
<1>2. OneHolder' /\ OwnTemp' /\ OwnTempExists' /\ TempAsWritten' /\ ReadIsCurrent' /\ FailedBase'
  BY NobodyAssumption
     DEF OneHolder, OwnTemp, OwnTempExists, TempAsWritten, ReadIsCurrent, FailedBase, HasTemp
<1>3. EditIsThere' /\ NoLitter'
  BY DEF EditIsThere, NoLitter
<1>4. DiskBehind' /\ TornPromise' /\ NoUpdateLost' /\ SyncedSurvives'
  BY DEF DiskBehind, TornPromise, NoUpdateLost, SyncedSurvives
<1> QED BY <1>1, <1>2, <1>3, <1>4

LEMMA StutterStep == ASSUME IInv, UNCHANGED vars PROVE IInv'
BY DEF IInv, vars, TypeOK, OneHolder, OwnTemp, OwnTempExists, TempAsWritten, ReadIsCurrent,
       FailedBase, EditIsThere, DiskBehind, TornPromise, NoUpdateLost, SyncedSurvives, NoLitter,
       Whole

-----------------------------------------------------------------------------
(* The theorems. *)

\* Every reachable state of a transaction satisfies the inductive invariant.
THEOREM Invariance == Spec => []IInv
<1>1. Init => IInv
  BY InitInv
<1>2. IInv /\ [Next]_vars => IInv'
  BY BeginStep, AcquireStep, ReadStep, CreateStep, WriteStep, SyncStep, RenameStep, SyncDirStep,
     GiveUpStep, FailStep, RemoveTempStep, CrashStep, PowerLossStep, StutterStep DEF Next
<1> QED BY <1>1, <1>2, PTL DEF Spec

\* The variables of a file replacement keep their types.
THEOREM TypeCorrectness == Spec => []TypeOK
BY Invariance, PTL DEF IInv

\* An edit acknowledged under the lock is never overwritten by an older view.
THEOREM AckedEditsKept == Spec => []NoUpdateLost
BY Invariance, PTL DEF IInv

\* An edit acknowledged after syncing is in every state a power loss can leave.
THEOREM AckedEditsDurable == Spec => []SyncedSurvives
BY Invariance, PTL DEF IInv

\* Processes never share a temporary file, with or without the lock.
THEOREM TempsAreOwn == Spec => []OwnTemp
BY Invariance, PTL DEF IInv

\* Temporary files outlive their writer only if it died or could not remove it.
THEOREM TempsAreRemoved == Spec => []NoLitter
BY Invariance, PTL DEF IInv

\* Readers find one whole version of the file.
THEOREM ReadersSeeWhole == Spec => []TargetWhole
<1>1. IInv => TargetWhole
  BY DEF IInv, TornPromise, TargetWhole
<1> QED BY <1>1, Invariance, PTL

\* A transaction under the lock that fails has left the file alone, or, when it
\* was to be synced, made all of its edit and nothing else.
THEOREM FailureIsAllOrNothing == Spec => []AllOrNothing
<1>1. IInv => AllOrNothing
  BY DEF IInv, FailedBase, AllOrNothing
<1> QED BY <1>1, Invariance, PTL

-----------------------------------------------------------------------------
(* The refinement. *)

\* Every step of a synced file is a step of AtomicFile, or none.
LEMMA StepRefines ==
  ASSUME IInv, [Next]_vars
  PROVE  [File!Next]_(File!vars)
<1> USE DEF IInv, File!Next, File!vars, File!Add, File!Acknowledge, File!PowerLoss
<1>1. ASSUME Synced, UNCHANGED mode, NEW p \in Processes, Rename(p)
      PROVE  File!Add(edit[p]) /\ edit[p] \in Edits
  BY <1>1, RenameEffect DEF Rename, TornPromise
<1>2. ASSUME Synced, UNCHANGED mode, NEW p \in Processes, SyncDir(p)
      PROVE  File!Acknowledge(edit[p]) /\ edit[p] \in Edits
  BY <1>2 DEF SyncDir, EditIsThere
<1>3. ASSUME Synced, UNCHANGED mode, PowerLoss PROVE File!PowerLoss
  BY <1>3 DEF PowerLoss, DiskBehind, SyncedSurvives
<1>4. ASSUME NEW p \in Processes,
             Begin(p) \/ Acquire(p) \/ Read(p) \/ Create(p) \/ Write(p) \/ Sync(p)
             \/ GiveUp(p) \/ Fail(p) \/ RemoveTemp(p) \/ Crash(p)
      PROVE  UNCHANGED <<target, acked>>
  BY <1>4 DEF Begin, Acquire, Read, Create, Write, Sync, GiveUp, Fail, RemoveTemp, Crash
<1>5. CASE UNCHANGED vars
  BY <1>5 DEF vars
<1>6. CASE Synced /\ Next
  <2>1. UNCHANGED mode
    BY <1>6 DEF Next
  <2> QED BY <1>1, <1>2, <1>3, <1>4, <1>6, <2>1 DEF Next
<1>7. CASE ~Synced /\ Next
  BY <1>7 DEF Next
<1> QED BY <1>5, <1>6, <1>7

\* Synced transactions are indistinguishable from atomic edits of one file.
THEOREM Refinement == Spec => SharedFile
<1>1. Init => File!Init
  BY DEF Init, File!Init
<1>2. IInv /\ [Next]_vars => [File!Next]_(File!vars)
  BY StepRefines
<1> QED BY <1>1, <1>2, Invariance, PTL DEF Spec, SharedFile, File!Spec

=============================================================================
