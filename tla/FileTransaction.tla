--------------------------- MODULE FileTransaction ---------------------------
(***************************************************************************)
(* How a file of this program is replaced (lock_file_transaction and       *)
(* write_text_atomic in src/config/store.rs). Configuration, secrets, the  *)
(* keyring index, saved selections and the history use both; the describe  *)
(* cache of the plugins is replaced without the lock.                      *)
(*                                                                         *)
(* The other modules take a replacement of a file to be one step. Here it  *)
(* is the sequence of system calls: create a temporary file that did not   *)
(* exist, write it, sync it, rename it over the file, sync the directory.  *)
(* Any of them may fail, the process may die between two of them, and the  *)
(* machine may lose power, which leaves one of the states of the file that *)
(* could have reached the disk.                                            *)
(*                                                                         *)
(* The contents of the file are the set of edits made to it: a transaction *)
(* reads the file and writes what it read with its own edit.               *)
(***************************************************************************)
EXTENDS Naturals

CONSTANTS
  Processes,
  Edits,      \* one edit each; bounds the number of transactions
  TempNames,  \* file name, process id, time and attempt
  Attempts,   \* 16 in the code
  Faults,     \* a subset of FaultKinds
  Torn,       \* contents that are not all there
  NoFile,
  NoEdit,
  Nobody

FaultKinds == {"io", "crash", "power"}

ASSUME AttemptsAssumption == Attempts \in Nat
ASSUME FaultsAssumption == Faults \subseteq FaultKinds
ASSUME TornAssumption == Torn \notin SUBSET Edits
ASSUME NoFileAssumption == NoFile \notin [data : (SUBSET Edits) \cup {Torn}, synced : BOOLEAN]
ASSUME NobodyAssumption == Nobody \notin Processes /\ NoEdit \notin Edits

VARIABLES
  mode,     \* how the callers replace this file, the same for all and for ever
  target,   \* the contents of the file
  temps,    \* temps[n]: the temporary file called n, or NoFile
  onDisk,   \* what the file may contain after a power loss
  lock,     \* the process that holds the lock, or Nobody
  step,     \* step[p]: the next system call of p
  edit,     \* edit[p]: the edit p makes
  base,     \* base[p]: what p read
  temp,     \* temp[p]: the name of p's temporary file
  attempt,  \* attempt[p]: names p has tried
  acked,    \* history variable: edits that were reported as made
  litter    \* history variable: temporary files whose process died or could not remove them

vars == <<mode, target, temps, onDisk, lock, step, edit, base, temp, attempt, acked, litter>>

\* Nobody syncs without the lock: configuration, secrets and selections are
\* "synced", the history is "buffered", the describe cache is "unlocked".
Modes == {"synced", "buffered", "unlocked"}
Locking == mode # "unlocked"
Synced == mode = "synced"

Contents == (SUBSET Edits) \cup {Torn}
TempFile == [data : Contents, synced : BOOLEAN]

Steps == {"idle", "lock", "read", "create", "write", "sync", "rename", "syncdir", "remove"}
HasTemp == {"write", "sync", "rename", "remove"}

Init ==
  /\ mode \in Modes
  /\ target = {}
  /\ temps = [n \in TempNames |-> NoFile]
  /\ onDisk = {target}
  /\ lock = Nobody
  /\ step = [p \in Processes |-> "idle"]
  /\ edit = [p \in Processes |-> NoEdit]
  /\ base = [p \in Processes |-> {}]
  /\ temp \in [Processes -> TempNames]
  /\ attempt = [p \in Processes |-> 0]
  /\ acked = {}
  /\ litter = {}

-----------------------------------------------------------------------------
(* The lock, and what is done under it. *)

Goto(p, next) == step' = [step EXCEPT ![p] = next]

\* The transaction of p is over; dropping the File releases the lock.
End(p) ==
  /\ Goto(p, "idle")
  /\ lock' = IF lock = p THEN Nobody ELSE lock

Begin(p) ==
  /\ step[p] = "idle"
  /\ Goto(p, IF Locking THEN "lock" ELSE "read")
  /\ \E e \in Edits : edit' = [edit EXCEPT ![p] = e]
  /\ attempt' = [attempt EXCEPT ![p] = 0]
  /\ UNCHANGED <<target, temps, onDisk, lock, base, temp, acked, litter>>

\* Seeded bug: the lock is opened but not waited for.
AcquireAnyway(p) ==
  /\ step[p] = "lock"
  /\ lock' = p
  /\ Goto(p, "read")
  /\ UNCHANGED <<target, temps, onDisk, edit, base, temp, attempt, acked, litter>>

Acquire(p) ==
  /\ step[p] = "lock"
  /\ lock = Nobody
  /\ lock' = p
  /\ Goto(p, "read")
  /\ UNCHANGED <<target, temps, onDisk, edit, base, temp, attempt, acked, litter>>

\* What is torn does not parse; a caller gives up or starts from nothing.
Read(p) ==
  /\ step[p] = "read"
  /\ base' = [base EXCEPT ![p] = IF target = Torn THEN {} ELSE target]
  /\ Goto(p, "create")
  /\ UNCHANGED <<target, temps, onDisk, lock, edit, temp, attempt, acked, litter>>

-----------------------------------------------------------------------------
(* write_text_atomic. *)

Empty == [data |-> Torn, synced |-> FALSE]
Whole(p) == [data |-> base[p] \cup {edit[p]}, synced |-> FALSE]

\* create_temp_file: a name that is taken costs an attempt.
Create(p) ==
  /\ step[p] = "create"
  /\ attempt[p] < Attempts
  /\ \E n \in TempNames :
       IF temps[n] = NoFile
       THEN /\ temp' = [temp EXCEPT ![p] = n]
            /\ temps' = [temps EXCEPT ![n] = Empty]
            /\ Goto(p, "write")
            /\ UNCHANGED attempt
       ELSE /\ attempt' = [attempt EXCEPT ![p] = @ + 1]
            /\ UNCHANGED <<temp, temps, step>>
  /\ UNCHANGED <<target, onDisk, lock, edit, base, acked, litter>>

\* Seeded bug: the file is renamed before it is synced.
WriteUnsynced(p) ==
  /\ step[p] = "write"
  /\ temps' = [temps EXCEPT ![temp[p]] = Whole(p)]
  /\ Goto(p, "rename")
  /\ UNCHANGED <<target, onDisk, lock, edit, base, temp, attempt, acked, litter>>

\* Seeded bug: write in the place of write_all, which may write a part only.
WriteShort(p) ==
  /\ step[p] = "write"
  /\ \E file \in {Empty, Whole(p)} : temps' = [temps EXCEPT ![temp[p]] = file]
  /\ Goto(p, IF Synced THEN "sync" ELSE "rename")
  /\ UNCHANGED <<target, onDisk, lock, edit, base, temp, attempt, acked, litter>>

\* write_all and set_permissions.
Write(p) ==
  /\ step[p] = "write"
  /\ temps' = [temps EXCEPT ![temp[p]] = Whole(p)]
  /\ Goto(p, IF Synced THEN "sync" ELSE "rename")
  /\ UNCHANGED <<target, onDisk, lock, edit, base, temp, attempt, acked, litter>>

Sync(p) ==
  /\ step[p] = "sync"
  /\ temps' = [temps EXCEPT ![temp[p]] = [data |-> @.data, synced |-> TRUE]]
  /\ Goto(p, "rename")
  /\ UNCHANGED <<target, onDisk, lock, edit, base, temp, attempt, acked, litter>>

\* Seeded bug: the directory is synced after every rename, and may fail to be.
RenameThenSync(p) ==
  /\ step[p] = "rename"
  /\ target' = temps[temp[p]].data
  /\ onDisk' = onDisk \cup {target'} \cup (IF temps[temp[p]].synced THEN {} ELSE {Torn})
  /\ temps' = [temps EXCEPT ![temp[p]] = NoFile]
  /\ Goto(p, "syncdir")
  /\ UNCHANGED <<lock, acked, edit, base, temp, attempt, litter>>

\* replace_file_atomic. Data that was not synced may miss the disk although the
\* rename does not.
Rename(p) ==
  /\ step[p] = "rename"
  /\ target' = temps[temp[p]].data
  /\ onDisk' = onDisk \cup {target'} \cup (IF temps[temp[p]].synced THEN {} ELSE {Torn})
  /\ temps' = [temps EXCEPT ![temp[p]] = NoFile]
  /\ IF Synced
     THEN Goto(p, "syncdir") /\ UNCHANGED <<lock, acked>>
     ELSE End(p) /\ acked' = acked \cup {edit[p]}
  /\ UNCHANGED <<edit, base, temp, attempt, litter>>

\* sync_parent_dir
SyncDir(p) ==
  /\ step[p] = "syncdir"
  /\ onDisk' = {target}
  /\ acked' = acked \cup {edit[p]}
  /\ End(p)
  /\ UNCHANGED <<target, temps, edit, base, temp, attempt, litter>>

-----------------------------------------------------------------------------
(* Failures. *)

\* An error before there is a temporary file, or when no name was free.
GiveUp(p) ==
  /\ \/ "io" \in Faults /\ step[p] \in {"lock", "read", "create"}
     \/ step[p] = "read" /\ target = Torn
     \/ step[p] = "create" /\ attempt[p] = Attempts
  /\ End(p)
  /\ UNCHANGED <<target, temps, onDisk, edit, base, temp, attempt, acked, litter>>

\* An error after that leads to the removal of the temporary file.
Fail(p) ==
  /\ "io" \in Faults
  /\ step[p] \in {"write", "sync", "rename", "syncdir"}
  /\ Goto(p, "remove")
  /\ UNCHANGED <<target, temps, onDisk, lock, edit, base, temp, attempt, acked, litter>>

\* Seeded bug: the temporary file stays.
LeaveTemp(p) ==
  /\ step[p] = "remove"
  /\ End(p)
  /\ UNCHANGED <<target, temps, onDisk, edit, base, temp, attempt, acked, litter>>

\* remove_file, whose error is ignored.
RemoveTemp(p) ==
  /\ step[p] = "remove"
  /\ \/ temps' = [temps EXCEPT ![temp[p]] = NoFile] /\ UNCHANGED litter
     \/ "io" \in Faults /\ litter' = litter \cup {temp[p]} /\ UNCHANGED temps
  /\ End(p)
  /\ UNCHANGED <<target, onDisk, edit, base, temp, attempt, acked>>

\* The process dies; the operating system releases its lock.
Crash(p) ==
  /\ "crash" \in Faults
  /\ step[p] # "idle"
  /\ litter' = IF step[p] \in HasTemp THEN litter \cup {temp[p]} ELSE litter
  /\ End(p)
  /\ UNCHANGED <<target, temps, onDisk, edit, base, temp, attempt, acked>>

\* The machine stops. Of an edit that was not synced nothing is promised.
PowerLoss ==
  /\ "power" \in Faults
  /\ target' \in onDisk
  /\ onDisk' = {target'}
  /\ temps' = [n \in TempNames |-> NoFile]
  /\ litter' = {}
  /\ lock' = Nobody
  /\ step' = [p \in Processes |-> "idle"]
  /\ acked' = IF Synced THEN acked ELSE {}
  /\ UNCHANGED <<edit, base, temp, attempt>>

Next ==
  /\ UNCHANGED mode
  /\ \/ \E p \in Processes :
          \/ Begin(p) \/ Acquire(p) \/ Read(p) \/ Create(p) \/ Write(p) \/ Sync(p)
          \/ Rename(p) \/ SyncDir(p) \/ GiveUp(p) \/ Fail(p) \/ RemoveTemp(p) \/ Crash(p)
     \/ PowerLoss

Spec == Init /\ [][Next]_vars

-----------------------------------------------------------------------------
(* Properties. *)

\* Every variable has its type.
TypeOK ==
  /\ mode \in Modes
  /\ target \in Contents
  /\ temps \in [TempNames -> TempFile \cup {NoFile}]
  /\ onDisk \subseteq Contents
  /\ lock \in Processes \cup {Nobody}
  /\ step \in [Processes -> Steps]
  /\ edit \in [Processes -> Edits \cup {NoEdit}]
  /\ base \in [Processes -> SUBSET Edits]
  /\ temp \in [Processes -> TempNames]
  /\ attempt \in [Processes -> 0 .. Attempts]
  /\ acked \subseteq Edits
  /\ litter \subseteq TempNames

\* Whoever opens the file, lock or no lock, finds all of one version of it, as
\* long as no version went missing in a power loss.
TargetWhole == "power" \notin Faults \/ Synced => target # Torn

\* Two processes never write the same temporary file, even when their names for
\* it collide.
OwnTemp ==
  \A p, q \in Processes :
    p # q /\ step[p] \in HasTemp /\ step[q] \in HasTemp => temp[p] # temp[q]

\* An edit that was reported as made is not lost to a transaction of another
\* process that read the file before it.
NoUpdateLost == Locking /\ target # Torn => acked \subseteq target

\* Nor is it lost to a power failure, if it was synced: every state of the file
\* that the disk may hold has it.
SyncedSurvives == Locking /\ Synced => \A c \in onDisk : c # Torn /\ acked \subseteq c

\* A transaction that fails under the lock leaves the file as it was read, or, if
\* it was to be synced, with its edit and nothing else changed: the rename may
\* have taken place when the directory cannot be synced. One that was not to be
\* synced leaves it as it was, which history relies on to keep its line pending.
AllOrNothing ==
  \A p \in Processes :
    Locking /\ step[p] = "remove" /\ target # Torn =>
      target \in {base[p]} \cup (IF Synced THEN {base[p] \cup {edit[p]}} ELSE {})

\* Temporary files that nobody is writing were left by a process that died or
\* was not allowed to remove them.
NoLitter ==
  \A n \in TempNames :
    temps[n] # NoFile =>
      n \in litter \/ \E p \in Processes : step[p] \in HasTemp /\ temp[p] = n

\* Transactions with the lock, synced, are the steps of one shared file. (Of a
\* file that is replaced in another way the abstract one shows nothing.)
File == INSTANCE AtomicFile WITH
  contents <- IF Synced THEN target ELSE {},
  acked <- IF Synced THEN acked ELSE {}
SharedFile == File!Spec

=============================================================================
