---------------------------- MODULE ContextStore ----------------------------
(***************************************************************************)
(* Context selections that outlive a REPL (src/context.rs, src/native.rs). *)
(*                                                                         *)
(* A selection is an entry, a value with its provenance, under a scoped    *)
(* key (kind, service, profile, identity and origin). Each REPL loads the  *)
(* entries of the kinds its products persist, changes them in memory, and  *)
(* after a command merges its own changes since the last save into the     *)
(* file, which it reads and replaces under the lock of the file. Entries   *)
(* that hold a known secret are dropped, provenance that does is redacted. *)
(***************************************************************************)

CONSTANTS
  Processes,
  Keys,
  Entries,    \* values with their provenance
  Persists,   \* Persists[p]: the keys of the kinds that p persists
  Protected,  \* Protected[e]: e without known secrets, or None if its value is one
  SyncFails,  \* a save may fail after the file was replaced
  None,
  Nobody

ASSUME PersistsAssumption == Persists \in [Processes -> SUBSET Keys]
ASSUME NoneAssumption == None \notin Entries
ASSUME NobodyAssumption == Nobody \notin Processes
ASSUME ProtectedAssumption ==
  /\ Protected \in [Entries -> Entries \cup {None}]
  /\ \A e \in Entries : Protected[e] # None => Protected[Protected[e]] = Protected[e]
ASSUME SyncAssumption == SyncFails \in BOOLEAN

VARIABLES
  file,     \* file[k]: the entry in context.json under k, or None
  entries,  \* entries[p]: NativeSessionContext::context_entries
  saved,    \* saved[p]: ContextBinding::saved, what p believes it shares with the file
  knows,    \* knows[p]: p has been told the secrets of its configuration
  step,     \* step[p]: "down", "idle", or where p is in a save
  lock,     \* the process that holds the lock of the file, or Nobody
  current   \* current[p]: what p read under the lock

vars == <<file, entries, saved, knows, step, lock, current>>

Map == [Keys -> Entries \cup {None}]
Nothing == [k \in Keys |-> None]

Init ==
  /\ file \in Map
  /\ entries = [p \in Processes |-> Nothing]
  /\ saved = [p \in Processes |-> Nothing]
  /\ knows = [p \in Processes |-> FALSE]
  /\ step = [p \in Processes |-> "down"]
  /\ lock = Nobody
  /\ current = [p \in Processes |-> Nothing]

\* protect_context
Protect(map) == [k \in Keys |-> IF map[k] = None THEN None ELSE Protected[map[k]]]

ProtectIf(known, map) == IF known THEN Protect(map) ELSE map

\* ContextBinding::persists
Stored(p, map) == [k \in Keys |-> IF k \in Persists[p] THEN map[k] ELSE None]

-----------------------------------------------------------------------------
(* In memory. *)

\* load_context, without the lock. The secrets may not be known yet.
Start(p) ==
  /\ step[p] = "down"
  /\ step' = [step EXCEPT ![p] = "idle"]
  /\ saved' = [saved EXCEPT ![p] = Stored(p, file)]
  /\ \E known \in BOOLEAN :
       /\ knows' = [knows EXCEPT ![p] = known]
       /\ entries' = [entries EXCEPT ![p] = ProtectIf(known, Stored(p, file))]
  /\ UNCHANGED <<file, lock, current>>

\* activate after a reload that brought secrets.
Activate(p) ==
  /\ step[p] = "idle"
  /\ knows' = [knows EXCEPT ![p] = TRUE]
  /\ entries' = [entries EXCEPT ![p] = Protect(@)]
  /\ UNCHANGED <<file, saved, step, lock, current>>

\* set_context_value
Select(p) ==
  /\ step[p] = "idle"
  /\ \E k \in Keys, e \in Entries : entries' = [entries EXCEPT ![p][k] = e]
  /\ UNCHANGED <<file, saved, knows, step, lock, current>>

\* clear_context and clear_service_context
Clear(p) ==
  /\ step[p] = "idle"
  /\ \E cleared \in SUBSET Keys :
       entries' = [entries EXCEPT ![p] = [k \in Keys |-> IF k \in cleared THEN None ELSE @[k]]]
  /\ UNCHANGED <<file, saved, knows, step, lock, current>>

-----------------------------------------------------------------------------
(* save_context. *)

\* Seeded bug: what was selected is saved as it is.
BeginSaveUnprotected(p) ==
  /\ step[p] = "idle"
  /\ step' = [step EXCEPT ![p] = "lock"]
  /\ UNCHANGED <<file, entries, saved, knows, lock, current>>

BeginSave(p) ==
  /\ step[p] = "idle"
  /\ step' = [step EXCEPT ![p] = "lock"]
  /\ entries' = [entries EXCEPT ![p] = ProtectIf(knows[p], @)]
  /\ UNCHANGED <<file, saved, knows, lock, current>>

Acquire(p) ==
  /\ step[p] = "lock"
  /\ lock = Nobody
  /\ lock' = p
  /\ current' = [current EXCEPT ![p] = file]
  /\ step' = [step EXCEPT ![p] = "write"]
  /\ UNCHANGED <<file, entries, saved, knows>>

\* Seeded bug: the changes go on top of what was saved last.
MergedIntoSaved(p) == [k \in Keys |->
  IF k \in Persists[p] THEN entries[p][k] ELSE current[p][k]]

\* Seeded bug: what was cleared is not removed.
MergedWithoutRemovals(p) ==
  LET stored == Stored(p, entries[p])
  IN  [k \in Keys |-> IF stored[k] \notin {None, saved[p][k]} THEN stored[k] ELSE current[p][k]]

\* What p shared and lost goes; what p has and did not share is put in.
Merged(p) ==
  LET stored == Stored(p, entries[p])
  IN  [k \in Keys |->
         CASE stored[k] = None /\ saved[p][k] # None -> None
           [] stored[k] # None /\ stored[k] # saved[p][k] -> stored[k]
           [] OTHER -> current[p][k]]

End(p) ==
  /\ step' = [step EXCEPT ![p] = "idle"]
  /\ lock' = IF lock = p THEN Nobody ELSE lock
  /\ current' = [current EXCEPT ![p] = Nothing]

Save(p) ==
  /\ step[p] = "write"
  /\ file' = Merged(p)
  /\ saved' = [saved EXCEPT ![p] = Stored(p, entries[p])]
  /\ End(p)
  /\ UNCHANGED <<entries, knows>>

\* Locking, reading or replacing the file fails.
Fail(p) ==
  /\ step[p] \in {"lock", "write"}
  /\ \/ UNCHANGED file
     \/ SyncFails /\ step[p] = "write" /\ file' = Merged(p)
  /\ End(p)
  /\ UNCHANGED <<entries, saved, knows>>

\* The process ends, or dies; the operating system releases its lock.
Stop(p) ==
  /\ step[p] # "down"
  /\ step' = [step EXCEPT ![p] = "down"]
  /\ lock' = IF lock = p THEN Nobody ELSE lock
  /\ current' = [current EXCEPT ![p] = Nothing]
  /\ entries' = [entries EXCEPT ![p] = Nothing]
  /\ saved' = [saved EXCEPT ![p] = Nothing]
  /\ UNCHANGED <<file, knows>>

Next == \E p \in Processes :
  \/ Start(p) \/ Activate(p) \/ Select(p) \/ Clear(p)
  \/ BeginSave(p) \/ Acquire(p) \/ Save(p) \/ Fail(p) \/ Stop(p)

Spec == Init /\ [][Next]_vars

-----------------------------------------------------------------------------
(* Properties. *)

\* Every variable has its type.
TypeOK ==
  /\ file \in Map
  /\ entries \in [Processes -> Map]
  /\ saved \in [Processes -> Map]
  /\ knows \in [Processes -> BOOLEAN]
  /\ step \in [Processes -> {"down", "idle", "lock", "write"}]
  /\ lock \in Processes \cup {Nobody}
  /\ current \in [Processes -> Map]

\* What p has changed under k since it last shared it.
Changed(p, k) == k \in Persists[p] /\ entries[p][k] # saved[p][k]

\* CHANGELOG.md: concurrent REPLs preserve one another's selections. The file
\* changes under a key only by a process that changed its own entry there, and
\* it changes to that entry, however old the process's view of the rest is.
SelectionsPreserved ==
  [][\A k \in Keys :
       file'[k] # file[k] =>
         \E p \in Processes : lock = p /\ Changed(p, k) /\ file'[k] = entries[p][k]]_vars

\* A save that succeeds makes every change of its process take effect, also the
\* removal of what another process replaced in the meantime.
SaveTakesEffect ==
  [][\A p \in Processes :
       step[p] = "write" /\ step'[p] = "idle" /\ saved'[p] # saved[p] =>
         \A k \in Keys : Changed(p, k) => file'[k] = entries[p][k]]_vars

Secret(e) == e # None /\ Protected[e] # e

\* A process that knows the secrets writes none: one that is in the file after
\* its save was there before, put by a process that did not know.
SecretsNotWritten ==
  [][\A p \in Processes, k \in Keys :
       lock = p /\ knows[p] /\ file' # file /\ Secret(file'[k]) =>
         file'[k] = file[k] /\ ~Changed(p, k)]_vars

=============================================================================
