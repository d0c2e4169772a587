---------------------------- MODULE KeyringStore ----------------------------
(***************************************************************************)
(* The keyring backend for secrets (src/config/secrets.rs).                *)
(*                                                                         *)
(* A secret lives in two places that cannot be changed together: its value *)
(* is a credential of the platform's keyring, and an index file lists the  *)
(* entries that have one, since a keyring cannot be enumerated. Loading    *)
(* reads the index and shows the listed credentials; a credential that is  *)
(* not listed is out of sight.                                             *)
(*                                                                         *)
(* An edit takes the lock of the index file, reads both places, changes    *)
(* the credential, then replaces the index, and puts the credential back   *)
(* when the index could not be written. Between two of these steps other   *)
(* processes run, someone may remove a credential with another program,    *)
(* and the process may die.                                                *)
(***************************************************************************)
EXTENDS FiniteSets

CONSTANTS
  Processes,
  Entries,   \* scoped keys, in the normal form of KeyringIndexEntry::new
  Secrets,   \* secrets
  NoSecret,  \* no credential
  Nobody,    \* nobody holds the lock
  Faults     \* the failures beyond an index that is not written, a subset of FaultKinds

FaultKinds == {
  "crash",     \* a process may die
  "rollback",  \* the keyring may refuse to put a credential back
  "sync",      \* writing the index may fail after the file was replaced
  "outside"}   \* another program may remove credentials

ASSUME FaultsAssumption == Faults \subseteq FaultKinds
ASSUME NoSecretAssumption == NoSecret \notin Secrets
ASSUME NobodyAssumption == Nobody \notin Processes

VARIABLES
  index,  \* the entries the index file lists
  creds,  \* creds[e]: the credential of e, or None
  lock,   \* the process that holds the lock of the index file, or Nobody
  step,   \* step[p]: where p is in its edit
  call,   \* call[p]: what p was asked to do: Unset is a value of NoSecret
  held,   \* held[p]: what p read under the lock
  torn    \* history variable: entries whose last edit stopped half-way

keyringVars == <<index, creds, lock, step, call, held, torn>>

Steps == {"idle", "locking", "credential", "index", "rollback"}
InTransaction == {"credential", "index", "rollback"}

Call == [entry : Entries, value : Secrets \cup {NoSecret}]
View == [previous : Secrets \cup {NoSecret}, index : SUBSET Entries]

EntryOf(p) == call[p].entry
IsSet(p) == call[p].value # NoSecret

\* What load_layer shows for e.
Shown(i, c, e) == IF e \in i THEN c[e] ELSE NoSecret
Visible(e) == Shown(index, creds, e)

KeyringInit ==
  /\ index = {}
  /\ creds = [e \in Entries |-> NoSecret]
  /\ lock = Nobody
  /\ step = [p \in Processes |-> "idle"]
  /\ call \in [Processes -> {[entry |-> e, value |-> NoSecret] : e \in Entries}]
  /\ held = [p \in Processes |-> [previous |-> NoSecret, index |-> {}]]
  /\ torn = {}

-----------------------------------------------------------------------------
(* set_scoped and unset_scoped. *)

Begin(p) ==
  /\ step[p] = "idle"
  /\ step' = [step EXCEPT ![p] = "locking"]
  /\ \E request \in Call : call' = [call EXCEPT ![p] = request]
  /\ UNCHANGED <<index, creds, lock, held, torn>>

\* The edit of p is over, well or not.
Release(p) ==
  /\ step' = [step EXCEPT ![p] = "idle"]
  /\ lock' = IF lock = p THEN Nobody ELSE lock

\* The lock, the credential and the index, in this order; nothing is written.
\* Removing what has no credential goes on with the index, if that lists it.
Acquire(p) ==
  /\ step[p] = "locking"
  /\ lock = Nobody
  /\ lock' = p
  /\ held' = [held EXCEPT ![p] = [previous |-> creds[EntryOf(p)], index |-> index]]
  /\ step' = [step EXCEPT ![p] = IF IsSet(p) \/ creds[EntryOf(p)] # NoSecret
                                 THEN "credential" ELSE "index"]
  /\ UNCHANGED <<index, creds, call, torn>>

ChangeCredential(p) ==
  /\ step[p] = "credential"
  /\ creds' = [creds EXCEPT ![EntryOf(p)] = call[p].value]
  /\ step' = [step EXCEPT ![p] = "index"]
  /\ UNCHANGED <<index, lock, call, held, torn>>

\* Seeded bug: retain keeps what it should drop, and drops the rest.
NewIndexInverted(p) ==
  IF IsSet(p) THEN held[p].index \cup {EntryOf(p)} ELSE held[p].index \cap {EntryOf(p)}

\* What is written: the index that was read, with or without the entry.
NewIndex(p) ==
  IF IsSet(p) THEN held[p].index \cup {EntryOf(p)} ELSE held[p].index \ {EntryOf(p)}

\* Seeded bug: a secret that had a value is taken to be listed.
SkipIndexIfKnown(p) ==
  /\ step[p] = "index"
  /\ IF IsSet(p) THEN held[p].previous # NoSecret ELSE EntryOf(p) \notin held[p].index
  /\ Release(p)
  /\ torn' = torn \ {EntryOf(p)}
  /\ UNCHANGED <<index, creds, call, held>>

\* The index is not written when it lacks what is removed.
SkipIndex(p) ==
  /\ step[p] = "index"
  /\ ~IsSet(p) /\ EntryOf(p) \notin held[p].index
  /\ Release(p)
  /\ torn' = torn \ {EntryOf(p)}
  /\ UNCHANGED <<index, creds, call, held>>

WriteIndex(p) ==
  /\ step[p] = "index"
  /\ IsSet(p) \/ EntryOf(p) \in held[p].index
  /\ index' = NewIndex(p)
  /\ Release(p)
  /\ torn' = torn \ {EntryOf(p)}
  /\ UNCHANGED <<creds, call, held>>

\* write_text_atomic fails: mostly before the rename, but syncing the directory
\* comes after it.
FailToWriteIndex(p) ==
  /\ step[p] = "index"
  /\ IsSet(p) \/ EntryOf(p) \in held[p].index
  /\ \/ UNCHANGED <<index, torn>>
     \/ /\ "sync" \in Faults
        /\ index' = NewIndex(p)
        /\ torn' = IF IsSet(p) THEN torn ELSE torn \cup {EntryOf(p)}
  /\ step' = [step EXCEPT ![p] = "rollback"]
  /\ UNCHANGED <<creds, lock, call, held>>

\* Seeded bug: the credential is removed whatever it was.
RollBackToNothing(p) ==
  /\ step[p] = "rollback"
  /\ creds' = [creds EXCEPT ![EntryOf(p)] = IF IsSet(p) THEN NoSecret ELSE @]
  /\ Release(p)
  /\ UNCHANGED <<index, call, held, torn>>

\* Seeded bug: only a credential that was there before is put back.
RollBackPrevious(p) ==
  /\ step[p] = "rollback"
  /\ creds' = [creds EXCEPT ![EntryOf(p)] = IF held[p].previous = NoSecret THEN @ ELSE held[p].previous]
  /\ Release(p)
  /\ UNCHANGED <<index, call, held, torn>>

\* The credential is put back, or removed if it was not there. An edit that
\* removes does not look at a credential that was not there.
RollBack(p) ==
  /\ step[p] = "rollback"
  /\ creds' = [creds EXCEPT ![EntryOf(p)] =
                 IF IsSet(p) \/ held[p].previous # NoSecret THEN held[p].previous ELSE @]
  /\ Release(p)
  /\ UNCHANGED <<index, call, held, torn>>

FailToRollBack(p) ==
  /\ step[p] = "rollback"
  /\ "rollback" \in Faults
  /\ torn' = torn \cup {EntryOf(p)}
  /\ Release(p)
  /\ UNCHANGED <<index, creds, call, held>>

\* The lock cannot be taken, a read fails, or the keyring refuses the change.
Fail(p) ==
  /\ step[p] \in {"locking", "credential"}
  /\ Release(p)
  /\ UNCHANGED <<index, creds, call, held, torn>>

\* The process dies; the operating system releases its lock.
Crash(p) ==
  /\ "crash" \in Faults
  /\ step[p] # "idle"
  /\ torn' = IF step[p] \in {"index", "rollback"} THEN torn \cup {EntryOf(p)} ELSE torn
  /\ Release(p)
  /\ UNCHANGED <<index, creds, call, held>>

\* A credential is removed with another program.
RemoveOutside(e) ==
  /\ "outside" \in Faults
  /\ creds[e] # NoSecret
  /\ creds' = [creds EXCEPT ![e] = NoSecret]
  /\ UNCHANGED <<index, lock, step, call, held, torn>>

KeyringNext ==
  \/ \E p \in Processes :
       \/ Begin(p) \/ Acquire(p) \/ ChangeCredential(p)
       \/ SkipIndex(p) \/ WriteIndex(p) \/ FailToWriteIndex(p)
       \/ RollBack(p) \/ FailToRollBack(p) \/ Fail(p) \/ Crash(p)
  \/ \E e \in Entries : RemoveOutside(e)

KeyringSpec == KeyringInit /\ [][KeyringNext]_keyringVars

-----------------------------------------------------------------------------
(* Properties. *)

\* Every variable has its type.
KeyringTypeOK ==
  /\ index \subseteq Entries
  /\ creds \in [Entries -> Secrets \cup {NoSecret}]
  /\ lock \in Processes \cup {Nobody}
  /\ step \in [Processes -> Steps]
  /\ call \in [Processes -> Call]
  /\ held \in [Processes -> View]
  /\ torn \subseteq Entries

\* One edit is under way at a time, and until it has written the index, the
\* index is the one it read.
OneEditor ==
  /\ \A p \in Processes : step[p] \in InTransaction <=> lock = p
  /\ \A p \in Processes : step[p] \in {"credential", "index"} => held[p].index = index

Editing(e) == lock # Nobody /\ EntryOf(lock) = e

\* A credential that no edit is working on is listed in the index, so it can be
\* shown and removed again, unless its last edit was cut short by a crash, by a
\* keyring that refused the rollback, or by a removal whose index write failed
\* after the fact. The next edit of the entry that succeeds repairs it.
NoHiddenSecret ==
  \A e \in Entries : creds[e] # NoSecret => e \in index \/ e \in torn \/ Editing(e)

\* An edit changes what is loaded for its own entry only, whatever the others do
\* at the same time: no process writes an index that lost an entry of another.
OthersUntouched ==
  [][\A e \in Entries :
       Visible(e)' # Visible(e) => Editing(e) \/ (creds[e] # NoSecret /\ creds'[e] = NoSecret)]_keyringVars

\* An edit that failed, and was rolled back, leaves what is loaded as it was when
\* the edit began.
FailedEditUndone ==
  [][\A p \in Processes :
       step[p] = "rollback" /\ step'[p] = "idle" /\ EntryOf(p) \notin torn' =>
         Visible(EntryOf(p))' = Shown(held[p].index, [e \in Entries |-> held[p].previous], EntryOf(p))]_keyringVars

\* An edit that succeeded is what is loaded from then on, unless another program
\* removed the credential meanwhile.
DoneEditVisible ==
  [][\A p \in Processes :
       step[p] = "index" /\ step'[p] = "idle" /\ EntryOf(p) \notin torn' =>
         Visible(EntryOf(p))' = call[p].value \/ creds'[EntryOf(p)] = NoSecret]_keyringVars

=============================================================================
