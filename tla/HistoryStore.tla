---------------------------- MODULE HistoryStore ----------------------------
(***************************************************************************)
(* REPL processes that share one history file                              *)
(* (src/repl/history_store.rs).                                            *)
(*                                                                         *)
(* Each process holds an OspHistoryStore in memory behind a Mutex and is   *)
(* free to call its operations in any order. An operation that touches the *)
(* file takes the advisory lock of the file, reads the file, and replaces  *)
(* it with one atomic rename; between two of these steps other processes   *)
(* run, the operation may fail with an I/O error, or the process may die,  *)
(* which releases the lock. A new process reads the file without the lock. *)
(*                                                                         *)
(* A transaction is two steps: Acquire takes the lock and reads, and one   *)
(* of the *Write, ClearKeep, Reload or Wipe actions replaces the file,     *)
(* updates the memory and releases the lock. Inputs of an operation that   *)
(* nothing reads before its second step are chosen in that step.           *)
(***************************************************************************)
EXTENDS HistoryRecords

CONSTANTS
  Sessions,    \* the processes
  Typed,       \* lines a user types, a subset of Lines
  Keeps,       \* arguments of history prune
  Patterns,    \* arguments of history clear, as the sets of lines they match
  Remembered,  \* Remembered[s]: lines handed to remember_command in s
  Persistent,  \* the processes whose history has a path; the others keep it in memory
  HasLegacy,   \* HistoryConfig::legacy_path is set
  LegacyFile,  \* what the file at legacy_path holds
  FirstFile,   \* what the file holds at the start, or NoFile
  NoFile,
  Nobody

ASSUME LinesAssumption ==
  \A p \in Scopes, line \in Lines : ApplyPrefix(p, line) \in Lines
ASSUME InputsAssumption ==
  /\ Typed \subseteq Lines
  /\ Keeps \subseteq Nat
  /\ Remembered \in [Sessions -> SUBSET Lines]
  /\ <<>> \in Scopes
  /\ Persistent \subseteq Sessions
  /\ HasLegacy \in BOOLEAN
ASSUME FilesAssumption ==
  /\ LegacyFile \in Seq(Lines)
  /\ ~HasLegacy => LegacyFile = <<>>
  /\ NoFile \notin Seq(Lines)
  /\ FirstFile \in Seq(Lines) \cup {NoFile}
ASSUME NobodyAssumption == Nobody \notin Sessions

VARIABLES
  file,   \* the history file: NoFile or a sequence of lines
  lock,   \* the process that holds the file lock, or Nobody
  op,     \* op[s]: "down", "idle", or the file operation s is in
  seen,   \* seen[s]: what s read from the file under the lock
  store,  \* store[s]: the OspHistoryStore of s
  scope   \* scope[s]: the shared HistoryShellContext of s

vars == <<file, lock, op, seen, store, scope>>

FileOps == {"commit", "prune", "clear", "sync", "wipe"}

\* load_records followed by trim_records_to_capacity.
Load(f) == Trim(IF f = NoFile THEN LegacyFile ELSE f)

Init ==
  /\ file = FirstFile
  /\ lock = Nobody
  /\ op = [s \in Sessions |-> "down"]
  /\ seen = [s \in Sessions |-> <<>>]
  /\ store = [s \in Sessions |-> Opened(<<>>)]
  /\ scope = [s \in Sessions |-> <<>>]

-----------------------------------------------------------------------------
(* Memory only. *)

\* OspHistoryStore::new. A file that cannot be read counts as empty.
Start(s) ==
  /\ op[s] = "down"
  /\ op' = [op EXCEPT ![s] = "idle"]
  /\ \E records \in {IF s \in Persistent THEN Load(file) ELSE <<>>, <<>>} :
       store' = [store EXCEPT ![s] = Opened(records)]
  /\ scope' = [scope EXCEPT ![s] = <<>>]
  /\ UNCHANGED <<file, lock, seen>>

InMemory(s, st) ==
  /\ op[s] = "idle"
  /\ store' = [store EXCEPT ![s] = st]
  /\ UNCHANGED <<file, lock, op, seen, scope>>

SaveLine(s) == \E line \in Typed : InMemory(s, Save(store[s], scope[s], line))

\* A line that starts with a space is never recorded, but still replaces the
\* pending one.
SaveHidden(s) == InMemory(s, [store[s] EXCEPT !.pending = None])

RememberCommand(s) ==
  \E line \in Remembered[s] :
    line # <<>> /\ ~Sensitive(line) /\ InMemory(s, [store[s] EXCEPT !.last = line])

SetPrefix(s) ==
  /\ op[s] = "idle"
  /\ \E p \in Scopes : scope' = [scope EXCEPT ![s] = p]
  /\ UNCHANGED <<file, lock, op, seen, store>>

\* finalize_execution for a line that is not to be kept, or that is not the
\* pending one.
FinalizeHere(s) ==
  \E input, resolved \in Typed, admitted \in BOOLEAN :
    LET keep == admitted /\ ~Sensitive(input) /\ ~Excluded(resolved)
        st   == Renamed(store[s], scope[s], input, resolved, keep)
    IN  IF IsPendingFor(st, scope[s], resolved)
        THEN \/ ~keep /\ InMemory(s, Discarded(st))
             \/ keep /\ s \notin Persistent /\ InMemory(s, [st EXCEPT !.pending = None])
        ELSE InMemory(s, st)

\* prune_for when no file is configured: the pending line counts like the others
\* in view, and may go.
PruneMemory(s) ==
  /\ s \notin Persistent
  /\ \E p \in Scopes, keep \in Keeps :
       LET removed == Pruned(Visible(store[s].records, p), keep)
       IN  removed # {} /\ InMemory(s, Without(store[s], removed))

\* clear_matching_for, which spares the pending line with and without a file.
ClearMemory(s) ==
  /\ s \notin Persistent
  /\ \E p \in Scopes, pattern \in Patterns, force \in BOOLEAN :
       LET removed == Matching(store[s], p, pattern)
       IN  /\ removed # {}
           /\ Cardinality(removed) <= ForceLimit \/ force
           /\ InMemory(s, [Without(store[s], removed) EXCEPT !.last = None])

\* sync has nowhere to commit the pending line to, and gives it up.
SyncMemory(s) == s \notin Persistent /\ InMemory(s, [store[s] EXCEPT !.pending = None])

WipeMemory(s) ==
  s \notin Persistent /\ InMemory(s, [store[s] EXCEPT !.records = <<>>, !.pending = None])

-----------------------------------------------------------------------------
(* Beginning a file operation. *)

Begin(s, name) ==
  /\ op[s] = "idle"
  /\ s \in Persistent
  /\ op' = [op EXCEPT ![s] = name]
  /\ UNCHANGED <<file, lock, seen, scope>>

\* finalize_execution for the pending line, kept.
FinalizeCommit(s) ==
  \E input, resolved \in Typed :
    LET st == Renamed(store[s], scope[s], input, resolved, TRUE)
    IN  /\ ~Sensitive(input)
        /\ ~Excluded(resolved)
        /\ IsPendingFor(st, scope[s], resolved)
        /\ Begin(s, "commit")
        /\ store' = [store EXCEPT ![s] = st]

BeginSync(s) ==
  /\ Begin(s, IF store[s].pending = None THEN "sync" ELSE "commit")
  /\ UNCHANGED store

BeginOther(s) == \E name \in {"prune", "clear", "wipe"} : Begin(s, name) /\ UNCHANGED store

-----------------------------------------------------------------------------
(* File transactions. *)

\* lock_file_transaction and load_records. clear_matching_for replaces its
\* records by what it read right away, the pending line behind them.
Acquire(s) ==
  /\ op[s] \in FileOps
  /\ lock = Nobody
  /\ lock' = s
  /\ seen' = [seen EXCEPT ![s] = Load(file)]
  /\ store' = [store EXCEPT ![s] = IF op[s] = "clear" THEN WithPending(@, Load(file)) ELSE @]
  /\ UNCHANGED <<file, op, scope>>

\* The end of a transaction of s: `contents` replaces the file, st is what s
\* keeps in memory.
Finish(s, name, contents, st) ==
  /\ op[s] = name
  /\ lock = s
  /\ file' = contents
  /\ store' = [store EXCEPT ![s] = st]
  /\ op' = [op EXCEPT ![s] = "idle"]
  /\ lock' = Nobody
  /\ seen' = [seen EXCEPT ![s] = <<>>]
  /\ UNCHANGED scope

CommitWrite(s) ==
  /\ op[s] = "commit"
  /\ LET records == Committed(seen[s], store[s].pending.line)
     IN  Finish(s, "commit", Payload(records),
                [store[s] EXCEPT !.records = records, !.pending = None])

\* Seeded bug: the buffered line is written with the rest.
PruneWithPending(s) ==
  \E p \in Scopes, keep \in Keeps :
    LET st      == WithPending(store[s], seen[s])
        removed == Pruned(Visible(st.records, p) \ PendingIndices(st), keep)
    IN  Finish(s, "prune",
               IF removed = {} THEN file ELSE Payload(Trim(RemoveIndices(st.records, removed))),
               Without(st, removed))

\* prune_persisted: the pending line is not counted and stays.
PruneWrite(s) ==
  \E p \in Scopes, keep \in Keeps :
    LET st      == WithPending(store[s], seen[s])
        removed == Pruned(Visible(st.records, p) \ PendingIndices(st), keep)
        others  == RemoveIndices(st.records, removed \cup PendingIndices(st))
    IN  Finish(s, "prune",
               IF removed = {} THEN file ELSE Payload(Trim(others)),
               Without(st, removed))

ClearWrite(s) ==
  \E p \in Scopes, pattern \in Patterns, force \in BOOLEAN :
    LET removed == Matching(store[s], p, pattern)
        others  == RemoveIndices(store[s].records, removed \cup PendingIndices(store[s]))
    IN  /\ removed # {}
        /\ Cardinality(removed) <= ForceLimit \/ force
        /\ Finish(s, "clear", Payload(others),
                  [Without(store[s], removed) EXCEPT !.last = None])

\* A preview, a clear that needs --force, or one that matches nothing.
ClearKeep(s) == Finish(s, "clear", file, store[s])

Reload(s) == Finish(s, "sync", file, [store[s] EXCEPT !.records = seen[s]])

\* clear: with a legacy file an empty file must shadow it.
Wipe(s) == Finish(s, "wipe", IF HasLegacy THEN <<>> ELSE NoFile,
                  [store[s] EXCEPT !.records = <<>>, !.pending = None])

-----------------------------------------------------------------------------
(* Failures. *)

\* Seeded bug: the line that could not be committed is dropped.
FailForgetting(s) ==
  /\ op[s] \in FileOps
  /\ op' = [op EXCEPT ![s] = "idle"]
  /\ lock' = IF lock = s THEN Nobody ELSE lock
  /\ seen' = [seen EXCEPT ![s] = <<>>]
  /\ store' = [store EXCEPT ![s].pending = IF op[s] = "commit" THEN None ELSE @]
  /\ UNCHANGED <<file, scope>>

\* Seeded bug: the lock outlives the failed operation.
FailHoldingLock(s) ==
  /\ op[s] \in FileOps
  /\ op' = [op EXCEPT ![s] = "idle"]
  /\ seen' = [seen EXCEPT ![s] = <<>>]
  /\ UNCHANGED <<file, lock, store, scope>>

\* Locking, reading or replacing the file fails: the file is as before, and a
\* line that was being committed is pending again.
Fail(s) ==
  /\ op[s] \in FileOps
  /\ op' = [op EXCEPT ![s] = "idle"]
  /\ lock' = IF lock = s THEN Nobody ELSE lock
  /\ seen' = [seen EXCEPT ![s] = <<>>]
  /\ UNCHANGED <<file, store, scope>>

\* The process dies; the operating system releases its lock.
Crash(s) ==
  /\ op[s] # "down"
  /\ op' = [op EXCEPT ![s] = "down"]
  /\ lock' = IF lock = s THEN Nobody ELSE lock
  /\ store' = [store EXCEPT ![s] = Opened(<<>>)]
  /\ seen' = [seen EXCEPT ![s] = <<>>]
  /\ UNCHANGED <<file, scope>>

-----------------------------------------------------------------------------

Call(s) ==
  \/ SaveLine(s) \/ SaveHidden(s) \/ RememberCommand(s) \/ SetPrefix(s)
  \/ FinalizeHere(s) \/ PruneMemory(s) \/ ClearMemory(s) \/ SyncMemory(s) \/ WipeMemory(s)
  \/ FinalizeCommit(s) \/ BeginSync(s) \/ BeginOther(s)

Complete(s) ==
  \/ CommitWrite(s) \/ PruneWrite(s) \/ ClearWrite(s) \/ ClearKeep(s)
  \/ Reload(s) \/ Wipe(s)

Next == \E s \in Sessions :
  Start(s) \/ Call(s) \/ Acquire(s) \/ Complete(s) \/ Fail(s) \/ Crash(s)

Spec == Init /\ [][Next]_vars

\* A process in a file operation goes on: a lock holder finishes or fails, and
\* the kernel wakes a waiter of the advisory lock sooner or later.
Fairness == \A s \in Sessions :
  /\ SF_vars(Acquire(s))
  /\ WF_vars(lock = s /\ (Complete(s) \/ Fail(s)))

FairSpec == Spec /\ Fairness

-----------------------------------------------------------------------------
(* Properties. *)

\* Every variable has its type, and a store never holds more than one record
\* beyond its capacity (the pending line put behind a full file).
TypeOK ==
  /\ file \in Seq(Lines) \cup {NoFile}
  /\ lock \in Sessions \cup {Nobody}
  /\ op \in [Sessions -> FileOps \cup {"down", "idle"}]
  /\ seen \in [Sessions -> Seq(Lines)]
  /\ store \in [Sessions -> Store]
  /\ scope \in [Sessions -> Scopes]
  /\ \A s \in Sessions : Len(store[s].records) <= MaxEntries + 1

\* A pending line is the newest record of its store, at the index it carries:
\* finalize_execution indexes records with it without a bounds check, and
\* remove_records and prune_persisted recompute it.
PendingIsNewest ==
  \A s \in Sessions :
    store[s].pending # None =>
      /\ store[s].records # <<>>
      /\ store[s].pending.index = Len(store[s].records)
      /\ store[s].pending.line = Newest(store[s].records)

\* What a process read under the file lock is what the file holds until the
\* process writes: no other process replaces the file in between.
SnapshotFresh ==
  lock # Nobody => op[lock] \in FileOps /\ seen[lock] = Load(file)

\* Between two steps of a transaction its process has what the second step
\* relies on: commit_pending has a line to commit, sync has none to lose, and
\* clear_matching_for works on exactly the records it read with the pending line
\* behind them.
TransactionView ==
  \A s \in Sessions :
    /\ op[s] = "commit" => store[s].pending # None
    /\ op[s] = "sync" => store[s].pending = None
    /\ lock = s /\ op[s] = "clear" =>
         store[s].records = IF store[s].pending = None THEN seen[s]
                            ELSE Append(seen[s], store[s].pending.line)

\* A line the editor buffered is never sensitive, whatever it was resolved to.
PendingIsPublic ==
  \A s \in Sessions : store[s].pending # None => ~Sensitive(store[s].pending.line)

\* finalize_pending gives up a kept line only once it is the newest line of the
\* file; when the transaction fails the line stays pending.
PendingEndsOnDisk ==
  [][\A s \in Sessions :
       op[s] = "commit" /\ op'[s] = "idle" =>
         \/ store'[s].pending = store[s].pending
         \/ /\ store'[s].pending = None
            /\ Load(file') # <<>>
            /\ Newest(Load(file')) = store[s].pending.line]_vars

\* Whoever replaces the file leaves no sensitive line in it, even one that came
\* from the legacy file or from an older program.
SecretsStayOut ==
  [][file' # file =>
       \/ file' = NoFile
       \/ \A i \in DOMAIN file' : ~Sensitive(file'[i])]_vars

\* The processes together implement one atomic, bounded log: no committed line
\* of another process is lost to a stale read, and no pending line reaches the
\* file through a prune or a clear.
Log == INSTANCE HistoryLog WITH log <- Load(file)
SharedLog == Log!Spec

\* Every file operation ends, whoever dies or fails while holding the lock.
OperationsEnd == \A s \in Sessions : op[s] \in FileOps ~> op[s] \notin FileOps

=============================================================================
