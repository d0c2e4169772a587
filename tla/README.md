# A TLA+ model of osp-cli-rs

This directory holds TLA+ modules that model the stateful core of the `osp`
command line and REPL, configurations that check them with TLC on small
instances, and proofs, checked by TLAPS, that carry the main results to every
value of the constants. Paths below are relative to the root of the repository
(`src/repl/history_store.rs` and so on). The definitions are translations of the
code; where the documentation says something else, a run shows the difference.

- [The system](#the-system)
- [Modules](#modules)
- [Runs](#runs)
- [Fairness](#fairness)
- [Proofs](#proofs)
- [Where code and documentation differ](#where-code-and-documentation-differ)
- [What is not modelled](#what-is-not-modelled)
- [Plan](#plan)

## The system

`osp` runs single commands or a REPL. Commands are built in, native (Rust
products linked into the host) or plugins (external processes). Most of the code
transforms values that have no life of their own: parsing, rendering, completion.
State that outlives a function call, and can therefore go wrong over time, is in a
handful of places, and so is the result of a command that the stages of the output
DSL hand from one to the next.

| Component | State | Operations | Interacts with |
|---|---|---|---|
| History store (`repl/history_store.rs`) | records, one pending record with its index, last accepted command; behind a mutex; the history file | save, finalize, commit, prune, clear, wipe, sync, expand | editor (save, recall), dispatcher (finalize), every other REPL through the file |
| Life of a line (`repl/dispatch.rs`, `repl/host.rs`, `repl/engine/session.rs`, `app/session.rs`) | shell scope, the line being run and those it runs, queued feedback, restart request | submit, resolve, run, enter and leave a shell, source and each, finish | history store, editor loop |
| File replacement (`config/store.rs`) | the file, its temporary files, its lock | lock, create, write, sync, rename, sync the directory, clean up | configuration, secrets, selections, history, plugin cache |
| Keyring secrets (`config/secrets.rs`) | credentials in the platform's keyring and an index file | set, unset, load, roll back | file replacement, other processes, other keyring programs |
| Context selections (`context.rs`, `native.rs`) | entries in memory, entries believed shared, `context.json` | select, clear, protect, load, save with a three-way merge | file replacement, other REPLs, reloads that bring secrets |
| Notices (`repl/notices.rs`) | owner, printer, bounded queue with a summary | begin and end a run, attach, post, flush | workers of products, the editor, nested editors, basic input |
| Pagination (`native.rs`, `repl/dispatch/builtins.rs`, `app/external.rs`) | the continuation of the last page and the stack of pages behind it | next, previous, refresh | dispatcher, plugins |
| Recording (`repl/recording.rs`) | the open recording and its file | start, stop, write a line and its output | dispatcher, nested lines |
| Feedback and hints (`repl/product.rs`) | queued commands, rotation of hints | queue, take, next hint | dispatcher, history |
| Configuration (`config/resolver.rs`, `config/interpolate.rs`, `config/store.rs`, `cli/commands/config.rs`) | two TOML stores, the variables, the overrides of the session, the snapshot in use | resolve and interpolate; set, unset, reset; reload; repair | file replacement, every part that reads a setting |
| Plugins (`plugin/*.rs`, `cli/commands/plugins.rs`, `app/external.rs`) | the inventory, the describe cache, the list of disabled names, a run with its pipe | discover, describe with a time limit, refresh, enable, disable, run and capture | file replacement, configuration, executables on disk |
| Output pipeline (`dsl/*.rs`) | the rows or groups that a stage leaves, and what the producer said of how to show them | filter, search, sort, limit, group, aggregate, count, collapse, unroll, project, values, clean | commands and plugins (producers), rendering |
| Completion, CLI, rendering | none that outlives a call | pure functions | |

What is hard about them, and a unit test hardly reaches:

- **Several REPLs share files.** History, selections, configuration and the
  keyring index are read, changed and replaced by processes that know nothing
  of one another. Every read-modify-write is exposed to a stale read, and a
  process may die in any of its steps.
- **Two views of one thing.** The history store carries an index into a list
  that is trimmed, pruned, cleared and reloaded; a secret is a credential and an
  entry of an index; a selection is in memory, in the file, and in the list of
  what is believed to be in the file.
- **A line changes while it runs.** The text that is saved by the editor is not
  the text that is finalized: history requests are expanded, arguments rewritten,
  the shell prefix is added or removed, and the shell itself may have changed.
- **Failure in the middle.** A replacement may fail before or after the rename.
  A commit that fails must keep the line pending and must free the lock.
- **Limits.** The capacity of the history, the sixteen temporary names, the eight
  pending notices: each is a boundary where indexes and counts shift.

- **A judgement and the edit it is about.** `config set` judges a value by the
  snapshot, writes one scope after another and reloads; the stores may have
  changed since, one write of several may fail, and the reload may refuse what
  was written.
- **What is said of something that changes.** A result carries the formatting of
  its fields, a title, roles of rows, columns and notes; any sequence of stages may
  turn the fields, the rows or the whole into something else, under the same names.
- **Children.** A describe run and a captured run end by themselves, by a time
  limit, or leave a descendant that keeps the pipe open; executables are replaced
  while they are looked at.

What makes each component correct: the pending record is the newest, a kept line
ends up on disk, an unwanted or secret one never does, and the file is one log
(history); only admitted lines are written and memory agrees with the file
between lines (life of a line); readers find whole files, acknowledged edits are
neither overwritten nor lost (file replacement); no secret is left where nothing
lists it, and an edit is all or nothing (keyring); nobody's selections change but
by their own hand (selections); notices are neither lost, repeated nor delivered
by the workers of an editor that is gone (notices); the way back is the way that
was gone, and a recording holds whole lines (pages, recordings); an edit changes
the entry it names in every spelling and nothing else, takes effect, and leaves a
configuration that loads (configuration); a cached description is what that
executable printed, a name has one provider, and a captured run returns all of its
output (plugins); a grouping is exact, and what the producer said of a result is
said of nothing else (output pipeline).

## Modules

```
HistoryRecords ---+--> HistoryStore -- refines --> HistoryLog   (one bounded log)
 (operators)      +--> ReplLine
FileTransaction ------ refines -----------------> AtomicFile    (one shared file)
Notices
ConfigLayers ---> ConfigStore ---> ConfigSession
 (resolution)      (TOML edits)     (a REPL that edits its own configuration)
ContextStore  SessionLines  Pipeline  checked together by MCSessionState
PluginCatalog PluginRun               checked together by MCPlugins
KeyringStore  DisabledList            checked together by MCSharedSettings
```

`<module>_proofs` holds the theorems of a module; `SessionState_proofs` those of
`ContextStore`, `SessionLines` and `Pipeline`, `Plugins_proofs` those of `PluginCatalog`,
`DisabledList` and `PluginRun`, `Config_proofs` those of the three `Config*` modules and of
`KeyringStore`. `MC*` modules hold the values that the configurations give to
constants. `MCSessionState`, `MCPlugins` and `MCSharedSettings` each check modules that
have no variable in common: a variable `part`, chosen at the start, says which one moves,
so that a run is two or three independent explorations.

### HistoryRecords

The store as a record `[records, pending, last]` and its operations as operators
from a store to a store: `Save`, `Renamed`, `Discarded`, `Committed`, `Without`,
`Pruned`, `Matching`, `Trim`. `HistoryStore` puts them between the steps of
several processes, `ReplLine` into the life of a line. A line is a sequence of
words, because the shell prefix adds and removes words and what is sensitive is
told by a word; quoting, pipelines and the text of a word are abstracted. A shell
prefix is a sequence of words (`Scopes`).
`SensitiveWords` and `ExcludedLines` stand for the tables of
`is_sensitive_line` and of the configured exclusion patterns.

### HistoryStore

Any number of processes (`Sessions`), those in `Persistent` with the file, the
others with memory only. Operations on memory are single steps: the code holds
the mutex of `SharedHistory` for their whole duration. With memory only, a prune
counts the pending line like the others and may remove it (`PruneMemory`; a
persistent prune never does, `PruneWrite`), and a sync lets go of what is pending
(`SyncMemory`). An operation on the file
is `Begin`, `Acquire` (lock and load), and one of `CommitWrite`, `PruneWrite`,
`ClearWrite`, `ClearKeep`, `Reload`, `Wipe` (replace the file, update memory,
unlock). Between them the others run, `Fail` stands for an error of the lock, of
the read or of the write, and `Crash` for the death of the process. `Start` reads
the file without the lock, as `OspHistoryStore::new` does, and may find nothing.
That replacing the file is one step is what `FileTransaction` shows.

`HistoryLog` is what the processes promise together: a log of bounded length to
which steps append a line, or from which they remove entries.

### ReplLine

One process, and the stack of lines that run one another. `Submit` is the
editor's save and the dispatcher's expansion; the frame then may enter or leave a
shell, run a child line (`source`, `each`), queue a command for the history, or
request a refresh; `Finish` is the tail of `execute_repl_line_inner`, in its
order: finalize under the prefix the line left the user in, stage the queued
commands, restore the shell of a root line, restart the loop. A queued command is
written for the shell that the last line to be started began in (`prompt`, the
`command_scope` of the render settings), with its rules for `sudo` and for words
that mean the same everywhere (`InScope`, `RootWords`), and saved in the shell the
user is in by then. `SubmitRoot` is a
line the history picker runs at the root. A store transaction is a single step
that fails at will when `IOFails`. Two properties are about instances where nothing
that a batch may run queues history (`QueuesAlone`): a queued command takes the
place of the pending line, and that of a batch is then in memory and never in the
file, as `ReplSourcedQueue` shows.

### FileTransaction and AtomicFile

`lock_file_transaction` and `write_text_atomic`, one step per system call. The
content of a file is the set of edits made to it, so that a lost update is
visible as a missing element; `Torn` is a file that is not all there. `onDisk` is
the set of contents a power loss may leave: a rename adds to it (with `Torn` when
the data was not synced), and syncing the directory reduces it to what is there.
`mode` says how the callers replace this file, and never changes: `"synced"`
(configuration, secrets, selections), `"buffered"` (history: lock, no sync) or
`"unlocked"` (the describe cache of the plugins). `AtomicFile` is the promise of
the synced mode.

### KeyringStore

`set_scoped` and `unset_scoped` with their three writes (credential, index,
rollback) under the lock of the index file. `Visible(e)` is what `load_layer`
would show. `torn` is a history variable: entries whose last edit stopped
half-way for a reason the code cannot repair (a crash, a refused rollback, an
index write that failed after its rename). Entries have the normal form of
`KeyringIndexEntry::new`; a dry run takes no lock and changes nothing.

### ContextStore

The selections of each REPL (`entries`), what it believes it shares (`saved`) and
the file. `Persists[p]` are the keys whose kinds p's products persist;
`Protected[e]` is an entry without known secrets. `Merged` is the three-way merge
of `save_context`. `Activate` is a reload that brings secrets after the
selections were loaded.

### Notices

The queue of `repl/notices.rs` and its owners. A run of the editor is `New`,
`Attach`, `Leave` (the editor is dropped and the session cancelled) and `Cleanup`
(the rest of the drop). `nesting` is the call stack of runs: a command may run an
editor of its own. A queued line says how many notices it speaks of and carries
the notices it stands for, so that a wrong count shows. Sanitizing, the erasure
of the prompt, the bell and the timed wait of a worker are left out.

### SessionLines

What the lines of a REPL leave in its session besides the history: the page shown
with the pages behind it (`PaginationState`), and a recording. A line is a frame
of `stack`: `source` runs other lines (`RunChild`), `next` and `prev` run the
command that the page names (`StepPage`). A command that is run by `next` publishes
its page as ever (`Publish`), and what is behind it is `carried` over its run.
`walk` is a history variable, the pages that were really gone through. A recording
takes the line that was submitted (`Enter`) and what it and the lines it runs print
(`Emit`), and is written when that line ends (`FinishRecording`), wholly or, on an
error, in part. `lines` and `printed` count what was submitted and printed.

### ConfigLayers, ConfigStore and ConfigSession

`ConfigLayers` has the resolution as operators: for each key the entry that wins
(`Winner`: layers in their order, within a layer the most specific scope, and the
rule that an entry of the secrets store is not displaced by a plain one of the same
name), what placeholders expand to, which cycles and unknown names are refused, and
that what is built from a secret is one. `ConfigStore` has the edits of a TOML
store: a scope may be spelled by several tables and a key by two names, the loader
reads them all and the last one wins, a set removes the other spellings, an unset
removes them all and the tables it has emptied. `ConfigSession` is the REPL:
`Set`, `Unset` and `Reset` are judged by the snapshot, `Write` changes a store
scope by scope and `FailToWrite` stops between two of them, `Reload` resolves
again and ends the REPL when that fails; `Repair` is an edit that is judged by
nothing, and `EditOutside` is another program that edits the file. A write of one
scope is one step, which `FileTransaction` shows.

### PluginCatalog and PluginRun

`PluginCatalog` has any number of `osp` processes. A process builds its manager
(`Build`, on whatever list of disabled names the configuration gives it), searches the paths in
order (`Look`), starts a describe run where the cache does not answer
(`ReadMarker`, `SpawnDescribe`), waits for it up to the time limit (`Answer`,
`TimeOut`, `LetGo`), and concludes with an inventory and a new cache file
(`Conclude`). `enable` and `disable` hand the manager a list in which the name is or
is not (`SetEnabled`), or fail. Names are compared exactly, except by `Find`, which
ignores the case of letters (`Folded`; TLC's instance has one spelling). Executables are
installed and removed at any time; an executable is a version, a new number each
time, which stands for its size and date and for what it prints. `PluginRun` is
`read_captured_stdout`: the child and descendants share a pipe, the host asks
whether the child has exited, reads without blocking, and decides. `owed` is a
history variable, what the child itself had written when it exited.

### DisabledList

Where the list of disabled commands comes from, and what becomes of it between
processes of one profile. `stored` is the list of the profile in `config.toml`;
`above[h]` is what outranks it for a process (a variable, the secrets store, an entry
of a more specific scope), `override[h]` what a session put above both. `plugins
enable` and `disable` resolve the list without the session (`Resolved`), change it,
replace that of the profile and hand it to the manager of the process (`SwitchReads`,
`SwitchWrites`), without a lock over the whole; the write may fail, also after the
rename (`SwitchFails`, `SwitchFailsLate`). A rebuild of the REPL resolves with the
session (`Rebuild`), so that a manager may go by another list than the one its process
wrote. Editors and other commands change either list (`StoreOutside`,
`OutrankOutside`). `choice` and `unseen` are history variables: the last command on a
name, and what the list that a command has read cannot know of. `ChoicesStand` says
what a user may count on: a command on a name stays in force in the profile's list
until another command that could not know of it replaces the list.

### Pipeline

What a command has produced (`product`) and what the stages behind it make of it
(`output`). A result is rows in one partition, or the partitions of a grouping
with their headers and aggregates; `Apply` has an operator for each verb, and
`Advance` is one round of `run_compiled`: which of the producer's statements go
because the stage reshapes or narrows (`Keeps`, `Narrows`), which because it made
the field they are about (`Created`), and how the roles of a document follow its
rows. `RunStage` and `RefuseStage` are the loop of `apply_output_pipeline`, which
refuses a field that is not there, a sort by what no row has, a collapse of what
is not grouped, and data verbs behind a sink; `Produce` is the next command. `view`
stands for columns, labels, alignment, notes and the recommendation of a renderer,
which come and go together.

A field holds a scalar or a list of scalars, and scalars are numbers and null. Each
cell carries the field of the producer that it was taken from (`from`), and each row
the row that it came from (`of`): both are history variables, by which a stale
statement can be told. `last` is one too, the stage before and what it was applied
to. A stage is a record of its verb and its arguments, already parsed.

Cells are functions from names to cells; `Over` puts one over another, and `Picked`
takes what a sequence holds at some positions, in its order. `G` has three parts, as
the code has: the values of a plan in a row (`GroupValues`), the headers of a row, one
for each combination of values (`GroupHeaders`), and the buckets that rows join
(`Bucketed`). Buckets are told apart by what their headers say (`Says`), not by where
it was taken from, since the key of `GroupBuckets::push` is made of the values alone
(`src/dsl/verbs/group.rs:309`). `StagesAssumption` says of stages and products what
parsing and compiling guarantee: arguments have their types, the rows of a producer
hold its own fields, a document has a role for each row, and no two plans of one `G`
have the same header, which the code refuses (`src/dsl/verbs/group.rs:98`).

## Runs

All runs check for deadlock, except `Plugins`: an instance whose executables and
commands are used up stops. "States" are distinct ones.

| Run | Instance | Properties | What it shows | States |
|---|---|---|---|---|
| `HistoryShared` | 2 persistent processes, root and one shell, capacity 2, a file that holds a credential | `PendingIsNewest`, `PendingEndsOnDisk`, `SharedLog`, `SecretsStayOut` | every interleaving of two REPLs with failures and crashes refines one bounded log, and no secret is written | 346175 |
| `HistoryFair` | 2 persistent processes and one with memory only, 1 line, capacity 1, no dedupe | `OperationsEnd` | every file operation ends | 24556 |
| `ReplShells` | 7 lines, 2 shells, the picker, queued history, capacity 2 | `MemoryFollowsFile`, `KeptLineIsOnDisk` | what is kept is on disk, what is given up is gone | 1002947 |
| `ReplBatches` | `source` with two kinds of lines, rewriting, queued history, failures | `OnlyAdmitted`, `ChildLeavesPending` | nothing else reaches the file; a child leaves its parent alone | 324536 |
| `SharedSettings` | keyring: 2 processes, 2 entries, 2 values, all faults; list: 2 processes, 2 names, a variable and an override for one of them | `NoHiddenSecret`, `OthersUntouched`, `FailedEditUndone`, `DoneEditVisible`, `ChoicesStand` | credential and index stay together; a choice stands until one that could not know of it | 767860 |
| `FileFaults` | 2 processes, 2 edits, 2 temporary names, 1 attempt, all faults, all modes | `TargetWhole`, `NoUpdateLost`, `SyncedSurvives`, `AllOrNothing`, `NoLitter`, `SharedFile` | one replacement is atomic, and durable when synced | 696104 |
| `SessionState` | selections: 2 REPLs, 2 keys of which one is shared, an entry with a secret; lines: 2 list commands, a sourced file, 2 recordings; pipeline: a table, a document and a lone record, up to 4 of 34 stages | `SelectionsPreserved`, `SaveTakesEffect`, `SecretsNotWritten`, `WayBack`, `RecordingsAreWhole`, `PresentationFits`, `GroupingIsExact` | the merge is right whatever the other one did; the way back and recordings are right whatever runs what; formatting, roles and groups are right behind any stages | 757393 |
| `NoticesRuns` | an outer and an inner run, queue of 2, printer of 1, 5 notices | `NoticesKept`, `SummariesCount`, `EarlierRunsSilent`, `NoticesFlow` | nothing is lost, counted wrongly or delivered late | 62151 |
| `ConfigEdits` | 3 keys (one a secret by default), 6 tables in which a profile is spelled twice, 2 names of a key, variables above, one of them plain under a secret one, defaults below, 2 edits and 1 from outside | `ExpansionSound`, `EditsAreExact`, `CommandsTakeEffect`, `SetKeepsUsable` | an edit is exact, takes effect, and leaves what loads | 168330 |
| `Plugins` | catalog: 2 processes, 2 paths that provide one command, 2 versions, 2 commands; run: a pipe of 3 pieces, a limit of 2 | `CacheIsHonest`, `OneProviderPerName`, `SearchEnds`, `CapturedIsComplete`, `RunEnds` | the cache tells the truth, names are unambiguous, searches and runs end | 299548 |
| `ReplSwitch` | a shell entered from a shell | `AdmittedLineIsOnDisk` | *violated*, see below | |
| `ReplSourcedQueue` | a sourced line that queues history | `ParentStaysPending` | *violated*, see below | |

**Bounds, and why they are enough.** Two processes are enough for a lost update,
a stale index or a lock that is not freed; a third adds only one more of the same
kind to the queue of the lock (and the proofs are for any number). A capacity of
two with a file of three lines makes every load trim, and lets the pending line be
the only one, the newest of several, and the one beyond the capacity; a capacity
of one (`HistoryFair`) makes every save trim. Two lines that differ are
enough to tell positions, duplicates and matches from one another; `!!` is a line
that a pattern excludes. `FileTransaction` needs two names for a collision and for
the escape from it, and one attempt for the case where all fail; each process
edits again and again, and since an edit is an element of a set, the state space
is finite without a bound on the number of transactions. In `ReplLine` `MaxDepth`
bounds the nesting of batches: two is a batch with a child, three a child that
would itself be a batch; a line queues one command at most, since each that is queued
is saved and finalized in a round of its own. In `Notices` a queue of two and a printer of one let a
flush take none, a part or all; `MaxPosts` of five fills the printer and the queue
and overflows twice. With three runs and four notices the same properties hold
(346 842 states). In `SessionLines` `MaxWalk` of three is a page with two behind
it, so that `next` and `prev` meet a way back of every length below and at the
bound; `MaxBlocks` of two records a line after another; `MaxOutput` of one tells a
line whose output is missing from one that is whole. In `Pipeline` `MaxStages` of
four groups, aggregates, collapses and goes on with the result, or groups a group;
the three products have a list that repeats an element, lists that are empty or hold
null, a field that is missing, null or zero, and two rows that are alike, and the
stages reuse the name of a formatted field for a count, a maximum and a header. In `ConfigSession` `MaxEdits`
of two lets an edit meet the result of another one, and `MaxOutside` of one puts a
foreign edit before, between and after. In `PluginCatalog` `MaxVersions` of two
replaces an executable once, before, during or after a search, and `MaxCommands`
of two lets one process edit while the other runs, or one refresh what it found.

**Symmetry** is used where only safety and refinement are checked and the
constants are interchangeable model values (processes of `HistoryShared`; names
and edits of `FileTransaction`; entries and values of `KeyringStore`).

**Seeded bugs.** Every module has definitions marked "Seeded bug": a definition of
the model changed the way a plausible slip in the code would change it (an index
not shifted, a lock not waited for, a rename before the sync). Each property was
run against one and found violated, which shows that it depends on the code doing
the right thing there.

## Fairness

- `HistoryStore!Fairness`: strong fairness of `Acquire(s)`, because `File::lock`
  blocks in the kernel, which wakes a waiter of an advisory lock sooner or later
  although others take it again and again; weak fairness of "the holder completes
  or fails", because the holder is a thread in straight-line code. Nothing obliges
  a process to start an operation, and a holder may crash instead: the lock is
  then released by the operating system (`Crash`), which needs no fairness.
- `Notices!Fairness`: weak fairness of `Attach` and `Cleanup` (straight-line code
  after `SessionOwner::new` and in `drop`), of `Flush` (the idle callback, which
  the editor calls as long as it reads input) and of `Show` (the editor prints
  what its printer holds). Users and workers are obliged to nothing. A command that
  never returns keeps the editor from being idle: the property is about editors
  whose commands end.
- `MCPlugins!Fairness`: weak fairness of `Progress(p)`, which is the straight-line
  code of a search and the time limit of its describe runs (a search that waits for
  a run either gets its answer or passes the limit), and of `HostReads`, the loop of
  a captured run. Executables answer or not; users, installers and children are
  obliged to nothing.

## Proofs

Eight modules hold the theorems. Their assumptions are the named ASSUMEs of the
modules, which say of the constants what the code guarantees by construction (a
prefix applied to a line is a line; sentinel values are not data) and which TLC
evaluates on each run.

**History** (`HistoryRecords_proofs`, `HistoryStore_proofs`).
`IInv` is `TypeOK /\ PendingIsNewest /\ SnapshotFresh /\ PendingIsPublic /\
TransactionView`. None of the conjuncts is inductive alone: that the pending index
is right after a commit needs that a committing process still has a pending line
(`TransactionView`); that the memory of a clearing process is what it read needs
the same conjunct; the bound `MaxEntries + 1` on records needs that `Trim` is
applied to everything that was read (`SnapshotFresh`). `HistoryRecords_proofs`
proves what each operator returns (`Trim` keeps a suffix, removal keeps a
subsequence and shifts the index by what was removed before it) and the other
modules cite these lemmas. Then: `TypeCorrectness`, `PendingIndexCorrect`,
`MutualExclusion`, `TransactionsSeeTheirInput`, `PendingNeverSensitive`;
`NoLineLost` (a kept line is forgotten only when it is the newest in the file),
`NoSecretWritten`, and `Refinement`: the processes implement `HistoryLog`. The
refinement maps the log to `Load(file)`; a commit maps to `Append1` since what was
read is what the file holds (`SnapshotFresh`), a prune or clear to `Forget` since
the indexes it removes are turned into indexes of what was read, the others to a
stutter or to `Empty`.

**The life of a line** (`ReplLine_proofs`), for any lines, shells, batches, rewrites
and depth. `ReplLineTypes` is the type invariant, with lines as sequences of the
words of the vocabulary. `OnlyAdmittedLines` and `ParentsStayPending` follow from it
action by action, from what a finished line does to the store and to the file. For
`MemoryFollows` and `KeptLines`, `IInv` says that only a batch has lines inside it and
that the user is in the shell of the outermost line until a restart (`Nested`); that
the file has no sensitive line (`Clean`), since a commit would drop one that memory
has; and, when no transaction fails, that memory without its pending line is a newest
part of the file (`Behind`), that what is pending is the line of the editor
(`Owned`), and that a line the editor did not save is the newest already
(`Recorded`). The last is what makes a resubmission sound: nothing is saved for it
and nothing is committed. It is assumed that no word of a shell is sensitive
(`ShellsAssumption`: else an admitted line would become sensitive by its prefix) and
that the file has no sensitive line to begin with (`FirstFileAssumption`:
`write_records` leaves them out). That a line queues one command at most is the bound of
`QueueHistory`, which `ReplLineTypes` states.

**File replacement** (`FileTransaction_proofs`), for any number of processes,
names and attempts and for each mode. `IInv` adds to the checked invariants that
the lock holder is exactly the process between lock and end, that what a process
read is still the file until it renames, that a temporary file holds what its
process wrote, that everything that may be on disk is a subset of the file
(synced), and that a torn file means a power loss of an unsynced one. From it:
`ReadersSeeWhole`, `TempsAreOwn`, `AckedEditsKept`, `AckedEditsDurable`,
`FailureIsAllOrNothing`, `TempsAreRemoved`, and `Refinement`: synced transactions
implement `AtomicFile`.

**Keyring** (`Config_proofs`). `KeyringInv` adds to `OneEditor` and
`NoHiddenSecret` what is known of the entry being edited in each step (`OwnEntry`).
From it: `SecretsStayListed`, `EditsAreLocal`, `FailureIsUndone`,
`SuccessIsVisible`.

**Selections, the way back and recordings** (`SessionState_proofs`). For the selections,
`IInv` says that the saver is the lock holder, what it read is the file, it holds no
secret it knows while it saves, and it believes to share only what it persists. From
it: `ForeignSelectionsKept`, `SavesTakeEffect`, `NoSecretSaved`. For the pages,
`LinesInv` adds to `WayBack` where a frame of the stack may be (`RunnersBelow`: what
`next` runs is the innermost line, and whatever runs a line is below it), that
something is carried only over the run of such a command (`CarriedForOne`), and that
what it will publish extends what is carried (`ExpectsCarried`). From it, for any
depth of lines and pages: `WayBackIsRight`. For the recordings, `RecordingInv` adds
to `RecordingsAreWhole` that only the submitted line owns the events of what it runs
(`OneOwner`); that what was captured of it is its command and all that was printed so
far (`CaptureIsWhole`); that no file has an event of it yet, so that it is written
once (`NumbersTaken`); and that no write to the file of the recording has failed
(`TargetIsGood`), which is why a failure costs the one recording and no other. From
it, for any lines, files and failures: `RecordingsWhole`.

**Output pipeline** (`SessionState_proofs`), for any products, any typed stages and any
number of them. For `SaysWhatIsTrue`, `OutputFits` says three things of a result. A
cell under a name that a formatting rule or the title speaks of (`Said`) is the
producer's of that name (`Fitting`; the answer of `G ?field` is excepted, as in the
property). If it has roles or a view, it is one partition of rows as the producer
gave them (`Given`), and the roles are those of the rows (`RolesFit`). That a stage
keeps the first is `ApplyTyped`: whatever the verb, what it makes fits all that is said
of other fields than those it has `Created`, and `Advance` drops what is said of those.
The other two are kept by `KeepsFlat`: a stage that is taken to keep rows leaves some
of the same rows. A sort does because a place is taken once (`PlaceTaken`).

For `GroupsAreExact` all the work is in what the operators of `G` compute. The values
of a plan in a row are all the answers to it, each once (`ValuesAre`), so that the
headers of a row are all choices of one value for each plan, told apart by what they
say (`HeadersAre`). Hence a row joins the group of a header once if the header is
true of it, and not at all if it is not (`JoinsWhereItBelongs`). Since what is picked
of one sequence behind another is what is picked of each (`MembersBehind`,
`FlattenMapped`), the rows of a bucket are, partition by partition, the rows that its
header is true of, in their order (`GroupRows`). The invariant (`GroupedLast`) then
only has to say that the last stage, if it was `G`, was given a result with typed
cells, which follows from `OutputFits`. That no two plans have the same header is
needed: of two values under one name the second would be hidden.

The folds of this module (`Picked`, `FlattenSeq`, the headers plan by plan) are
recursive functions over positions. That they exist, and what each position adds, is
shown once for each (`PickedByStep`, `FlattenByStep`, `GroupHeadersByStep`), by an
induction that is not cited from the library, whose theorems take an operator, but
made from the least number at which a set of positions fails (`UpTo`, `Recursion`).

**Configuration** (`Config_proofs`), for any tables, spellings, values and layers and
any finite set of keys. `ConfigTypes` is the type invariant. `StoresAreEditedExactly`
(a write changes what its scope says of its key, to the value or to nothing, and no
other key or scope) follows from what the operators of `ConfigStore` do to the entry
that the loader finds last.

`ExpansionsAreSound`: `Resolution` is a recursive function over calls, a key and the
keys on the stack. That it exists at all has to be shown: a call is made with one key
more on the stack, the number of keys that are left falls, and a least number of them
for which there is no such function cannot be (`AnswersExist`; the same argument once
more is `CallInduction`, by which what follows from the calls that a call makes holds
of all). A call succeeds just where its key and all that it includes have values, none
of these includes itself, and none is on the stack (`SuccessIsSoundness`); it is a
secret just where one of them is (`SecretIsInherited`). That no scope, selection or
kind of command is the value `None` is assumed, as is that the keys are finitely many.

`EditsTakeEffect` and `AcceptedSetsLoad` rest on `EditInv`, which says what a command
under way has done: the scopes it has written hold its value, and still do when it
goes on to the next (`DoneIsStored`, while nobody else edits); when it is over its
overrides are gone, or are its own (`OverridesFollow`); the active profile is declared
where no edit of the session can remove it (`ActiveIsKnown`); a REPL that is ready has
resolved what is stored (`ReadyIsCurrent`); and what is selected while a set is under
way was selected before or is the value of the set (`SetIsJudged`); and while a set is
being written, an override that hid its key still does (`OverrideStands`), so that one
that stops between two scopes leaves each key as it was or at the new value. The last is where
the exceptions of `SetKeepsUsable` come from: a value that was hidden by an override,
or by a secret variable, is neither. The lemma that carries it (`WinnerAfterSet`) says
that adding a value to one source changes the winner to that value or not at all,
unless a secret variable loses its place. The proof of an effect is that of selection
itself (`StoredIsSelected`): nothing more specific and no higher source offers.

**Plugins** (`Plugins_proofs`), for any number of processes, paths and versions.
`CacheTellsTheTruth` needs that every answer a job may hold, old or late, is what
that version printed (`CacheInv`), since a search merges the cache it read with what
it found. `OneProvider` needs that during a search the plugin which is foremost for
a name keeps being it (`ProviderInv`: `SearchFits` while it searches,
`InventoryFits` of what it concluded). `ChoicesAreKept` needs what an edit under way
knows (`EditKnows`): its list says of each name what the last command on it asked
for, but for those in `unseen`. `CaptureIsComplete` needs
the order of the questions (`RunInv`): that nothing was there to read is only
believed when the child had been seen to have exited before. `CatalogTypes` is the
type invariant.

**Notices** (`Notices_proofs`), for any number of runs and any bounds. That no
editor is sent what a finished run posted is not inductive: it needs to know whose
notices may be waiting. `IInv` says that the poster of a waiting notice is under
way, and so is the owner, inside it or the same run (`PendingIsLive`); that the
runs under way are distinct and neither unborn nor over (`NestingIsSound`); that
the owner is under way (`OwnerIsUnderWay`); that a session whose run has begun to
end is cancelled (`GoneAreCancelled`); and that what was over when a run began
still is (`BeforeAreOver`). For the summaries it says what `overflow` means of the
last line and of the others (`QueueIsSound`) and that each line, waiting or sent,
counts its notices (`LinesAreSound`). From it: `TypeCorrectness`,
`OutdatedSessionsKnow`, `OldWorkersSilent`, `SummariesAreRight`. `KInv` adds what
`NoticesKept` needs: a notice that was accepted is settled, waits or was sent
(`Accounted`), in one line only (`Once`); lines are older than those behind them,
those of the current printer older than those that wait (`InOrder`); and an editor
that has not started has been sent nothing (`NotYetPrinting`), or a run could begin
to print what an earlier one was given. From it: `NoNoticeLost`.

Proved, and in no run of their own: `TypeOK`, `SnapshotFresh`, `PendingIsPublic` and
`TransactionView` of `HistoryStore`, `TypeOK` and `OwnTemp` of `FileTransaction`,
`TypeOK` and `Nested` of `ReplLine`, `OneEditor` of `KeyringStore`, `TypeOK` and
`OutdatedAreCancelled` of `Notices`, `TypeOK` of `ConfigSession`, `CatalogTypeOK`,
`ListTypeOK`.

**Only model-checked:** liveness (`OperationsEnd`, `NoticesFlow`, `SearchEnds`,
`RunEnds`), which is beyond the prover. Every safety property of a passing run is
a theorem. Of the pipeline it is not proved what the single verbs compute besides `G`
(that `S` orders, that `L` takes the right slice, what `A` adds up), only that they
leave what is said of a result true.

## Where code and documentation differ

Two runs state what a document or a comment says, and TLC finds a behaviour of the
code that is otherwise.

- `ReplSwitch`: a line that enters another shell from inside a shell is saved
  under the prefix of the first and finalized under that of the second
  (`src/repl/dispatch.rs:338`); it is not recognised and not kept, although
  `docs/COMPLETION.md:195` says that it is.
- `ReplSourcedQueue`: a command that queues history (`ReplFeedback`) from a
  sourced file makes the line that sourced it lose its pending record
  (`src/repl/dispatch.rs:355`), although the comment at
  `src/repl/history_store.rs:533` says that a child leaves it alone.

More behaviours were seen while modelling and are noted here without a run. The
models contain them where they model the code at all; no property above excludes
them.

- History: the refusal of nested `source` and `each` looks at the text of the
  line, and a history request is expanded later
  (`src/repl/dispatch/builtins.rs:424`), so that `!!` may run a batch in a batch;
  `docs/REPL.md:485` refuses it. After a commit has failed, its record stays the
  newest in memory: submitting the same line again is taken for a duplicate
  (`src/repl/history_store.rs:815`), and the line is not written.
- Selections: when `save_context` fails in the sync of the directory, after the
  rename, the file has an entry the REPL does not believe it shares; a later
  `context clear` does not remove it (`src/context.rs:170`).
- Configuration: an `OSP_SECRET__` variable gives way to a plain `OSP__` one when
  the secrets store has a more specific entry of the key
  (`docs/CONFIG.md:133-140` reads otherwise). A set that removes an override, or
  that stores a secret before such a variable, may uncover an entry that was never
  judged, and the reload that follows ends the REPL; `SetKeepsUsable` names the two
  exceptions (`Uncovers`). The second was found by the proof.
- Plugins: a command disabled by the reload of the access hook still runs
  (`app/external.rs:1200-1294`); `docs/PLUGINS.md` says that disabled commands do
  not. Two processes that enable and disable at once lose one of the changes.
  While a variable or a more specific scope gives another list, `plugins disable`
  writes the names of that one, changed, to the profile, and the next build goes by
  the outranking list again; an override of the session is not looked at by the
  command and is back at the next rebuild. The list is compared exactly and `find`
  ignores the case of letters (`src/plugin/manager.rs:215`): with `osp-hi` disabled,
  another executable `osp-Hi` still runs as `hi`. A
  refresh may be undone by a search that had begun before it and writes the cache
  after it. A describe run that failed is remembered as failed until a refresh. A
  descendant that left the process group keeps the pipe of a describe run past its
  time limit.
- Recordings: a file that is sourced and that stops the recording and starts
  another makes the line that sourced it land in the second. Whether a line is left
  out of a recording is judged on the submitted text, before history expansion, and
  not for the lines of a sourced file.
- Pages: a command that publishes its page twice in one run forgets the way back.
- Output pipeline: the header of `G ?created_at` is a boolean that the stage makes,
  and keeps the formatting of the field, although `dsl/engine.rs:424-425` says that
  formatting goes for what a stage created; `PresentationFits` excepts such a header
  (`Asked`). `S` on a name that is both a header and an aggregate sorts by the
  header, while `F` tests the aggregate. `G` behind `A` keeps the aggregates of the
  earlier grouping, which are then those of other rows; with `as` over an old header
  it merges groups and keeps the aggregates of the one met first.

## What is not modelled

- The name of the lock of a file, which is taken from the path as given while the
  replacement follows symbolic links.
- The configuration commands other than set, unset and reset of a theme; dry runs,
  aliases, `profile.default`, the layer of command-line options, adaptation of
  values to the schema, `config explain`, the choice of the secrets backend.
- In the catalog of plugins: the retry of a spawn that finds the executable being
  written, revalidation of cached metadata, the window between a look at a file and
  its stat, the mutexes of a manager that only one thread uses, the guard against
  an interrupt during a run.
- Hints, the redaction of what is recorded, the completion menu (its row and column
  are the editor library's), the actions of the editor that page by themselves.
- In the output pipeline: JQ, nested values and paths, names that match in part,
  column labels, the casts of a sort and the comparisons of a filter other than
  equality, `avg` and `min`, and the parsing of stages. Hyperlinks and texts for
  empty results, which any stage removes.
- Completion: a pure function of the line and the catalog.
- CLI parsing, rendering, terminal handling, schema tables: no states and steps
  worth a model, or pure input and output.
- Time. History timestamps are displayed and filtered by, and never decide what is
  kept.

## Plan

Done: the history store with its file, the life of a line, file replacement, the
keyring, selections, notices, pages and recordings, the layers, stores and edits of
the configuration, the catalog and the runs of plugins, the output pipeline; proofs
of every safety property.

Next, in this order:

1. The pipeline: what the verbs compute, stated as the grouping is: that a sort is
   stable and puts what is missing last, and that a limit takes the slice it names.
2. Liveness of file replacement (a process that waits for the lock gets it), and of
   the keyring edit.
3. `ConfigStore` composed with `FileTransaction` for the two names of one lock.
4. The pipeline over nested values: paths in `F`, `P` and `U`, and fan-out.
5. Hints and the completion menu.
