--------------------------- MODULE HistoryRecords ---------------------------
(***************************************************************************)
(* The data of one REPL history store (src/repl/history_store.rs) and what *)
(* its operations compute, without the file, the lock and the processes.   *)
(*                                                                         *)
(* A command line is a sequence of words, with the prefix of the shell it  *)
(* belongs to already applied: inside the shell ldap, the typed line       *)
(* <<"user">> is recorded as <<"ldap", "user">>. A scope prefix is <<>> at *)
(* the root and a sequence of one word inside a shell.                     *)
(*                                                                         *)
(* Timestamps are left out: they never decide what is kept or removed      *)
(* (display filters apart). `enabled` is TRUE and the capacity positive:   *)
(* otherwise every operation returns before touching anything.             *)
(***************************************************************************)
EXTENDS Integers, Sequences, FiniteSets

CONSTANTS
  Lines,           \* command lines, as typed and as recorded
  Scopes,          \* scope prefixes: <<>> and one-word sequences
  SensitiveWords,  \* words that carry a credential
  ExcludedLines,   \* lines matched by repl.history.exclude, bang requests, help
  MaxEntries,      \* HistoryConfig::max_entries
  Dedupe,          \* HistoryConfig::dedupe
  ForceLimit,      \* 100 in the code: a clear of more lines needs --force
  None             \* Option::None

-----------------------------------------------------------------------------
(* Lines, scopes and privacy. *)

Sensitive(line) == \E i \in DOMAIN line : line[i] \in SensitiveWords

Excluded(line) == line = <<>> \/ Sensitive(line) \/ line \in ExcludedLines

InShell(scope, line) == Len(line) > 1 /\ line[1] = scope[1]

ApplyPrefix(scope, line) ==
  IF scope = <<>> \/ line = <<>> \/ line[1] = scope[1] THEN line ELSE scope \o line

StripPrefix(scope, line) ==
  IF scope # <<>> /\ InShell(scope, line) THEN Tail(line) ELSE line

Visible(records, scope) ==
  {i \in DOMAIN records : /\ scope = <<>> \/ InShell(scope, records[i])
                          /\ ~Excluded(StripPrefix(scope, records[i]))}

ASSUME CapacityAssumption == MaxEntries \in Nat \ {0}
ASSUME FlagsAssumption == Dedupe \in BOOLEAN /\ ForceLimit \in Nat
ASSUME NoneAssumption == None \notin [index : Nat, line : Lines]
ASSUME SensitiveAssumption ==
  \A scope \in Scopes, line \in Lines : ~Sensitive(line) => ~Sensitive(ApplyPrefix(scope, line))

-----------------------------------------------------------------------------
(* Vec operations on records. *)

\* trim_records_to_capacity: the newest MaxEntries records.
Trim(s) == IF Len(s) > MaxEntries THEN SubSeq(s, Len(s) - MaxEntries + 1, Len(s)) ELSE s

\* How many of the indices in K are at or before i.
Rank(K, i) == Cardinality({k \in K : k <= i})

\* The record that comes j-th when only the indices in K are kept.
Nth(K, j) == CHOOSE i \in K : Rank(K, i) = j

RemoveIndices(s, removed) ==
  LET kept == DOMAIN s \ removed
  IN  [j \in 1 .. Cardinality(kept) |-> s[Nth(kept, j)]]

\* Where a surviving index lands after RemoveIndices.
ShiftedIndex(index, removed) == index - Cardinality({r \in removed : r < index})

Oldest(K, n) == {i \in K : Rank(K, i) <= n}

\* Seeded bug: records are written as they are.
PayloadVerbatim(s) == s

\* What write_records puts in the file: the records without the sensitive ones.
Payload(s) == RemoveIndices(s, {i \in DOMAIN s : Sensitive(s[i])})

-----------------------------------------------------------------------------
(* The store. *)

Record == [index : Nat, line : Lines]

Store == [records : Seq(Lines), pending : Record \cup {None}, last : Lines \cup {None}]

Opened(records) == [records |-> records, pending |-> None, last |-> None]

Newest(s) == s[Len(s)]

IsDuplicate(s, line) == Dedupe /\ s # <<>> /\ Newest(s) = line

\* save: whatever was pending is forgotten, even when nothing takes its place.
Save(st, scope, line) ==
  LET full     == ApplyPrefix(scope, line)
      appended == Trim(Append(st.records, full))
  IN  IF Excluded(line) \/ IsDuplicate(st.records, full)
      THEN [st EXCEPT !.pending = None]
      ELSE [st EXCEPT !.records = appended,
                      !.pending = [index |-> Len(appended), line |-> full]]

\* Seeded bug: the recalled line is saved although another line is pending.
RenamedOverPending(st, scope, input, resolved, keep) ==
  IF input = resolved \/ ~keep THEN st ELSE Save(st, scope, resolved)

\* The middle of finalize_execution: the pending line takes the text it was
\* resolved to; a recalled line, which the editor did not save, is saved now.
Renamed(st, scope, input, resolved, keep) ==
  LET expanded == ApplyPrefix(scope, resolved)
  IN  CASE input = resolved -> st
        [] input # resolved /\ st.pending # None ->
             IF st.pending.line = ApplyPrefix(scope, input)
             THEN [st EXCEPT !.pending = [@ EXCEPT !.line = expanded],
                             !.records = [@ EXCEPT ![st.pending.index] = expanded]]
             ELSE st
        [] input # resolved /\ st.pending = None ->
             IF keep THEN Save(st, scope, resolved) ELSE st

\* Seeded bug: whatever is pending belongs to the line that ran.
AnyPending(st, scope, line) == st.pending # None

\* finalize_pending touches the pending line only if it is the line that ran.
IsPendingFor(st, scope, line) ==
  st.pending # None /\ st.pending.line = ApplyPrefix(scope, line)

\* Seeded bug: the record stays behind.
DiscardedFromPendingOnly(st) == [st EXCEPT !.pending = None]

\* finalize_pending for a line that is not kept.
Discarded(st) ==
  LET i == st.pending.index
  IN  [st EXCEPT !.pending = None,
                 !.records = IF i \in DOMAIN @ /\ @[i] = st.pending.line
                             THEN Trim(RemoveIndices(@, {i})) ELSE @]

\* commit_pending: the pending line goes behind what the file now holds.
Committed(seen, line) == Trim(IF IsDuplicate(seen, line) THEN seen ELSE Append(seen, line))

\* The records read from the file with the pending line put behind them.
WithPending(st, seen) ==
  IF st.pending = None
  THEN [st EXCEPT !.records = seen]
  ELSE [st EXCEPT !.records = Append(seen, st.pending.line), !.pending.index = Len(seen) + 1]

PendingIndices(st) == IF st.pending = None THEN {} ELSE {st.pending.index}

\* Seeded bug: the pending index is left where it was.
WithoutShift(st, removed) ==
  [st EXCEPT !.records = Trim(RemoveIndices(@, removed)),
             !.pending = IF st.pending = None \/ st.pending.index \in removed THEN None ELSE @]

\* remove_records and the end of prune_persisted: the records go, the rest is
\* trimmed, and the pending index follows its record.
Without(st, removed) ==
  LET left    == RemoveIndices(st.records, removed)
      trimmed == Len(left) - Len(Trim(left))
      index   == ShiftedIndex(st.pending.index, removed) - trimmed
  IN  IF st.pending = None \/ st.pending.index \in removed
      THEN [st EXCEPT !.records = Trim(left), !.pending = None]
      ELSE [st EXCEPT !.records = Trim(left),
                      !.pending = [index |-> index, line |-> Trim(left)[index]]]

\* The entries `history prune` removes: the oldest of the eligible ones, beyond `keep`.
Pruned(eligible, keep) == Oldest(eligible, Cardinality(eligible) - keep)

\* The entries `history clear` matches. A pattern is the set of lines, as
\* displayed, that it matches.
Matching(st, scope, pattern) ==
  {i \in Visible(st.records, scope) \ PendingIndices(st) :
     StripPrefix(scope, st.records[i]) \in pattern}

=============================================================================
