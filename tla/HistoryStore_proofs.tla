------------------------ MODULE HistoryStore_proofs ------------------------
(***************************************************************************)
(* What HistoryStore guarantees for any number of processes, any capacity  *)
(* and any lines. The inductive invariant IInv is the conjunction of the   *)
(* invariants the runs check, stated of one store at a time. The last      *)
(* parts are about the file: what a commit leaves there, and that the      *)
(* processes implement the atomic bounded log of HistoryLog.               *)
(***************************************************************************)
EXTENDS HistoryStore, HistoryRecords_proofs

\* A store whose pending line is its newest record.
Sound(st) ==
  /\ st \in Store
  /\ Len(st.records) <= MaxEntries + 1
  /\ st.pending # None =>
       /\ st.records # <<>>
       /\ st.pending.index = Len(st.records)
       /\ st.pending.line = Newest(st.records)

Public(st) == st.pending # None => ~Sensitive(st.pending.line)

-----------------------------------------------------------------------------
(* The operators keep a store sound and its pending line public. *)

LEMMA PendingIsRecord ==
  ASSUME NEW st \in Store, st.pending # None
  PROVE  st.pending \in Record /\ st.pending.index \in Nat /\ st.pending.line \in Lines
BY DEF Store, Record

LEMMA SaveSound ==
  ASSUME NEW st, Sound(st), Public(st), NEW p \in Scopes, NEW line \in Lines
  PROVE  /\ Sound(Save(st, p, line))
         /\ Public(Save(st, p, line))
         /\ Save(st, p, line).pending # None => IsPendingFor(Save(st, p, line), p, line)
<1> DEFINE full     == ApplyPrefix(p, line)
           longer   == Append(st.records, full)
           appended == Trim(longer)
           record   == [index |-> Len(appended), line |-> full]
<1>1. st \in Store /\ st.records \in Seq(Lines) /\ full \in Lines
  BY LinesAssumption DEF Sound, Store
<1>2. CASE Excluded(line) \/ IsDuplicate(st.records, full)
  <2>1. Save(st, p, line) = [st EXCEPT !.pending = None]
    BY <1>2 DEF Save
  <2> QED BY <2>1, <1>1 DEF Sound, Store, Public
<1>3. CASE ~(Excluded(line) \/ IsDuplicate(st.records, full))
  <2>1. Save(st, p, line) = [st EXCEPT !.records = appended, !.pending = record]
    BY <1>3 DEF Save
  <2>2. longer \in Seq(Lines) /\ longer # <<>> /\ Newest(longer) = full
    BY <1>1 DEF Newest
  <2>3. /\ appended \in Seq(Lines) /\ appended # <<>> /\ Newest(appended) = full
        /\ Len(appended) \in Nat /\ Len(appended) <= MaxEntries
    <3> HIDE DEF longer, full
    <3> QED BY <2>2, TrimProperties, CapacityAssumption
  <2>4. ~Sensitive(full)
    BY <1>3, SensitiveAssumption DEF Excluded
  <2>5. record \in Record
    BY <1>1, <2>3 DEF Record
  <2> HIDE DEF appended, full
  <2>6. Save(st, p, line) \in Store
    BY <1>1, <2>1, <2>3, <2>5 DEF Store
  <2> QED BY <1>1, <2>1, <2>3, <2>4, <2>6, CapacityAssumption
          DEF Sound, Public, Store, IsPendingFor, full
<1> QED BY <1>2, <1>3

\* The rename leaves the pending line public only when it is kept; when it is
\* not, the renamed line is the one the caller discards.
LEMMA RenamedSound ==
  ASSUME NEW st, Sound(st), Public(st), NEW p \in Scopes,
         NEW input \in Lines, NEW resolved \in Lines, NEW keep \in BOOLEAN,
         keep => ~Excluded(resolved)
  PROVE  LET new == Renamed(st, p, input, resolved, keep)
         IN  /\ Sound(new)
             /\ keep \/ ~IsPendingFor(new, p, resolved) => Public(new)
<1> DEFINE expanded == ApplyPrefix(p, resolved)
           new == Renamed(st, p, input, resolved, keep)
           moved == [st EXCEPT !.pending = [@ EXCEPT !.line = expanded],
                               !.records = [@ EXCEPT ![st.pending.index] = expanded]]
<1>1. CASE new = st
  BY <1>1
<1>2. CASE st.pending # None /\ new = moved
  <2>1. st \in Store /\ st.records \in Seq(Lines) /\ expanded \in Lines /\ st.records # <<>>
    BY <1>2, LinesAssumption DEF Sound, Store
  <2>2. st.pending.index = Len(st.records) /\ st.pending \in Record
    BY <1>2, <2>1, PendingIsRecord DEF Sound
  <2> DEFINE records == [st.records EXCEPT ![Len(st.records)] = expanded]
             pending == [st.pending EXCEPT !.line = expanded]
  <2>3. /\ records \in Seq(Lines) /\ Len(records) = Len(st.records)
        /\ records # <<>> /\ Newest(records) = expanded
    BY <2>1 DEF Newest
  <2>4. pending \in Record /\ pending.line = expanded /\ pending.index = Len(st.records)
    BY <2>1, <2>2 DEF Record
  <2>5. new = [st EXCEPT !.pending = pending, !.records = records]
    BY <1>2, <2>2
  <2> HIDE DEF records, pending, expanded, new
  <2>6. new \in Store /\ new.records = records /\ new.pending = pending
    BY <2>1, <2>3, <2>4, <2>5 DEF Store
  <2>7. Sound(new)
    BY <2>3, <2>4, <2>6, <1>2 DEF Sound
  <2>8. IsPendingFor(new, p, resolved)
    BY <2>4, <2>6, NoneAssumption DEF IsPendingFor, expanded, Record
  <2>9. keep => ~Sensitive(expanded)
    BY SensitiveAssumption DEF Excluded, expanded
  <2> QED BY <2>4, <2>6, <2>7, <2>8, <2>9 DEF Public, new
<1>3. CASE new = Save(st, p, resolved)
  BY <1>3, SaveSound
<1>4. new = st \/ (st.pending # None /\ new = moved) \/ new = Save(st, p, resolved)
  BY DEF Renamed
<1> QED BY <1>1, <1>2, <1>3, <1>4

LEMMA DiscardedSound ==
  ASSUME NEW st, Sound(st)
  PROVE  Sound(Discarded(st)) /\ Discarded(st).pending = None
<1>1. st \in Store /\ st.records \in Seq(Lines)
  BY DEF Sound, Store
<1> DEFINE i == st.pending.index
           left == RemoveIndices(st.records, {i})
<1>0. left \in Seq(Lines)
  BY <1>1, RemoveProperties
<1> HIDE DEF left
<1>2. /\ Trim(left) \in Seq(Lines)
      /\ Len(Trim(left)) <= MaxEntries + 1
  BY <1>0, TrimProperties, CapacityAssumption
<1>3. PICK records \in {st.records, Trim(left)} :
        Discarded(st) = [st EXCEPT !.pending = None, !.records = records]
  BY <1>1 DEF Discarded, left, Store
<1> QED BY <1>1, <1>2, <1>3 DEF Sound, Store

LEMMA WithPendingSound ==
  ASSUME NEW st, Sound(st), NEW s \in Seq(Lines), Len(s) <= MaxEntries
  PROVE  LET new == WithPending(st, s)
         IN  /\ Sound(new)
             /\ (new.pending = None) <=> (st.pending = None)
             /\ st.pending = None => new.records = s
             /\ st.pending # None => /\ new.records = Append(s, st.pending.line)
                                     /\ new.pending.line = st.pending.line
                                     /\ new.pending.index = Len(s) + 1
<1>1. st \in Store /\ MaxEntries \in Nat /\ Len(s) \in Nat
  BY CapacityAssumption DEF Sound
<1>2. CASE st.pending = None
  BY <1>1, <1>2 DEF WithPending, Sound, Store
<1>3. CASE st.pending # None
  <2> DEFINE line    == st.pending.line
             record  == [st.pending EXCEPT !.index = Len(s) + 1]
             records == Append(s, line)
  <2>1. st.pending \in Record /\ line \in Lines
    BY <1>1, <1>3, PendingIsRecord
  <2>2. record \in Record /\ record.index = Len(s) + 1 /\ record.line = line /\ record # None
    BY <1>1, <2>1, NoneAssumption DEF Record
  <2>3. /\ records \in Seq(Lines) /\ Len(records) = Len(s) + 1
        /\ records # <<>> /\ Newest(records) = line
    BY <2>1 DEF Newest
  <2>4. WithPending(st, s) = [st EXCEPT !.records = records, !.pending = record]
    BY <1>1, <1>3 DEF WithPending, Store
  <2> HIDE DEF record, records
  <2>5. /\ WithPending(st, s) \in Store
        /\ WithPending(st, s).records = records
        /\ WithPending(st, s).pending = record
    BY <1>1, <2>2, <2>3, <2>4 DEF Store
  <2> QED BY <1>1, <1>3, <2>2, <2>3, <2>5 DEF Sound, records
<1> QED BY <1>2, <1>3

\* Removing records moves the pending index to where the pending line went.
LEMMA WithoutSound ==
  ASSUME NEW st, Sound(st), NEW removed \in SUBSET DOMAIN st.records
  PROVE  /\ Sound(Without(st, removed))
         /\ Public(st) => Public(Without(st, removed))
<1> DEFINE left    == RemoveIndices(st.records, removed)
           kept    == Trim(left)
           index   == ShiftedIndex(st.pending.index, removed) - (Len(left) - Len(kept))
           record  == [index |-> index, line |-> kept[index]]
<1>1. st \in Store /\ st.records \in Seq(Lines) /\ MaxEntries \in Nat
  BY CapacityAssumption DEF Sound, Store
<1>2. left \in Seq(Lines) /\ Len(left) \in Nat
  <2>1. left \in Seq(Lines)
    BY <1>1, RemoveProperties
  <2> HIDE DEF left
  <2> QED BY <2>1
<1>3. kept \in Seq(Lines) /\ Len(kept) \in Nat /\ Len(kept) <= MaxEntries
  <2> HIDE DEF left
  <2>1. kept \in Seq(Lines) /\ Len(kept) = IF Len(left) > MaxEntries THEN MaxEntries ELSE Len(left)
    BY <1>2, TrimProperties
  <2> HIDE DEF kept
  <2> QED BY <1>1, <1>2, <2>1
<1>4. CASE st.pending = None \/ st.pending.index \in removed
  <2>1. Without(st, removed) = [st EXCEPT !.records = kept, !.pending = None]
    BY <1>4 DEF Without
  <2> HIDE DEF kept
  <2>2. /\ Without(st, removed) \in Store
        /\ Without(st, removed).records = kept
        /\ Without(st, removed).pending = None
    BY <1>1, <1>3, <2>1 DEF Store
  <2> QED BY <1>1, <1>3, <2>2 DEF Sound, Public
<1>5. CASE ~(st.pending = None \/ st.pending.index \in removed)
  <2>1. /\ st.records # <<>> /\ Len(st.records) \notin removed
        /\ st.pending.index = Len(st.records) /\ st.pending.line = Newest(st.records)
    BY <1>5 DEF Sound
  <2>2. ShiftedIndex(Len(st.records), removed) = Len(left)
    BY <1>1, <2>1, ShiftedNewest
  <2>3. left # <<>> /\ Newest(left) = Newest(st.records)
    BY <1>1, <2>1, RemoveKeepsNewest
  <2>4. kept # <<>> /\ Newest(kept) = Newest(st.records)
    BY <1>2, <2>3, TrimProperties
  <2>5. index = Len(kept) /\ kept[index] = Newest(st.records)
    BY <1>2, <1>3, <2>1, <2>2, <2>4 DEF Newest
  <2>6. Without(st, removed) = [st EXCEPT !.records = kept, !.pending = record]
    BY <1>5 DEF Without
  <2> HIDE DEF kept, index
  <2>7. record \in Record /\ record.index = Len(kept) /\ record.line = Newest(st.records)
    <3>1. Newest(st.records) \in Lines
      BY <1>1, <2>1 DEF Newest
    <3> QED BY <1>3, <2>5, <3>1 DEF Record
  <2> HIDE DEF record
  <2>8. /\ Without(st, removed) \in Store
        /\ Without(st, removed).records = kept
        /\ Without(st, removed).pending = record
    BY <1>1, <1>3, <2>6, <2>7 DEF Store
  <2> QED BY <1>1, <1>3, <1>5, <2>1, <2>4, <2>7, <2>8 DEF Sound, Public
<1> QED BY <1>4, <1>5

LEMMA LoadProperties ==
  ASSUME NEW f \in Seq(Lines) \cup {NoFile}
  PROVE  Load(f) \in Seq(Lines) /\ Len(Load(f)) <= MaxEntries
<1> DEFINE read == IF f = NoFile THEN LegacyFile ELSE f
<1>1. read \in Seq(Lines)
  BY FilesAssumption
<1> HIDE DEF read
<1>2. Len(Trim(read)) <= MaxEntries /\ Trim(read) \in Seq(Lines)
  BY <1>1, TrimProperties, CapacityAssumption
<1> QED BY <1>2 DEF Load, read

-----------------------------------------------------------------------------
(* The inductive invariant. *)

IInv == TypeOK /\ PendingIsNewest /\ SnapshotFresh /\ PendingIsPublic /\ TransactionView

LEMMA StoreIsSound ==
  ASSUME IInv, NEW s \in Sessions
  PROVE  Sound(store[s]) /\ Public(store[s])
BY DEF IInv, TypeOK, PendingIsNewest, PendingIsPublic, Sound, Public

\* An opened store is sound.
LEMMA OpenedSound ==
  ASSUME NEW records \in Seq(Lines), Len(records) <= MaxEntries
  PROVE  Sound(Opened(records)) /\ Public(Opened(records))
BY CapacityAssumption DEF Sound, Public, Opened, Store

\* Whoever is idle or down holds no lock.
LEMMA IdleHasNoLock ==
  ASSUME IInv, NEW s \in Sessions, op[s] \notin FileOps
  PROVE  lock # s
BY NobodyAssumption DEF IInv, SnapshotFresh

LEMMA ReplaceStore ==
  ASSUME IInv, NEW s \in Sessions, NEW st, Sound(st), Public(st),
         store' = [store EXCEPT ![s] = st]
  PROVE  /\ store' \in [Sessions -> Store]
         /\ \A t \in Sessions : Len(store'[t].records) <= MaxEntries + 1
         /\ PendingIsNewest'
         /\ PendingIsPublic'
<1>1. store' \in [Sessions -> Store]
  BY DEF IInv, TypeOK, Sound
<1>2. ASSUME NEW t \in Sessions PROVE Sound(store'[t]) /\ Public(store'[t])
  BY StoreIsSound DEF IInv, TypeOK
<1> QED BY <1>1, <1>2 DEF Sound, Public, PendingIsNewest, PendingIsPublic

LEMMA InMemoryStep ==
  ASSUME IInv, NEW s \in Sessions, NEW st, Sound(st), Public(st), InMemory(s, st)
  PROVE  IInv'
<1>1. /\ store' \in [Sessions -> Store]
      /\ \A t \in Sessions : Len(store'[t].records) <= MaxEntries + 1
      /\ PendingIsNewest' /\ PendingIsPublic'
  BY ReplaceStore DEF InMemory
<1>2. TypeOK'
  BY <1>1 DEF IInv, TypeOK, InMemory
<1>3. SnapshotFresh'
  BY DEF IInv, SnapshotFresh, InMemory, Load
<1>4. lock # s
  BY IdleHasNoLock DEF InMemory, FileOps
<1>5. TransactionView'
  BY <1>4 DEF IInv, TypeOK, TransactionView, InMemory
<1> QED BY <1>1, <1>2, <1>3, <1>5 DEF IInv

LEMMA BeginStep ==
  ASSUME IInv, NEW s \in Sessions, NEW st, Sound(st), Public(st), NEW name \in FileOps,
         name = "commit" => st.pending # None,
         name = "sync" => st.pending = None,
         Begin(s, name), store' = [store EXCEPT ![s] = st]
  PROVE  IInv'
<1>1. /\ store' \in [Sessions -> Store]
      /\ \A t \in Sessions : Len(store'[t].records) <= MaxEntries + 1
      /\ PendingIsNewest' /\ PendingIsPublic'
  BY ReplaceStore
<1>2. TypeOK'
  BY <1>1 DEF IInv, TypeOK, Begin
<1>3. lock # s
  BY IdleHasNoLock DEF Begin, FileOps
<1>4. SnapshotFresh'
  BY <1>3 DEF IInv, TypeOK, SnapshotFresh, Begin, Load
<1>5. TransactionView'
  BY <1>3 DEF IInv, TypeOK, TransactionView, Begin
<1> QED BY <1>1, <1>2, <1>4, <1>5 DEF IInv

LEMMA FinishStep ==
  ASSUME IInv, NEW s \in Sessions, NEW st, Sound(st), Public(st), NEW name,
         NEW contents \in Seq(Lines) \cup {NoFile}, Finish(s, name, contents, st)
  PROVE  IInv'
<1>1. /\ store' \in [Sessions -> Store]
      /\ \A t \in Sessions : Len(store'[t].records) <= MaxEntries + 1
      /\ PendingIsNewest' /\ PendingIsPublic'
  BY ReplaceStore DEF Finish
<1>2. TypeOK'
  BY <1>1 DEF IInv, TypeOK, Finish
<1>3. SnapshotFresh'
  BY DEF SnapshotFresh, Finish
<1>4. TransactionView'
  BY NobodyAssumption DEF IInv, TypeOK, TransactionView, Finish
<1> QED BY <1>1, <1>2, <1>3, <1>4 DEF IInv

-----------------------------------------------------------------------------
(* Every action keeps the invariant. *)

LEMMA NoRecords == <<>> \in Seq(Lines) /\ Len(<<>>) <= MaxEntries /\ Len(<<>>) <= MaxEntries + 1
<1>1. Len(<<>>) = 0 /\ MaxEntries \in Nat
  BY CapacityAssumption
<1> QED BY <1>1, EmptySeq

\* What prune and clear remove are records; only a prune in memory may remove the
\* pending one.
LEMMA RemovedAreRecords ==
  ASSUME NEW st, NEW p, NEW keep, NEW pattern
  PROVE  /\ Pruned(Visible(st.records, p), keep) \in SUBSET DOMAIN st.records
         /\ Pruned(Visible(st.records, p) \ PendingIndices(st), keep) \in SUBSET DOMAIN st.records
         /\ Matching(st, p, pattern) \in SUBSET DOMAIN st.records
         /\ Pruned(Visible(st.records, p) \ PendingIndices(st), keep) \cap PendingIndices(st) = {}
         /\ Matching(st, p, pattern) \cap PendingIndices(st) = {}
<1>1. Visible(st.records, p) \subseteq DOMAIN st.records
  BY DEF Visible
<1>2. \A K, n : Oldest(K, n) \subseteq K
  BY DEF Oldest
<1> QED BY <1>1, <1>2 DEF Pruned, Matching

LEMMA WipedSound ==
  ASSUME NEW st, Sound(st)
  PROVE  LET wiped == [st EXCEPT !.records = <<>>, !.pending = None]
         IN  Sound(wiped) /\ Public(wiped)
<1> DEFINE wiped == [st EXCEPT !.records = <<>>, !.pending = None]
<1>1. wiped \in Store /\ wiped.records = <<>> /\ wiped.pending = None
  BY NoRecords DEF Sound, Store
<1> HIDE DEF wiped
<1>2. Sound(wiped) /\ Public(wiped)
  BY <1>1, NoRecords DEF Sound, Public
<1> QED BY <1>2 DEF wiped

LEMMA StartStep == ASSUME IInv, NEW s \in Sessions, Start(s) PROVE IInv'
<1>1. file \in Seq(Lines) \cup {NoFile}
  BY DEF IInv, TypeOK
<1>2. PICK records \in {IF s \in Persistent THEN Load(file) ELSE <<>>, <<>>} :
        store' = [store EXCEPT ![s] = Opened(records)]
  BY DEF Start
<1>3. records \in Seq(Lines) /\ Len(records) <= MaxEntries
  <2>1. CASE records = <<>>
    BY <2>1, NoRecords
  <2>2. CASE records = Load(file)
    BY <1>1, <2>2, LoadProperties
  <2> QED BY <2>1, <2>2
<1>4. Sound(Opened(records)) /\ Public(Opened(records))
  BY <1>3, OpenedSound
<1>5. /\ store' \in [Sessions -> Store]
      /\ \A t \in Sessions : Len(store'[t].records) <= MaxEntries + 1
      /\ PendingIsNewest' /\ PendingIsPublic'
  BY <1>2, <1>4, ReplaceStore
<1>6. lock # s
  BY IdleHasNoLock DEF Start, FileOps
<1>7. TypeOK'
  BY <1>5, InputsAssumption DEF IInv, TypeOK, Start
<1>8. SnapshotFresh'
  BY <1>6 DEF IInv, TypeOK, SnapshotFresh, Start, Load
<1>9. TransactionView'
  BY <1>6 DEF IInv, TypeOK, TransactionView, Start
<1> QED BY <1>5, <1>7, <1>8, <1>9 DEF IInv

LEMMA FinalizeHereStep == ASSUME IInv, NEW s \in Sessions, FinalizeHere(s) PROVE IInv'
<1>1. PICK input \in Typed, resolved \in Typed, admitted \in BOOLEAN :
        LET keep == admitted /\ ~Sensitive(input) /\ ~Excluded(resolved)
            st   == Renamed(store[s], scope[s], input, resolved, keep)
        IN  IF IsPendingFor(st, scope[s], resolved)
            THEN \/ ~keep /\ InMemory(s, Discarded(st))
                 \/ keep /\ s \notin Persistent /\ InMemory(s, [st EXCEPT !.pending = None])
            ELSE InMemory(s, st)
  BY DEF FinalizeHere
<1> DEFINE keep == admitted /\ ~Sensitive(input) /\ ~Excluded(resolved)
           st   == Renamed(store[s], scope[s], input, resolved, keep)
<1>2. /\ input \in Lines /\ resolved \in Lines /\ scope[s] \in Scopes
      /\ keep \in BOOLEAN /\ (keep => ~Excluded(resolved))
  BY InputsAssumption DEF IInv, TypeOK
<1>3. Sound(st) /\ (keep \/ ~IsPendingFor(st, scope[s], resolved) => Public(st))
  <2> HIDE DEF keep
  <2> QED BY <1>2, StoreIsSound, RenamedSound
<1> HIDE DEF st, keep
<1>4. CASE InMemory(s, Discarded(st))
  BY <1>3, <1>4, DiscardedSound, InMemoryStep DEF Public
<1>5. CASE InMemory(s, [st EXCEPT !.pending = None])
  <2>1. Sound([st EXCEPT !.pending = None]) /\ Public([st EXCEPT !.pending = None])
    BY <1>3 DEF Sound, Public, Store
  <2> QED BY <1>5, <2>1, InMemoryStep
<1>6. CASE ~IsPendingFor(st, scope[s], resolved) /\ InMemory(s, st)
  BY <1>3, <1>6, InMemoryStep
<1> QED BY <1>1, <1>4, <1>5, <1>6 DEF st, keep

LEMMA MemoryStep ==
  ASSUME IInv, NEW s \in Sessions,
         \/ SaveLine(s) \/ SaveHidden(s) \/ RememberCommand(s)
         \/ PruneMemory(s) \/ ClearMemory(s) \/ SyncMemory(s) \/ WipeMemory(s)
  PROVE  IInv'
<1> USE StoreIsSound
<1>1. CASE SaveLine(s)
  <2>1. PICK line \in Typed : InMemory(s, Save(store[s], scope[s], line))
    BY <1>1 DEF SaveLine
  <2>2. line \in Lines /\ scope[s] \in Scopes
    BY InputsAssumption DEF IInv, TypeOK
  <2> QED BY <2>1, <2>2, SaveSound, InMemoryStep
<1>2. CASE SaveHidden(s) \/ SyncMemory(s)
  <2> DEFINE st == [store[s] EXCEPT !.pending = None]
  <2>1. Sound(st) /\ Public(st)
    BY DEF Sound, Public, Store
  <2> QED BY <1>2, <2>1, InMemoryStep DEF SaveHidden, SyncMemory
<1>3. CASE RememberCommand(s)
  <2>1. PICK line \in Remembered[s] : InMemory(s, [store[s] EXCEPT !.last = line])
    BY <1>3 DEF RememberCommand
  <2>2. Sound([store[s] EXCEPT !.last = line]) /\ Public([store[s] EXCEPT !.last = line])
    BY InputsAssumption DEF Sound, Public, Store
  <2> QED BY <2>1, <2>2, InMemoryStep
<1>4. CASE PruneMemory(s)
  <2>1. PICK p \in Scopes, keep \in Keeps :
          InMemory(s, Without(store[s], Pruned(Visible(store[s].records, p), keep)))
    BY <1>4 DEF PruneMemory
  <2>2. Pruned(Visible(store[s].records, p), keep) \in SUBSET DOMAIN store[s].records
    BY RemovedAreRecords
  <2> QED BY <2>1, <2>2, WithoutSound, InMemoryStep
<1>5. CASE ClearMemory(s)
  <2>1. PICK p \in Scopes, pattern \in Patterns :
          InMemory(s, [Without(store[s], Matching(store[s], p, pattern)) EXCEPT !.last = None])
    BY <1>5 DEF ClearMemory
  <2> DEFINE st == Without(store[s], Matching(store[s], p, pattern))
  <2>2. Sound(st) /\ Public(st)
    BY RemovedAreRecords, WithoutSound
  <2> HIDE DEF st
  <2>3. Sound([st EXCEPT !.last = None]) /\ Public([st EXCEPT !.last = None])
    BY <2>2 DEF Sound, Public, Store
  <2> QED BY <2>1, <2>3, InMemoryStep DEF st
<1>6. CASE WipeMemory(s)
  <2> DEFINE st == [store[s] EXCEPT !.records = <<>>, !.pending = None]
  <2>1. Sound(st) /\ Public(st)
    BY WipedSound
  <2> QED BY <1>6, <2>1, InMemoryStep DEF WipeMemory
<1> QED BY <1>1, <1>2, <1>3, <1>4, <1>5, <1>6

LEMMA SetPrefixStep == ASSUME IInv, NEW s \in Sessions, SetPrefix(s) PROVE IInv'
<1>1. TypeOK'
  BY DEF IInv, TypeOK, SetPrefix
<1> QED BY <1>1 DEF IInv, SetPrefix, PendingIsNewest, PendingIsPublic, SnapshotFresh,
                    TransactionView, Load

LEMMA OperationBegins ==
  ASSUME IInv, NEW s \in Sessions, FinalizeCommit(s) \/ BeginSync(s) \/ BeginOther(s)
  PROVE  IInv'
<1>1. CASE FinalizeCommit(s)
  <2>1. PICK input \in Typed, resolved \in Typed :
          LET st == Renamed(store[s], scope[s], input, resolved, TRUE)
          IN  /\ ~Excluded(resolved)
              /\ IsPendingFor(st, scope[s], resolved)
              /\ Begin(s, "commit")
              /\ store' = [store EXCEPT ![s] = st]
    BY <1>1 DEF FinalizeCommit
  <2> DEFINE st == Renamed(store[s], scope[s], input, resolved, TRUE)
  <2>2. input \in Lines /\ resolved \in Lines /\ scope[s] \in Scopes
    BY InputsAssumption DEF IInv, TypeOK
  <2>3. Sound(st) /\ Public(st)
    BY <2>1, <2>2, StoreIsSound, RenamedSound
  <2>4. st.pending # None
    BY <2>1 DEF IsPendingFor
  <2> HIDE DEF st
  <2> QED BY <2>1, <2>3, <2>4, BeginStep DEF FileOps, st
<1>2. ASSUME NEW name \in FileOps, Begin(s, name), store' = store,
             name = "commit" => store[s].pending # None,
             name = "sync" => store[s].pending = None
      PROVE  IInv'
  <2>1. store' = [store EXCEPT ![s] = store[s]]
    BY <1>2 DEF IInv, TypeOK
  <2> QED BY <1>2, <2>1, StoreIsSound, BeginStep
<1>3. CASE BeginSync(s)
  <2> DEFINE name == IF store[s].pending = None THEN "sync" ELSE "commit"
  <2>1. /\ name \in FileOps
        /\ name = "commit" => store[s].pending # None
        /\ name = "sync" => store[s].pending = None
    BY DEF FileOps
  <2>2. Begin(s, name) /\ store' = store
    BY <1>3 DEF BeginSync
  <2> HIDE DEF name
  <2> QED BY <2>1, <2>2, <1>2
<1>4. CASE BeginOther(s)
  BY <1>4, <1>2 DEF BeginOther, FileOps
<1> QED BY <1>1, <1>3, <1>4

LEMMA AcquireStep == ASSUME IInv, NEW s \in Sessions, Acquire(s) PROVE IInv'
<1> DEFINE read == Load(file)
           st == IF op[s] = "clear" THEN WithPending(store[s], read) ELSE store[s]
<1>1. read \in Seq(Lines) /\ Len(read) <= MaxEntries
  BY LoadProperties DEF IInv, TypeOK
<1>2. Sound(store[s]) /\ Public(store[s])
  BY StoreIsSound
<1>3. store' = [store EXCEPT ![s] = st]
  BY DEF Acquire
<1> HIDE DEF read
<1>4. /\ Sound(st) /\ Public(st)
      /\ (st.pending = None) <=> (store[s].pending = None)
      /\ op[s] = "clear" => st.records = IF st.pending = None THEN read
                                          ELSE Append(read, st.pending.line)
  <2>1. CASE op[s] = "clear"
    <3> DEFINE w == WithPending(store[s], read)
    <3>1. /\ Sound(w)
          /\ (w.pending = None) <=> (store[s].pending = None)
          /\ store[s].pending = None => w.records = read
          /\ store[s].pending # None => /\ w.records = Append(read, store[s].pending.line)
                                        /\ w.pending.line = store[s].pending.line
      BY <1>1, <1>2, WithPendingSound
    <3>2. st = w
      BY <2>1
    <3> HIDE DEF w
    <3> QED BY <1>2, <3>1, <3>2 DEF Public
  <2>2. CASE op[s] # "clear"
    BY <1>2, <2>2
  <2> QED BY <2>1, <2>2
<1> HIDE DEF st
<1>5. /\ store' \in [Sessions -> Store]
      /\ \A t \in Sessions : Len(store'[t].records) <= MaxEntries + 1
      /\ PendingIsNewest' /\ PendingIsPublic'
  BY <1>3, <1>4, ReplaceStore
<1>6. TypeOK'
  BY <1>1, <1>5 DEF IInv, TypeOK, Acquire, read
<1>7. SnapshotFresh'
  BY DEF IInv, TypeOK, SnapshotFresh, Acquire, Load
<1>8. seen'[s] = read /\ store'[s] = st /\ lock' = s /\ op' = op
  BY <1>3 DEF IInv, TypeOK, Acquire, read
<1>9. TransactionView'
  <2>1. ASSUME NEW t \in Sessions, t # s PROVE store'[t] = store[t]
    BY <1>3, <2>1 DEF IInv, TypeOK
  <2>2. /\ op[s] = "commit" => st.pending # None
        /\ op[s] = "sync" => st.pending = None
    BY <1>4 DEF IInv, TransactionView
  <2> QED BY <1>4, <1>8, <2>1, <2>2 DEF IInv, TransactionView
<1> QED BY <1>5, <1>6, <1>7, <1>9 DEF IInv

LEMMA PayloadIsFile ==
  ASSUME NEW records \in Seq(Lines)
  PROVE  Payload(records) \in Seq(Lines) \cup {NoFile}
BY PayloadProperties

LEMMA CommittedProperties ==
  ASSUME NEW s \in Seq(Lines), NEW line \in Lines
  PROVE  /\ Committed(s, line) \in Seq(Lines)
         /\ Len(Committed(s, line)) <= MaxEntries
         /\ Committed(s, line) # <<>>
         /\ Newest(Committed(s, line)) = line
<1> DEFINE longer == IF IsDuplicate(s, line) THEN s ELSE Append(s, line)
<1>1. longer \in Seq(Lines) /\ longer # <<>> /\ Newest(longer) = line
  <2>1. CASE IsDuplicate(s, line)
    BY <2>1 DEF IsDuplicate
  <2>2. CASE ~IsDuplicate(s, line)
    <3>1. Append(s, line) \in Seq(Lines) /\ Len(Append(s, line)) = Len(s) + 1
      OBVIOUS
    <3>2. Append(s, line)[Len(s) + 1] = line /\ Append(s, line) # <<>>
      OBVIOUS
    <3> QED BY <2>2, <3>1, <3>2 DEF Newest
  <2> QED BY <2>1, <2>2
<1> HIDE DEF longer
<1>2. Trim(longer) \in Seq(Lines) /\ Len(Trim(longer)) <= MaxEntries
  BY <1>1, TrimProperties, CapacityAssumption
<1>3. Trim(longer) # <<>> /\ Newest(Trim(longer)) = line
  BY <1>1, TrimProperties
<1> QED BY <1>2, <1>3 DEF Committed, longer

\* What s read under the lock it holds.
LEMMA SeenProperties ==
  ASSUME IInv, NEW s \in Sessions, lock = s
  PROVE  seen[s] = Load(file) /\ seen[s] \in Seq(Lines) /\ Len(seen[s]) <= MaxEntries
<1>1. seen[s] = Load(file)
  BY NobodyAssumption DEF IInv, SnapshotFresh
<1> QED BY <1>1, LoadProperties DEF IInv, TypeOK

LEMMA CommitWriteStep == ASSUME IInv, NEW s \in Sessions, CommitWrite(s) PROVE IInv'
<1> DEFINE line    == store[s].pending.line
           records == Committed(seen[s], line)
           st      == [store[s] EXCEPT !.records = records, !.pending = None]
<1>1. seen[s] \in Seq(Lines)
  BY SeenProperties DEF CommitWrite, Finish
<1>2. Sound(store[s]) /\ store[s] \in Store /\ store[s].pending # None
  BY StoreIsSound DEF IInv, TransactionView, CommitWrite, Sound
<1>3. line \in Lines
  BY <1>2, PendingIsRecord
<1>4. records \in Seq(Lines) /\ Len(records) <= MaxEntries
  BY <1>1, <1>3, CommittedProperties
<1>5. Finish(s, "commit", Payload(records), st)
  BY DEF CommitWrite
<1> HIDE DEF records
<1>6. st \in Store /\ st.records = records /\ st.pending = None
  BY <1>2, <1>4 DEF Store
<1>7. Sound(st) /\ Public(st)
  BY <1>4, <1>6, CapacityAssumption DEF Sound, Public
<1> HIDE DEF st
<1> QED BY <1>4, <1>5, <1>7, PayloadIsFile, FinishStep

LEMMA PruneWriteStep == ASSUME IInv, NEW s \in Sessions, PruneWrite(s) PROVE IInv'
<1> DEFINE view == WithPending(store[s], seen[s])
<1>1. PICK p \in Scopes, keep \in Keeps :
        LET removed == Pruned(Visible(view.records, p) \ PendingIndices(view), keep)
            others  == RemoveIndices(view.records, removed \cup PendingIndices(view))
        IN  Finish(s, "prune", IF removed = {} THEN file ELSE Payload(Trim(others)),
                   Without(view, removed))
  BY DEF PruneWrite
<1>2. seen[s] \in Seq(Lines) /\ Len(seen[s]) <= MaxEntries
  BY <1>1, SeenProperties DEF Finish
<1>3. Sound(view) /\ Public(view)
  BY <1>2, StoreIsSound, WithPendingSound DEF Public
<1> HIDE DEF view
<1> DEFINE removed == Pruned(Visible(view.records, p) \ PendingIndices(view), keep)
           others  == RemoveIndices(view.records, removed \cup PendingIndices(view))
           contents == IF removed = {} THEN file ELSE Payload(Trim(others))
<1>4. removed \in SUBSET DOMAIN view.records
  BY RemovedAreRecords
<1>5. Sound(Without(view, removed)) /\ Public(Without(view, removed))
  BY <1>3, <1>4, WithoutSound
<1>6. Finish(s, "prune", contents, Without(view, removed))
  BY <1>1
<1>7. contents \in Seq(Lines) \cup {NoFile}
  <2>1. others \in Seq(Lines)
    BY <1>3, RemoveProperties DEF Sound, Store
  <2> HIDE DEF others
  <2>2. Trim(others) \in Seq(Lines)
    BY <2>1, TrimProperties
  <2>3. Payload(Trim(others)) \in Seq(Lines)
    BY <2>2, PayloadProperties
  <2> QED BY <2>3 DEF IInv, TypeOK
<1> HIDE DEF contents, removed
<1> QED BY <1>5, <1>6, <1>7, FinishStep

LEMMA ClearWriteStep == ASSUME IInv, NEW s \in Sessions, ClearWrite(s) PROVE IInv'
<1>1. PICK p \in Scopes, pattern \in Patterns :
        LET removed == Matching(store[s], p, pattern)
            others  == RemoveIndices(store[s].records, removed \cup PendingIndices(store[s]))
        IN  Finish(s, "clear", Payload(others), [Without(store[s], removed) EXCEPT !.last = None])
  BY DEF ClearWrite
<1> DEFINE removed == Matching(store[s], p, pattern)
           others  == RemoveIndices(store[s].records, removed \cup PendingIndices(store[s]))
           left    == Without(store[s], removed)
           st      == [left EXCEPT !.last = None]
<1>2. removed \in SUBSET DOMAIN store[s].records
  BY RemovedAreRecords
<1>3. Sound(left) /\ Public(left)
  BY <1>2, StoreIsSound, WithoutSound
<1> HIDE DEF left
<1>4. Sound(st) /\ Public(st)
  BY <1>3 DEF Sound, Public, Store
<1>5. others \in Seq(Lines)
  BY StoreIsSound, RemoveProperties DEF Sound, Store
<1> HIDE DEF others
<1>6. Payload(others) \in Seq(Lines) \cup {NoFile}
  BY <1>5, PayloadProperties
<1>7. Finish(s, "clear", Payload(others), st)
  BY <1>1 DEF others, left
<1> HIDE DEF st
<1> QED BY <1>4, <1>6, <1>7, FinishStep

\* Reload, Wipe and ClearKeep.
LEMMA OtherFinishStep ==
  ASSUME IInv, NEW s \in Sessions, ClearKeep(s) \/ Reload(s) \/ Wipe(s)
  PROVE  IInv'
<1>1. Sound(store[s]) /\ Public(store[s]) /\ file \in Seq(Lines) \cup {NoFile}
  BY StoreIsSound DEF IInv, TypeOK
<1>2. CASE ClearKeep(s)
  BY <1>1, <1>2, FinishStep DEF ClearKeep
<1>3. CASE Reload(s)
  <2> DEFINE st == [store[s] EXCEPT !.records = seen[s]]
  <2>1. op[s] = "sync" /\ seen[s] \in Seq(Lines) /\ Len(seen[s]) <= MaxEntries
    BY <1>3, SeenProperties DEF Reload, Finish
  <2>2. store[s].pending = None
    BY <2>1 DEF IInv, TransactionView
  <2>3. st \in Store /\ st.records = seen[s] /\ st.pending = None
    BY <1>1, <2>1, <2>2 DEF Sound, Store
  <2> HIDE DEF st
  <2>4. Sound(st) /\ Public(st)
    BY <2>1, <2>3, CapacityAssumption DEF Sound, Public
  <2>5. Finish(s, "sync", file, st)
    BY <1>3 DEF Reload, st
  <2> QED BY <1>1, <2>4, <2>5, FinishStep
<1>4. CASE Wipe(s)
  <2> DEFINE st == [store[s] EXCEPT !.records = <<>>, !.pending = None]
             contents == IF HasLegacy THEN <<>> ELSE NoFile
  <2>1. Sound(st) /\ Public(st)
    BY <1>1, WipedSound
  <2>2. contents \in Seq(Lines) \cup {NoFile}
    BY NoRecords
  <2>3. Finish(s, "wipe", contents, st)
    BY <1>4 DEF Wipe
  <2> HIDE DEF st, contents
  <2> QED BY <2>1, <2>2, <2>3, FinishStep
<1> QED BY <1>2, <1>3, <1>4

LEMMA FailStep == ASSUME IInv, NEW s \in Sessions, Fail(s) PROVE IInv'
<1>1. TypeOK'
  BY NoRecords DEF IInv, TypeOK, Fail
<1>2. SnapshotFresh'
  BY DEF IInv, TypeOK, SnapshotFresh, Fail, Load
<1>3. lock' # s /\ (lock' # Nobody => lock' = lock)
  BY NobodyAssumption DEF Fail
<1>4. ASSUME NEW t \in Sessions, t # s
      PROVE  op'[t] = op[t] /\ seen'[t] = seen[t]
  BY <1>4 DEF IInv, TypeOK, Fail
<1>5. op'[s] = "idle" /\ store' = store
  BY DEF IInv, TypeOK, Fail
<1>6. TransactionView'
  BY <1>3, <1>4, <1>5, NobodyAssumption DEF IInv, TransactionView
<1> QED BY <1>1, <1>2, <1>6 DEF IInv, Fail, PendingIsNewest, PendingIsPublic

LEMMA CrashStep == ASSUME IInv, NEW s \in Sessions, Crash(s) PROVE IInv'
<1>1. Sound(Opened(<<>>)) /\ Public(Opened(<<>>))
  BY NoRecords, OpenedSound
<1>2. /\ store' \in [Sessions -> Store]
      /\ \A t \in Sessions : Len(store'[t].records) <= MaxEntries + 1
      /\ PendingIsNewest' /\ PendingIsPublic'
  BY <1>1, ReplaceStore DEF Crash
<1>3. TypeOK'
  BY <1>2, NoRecords DEF IInv, TypeOK, Crash
<1>4. SnapshotFresh'
  BY DEF IInv, TypeOK, SnapshotFresh, Crash, Load
<1>5. lock' # s /\ (lock' # Nobody => lock' = lock)
  BY NobodyAssumption DEF Crash
<1>6. ASSUME NEW t \in Sessions, t # s
      PROVE  op'[t] = op[t] /\ seen'[t] = seen[t] /\ store'[t] = store[t]
  BY <1>6 DEF IInv, TypeOK, Crash
<1>7. op'[s] = "down"
  BY DEF IInv, TypeOK, Crash
<1>8. TransactionView'
  BY <1>5, <1>6, <1>7, NobodyAssumption DEF IInv, TransactionView
<1> QED BY <1>2, <1>3, <1>4, <1>8 DEF IInv

LEMMA InitInv == ASSUME Init PROVE IInv
<1>1. Sound(Opened(<<>>)) /\ Public(Opened(<<>>)) /\ Opened(<<>>) \in Store
  BY NoRecords, OpenedSound DEF Sound
<1>2. \A s \in Sessions : store[s] = Opened(<<>>)
  BY DEF Init
<1> HIDE DEF Opened
<1>3. TypeOK
  <2>1. store \in [Sessions -> Store]
    BY <1>1 DEF Init
  <2>2. file \in Seq(Lines) \cup {NoFile} /\ scope \in [Sessions -> Scopes]
    BY FilesAssumption, InputsAssumption DEF Init
  <2>3. seen \in [Sessions -> Seq(Lines)]
    BY NoRecords DEF Init
  <2> QED BY <1>1, <1>2, <2>1, <2>2, <2>3 DEF Init, TypeOK, Sound
<1>4. SnapshotFresh
  BY DEF Init, SnapshotFresh
<1>5. PendingIsNewest /\ PendingIsPublic
  BY <1>1, <1>2 DEF PendingIsNewest, PendingIsPublic, Sound, Public
<1>6. TransactionView
  BY NobodyAssumption DEF Init, TransactionView
<1> QED BY <1>3, <1>4, <1>5, <1>6 DEF IInv

LEMMA StepInv == ASSUME IInv, [Next]_vars PROVE IInv'
<1>1. CASE UNCHANGED vars
  BY <1>1 DEF vars, IInv, TypeOK, PendingIsNewest, PendingIsPublic, SnapshotFresh,
              TransactionView, Load
<1>2. ASSUME NEW s \in Sessions, Start(s) \/ Call(s) \/ Acquire(s) \/ Complete(s) \/ Fail(s) \/ Crash(s)
      PROVE  IInv'
  <2>1. CASE Start(s)
    BY <2>1, StartStep
  <2>2. CASE Call(s)
    BY <2>2, MemoryStep, FinalizeHereStep, SetPrefixStep, OperationBegins DEF Call
  <2>3. CASE Acquire(s)
    BY <2>3, AcquireStep
  <2>4. CASE Complete(s)
    BY <2>4, CommitWriteStep, PruneWriteStep, ClearWriteStep, OtherFinishStep DEF Complete
  <2>5. CASE Fail(s)
    BY <2>5, FailStep
  <2>6. CASE Crash(s)
    BY <2>6, CrashStep
  <2> QED BY <1>2, <2>1, <2>2, <2>3, <2>4, <2>5, <2>6
<1> QED BY <1>1, <1>2 DEF Next

\* Every reachable state satisfies the inductive invariant.
THEOREM Invariance == Spec => []IInv
<1>1. Init => IInv
  BY InitInv
<1>2. IInv /\ [Next]_vars => IInv'
  BY StepInv
<1> QED BY <1>1, <1>2, PTL DEF Spec

\* Every variable keeps its type and no store outgrows its capacity by more
\* than the pending line.
THEOREM TypeCorrectness == Spec => []TypeOK
BY Invariance, PTL DEF IInv

\* The index a store carries for its pending line is always the position of
\* that line, through saves, trims, prunes, clears and failures.
THEOREM PendingIndexCorrect == Spec => []PendingIsNewest
BY Invariance, PTL DEF IInv

\* A transaction replaces the file it read: nobody wrote in between.
THEOREM MutualExclusion == Spec => []SnapshotFresh
BY Invariance, PTL DEF IInv

\* A buffered line never holds a credential.
THEOREM PendingNeverSensitive == Spec => []PendingIsPublic
BY Invariance, PTL DEF IInv

\* Between two steps of a transaction its process has the pending line, or the
\* records read under the lock, that the second step works on.
THEOREM TransactionsSeeTheirInput == Spec => []TransactionView
BY Invariance, PTL DEF IInv

-----------------------------------------------------------------------------
(* Every replacement of the file. *)

\* The file after a step is the file before it unless a transaction of some
\* process ended in the step.
LEMMA OnlyWritersWrite ==
  ASSUME [Next]_vars, file' # file
  PROVE  \E s \in Sessions : CommitWrite(s) \/ PruneWrite(s) \/ ClearWrite(s) \/ Wipe(s)
<1>1. ASSUME NEW s \in Sessions,
             Start(s) \/ Call(s) \/ Acquire(s) \/ Complete(s) \/ Fail(s) \/ Crash(s)
      PROVE  CommitWrite(s) \/ PruneWrite(s) \/ ClearWrite(s) \/ Wipe(s)
  <2>1. ~Start(s) /\ ~Acquire(s) /\ ~Fail(s) /\ ~Crash(s)
    BY DEF Start, Acquire, Fail, Crash
  <2>2. ~ClearKeep(s) /\ ~Reload(s)
    BY DEF ClearKeep, Reload, Finish
  <2>3. \A st : ~InMemory(s, st)
    BY DEF InMemory
  <2>4. ~SaveLine(s) /\ ~SaveHidden(s) /\ ~RememberCommand(s) /\ ~SetPrefix(s)
    BY <2>3 DEF SaveLine, SaveHidden, RememberCommand, SetPrefix
  <2>5. ~PruneMemory(s) /\ ~ClearMemory(s) /\ ~SyncMemory(s) /\ ~WipeMemory(s) /\ ~FinalizeHere(s)
    BY <2>3 DEF PruneMemory, ClearMemory, SyncMemory, WipeMemory, FinalizeHere
  <2>6. ~FinalizeCommit(s) /\ ~BeginSync(s) /\ ~BeginOther(s)
    BY DEF FinalizeCommit, BeginSync, BeginOther, Begin
  <2> QED BY <1>1, <2>1, <2>2, <2>4, <2>5, <2>6 DEF Call, Complete
<1> QED BY <1>1 DEF Next, vars

\* A payload within the capacity is loaded as it is.
LEMMA LoadPayload ==
  ASSUME NEW records \in Seq(Lines), Len(records) <= MaxEntries
  PROVE  Load(Payload(records)) = Payload(records)
<1> DEFINE written == Payload(records)
<1>1. written \in Seq(Lines) /\ Len(written) <= Len(records)
  BY PayloadProperties
<1> HIDE DEF written
<1>2. written # NoFile /\ Len(written) <= MaxEntries
  BY <1>1, FilesAssumption, CapacityAssumption
<1> QED BY <1>1, <1>2, TrimProperties DEF Load, written

LEMMA CommitEffect ==
  ASSUME IInv, NEW s \in Sessions, CommitWrite(s)
  PROVE  LET line    == store[s].pending.line
             records == Committed(Load(file), line)
         IN  /\ line \in Lines /\ ~Sensitive(line)
             /\ records \in Seq(Lines) /\ Len(records) <= MaxEntries
             /\ records # <<>> /\ Newest(records) = line
             /\ file' = Payload(records)
             /\ store'[s].pending = None
<1> DEFINE line    == store[s].pending.line
           records == Committed(Load(file), line)
<1>1. seen[s] = Load(file) /\ seen[s] \in Seq(Lines)
  BY SeenProperties DEF CommitWrite, Finish
<1>2. store[s] \in Store /\ store[s].pending # None /\ Public(store[s])
  BY StoreIsSound DEF IInv, TransactionView, CommitWrite, Sound
<1>3. line \in Lines /\ ~Sensitive(line)
  BY <1>2, PendingIsRecord DEF Public
<1>4. /\ records \in Seq(Lines) /\ Len(records) <= MaxEntries
      /\ records # <<>> /\ Newest(records) = line
  BY <1>1, <1>3, CommittedProperties
<1>5. file' = Payload(records)
  BY <1>1 DEF CommitWrite, Finish
<1>6. store'[s].pending = None
  <2> DEFINE st == [store[s] EXCEPT !.records = Committed(seen[s], line), !.pending = None]
  <2>1. st.pending = None
    BY <1>2 DEF Store
  <2>2. store' = [store EXCEPT ![s] = st]
    BY DEF CommitWrite, Finish
  <2> HIDE DEF st
  <2> QED BY <2>1, <2>2 DEF IInv, TypeOK
<1> QED BY <1>3, <1>4, <1>5, <1>6

\* Removing records from the file's contents, with the pending line behind
\* them, is removing them from the file's contents.
LEMMA ForgetEffect ==
  ASSUME NEW st, Sound(st), NEW base \in Seq(Lines), Len(base) <= MaxEntries,
         st.records = IF st.pending = None THEN base ELSE Append(base, st.pending.line),
         NEW removed \in SUBSET DOMAIN st.records, removed \cap PendingIndices(st) = {}
  PROVE  /\ removed \in SUBSET DOMAIN base
         /\ RemoveIndices(st.records, removed \cup PendingIndices(st))
              = RemoveIndices(base, removed)
<1>1. CASE st.pending = None
  BY <1>1 DEF PendingIndices
<1>2. CASE st.pending # None
  <2>1. st.pending.line \in Lines
    BY <1>2, PendingIsRecord DEF Sound
  <2>2. st.records = Append(base, st.pending.line) /\ Len(st.records) = Len(base) + 1
    BY <1>2, <2>1
  <2>3. PendingIndices(st) = {Len(base) + 1}
    BY <1>2, <2>2 DEF Sound, PendingIndices
  <2>4. DOMAIN st.records = DOMAIN base \cup {Len(base) + 1}
    BY <2>1, <2>2
  <2> QED BY <2>1, <2>2, <2>3, <2>4, RemoveAppended
<1> QED BY <1>1, <1>2

LEMMA PruneEffect ==
  ASSUME IInv, NEW s \in Sessions, PruneWrite(s), file' # file
  PROVE  \E removed \in SUBSET DOMAIN Load(file) :
           removed # {} /\ file' = Payload(RemoveIndices(Load(file), removed))
<1> DEFINE base == seen[s]
           view == WithPending(store[s], base)
<1>1. PICK p \in Scopes, keep \in Keeps :
        LET removed == Pruned(Visible(view.records, p) \ PendingIndices(view), keep)
            others  == RemoveIndices(view.records, removed \cup PendingIndices(view))
        IN  Finish(s, "prune", IF removed = {} THEN file ELSE Payload(Trim(others)),
                   Without(view, removed))
  BY DEF PruneWrite
<1>2. base = Load(file) /\ base \in Seq(Lines) /\ Len(base) <= MaxEntries
  BY <1>1, SeenProperties DEF Finish
<1> HIDE DEF base
<1>3. Sound(view) /\ view.records = IF view.pending = None THEN base
                                    ELSE Append(base, view.pending.line)
  <2> DEFINE st == store[s]
  <2>1. Sound(st)
    BY StoreIsSound
  <2> HIDE DEF st
  <2>2. /\ Sound(WithPending(st, base))
        /\ (WithPending(st, base).pending = None) <=> (st.pending = None)
        /\ st.pending = None => WithPending(st, base).records = base
        /\ st.pending # None =>
             /\ WithPending(st, base).records = Append(base, st.pending.line)
             /\ WithPending(st, base).pending.line = st.pending.line
    BY <1>2, <2>1, WithPendingSound
  <2> QED BY <2>2 DEF st
<1> HIDE DEF view
<1> DEFINE removed == Pruned(Visible(view.records, p) \ PendingIndices(view), keep)
           others  == RemoveIndices(view.records, removed \cup PendingIndices(view))
<1>4. removed \in SUBSET DOMAIN view.records /\ removed \cap PendingIndices(view) = {}
  BY RemovedAreRecords
<1>5. removed # {} /\ file' = Payload(Trim(others))
  BY <1>1 DEF Finish
<1> HIDE DEF removed
<1>6. removed \in SUBSET DOMAIN base /\ others = RemoveIndices(base, removed)
  BY <1>2, <1>3, <1>4, ForgetEffect
<1>7. others \in Seq(Lines) /\ Len(others) <= Len(base)
  BY <1>2, <1>6, RemoveProperties
<1> HIDE DEF others
<1>8. Trim(others) = others
  <2>1. Len(others) <= MaxEntries
    BY <1>2, <1>7, CapacityAssumption
  <2> QED BY <1>7, <2>1, TrimProperties
<1> QED BY <1>2, <1>5, <1>6, <1>8

LEMMA ClearEffect ==
  ASSUME IInv, NEW s \in Sessions, ClearWrite(s)
  PROVE  \E removed \in SUBSET DOMAIN Load(file) :
           removed # {} /\ file' = Payload(RemoveIndices(Load(file), removed))
<1> DEFINE base == seen[s]
           st   == store[s]
<1>1. PICK p \in Scopes, pattern \in Patterns :
        LET removed == Matching(st, p, pattern)
            others  == RemoveIndices(st.records, removed \cup PendingIndices(st))
        IN  /\ removed # {}
            /\ Finish(s, "clear", Payload(others), [Without(st, removed) EXCEPT !.last = None])
  BY DEF ClearWrite
<1>2. base = Load(file) /\ base \in Seq(Lines) /\ Len(base) <= MaxEntries
  BY <1>1, SeenProperties DEF Finish
<1>3. Sound(st) /\ st.records = IF st.pending = None THEN base
                                ELSE Append(base, st.pending.line)
  BY <1>1, StoreIsSound DEF IInv, TransactionView, Finish
<1> HIDE DEF base, st
<1> DEFINE removed == Matching(st, p, pattern)
           others  == RemoveIndices(st.records, removed \cup PendingIndices(st))
<1>4. removed \in SUBSET DOMAIN st.records /\ removed \cap PendingIndices(st) = {}
  BY RemovedAreRecords
<1>5. removed # {} /\ file' = Payload(others)
  BY <1>1 DEF Finish
<1> HIDE DEF removed
<1>6. removed \in SUBSET DOMAIN base /\ others = RemoveIndices(base, removed)
  BY <1>2, <1>3, <1>4, ForgetEffect
<1> QED BY <1>2, <1>5, <1>6

LEMMA WipeEffect ==
  ASSUME NEW s \in Sessions, Wipe(s)
  PROVE  (file' = <<>> \/ file' = NoFile) /\ Load(file') = <<>>
<1>1. Trim(<<>>) = <<>>
  BY NoRecords, TrimProperties
<1>2. file' = IF HasLegacy THEN <<>> ELSE NoFile
  BY DEF Wipe, Finish
<1>3. Load(file') = Trim(<<>>)
  BY <1>2, FilesAssumption, NoRecords DEF Load
<1> QED BY <1>1, <1>2, <1>3

-----------------------------------------------------------------------------
(* Theorems. *)

\* After a commit the line that was pending is the newest of the file.
LEMMA CommitIsNewest ==
  ASSUME IInv, NEW s \in Sessions, CommitWrite(s)
  PROVE  Load(file') # <<>> /\ Newest(Load(file')) = store[s].pending.line
<1> DEFINE line    == store[s].pending.line
           records == Committed(Load(file), line)
<1>1. /\ line \in Lines /\ ~Sensitive(line)
      /\ records \in Seq(Lines) /\ Len(records) <= MaxEntries
      /\ records # <<>> /\ Newest(records) = line
      /\ file' = Payload(records)
  BY CommitEffect
<1> HIDE DEF records, line
<1>2. Load(file') = Payload(records)
  BY <1>1, LoadPayload
<1>3. Payload(records) # <<>> /\ Newest(Payload(records)) = line
  BY <1>1, PayloadProperties
<1> QED BY <1>2, <1>3 DEF line

\* No step but the write of a commit ends a commit and touches the pending line.
LEMMA CommitEnds ==
  ASSUME IInv, [Next]_vars, NEW s \in Sessions, op[s] = "commit", op'[s] = "idle"
  PROVE  CommitWrite(s) \/ store' = store
<1>1. ~UNCHANGED vars
  BY DEF vars
<1>2. PICK t \in Sessions :
        Start(t) \/ Call(t) \/ Acquire(t) \/ Complete(t) \/ Fail(t) \/ Crash(t)
  BY <1>1 DEF Next
<1>3. op' # op /\ op \in [Sessions -> FileOps \cup {"down", "idle"}]
  BY DEF IInv, TypeOK
<1>4. ~Acquire(t) /\ (Fail(t) => store' = store)
  BY <1>3 DEF Acquire, Fail
<1>5. ~Start(t) /\ ~Crash(t)
  BY <1>3 DEF Start, Crash
<1>6. ~Call(t)
  <2>1. \A st : ~InMemory(t, st)
    BY <1>3 DEF InMemory
  <2>2. ~SaveLine(t) /\ ~SaveHidden(t) /\ ~RememberCommand(t) /\ ~SetPrefix(t)
    BY <2>1, <1>3 DEF SaveLine, SaveHidden, RememberCommand, SetPrefix
  <2>3. ~PruneMemory(t) /\ ~ClearMemory(t) /\ ~SyncMemory(t) /\ ~WipeMemory(t) /\ ~FinalizeHere(t)
    BY <2>1 DEF PruneMemory, ClearMemory, SyncMemory, WipeMemory, FinalizeHere
  <2>4. ASSUME NEW name \in FileOps PROVE ~Begin(t, name)
    BY <1>3 DEF Begin, FileOps
  <2>5. ~FinalizeCommit(t) /\ ~BeginSync(t) /\ ~BeginOther(t)
    BY <2>4 DEF FinalizeCommit, BeginSync, BeginOther, FileOps
  <2> QED BY <2>2, <2>3, <2>5 DEF Call
<1>7. ASSUME NEW name, NEW contents, NEW st, Finish(t, name, contents, st)
      PROVE  t = s /\ name = "commit"
  BY <1>3, <1>7 DEF Finish
<1>8. Complete(t) => CommitWrite(s)
  <2>1. ASSUME NEW name, name # "commit", NEW contents, NEW st
        PROVE  ~Finish(t, name, contents, st)
    BY <1>7, <2>1
  <2>2. ~PruneWrite(t) /\ ~ClearWrite(t)
    BY <2>1 DEF PruneWrite, ClearWrite
  <2>3. ~ClearKeep(t) /\ ~Reload(t) /\ ~Wipe(t)
    BY <2>1 DEF ClearKeep, Reload, Wipe
  <2>4. CommitWrite(t) => t = s
    BY <1>7 DEF CommitWrite
  <2> QED BY <2>2, <2>3, <2>4 DEF Complete
<1> QED BY <1>2, <1>4, <1>5, <1>6, <1>8

\* finalize_pending gives up a kept line only when it is on disk.
THEOREM NoLineLost == Spec => PendingEndsOnDisk
<1>1. ASSUME IInv, [Next]_vars
      PROVE  \A s \in Sessions :
               op[s] = "commit" /\ op'[s] = "idle" =>
                 \/ store'[s].pending = store[s].pending
                 \/ /\ store'[s].pending = None
                    /\ Load(file') # <<>>
                    /\ Newest(Load(file')) = store[s].pending.line
  BY <1>1, CommitEnds, CommitIsNewest, CommitEffect
<1> QED BY <1>1, Invariance, PTL DEF Spec, PendingEndsOnDisk

\* What is written holds no sensitive record.
LEMMA PayloadIsPublic ==
  ASSUME NEW s \in Seq(Lines), NEW i \in DOMAIN Payload(s)
  PROVE  ~Sensitive(Payload(s)[i])
<1> DEFINE hidden == {k \in DOMAIN s : Sensitive(s[k])}
           kept   == DOMAIN s \ hidden
<1>1. Payload(s) = [j \in 1 .. Cardinality(kept) |-> s[Nth(kept, j)]]
  BY DEF Payload, RemoveIndices
<1>2. i \in 1 .. Cardinality(kept)
  BY <1>1
<1>3. Nth(kept, i) \in kept
  BY <1>2, KeptIsFinite, NthExists
<1>4. Payload(s)[i] = s[Nth(kept, i)]
  BY <1>1, <1>2
<1> QED BY <1>3, <1>4

\* No transaction writes a sensitive line, wherever it came from.
THEOREM NoSecretWritten == Spec => SecretsStayOut
<1>1. ASSUME IInv, [Next]_vars, file' # file
      PROVE  file' = NoFile \/ \A i \in DOMAIN file' : ~Sensitive(file'[i])
  <2>1. PICK s \in Sessions : CommitWrite(s) \/ PruneWrite(s) \/ ClearWrite(s) \/ Wipe(s)
    BY <1>1, OnlyWritersWrite
  <2>2. CASE CommitWrite(s)
    BY <1>1, <2>2, CommitEffect, PayloadIsPublic
  <2>3. CASE PruneWrite(s) \/ ClearWrite(s)
    <3>1. PICK removed \in SUBSET DOMAIN Load(file) :
            file' = Payload(RemoveIndices(Load(file), removed))
      BY <1>1, <2>3, PruneEffect, ClearEffect
    <3>2. RemoveIndices(Load(file), removed) \in Seq(Lines)
      BY <1>1, LoadProperties, RemoveProperties DEF IInv, TypeOK
    <3> QED BY <3>1, <3>2, PayloadIsPublic
  <2>4. CASE Wipe(s)
    BY <2>4, WipeEffect
  <2> QED BY <2>1, <2>2, <2>3, <2>4
<1> QED BY <1>1, Invariance, PTL DEF Spec, SecretsStayOut

-----------------------------------------------------------------------------
(* Refinement. *)

\* The instance of HistoryLog computes with the same operators.
LEMMA SameOperators ==
  /\ \A s, removed : Log!RemoveIndices(s, removed) = RemoveIndices(s, removed)
  /\ \A s : Log!Payload(s) = Payload(s)
  /\ \A s, line : Log!Committed(s, line) = Committed(s, line)
<1>1. \A s, removed : Log!RemoveIndices(s, removed) = RemoveIndices(s, removed)
  <2>1. \A S : Log!Cardinality(S) = Cardinality(S)
    BY DEF Log!Cardinality, Cardinality, Log!IsFiniteSet, IsFiniteSet
  <2>2. \A K, i : Log!Rank(K, i) = Rank(K, i)
    BY <2>1 DEF Log!Rank, Rank
  <2>3. \A K, j : Log!Nth(K, j) = Nth(K, j)
    BY <2>2 DEF Log!Nth, Nth
  <2> QED BY <2>1, <2>3 DEF Log!RemoveIndices, RemoveIndices
<1>2. \A line : Log!Sensitive(line) = Sensitive(line)
  BY DEF Log!Sensitive, Sensitive
<1>3. \A s : Log!Payload(s) = Payload(s)
  BY <1>1, <1>2 DEF Log!Payload, Payload
<1>4. \A s, line : Log!Committed(s, line) = Committed(s, line)
  BY DEF Log!Committed, Committed, Log!Trim, Trim, Log!IsDuplicate, IsDuplicate,
         Log!Newest, Newest
<1> QED BY <1>1, <1>3, <1>4

\* The file, as a process loads it, behaves as the abstract log: each commit
\* appends to what every process last wrote, and nothing else adds a line.
THEOREM Refinement == Spec => SharedLog
<1>1. Init => Log!Init
  BY LoadProperties, FilesAssumption DEF Init, Log!Init
<1>2. ASSUME IInv, [Next]_vars
      PROVE  [Log!Next]_(Load(file))
  <2> SUFFICES ASSUME Load(file') # Load(file) PROVE Log!Next
    BY DEF Load
  <2>1. PICK s \in Sessions : CommitWrite(s) \/ PruneWrite(s) \/ ClearWrite(s) \/ Wipe(s)
    BY <1>2, OnlyWritersWrite
  <2>2. CASE CommitWrite(s)
    <3> DEFINE line    == store[s].pending.line
               records == Committed(Load(file), line)
    <3>1. /\ line \in Lines /\ file' = Payload(records)
          /\ records \in Seq(Lines) /\ Len(records) <= MaxEntries
      BY <1>2, <2>2, CommitEffect
    <3>2. Load(file') = Payload(records)
      BY <3>1, LoadPayload
    <3>3. Log!Append1(line)
      BY <3>2, SameOperators DEF Log!Append1, Load
    <3> QED BY <3>1, <3>3 DEF Log!Next
  <2>3. CASE PruneWrite(s) \/ ClearWrite(s)
    <3>1. PICK removed \in SUBSET DOMAIN Load(file) :
            removed # {} /\ file' = Payload(RemoveIndices(Load(file), removed))
      BY <1>2, <2>3, PruneEffect, ClearEffect
    <3> DEFINE left == RemoveIndices(Load(file), removed)
    <3>2. Load(file) \in Seq(Lines) /\ Len(Load(file)) <= MaxEntries
      BY <1>2, LoadProperties DEF IInv, TypeOK
    <3>3. left \in Seq(Lines) /\ Len(left) <= Len(Load(file))
      BY <3>2, RemoveProperties
    <3> HIDE DEF left
    <3>4. Len(left) <= MaxEntries
      BY <3>2, <3>3, CapacityAssumption
    <3>5. Load(file') = Payload(left)
      BY <3>1, <3>3, <3>4, LoadPayload DEF left
    <3>6. Log!Forget(removed)
      BY <3>1, <3>5, SameOperators DEF Log!Forget, Load, left
    <3> QED BY <3>6 DEF Log!Next
  <2>4. CASE Wipe(s)
    <3>1. Log!Empty
      BY <2>4, WipeEffect DEF Log!Empty, Load
    <3> QED BY <3>1 DEF Log!Next
  <2> QED BY <2>1, <2>2, <2>3, <2>4
<1> QED BY <1>1, <1>2, Invariance, PTL DEF Spec, SharedLog, Log!Spec

=============================================================================
