--------------------------- MODULE Plugins_proofs ---------------------------
(***************************************************************************)
(* What PluginRun, DisabledList and PluginCatalog guarantee for any amount *)
(* of output and for any processes, names, search order and executables.   *)
(***************************************************************************)
EXTENDS PluginCatalog, PluginRun, DisabledList, TLAPS

-----------------------------------------------------------------------------
(* A captured run. *)

\* What the host has when it stops reading is enough for good: the child is gone
\* or nobody has the pipe. It knows of an exit only after the fact.
RunInv ==
  /\ RunTypeOK
  /\ open => ~exited
  /\ saw => exited
  /\ ~exited => owed = sent
  /\ stage = "empty" /\ saw => got >= owed
  /\ capture /\ stage \in {"wait", "returned"} => got >= owed /\ (exited \/ (~open /\ ~left))

LEMMA RunInvInit == RunInit => RunInv
<1> SUFFICES ASSUME RunInit PROVE RunInv
  OBVIOUS
<1>1. exited = FALSE /\ saw = FALSE /\ left = FALSE /\ sent = 0 /\ owed = 0 /\ got = 0
  BY DEF RunInit
<1>2. open \in BOOLEAN /\ capture \in BOOLEAN /\ (capture => stage = "probe")
       /\ stage \in {"probe", "wait"}
  BY DEF RunInit
<1>3. RunTypeOK
  <2>1. exited \in BOOLEAN /\ saw \in BOOLEAN /\ left \in BOOLEAN
    BY <1>1, Zenon
  <2>2. sent \in 0 .. MaxWritten /\ owed \in 0 .. sent /\ got \in 0 .. sent
    BY <1>1, PiecesAssumption
  <2> QED BY <1>2, <2>1, <2>2 DEF RunTypeOK
<1>4. ~(capture /\ stage \in {"wait", "returned"}) /\ stage # "empty"
  BY <1>2
<1> QED BY <1>1, <1>3, <1>4 DEF RunInv

LEMMA RunInvStep == RunInv /\ [RunNext]_runVars => RunInv'
<1> SUFFICES ASSUME RunInv, [RunNext]_runVars PROVE RunInv'
  OBVIOUS
<1> USE PiecesAssumption DEF RunInv, RunTypeOK
<1>1. CASE WriteOut
  BY <1>1 DEF WriteOut
<1>2. CASE Fork
  BY <1>2 DEF Fork
<1>3. CASE CloseStdout
  BY <1>3 DEF CloseStdout
<1>4. CASE Exit
  BY <1>4 DEF Exit
<1>5. CASE DescendantEnds
  BY <1>5 DEF DescendantEnds
<1>6. CASE Probe \/ ReadNothing \/ Decide \/ Wait
  BY <1>6 DEF Probe, ReadNothing, Decide, Wait, Unread, AtEnd
<1>7. CASE ReadSome
  BY <1>7 DEF ReadSome, Unread
<1>8. CASE UNCHANGED runVars
  BY <1>8 DEF runVars
<1> QED BY <1>1, <1>2, <1>3, <1>4, <1>5, <1>6, <1>7, <1>8 DEF RunNext, HostReads

\* A captured run returns everything written before its child exited.
THEOREM CaptureIsComplete == RunSpec => []CapturedIsComplete
<1>1. RunInv => CapturedIsComplete
  BY DEF RunInv, CapturedIsComplete
<1> QED BY RunInvInit, RunInvStep, <1>1, PTL DEF RunSpec

-----------------------------------------------------------------------------
(* The list of disabled names. *)

\* What a process is about to write is a list with the name it was asked to put
\* in or out, and has the choices that were made before it was read.
EditKnows(h) ==
  /\ edit[h].name \in edit[h].names <=> edit[h].kind = "disable"
  /\ \A name \in Switchable \ unseen[h] : name # edit[h].name /\ choice[name] # Nothing =>
       (name \in edit[h].names <=> choice[name] = "disable")

ListInv ==
  /\ ListTypeOK
  /\ ChoicesStand
  /\ \A h \in Hosts : edit[h] # Nothing => EditKnows(h)

Edits == [kind : {"enable", "disable"}, name : Switchable, names : Lists]

\* A process goes by a list, whatever gives it.
LEMMA ListsResolved ==
  ASSUME ListTypeOK, NEW h \in Hosts
  PROVE  Resolved(h) \in Lists /\ InSession(h) \in Lists
<1>1. above[h] \in Lists \cup {Nothing} /\ override[h] \in Lists \cup {Nothing}
  BY DEF ListTypeOK, Gives, MaybeList
<1>2. stored \in Lists \cup {Nothing} /\ Below \in Lists
  BY ListsAssumption DEF ListTypeOK
<1> HIDE DEF Lists
<1> QED BY <1>1, <1>2 DEF Resolved, InSession, OrElse

LEMMA GivenLists ==
  ASSUME NEW lists \in [Hosts -> SUBSET Lists], NEW given \in Gives(lists), NEW h \in Hosts,
         NEW list \in lists[h] \cup {Nothing}
  PROVE  [given EXCEPT ![h] = list] \in Gives(lists)
<1> HIDE DEF Lists
<1> QED BY DEF Gives, MaybeList

LEMMA ListInvInit == ListInit => ListInv
<1> SUFFICES ASSUME ListInit PROVE ListInv
  OBVIOUS
<1>1. \A h \in Hosts : InSession(h) \in Lists
  <2>1. TAKE h \in Hosts
  <2>2. above[h] \in Lists \cup {Nothing} /\ override[h] \in Lists \cup {Nothing}
    BY DEF ListInit, Gives, MaybeList
  <2>3. stored \in Lists \cup {Nothing} /\ Below \in Lists
    BY ListsAssumption DEF ListInit, MaybeList
  <2> HIDE DEF Lists
  <2> QED BY <2>2, <2>3 DEF Resolved, InSession, OrElse
<1>2. ListTypeOK
  <2> HIDE DEF Lists
  <2> QED BY <1>1 DEF ListInit, ListTypeOK, MaybeList
<1>3. ChoicesStand
  BY DEF ListInit, ChoicesStand
<1> QED BY <1>2, <1>3 DEF ListInv, ListInit

\* A step that leaves the file, the edits and the choices keeps all that is said
\* of them.
LEMMA ListKept ==
  ASSUME ListInv, ListTypeOK', UNCHANGED <<stored, choice>>,
         \A h \in Hosts : edit'[h] = Nothing \/ (edit'[h] = edit[h] /\ unseen'[h] = unseen[h])
  PROVE  ListInv'
<1>1. ChoicesStand'
  BY DEF ListInv, ChoicesStand
<1>2. ASSUME NEW h \in Hosts, edit'[h] # Nothing PROVE EditKnows(h)'
  BY <1>2 DEF ListInv, EditKnows
<1> QED BY <1>1, <1>2 DEF ListInv

\* What is read has the choices that the file has, unless it is from above.
LEMMA ReadsKeep ==
  ASSUME ListInv, NEW h \in Hosts, SwitchReads(h)
  PROVE  ListInv'
<1>1. PICK name \in Switchable, kind \in {"enable", "disable"} :
        edit' = [edit EXCEPT ![h] = [kind |-> kind, name |-> name,
                   names |-> (Resolved(h) \ {name}) \cup (IF kind = "disable" THEN {name} ELSE {})]]
  BY DEF SwitchReads, Basis
<1> DEFINE names == (Resolved(h) \ {name}) \cup (IF kind = "disable" THEN {name} ELSE {})
           new   == [kind |-> kind, name |-> name, names |-> names]
<1>2. ListTypeOK /\ Resolved(h) \in Lists
  BY ListsResolved DEF ListInv
<1>3. new \in Edits /\ new.name = name /\ new.names = names /\ new.kind = kind
  BY <1>2 DEF Edits, Lists
<1>4. names = new.names /\ (name \in names <=> kind = "disable")
      /\ \A other \in Switchable \ {name} : other \in names <=> other \in Resolved(h)
  BY <1>3
<1> HIDE DEF names, new
<1>5. edit' = [edit EXCEPT ![h] = new]
  BY <1>1 DEF new, names
<1>6. edit'[h] = new /\ \A g \in Hosts : g # h => edit'[g] = edit[g]
  BY <1>2, <1>5 DEF ListTypeOK
<1>7. unseen' = [unseen EXCEPT ![h] = IF above[h] = Nothing THEN {} ELSE Switchable]
      /\ UNCHANGED <<stored, above, override, manager, choice>>
  BY DEF SwitchReads
<1>8. ListTypeOK'
  <2>1. edit' \in [Hosts -> Edits \cup {Nothing}]
    BY <1>2, <1>3, <1>5 DEF ListTypeOK, Edits
  <2>2. unseen' \in [Hosts -> SUBSET Switchable]
    BY <1>2, <1>7 DEF ListTypeOK
  <2> QED BY <1>2, <1>7, <2>1, <2>2 DEF ListTypeOK, Edits
<1>9. ChoicesStand'
  BY <1>7 DEF ListInv, ChoicesStand
<1>10. EditKnows(h)'
  <2>1. CASE above[h] = Nothing
    <3>1. ASSUME NEW other \in Switchable, choice[other] # Nothing
          PROVE  other \in Resolved(h) <=> choice[other] = "disable"
      BY <2>1, <3>1 DEF ListInv, ChoicesStand, Resolved, OrElse
    <3> QED BY <1>3, <1>4, <1>6, <1>7, <3>1 DEF EditKnows
  <2>2. CASE above[h] # Nothing
    <3>1. unseen'[h] = Switchable
      BY <1>2, <1>7, <2>2 DEF ListTypeOK
    <3> QED BY <1>3, <1>4, <1>6, <3>1 DEF EditKnows
  <2> QED BY <2>1, <2>2
<1>11. ASSUME NEW g \in Hosts, g # h, edit'[g] # Nothing PROVE EditKnows(g)'
  <2>1. unseen'[g] = unseen[g]
    BY <1>2, <1>7, <1>11 DEF ListTypeOK
  <2> QED BY <1>6, <1>7, <1>11, <2>1 DEF ListInv, EditKnows
<1> QED BY <1>8, <1>9, <1>10, <1>11 DEF ListInv

\* A list that is written keeps the choices it knows; those in hand elsewhere no
\* longer know its name.
LEMMA ReplaceKeeps ==
  ASSUME ListInv, NEW h \in Hosts, NEW own \in {edit[h].kind, Nothing}, Replace(h, own),
         manager' \in [Hosts -> Lists], UNCHANGED <<above, override>>
  PROVE  ListInv'
<1>1. ListTypeOK /\ edit[h] # Nothing /\ EditKnows(h) /\ ChoicesStand
  BY DEF ListInv, Replace
<1>2. edit[h] \in Edits
  BY <1>1 DEF ListTypeOK, Edits
<1>3. edit[h].names \in Lists /\ edit[h].name \in Switchable /\ edit[h].kind \in {"enable", "disable"}
  BY <1>2 DEF Edits
<1>4. edit[h].names # Nothing
  BY <1>3, NothingAssumption
<1>5. stored' = edit[h].names /\ edit' = [edit EXCEPT ![h] = Nothing] /\ choice' = Choices(h, own)
  BY DEF Replace
<1>6. \A g \in Hosts :
        unseen'[g] = IF g # h /\ edit[g] # Nothing THEN unseen[g] \cup {edit[h].name} ELSE {}
  BY DEF Replace
<1>7. \A name \in Switchable :
        choice'[name] = IF name = edit[h].name THEN own
                        ELSE IF name \in unseen[h] THEN Nothing ELSE choice[name]
  BY <1>5 DEF Choices
<1>8. ListTypeOK'
  <2>1. choice' \in [Switchable -> {"enable", "disable", Nothing}]
    BY <1>1, <1>3, <1>5 DEF Choices, ListTypeOK
  <2>2. unseen' \in [Hosts -> SUBSET Switchable]
    BY <1>1, <1>3 DEF Replace, ListTypeOK
  <2>3. edit' \in [Hosts -> Edits \cup {Nothing}]
    BY <1>1, <1>5 DEF ListTypeOK, Edits
  <2> QED BY <1>1, <1>3, <1>5, <2>1, <2>2, <2>3 DEF ListTypeOK, Edits
<1>9. ChoicesStand'
  <2>1. ASSUME NEW name \in Switchable, choice'[name] # Nothing
        PROVE  name \in edit[h].names <=> choice'[name] = "disable"
    <3>1. CASE name = edit[h].name
      BY <1>1, <1>3, <1>7, <2>1, <3>1 DEF EditKnows
    <3>2. CASE name # edit[h].name
      BY <1>1, <1>7, <2>1, <3>2 DEF EditKnows
    <3> QED BY <3>1, <3>2
  <2> QED BY <1>4, <1>5, <2>1 DEF ChoicesStand
<1>10. ASSUME NEW g \in Hosts, edit'[g] # Nothing PROVE EditKnows(g)'
  <2>1. g # h /\ edit'[g] = edit[g]
    BY <1>1, <1>5, <1>10 DEF ListTypeOK
  <2>2. EditKnows(g) /\ unseen'[g] = unseen[g] \cup {edit[h].name}
    BY <1>6, <1>10, <2>1 DEF ListInv
  <2>3. ASSUME NEW name \in Switchable \ unseen'[g], choice'[name] # Nothing
        PROVE  choice'[name] = choice[name]
    BY <1>7, <2>2, <2>3
  <2> QED BY <2>1, <2>2, <2>3 DEF EditKnows
<1> QED BY <1>8, <1>9, <1>10 DEF ListInv

LEMMA ListInvStep == ListInv /\ [ListNext]_listVars => ListInv'
<1> SUFFICES ASSUME ListInv, [ListNext]_listVars PROVE ListInv'
  OBVIOUS
<1>0. ListTypeOK /\ \A h \in Hosts : InSession(h) \in Lists
  BY ListsResolved DEF ListInv
<1>1. ASSUME NEW h \in Hosts, SwitchReads(h) PROVE ListInv'
  BY <1>1, ReadsKeep
<1>2. ASSUME NEW h \in Hosts, SwitchWrites(h) PROVE ListInv'
  <2>1. edit[h] \in Edits
    BY <1>0, <1>2 DEF SwitchWrites, Replace, ListTypeOK, Edits
  <2>2. manager' \in [Hosts -> Lists]
    BY <1>0, <1>2, <2>1 DEF SwitchWrites, ListTypeOK, Edits
  <2> QED BY <1>2, <2>2, ReplaceKeeps DEF SwitchWrites
<1>3. ASSUME NEW h \in Hosts, SwitchFailsLate(h) PROVE ListInv'
  BY <1>0, <1>3, ReplaceKeeps DEF SwitchFailsLate, ListTypeOK
<1>4. ASSUME NEW h \in Hosts, SwitchFails(h) PROVE ListInv'
  <2>1. ListTypeOK'
    BY <1>0, <1>4 DEF SwitchFails, ListTypeOK
  <2> QED BY <1>0, <1>4, <2>1, ListKept DEF SwitchFails, ListTypeOK
<1>5. ASSUME NEW h \in Hosts, OverrideList(h) PROVE ListInv'
  <2>0. PICK list \in Overrides[h] \cup {Nothing} : override' = [override EXCEPT ![h] = list]
    BY <1>5 DEF OverrideList
  <2>1. override' \in Gives(Overrides)
    <3>1. Overrides \in [Hosts -> SUBSET Lists] /\ override \in Gives(Overrides)
      BY <1>0, ListsAssumption DEF ListTypeOK
    <3>2. [override EXCEPT ![h] = list] \in Gives(Overrides)
      BY <3>1, GivenLists
    <3> QED BY <2>0, <3>2
  <2>2. ListTypeOK'
    BY <1>0, <1>5, <2>1 DEF OverrideList, ListTypeOK
  <2> QED BY <1>5, <2>2, ListKept DEF OverrideList
<1>6. ASSUME NEW h \in Hosts, Rebuild(h) PROVE ListInv'
  <2>1. manager' \in [Hosts -> Lists]
    BY <1>0, <1>6 DEF Rebuild, ListTypeOK
  <2>2. ListTypeOK'
    BY <1>0, <1>6, <2>1 DEF Rebuild, ListTypeOK
  <2> QED BY <1>6, <2>2, ListKept DEF Rebuild
<1>7. ASSUME NEW h \in Hosts, HostStarts(h) PROVE ListInv'
  <2>0. PICK list \in Outranking[h] \cup {Nothing}, other \in Overrides[h] \cup {Nothing} :
          above' = [above EXCEPT ![h] = list] /\ override' = [override EXCEPT ![h] = other]
    BY <1>7 DEF HostStarts
  <2>1. above' \in Gives(Outranking) /\ override' \in Gives(Overrides)
    <3>1. /\ Outranking \in [Hosts -> SUBSET Lists] /\ above \in Gives(Outranking)
          /\ Overrides \in [Hosts -> SUBSET Lists] /\ override \in Gives(Overrides)
      BY <1>0, ListsAssumption DEF ListTypeOK
    <3>2. [above EXCEPT ![h] = list] \in Gives(Outranking)
      BY <3>1, GivenLists
    <3>3. [override EXCEPT ![h] = other] \in Gives(Overrides)
      BY <3>1, GivenLists
    <3> QED BY <2>0, <3>2, <3>3
  <2>2. InSession(h)' \in Lists
    <3>1. above'[h] \in Lists \cup {Nothing} /\ override'[h] \in Lists \cup {Nothing}
      BY <2>1 DEF Gives, MaybeList
    <3>2. stored' \in Lists \cup {Nothing} /\ Below \in Lists
      BY <1>0, <1>7, ListsAssumption DEF HostStarts, ListTypeOK
    <3> HIDE DEF Lists
    <3> QED BY <3>1, <3>2 DEF Resolved, InSession, OrElse
  <2>3. manager' = [manager EXCEPT ![h] = InSession(h)'] /\ UNCHANGED <<stored, choice>>
        /\ edit' = [edit EXCEPT ![h] = Nothing] /\ unseen' = [unseen EXCEPT ![h] = {}]
    BY <1>7 DEF HostStarts
  <2> HIDE DEF InSession
  <2>4. ListTypeOK'
    BY <1>0, <2>1, <2>2, <2>3 DEF ListTypeOK
  <2> QED BY <1>0, <2>3, <2>4, ListKept DEF ListTypeOK
<1>8. CASE StoreOutside
  <2>1. ListTypeOK'
    BY <1>0, <1>8 DEF StoreOutside, ListTypeOK, MaybeList
  <2>2. ChoicesStand' /\ \A h \in Hosts : edit'[h] # Nothing => EditKnows(h)'
    BY <1>8 DEF StoreOutside, ChoicesStand, EditKnows, ListInv
  <2> QED BY <2>1, <2>2 DEF ListInv
<1>9. CASE OutrankOutside
  <2>1. ListTypeOK'
    BY <1>0, <1>9 DEF OutrankOutside, ListTypeOK
  <2> QED BY <1>9, <2>1, ListKept DEF OutrankOutside
<1>10. CASE UNCHANGED listVars
  <2>1. ListTypeOK'
    BY <1>0, <1>10 DEF listVars, ListTypeOK
  <2> QED BY <1>10, <2>1, ListKept DEF listVars
<1> QED BY <1>1, <1>2, <1>3, <1>4, <1>5, <1>6, <1>7, <1>8, <1>9, <1>10 DEF ListNext

\* For any processes, names, variables and overrides: what a command asked of a
\* name stays in the profile's list until another command on the name, an edit
\* from outside, or a command that did not know of it.
THEOREM ChoicesAreKept == ListSpec => []ChoicesStand
<1>1. ListInv => ChoicesStand
  BY DEF ListInv
<1> QED BY ListInvInit, ListInvStep, <1>1, PTL DEF ListSpec

-----------------------------------------------------------------------------
(* The describe cache. *)

Honest(path, entry) ==
  entry.print = installed[File[path]] => entry.says \in {Failed, Printed(installed[File[path]])}

\* Metadata is worth something as long as the fingerprint still holds, and a
\* fingerprint of the past never holds again: versions are numbered in order.
EntryFits(path, entry) == entry.print <= latest /\ Honest(path, entry)

JobFits(path, job) ==
  LET now == installed[File[path]] IN
  /\ job.print <= latest
  /\ job.stage \notin {"held", "done"} => job.says = None
  /\ job.print = now =>
       /\ job.stage = "spawn" => now \notin Plain
       /\ job.stage = "running" => job.ran = now /\ now \notin Plain
       /\ job.stage \in {"held", "done"} => job.says \in {Failed, Printed(now)}

CacheFits(cache) == cache # None => \A path \in Paths : cache[path] # None => EntryFits(path, cache[path])

WorldOK ==
  /\ installed \in [Files -> Versions \cup {Absent}]
  /\ latest \in 0 .. MaxVersions
  /\ \A f \in Files : installed[f] <= latest

CacheInv ==
  /\ WorldOK
  /\ cached \in Cache /\ CacheFits(cached)
  /\ old \in [Processes -> Cache] /\ \A p \in Processes : CacheFits(old[p])
  /\ jobs \in [Processes -> [Paths -> Job \cup {None}]]
  /\ \A p \in Processes, path \in Paths : jobs[p][path] # None => JobFits(path, jobs[p][path])

cacheVars == <<installed, latest, cached, old, jobs>>

LEMMA PathHasFile == \A path \in Paths : File[path] \in Files
  BY DEF Files

\* Nothing that fitted stops to fit when an executable comes or goes.
LEMMA WorldMovesOn ==
  ASSUME WorldOK, NEW f \in Files, Install(f) \/ Uninstall(f), NEW path \in Paths
  PROVE  /\ WorldOK'
         /\ latest <= latest'
         /\ \A v \in Versions : v <= latest /\ v = installed'[File[path]] => v = installed[File[path]]
<1>1. File[path] \in Files
  BY PathHasFile
<1>2. CASE Install(f)
  <2>1. latest' = latest + 1 /\ latest' \in Versions
    BY <1>2, VersionsAssumption DEF Install, WorldOK, Versions
  <2> QED BY <1>1, <1>2, <2>1, VersionsAssumption DEF Install, WorldOK, Versions, Absent
<1>3. CASE Uninstall(f)
  BY <1>1, <1>3, VersionsAssumption DEF Uninstall, WorldOK, Versions, Absent
<1> QED BY <1>2, <1>3

LEMMA WorldStep ==
  ASSUME CacheInv, NEW f \in Files, Install(f) \/ Uninstall(f)
  PROVE  CacheInv'
<1>1. UNCHANGED <<cached, old, jobs>>
  BY DEF Install, Uninstall, searchVars
<1>2. WorldOK'
  <2>1. CASE Paths = {}
    BY <2>1 DEF Files
  <2>2. CASE Paths # {}
    BY <2>2, WorldMovesOn DEF CacheInv
  <2> QED BY <2>1, <2>2
<1>3. \A path \in Paths, e \in Entry : EntryFits(path, e) => EntryFits(path, e)'
  <2> SUFFICES ASSUME NEW path \in Paths, NEW e \in Entry, EntryFits(path, e)
               PROVE  EntryFits(path, e)'
    OBVIOUS
  <2>1. e.print \in Versions /\ e.print <= latest /\ latest <= latest' /\ latest \in Nat /\ latest' \in Nat
    BY <1>2, WorldMovesOn DEF EntryFits, Entry, CacheInv, WorldOK
  <2>2. e.print = installed'[File[path]] => e.print = installed[File[path]]
    BY <2>1, WorldMovesOn DEF CacheInv
  <2> QED BY <2>1, <2>2, VersionsAssumption DEF EntryFits, Honest, Versions
<1>4. \A path \in Paths, j \in Job : JobFits(path, j) => JobFits(path, j)'
  <2> SUFFICES ASSUME NEW path \in Paths, NEW j \in Job, JobFits(path, j)
               PROVE  JobFits(path, j)'
    OBVIOUS
  <2>1. j.print \in Versions /\ j.print <= latest /\ latest <= latest' /\ latest \in Nat /\ latest' \in Nat
    BY <1>2, WorldMovesOn DEF JobFits, Job, CacheInv, WorldOK
  <2>2. j.print = installed'[File[path]] => j.print = installed[File[path]]
    BY <2>1, WorldMovesOn DEF CacheInv
  <2> QED BY <2>1, <2>2, VersionsAssumption DEF JobFits, Versions
<1>5. \A c \in Cache : CacheFits(c) => CacheFits(c)'
  BY <1>3 DEF CacheFits, Cache
<1>6. CacheFits(cached)' /\ \A p \in Processes : CacheFits(old[p])'
  <2>1. cached \in Cache /\ CacheFits(cached) /\ \A p \in Processes : old[p] \in Cache /\ CacheFits(old[p])
    BY DEF CacheInv
  <2> QED BY <1>1, <1>5, <2>1 DEF CacheFits
<1>7. \A p \in Processes, path \in Paths : (jobs[p][path] # None => JobFits(path, jobs[p][path]))'
  BY <1>1, <1>4 DEF CacheInv, JobFits
<1> QED BY <1>1, <1>2, <1>6, <1>7 DEF CacheInv

-----------------------------------------------------------------------------
(* The steps of a process. *)

\* A step of one metadata job that leaves it fitting is all right, whatever else
\* is going on.
LEMMA OneJob ==
  ASSUME CacheInv, NEW p \in Processes, NEW path \in Paths, NEW job \in Job,
         JobFits(path, job), jobs' = [jobs EXCEPT ![p][path] = job],
         UNCHANGED <<installed, latest, cached, old>>
  PROVE  CacheInv'
<1>1. jobs' \in [Processes -> [Paths -> Job \cup {None}]]
  BY DEF CacheInv
<1>2. ASSUME NEW q \in Processes, NEW r \in Paths, jobs'[q][r] # None
      PROVE  JobFits(r, jobs'[q][r])
  <2>1. CASE q = p /\ r = path
    BY <2>1 DEF CacheInv
  <2>2. CASE ~(q = p /\ r = path)
    <3>1. jobs'[q][r] = jobs[q][r]
      BY <2>2 DEF CacheInv
    <3> QED BY <1>2, <3>1 DEF CacheInv
  <2> QED BY <2>1, <2>2
<1>3. \A q \in Processes, r \in Paths : (jobs[q][r] # None => JobFits(r, jobs[q][r]))'
  BY <1>2 DEF JobFits
<1>4. WorldOK' /\ CacheFits(cached)' /\ \A q \in Processes : CacheFits(old[q])'
  BY DEF CacheInv, WorldOK, CacheFits, EntryFits, Honest
<1> QED BY <1>1, <1>3, <1>4 DEF CacheInv

\* The job a process is about to work on.
LEMMA CurrentJob ==
  ASSUME CacheInv, NEW p \in Processes, NEW path \in Paths, NEW where, AtStage(p, path, where)
  PROVE  /\ jobs[p][path] \in Job
         /\ jobs[p][path].stage = where
         /\ JobFits(path, jobs[p][path])
  BY DEF CacheInv, AtStage

LEMMA ReadMarkerStep ==
  ASSUME CacheInv, NEW p \in Processes, NEW path \in Paths, ReadMarker(p, path)
  PROVE  CacheInv'
<1> DEFINE now == installed[File[path]]
           job == [jobs[p][path] EXCEPT !.stage = IF now = Absent \/ now \in Plain THEN "done" ELSE "spawn"]
<1>1. jobs[p][path] \in Job /\ jobs[p][path].stage = "marker" /\ JobFits(path, jobs[p][path])
  BY CurrentJob DEF ReadMarker
<1>2. jobs' = [jobs EXCEPT ![p][path] = job] /\ UNCHANGED <<installed, latest, cached, old>>
  BY DEF ReadMarker, worldVars, CacheInv
<1>3. job \in Job /\ job.print = jobs[p][path].print /\ job.says = jobs[p][path].says
  BY <1>1 DEF Job
<1>4. now = Absent => job.print # now
  BY <1>1, <1>3 DEF Job, Versions, Absent
<1>5. JobFits(path, job)
  <2>1. CASE now = Absent
    BY <1>1, <1>3, <1>4, <2>1 DEF JobFits, Job
  <2>2. CASE now # Absent /\ now \in Plain
    BY <1>1, <1>3, <2>2 DEF JobFits, Job, Printed
  <2>3. CASE now # Absent /\ now \notin Plain
    BY <1>1, <1>3, <2>3 DEF JobFits, Job
  <2> QED BY <2>1, <2>2, <2>3
<1> QED BY <1>2, <1>3, <1>5, OneJob

LEMMA SpawnStep ==
  ASSUME CacheInv, NEW p \in Processes, NEW path \in Paths, SpawnDescribe(p, path)
  PROVE  CacheInv'
<1> DEFINE now == installed[File[path]]
           old_ == jobs[p][path]
           job == IF now = Absent THEN [old_ EXCEPT !.says = Failed, !.stage = "done"]
                  ELSE [old_ EXCEPT !.ran = now, !.stage = "running"]
<1>1. old_ \in Job /\ old_.stage = "spawn" /\ JobFits(path, old_)
  BY CurrentJob DEF SpawnDescribe
<1>2. jobs' = [jobs EXCEPT ![p][path] = job] /\ UNCHANGED <<installed, latest, cached, old>>
  BY DEF SpawnDescribe, worldVars, CacheInv
<1>3. CASE now = Absent
  <2>1. job \in Job /\ job.print = old_.print /\ job.says = Failed /\ job.stage = "done"
    BY <1>1, <1>3 DEF Job, Says
  <2>2. JobFits(path, job)
    BY <1>1, <2>1 DEF JobFits, Job
  <2> QED BY <1>2, <2>1, <2>2, OneJob
<1>4. CASE now # Absent
  <2>1. now \in Versions
    BY <1>4, PathHasFile DEF CacheInv, WorldOK
  <2>2. /\ job \in Job /\ job.print = old_.print /\ job.says = old_.says
        /\ job.ran = now /\ job.stage = "running"
    BY <1>1, <1>4, <2>1 DEF Job
  <2>3. JobFits(path, job)
    BY <1>1, <2>2 DEF JobFits, Job
  <2> QED BY <1>2, <2>2, <2>3, OneJob
<1> QED BY <1>3, <1>4

\* An answer, a timeout, and the end of whoever had the pipe.
LEMMA EndStep ==
  ASSUME CacheInv, NEW p \in Processes, NEW path \in Paths,
         Answer(p, path) \/ TimeOut(p, path)
  PROVE  CacheInv'
<1> DEFINE before == jobs[p][path]
<1>1. before \in Job /\ before.stage = "running" /\ JobFits(path, before)
  BY CurrentJob DEF Answer, TimeOut
<1>2. PICK says \in {Failed} \cup ({before.ran} \ Plain), ending \in GroupKilled :
        jobs' = [jobs EXCEPT ![p][path].says = says, ![p][path].ran = None, ![p][path].stage = ending]
  BY DEF Answer, TimeOut
<1> DEFINE job == [before EXCEPT !.says = says, !.ran = None, !.stage = ending]
<1>3. jobs' = [jobs EXCEPT ![p][path] = job] /\ UNCHANGED <<installed, latest, cached, old>>
  <2>1. UNCHANGED <<installed, latest, cached, old>>
    BY DEF Answer, TimeOut, worldVars
  <2>2. jobs' = [jobs EXCEPT ![p][path] = job]
    BY <1>2 DEF CacheInv
  <2> QED BY <2>1, <2>2
<1>4. says \in Says
  BY <1>1 DEF Job, Says
<1>5. job \in Job /\ job.print = before.print /\ job.says = says /\ job.stage \in {"held", "done"}
  BY <1>1, <1>4 DEF Job, GroupKilled
<1>6. JobFits(path, job)
  BY <1>1, <1>5 DEF JobFits, Job, Printed
<1> QED BY <1>3, <1>5, <1>6, OneJob

LEMMA LetGoStep ==
  ASSUME CacheInv, NEW p \in Processes, NEW path \in Paths, LetGo(p, path)
  PROVE  CacheInv'
<1> DEFINE job == [jobs[p][path] EXCEPT !.stage = "done"]
<1>1. jobs[p][path] \in Job /\ jobs[p][path].stage = "held" /\ JobFits(path, jobs[p][path])
  BY CurrentJob DEF LetGo
<1>2. jobs' = [jobs EXCEPT ![p][path] = job] /\ UNCHANGED <<installed, latest, cached, old>>
  BY DEF LetGo, worldVars, CacheInv
<1>3. job \in Job /\ job.print = jobs[p][path].print /\ job.says = jobs[p][path].says /\ job.stage = "done"
  BY <1>1 DEF Job
<1>4. JobFits(path, job)
  BY <1>1, <1>3 DEF JobFits, Job
<1> QED BY <1>2, <1>3, <1>4, OneJob

\* What was cached under the fingerprint that was taken is used as it is.
LEMMA JobForFits ==
  ASSUME CacheInv, NEW p \in Processes, NEW path \in Paths, Present(p, path)
  PROVE  JobFor(p, path) \in Job /\ JobFits(path, JobFor(p, path))
<1> DEFINE now == installed[File[path]]
           known == old[p] # None /\ old[p][path] # None /\ old[p][path].print = now
<1>1. now \in Versions /\ now <= latest
  BY PathHasFile DEF Present, CacheInv, WorldOK
<1>2. CASE known
  <2>1. old[p][path] \in Entry /\ EntryFits(path, old[p][path])
    BY <1>2 DEF CacheInv, CacheFits, Cache
  <2>2. PICK says \in Says : says = old[p][path].says
    BY <2>1 DEF Entry
  <2>3. says \in {Failed, Printed(now)}
    BY <1>2, <2>1, <2>2 DEF EntryFits, Honest
  <2>4. JobFor(p, path) = [print |-> now, says |-> says, ran |-> None, stage |-> "done"]
    BY <1>2, <2>2 DEF JobFor
  <2> HIDE DEF now
  <2>5. JobFor(p, path) \in Job
    BY <1>1, <2>4 DEF Job
  <2> QED BY <1>1, <2>3, <2>4, <2>5 DEF JobFits, now
<1>3. CASE ~known
  <2>1. JobFor(p, path) = [print |-> now, says |-> None, ran |-> None, stage |-> "marker"]
    BY <1>3 DEF JobFor
  <2> HIDE DEF now
  <2>2. JobFor(p, path) \in Job
    BY <1>1, <2>1 DEF Job, Says
  <2> QED BY <1>1, <2>1, <2>2 DEF JobFits, now
<1> QED BY <1>2, <1>3

LEMMA LookStep ==
  ASSUME CacheInv, NEW p \in Processes, Look(p), next \in [Processes -> Nat]
  PROVE  CacheInv'
<1>1. PICK path \in Paths : path = Order[next'[p]]
  <2>1. next[p] \in Nat /\ next'[p] = next[p] + 1 /\ next[p] < Len(Order)
    BY DEF Look
  <2>2. Order \in Seq(Paths)
    BY OrderAssumption
  <2>3. next'[p] \in 1 .. Len(Order)
    BY <2>1, <2>2
  <2> QED BY <2>2, <2>3 DEF Paths
<1>2. UNCHANGED <<installed, latest, cached, old>>
  BY DEF Look, worldVars
<1>3. CASE UNCHANGED jobs
  BY <1>2, <1>3 DEF CacheInv, WorldOK, CacheFits, EntryFits, Honest, JobFits
<1>4. CASE Present(p, path) /\ StatusOf(p, path) = "ok"
  <2>1. PICK job \in Job : job = JobFor(p, path) /\ JobFits(path, job)
    BY <1>4, JobForFits
  <2>2. jobs' = [jobs EXCEPT ![p][path] = job]
    BY <1>1, <1>4, <2>1 DEF Look
  <2> QED BY <1>2, <2>1, <2>2, OneJob
<1>5. CASE Present(p, path) /\ StatusOf(p, path) # "ok"
  <2>1. jobs' = [jobs EXCEPT ![p][path] = None]
    BY <1>1, <1>5 DEF Look
  <2>2. jobs' \in [Processes -> [Paths -> Job \cup {None}]]
    BY <1>1, <2>1 DEF CacheInv
  <2>3. \A q \in Processes, r \in Paths : jobs'[q][r] # None => jobs'[q][r] = jobs[q][r]
    BY <1>1, <2>1 DEF CacheInv
  <2> QED BY <1>2, <2>2, <2>3 DEF CacheInv, WorldOK, CacheFits, EntryFits, Honest, JobFits
<1>6. CASE ~Present(p, path)
  BY <1>1, <1>3, <1>6 DEF Look
<1> QED BY <1>4, <1>5, <1>6

LEMMA ConcludeStep ==
  ASSUME CacheInv, NEW p \in Processes, Conclude(p)
  PROVE  CacheInv'
<1>1. UNCHANGED <<installed, latest>> /\ old' = [old EXCEPT ![p] = None] /\ jobs' = [jobs EXCEPT ![p] = Nowhere]
  BY DEF Conclude, worldVars
<1>2. NewEntries(p) \in Cache /\ CacheFits(NewEntries(p))
  <2>1. ASSUME NEW path \in Paths, jobs[p][path] # None
        PROVE  /\ jobs[p][path] \in Job /\ JobFits(path, jobs[p][path])
               /\ jobs[p][path].stage = "done"
    BY <2>1 DEF Conclude, CacheInv
  <2>2. \A path \in Paths : jobs[p][path] # None =>
          /\ [print |-> jobs[p][path].print, says |-> jobs[p][path].says] \in Entry
          /\ EntryFits(path, [print |-> jobs[p][path].print, says |-> jobs[p][path].says])
    BY <2>1 DEF Job, Entry, EntryFits, Honest, JobFits
  <2> QED BY <2>2 DEF NewEntries, Cache, CacheFits
<1>3. cached' \in Cache /\ CacheFits(cached')
  BY <1>2 DEF Conclude, CacheInv
<1>4. CacheFits(cached)' /\ \A q \in Processes : CacheFits(old[q])'
  BY <1>1, <1>3 DEF CacheInv, CacheFits, EntryFits, Honest
<1>5. old' \in [Processes -> Cache]
  BY <1>1 DEF CacheInv, Cache
<1>6. jobs' \in [Processes -> [Paths -> Job \cup {None}]]
  BY <1>1 DEF CacheInv, Nowhere
<1>7. \A q \in Processes, r \in Paths : jobs'[q][r] # None => jobs'[q][r] = jobs[q][r]
  BY <1>1 DEF CacheInv, Nowhere
<1>8. \A q \in Processes, r \in Paths : (jobs[q][r] # None => JobFits(r, jobs[q][r]))'
  BY <1>1, <1>7 DEF CacheInv, JobFits
<1> QED BY <1>1, <1>3, <1>4, <1>5, <1>6, <1>8 DEF CacheInv, WorldOK

\* The cache is read, or gone.
LEMMA ReadStep ==
  ASSUME CacheInv, NEW p \in Processes,
         \/ \E command : Ask(p, command) \/ Build(p, command)
         \/ Refresh(p)
  PROVE  CacheInv'
<1>1. UNCHANGED <<installed, latest>>
  BY DEF Ask, Build, SetDisabled, Refresh, worldVars
<1>2. cached' \in {cached, None} /\ \A q \in Processes : old'[q] \in {old[q], cached}
  BY DEF Ask, Build, SetDisabled, Refresh, searchVars, CacheInv
<1>3. old' \in [Processes -> Cache]
  BY DEF Ask, Build, SetDisabled, Refresh, searchVars, CacheInv
<1>4. jobs' \in [Processes -> [Paths -> Job \cup {None}]]
  BY DEF Ask, Build, SetDisabled, Refresh, searchVars, CacheInv, Nowhere
<1>5. \A q \in Processes, r \in Paths : jobs'[q][r] # None => jobs'[q][r] = jobs[q][r]
  BY DEF Ask, Build, SetDisabled, Refresh, searchVars, CacheInv, Nowhere
<1>6. \A q \in Processes, r \in Paths : (jobs[q][r] # None => JobFits(r, jobs[q][r]))'
  BY <1>1, <1>5 DEF CacheInv, JobFits
<1>7. CacheFits(cached)' /\ \A q \in Processes : CacheFits(old[q])'
  BY <1>1, <1>2 DEF CacheInv, CacheFits, EntryFits, Honest
<1>8. cached' \in Cache
  BY <1>2 DEF CacheInv, Cache
<1> QED BY <1>1, <1>3, <1>4, <1>6, <1>7, <1>8 DEF CacheInv, WorldOK

Inv == CacheInv /\ next \in [Processes -> Nat]

LEMMA InvInit == CatalogInit => Inv
<1> SUFFICES ASSUME CatalogInit PROVE Inv
  OBVIOUS
<1>1. installed = [f \in Files |-> Absent] /\ latest = 0 /\ cached = None
  BY DEF CatalogInit
<1>2. /\ old = [p \in Processes |-> None] /\ jobs = [p \in Processes |-> Nowhere]
      /\ next = [p \in Processes |-> 0]
  BY DEF CatalogInit
<1>3. WorldOK
  BY <1>1, VersionsAssumption DEF WorldOK, Absent
<1>4. cached \in Cache /\ CacheFits(cached)
  BY <1>1 DEF Cache, CacheFits
<1>5. old \in [Processes -> Cache] /\ \A p \in Processes : CacheFits(old[p])
  BY <1>2 DEF Cache, CacheFits
<1>6. jobs \in [Processes -> [Paths -> Job \cup {None}]] /\ \A p \in Processes, path \in Paths : jobs[p][path] = None
  BY <1>2 DEF Nowhere
<1> QED BY <1>2, <1>3, <1>4, <1>5, <1>6 DEF Inv, CacheInv

LEMMA OtherSteps ==
  ASSUME CacheInv, UNCHANGED cacheVars
  PROVE  CacheInv'
  BY DEF cacheVars, CacheInv, WorldOK, CacheFits, EntryFits, Honest, JobFits

LEMMA ProcessStep ==
  ASSUME Inv, NEW p \in Processes, CatalogStep(p)
  PROVE  Inv'
<1>1. CASE \E command \in Commands : Ask(p, command)
  BY <1>1, ReadStep DEF Ask, Inv
<1>2. CASE Look(p)
  <2>1. next' \in [Processes -> Nat]
    BY <1>2 DEF Look, Inv
  <2> QED BY <1>2, <2>1, LookStep DEF Inv
<1>3. CASE Conclude(p)
  <2>1. next' \in [Processes -> Nat]
    BY <1>3 DEF Conclude, Inv
  <2> QED BY <1>3, <2>1, ConcludeStep DEF Inv
<1>4. ASSUME NEW path \in Paths, JobStep(p, path) PROVE Inv'
  <2>1. UNCHANGED next
    BY <1>4 DEF JobStep, ReadMarker, SpawnDescribe, Answer, TimeOut, LetGo
  <2>2. CacheInv'
    BY <1>4, ReadMarkerStep, SpawnStep, EndStep, LetGoStep DEF JobStep, Inv
  <2> QED BY <2>1, <2>2 DEF Inv
<1>5. CASE Show(p) \/ SetEnabled(p)
  <2>1. UNCHANGED <<cacheVars, next>>
    BY <1>5 DEF Show, SetEnabled, cacheVars, worldVars, searchVars
  <2> QED BY <2>1, OtherSteps DEF Inv
<1>6. CASE Refresh(p)
  BY <1>6, ReadStep DEF Refresh, searchVars, Inv
<1>7. CASE Restart(p) \/ AccessHook(p)
  <2>1. \E command : Build(p, command)
    BY <1>7 DEF Restart, AccessHook
  <2>2. next' \in [Processes -> Nat]
    BY <2>1 DEF Build, SetDisabled, Inv
  <2> QED BY <2>1, <2>2, ReadStep DEF Inv
<1>8. CASE Find(p) \/ Start(p) \/ RunReturns(p)
  <2>1. UNCHANGED <<cacheVars, next>>
    BY <1>8 DEF Find, Start, RunReturns, cacheVars, worldVars, searchVars
  <2> QED BY <2>1, OtherSteps DEF Inv
<1> QED BY <1>1, <1>2, <1>3, <1>4, <1>5, <1>6, <1>7, <1>8 DEF CatalogStep

LEMMA InvStep == Inv /\ [CatalogNext]_catalogVars => Inv'
<1> SUFFICES ASSUME Inv, [CatalogNext]_catalogVars PROVE Inv'
  OBVIOUS
<1>1. ASSUME NEW f \in Files, Install(f) \/ Uninstall(f) PROVE Inv'
  <2>1. UNCHANGED next
    BY <1>1 DEF Install, Uninstall, searchVars
  <2> QED BY <1>1, <2>1, WorldStep DEF Inv
<1>2. CASE UNCHANGED catalogVars
  BY <1>2, OtherSteps DEF catalogVars, worldVars, searchVars, cacheVars, Inv
<1> QED BY <1>1, <1>2, ProcessStep DEF CatalogNext

\* Whatever the cache says under the fingerprint of an executable that is there
\* is what that executable prints.
THEOREM CacheTellsTheTruth == CatalogSpec => []CacheIsHonest
<1>1. Inv => CacheIsHonest
  BY DEF Inv, CacheInv, CacheFits, EntryFits, Honest, CacheIsHonest
<1> QED BY InvInit, InvStep, <1>1, PTL DEF CatalogSpec

-----------------------------------------------------------------------------
(* Types. *)

LEMMA WorkFields ==
  ASSUME NEW w \in Work
  PROVE  /\ w.kind \in {"run", "enable", "disable"} => w.name \in Names
         /\ w.kind \in {"start", "admitted"} => w.path \in Paths
  BY DEF Work, Commands, Listing

LEMMA WorkMade ==
  /\ Listing \in Work
  /\ \A command \in Commands : command \in Work
  /\ \A path \in Paths : [kind |-> "start", path |-> path] \in Work
  /\ \A w \in Work : w.kind = "start" => [w EXCEPT !.kind = "admitted"] \in Work
<1>1. \A w \in Work : w.kind = "start" => [w EXCEPT !.kind = "admitted"] \in Work
  <2> SUFFICES ASSUME NEW w \in Work, w.kind = "start"
               PROVE  [w EXCEPT !.kind = "admitted"] \in Work
    OBVIOUS
  <2>1. w \in [kind : {"start", "admitted"}, path : Paths]
    BY DEF Work, Commands, Listing
  <2>2. [w EXCEPT !.kind = "admitted"] \in [kind : {"start", "admitted"}, path : Paths]
    BY <2>1
  <2> QED BY <2>2 DEF Work
<1> QED BY <1>1 DEF Work, Commands, Listing

Stages == {"idle", "search", "describe", "answered", "running"}
Statuses == {"ok", "disabled", "shadowed", None}
Inventories == [Paths -> Plugin \cup {None}] \cup {None}

NameTypes ==
  /\ disabled \in [Processes -> SUBSET Names]
  /\ commands \in 0 .. MaxCommands

WorkTypes ==
  /\ step \in [Processes -> Stages]
  /\ op \in [Processes -> Work]

SearchTypes ==
  /\ snapshot \in [Processes -> Inventories]
  /\ next \in [Processes -> 0 .. Len(Order)]
  /\ found \in [Processes -> [Paths -> Statuses]]

TypeInv == NameTypes /\ WorkTypes /\ SearchTypes

LEMMA TypeInvInit == CatalogInit => TypeInv
<1> SUFFICES ASSUME CatalogInit PROVE TypeInv
  OBVIOUS
<1>1. NameTypes
  BY CommandsAssumption DEF CatalogInit, NameTypes
<1>2. WorkTypes
  BY WorkMade DEF CatalogInit, WorkTypes, Stages
<1>3. SearchTypes
  BY OrderAssumption DEF CatalogInit, SearchTypes, Inventories, Statuses, Nowhere
<1> QED BY <1>1, <1>2, <1>3 DEF TypeInv

LEMMA BuildTypes ==
  ASSUME TypeInv, NEW p \in Processes, NEW command \in Work, Build(p, command)
  PROVE  TypeInv'
<1>1. NameTypes'
  BY CommandsAssumption DEF TypeInv, Build, SetDisabled, Count, NameTypes
<1>2. WorkTypes'
  BY DEF TypeInv, Build, SetDisabled, WorkTypes, Stages
<1>3. SearchTypes'
  BY OrderAssumption DEF TypeInv, Build, SetDisabled, SearchTypes, Inventories, Statuses, Nowhere
<1> QED BY <1>1, <1>2, <1>3 DEF TypeInv

LEMMA StatusTypes == \A p, path : StatusOf(p, path) \in Statuses
  BY DEF StatusOf, Statuses

LEMMA InventoryTypes ==
  ASSUME TypeInv, jobs \in [Processes -> [Paths -> Job \cup {None}]], NEW p \in Processes
  PROVE  Inventory(p) \in Inventories
<1> SUFFICES ASSUME NEW path \in Paths, found[p][path] # None
             PROVE  Inventory(p)[path] \in Plugin
  BY DEF Inventory, Inventories
<1> DEFINE says == IF jobs[p][path] = None THEN None ELSE jobs[p][path].says
           status == IF says = Failed THEN "describe error" ELSE found[p][path]
<1>1. says \in Says
  BY DEF Job, Says
<1>2. status \in {"ok", "disabled", "shadowed", "describe error"}
  BY DEF TypeInv, SearchTypes, Statuses
<1>3. Inventory(p)[path] = [status |-> status, says |-> says]
  BY DEF Inventory
<1>4. \A t \in {"ok", "disabled", "shadowed", "describe error"}, s \in Says :
        [status |-> t, says |-> s] \in Plugin
  BY DEF Plugin
<1> HIDE DEF says, status
<1> QED BY <1>1, <1>2, <1>3, <1>4

LEMMA SearchStepTypes ==
  ASSUME TypeInv, jobs \in [Processes -> [Paths -> Job \cup {None}]],
         NEW p \in Processes, Look(p) \/ Conclude(p)
  PROVE  TypeInv'
<1>1. NameTypes'
  BY DEF TypeInv, Look, Conclude, NameTypes
<1>2. WorkTypes'
  BY DEF TypeInv, Look, Conclude, WorkTypes, Stages
<1>3. CASE Look(p)
  <2>1. next' \in [Processes -> 0 .. Len(Order)]
    BY <1>3, OrderAssumption DEF TypeInv, Look, SearchTypes
  <2>2. found' \in [Processes -> [Paths -> Statuses]]
    <3>1. found' = found \/ \E path : found' = [found EXCEPT ![p][path] = StatusOf(p, path)]
      BY <1>3 DEF Look
    <3>2. found \in [Processes -> [Paths -> Statuses]]
      BY DEF TypeInv, SearchTypes
    <3> QED BY <3>1, <3>2, StatusTypes
  <2> QED BY <1>1, <1>2, <1>3, <2>1, <2>2 DEF TypeInv, Look, SearchTypes
<1>4. CASE Conclude(p)
  <2>1. next' \in [Processes -> 0 .. Len(Order)]
    BY <1>4, OrderAssumption DEF TypeInv, Conclude, SearchTypes
  <2>2. found' \in [Processes -> [Paths -> Statuses]]
    BY <1>4 DEF TypeInv, Conclude, SearchTypes, Statuses, Nowhere
  <2>3. snapshot' \in [Processes -> Inventories]
    BY <1>4, InventoryTypes DEF TypeInv, Conclude, SearchTypes
  <2> QED BY <1>1, <1>2, <2>1, <2>2, <2>3 DEF TypeInv, SearchTypes
<1> QED BY <1>3, <1>4

LEMMA CommandTypes ==
  ASSUME TypeInv, NEW p \in Processes,
         \/ \E command \in Commands : Ask(p, command)
         \/ Show(p) \/ SetEnabled(p) \/ Refresh(p)
         \/ Find(p) \/ Start(p) \/ RunReturns(p)
  PROVE  TypeInv'
<1>1. CASE \E command \in Commands : Ask(p, command)
  <2>1. NameTypes'
    BY <1>1, CommandsAssumption DEF TypeInv, Ask, Count, NameTypes
  <2>2. WorkTypes'
    BY <1>1, WorkMade DEF TypeInv, Ask, WorkTypes, Stages
  <2> QED BY <1>1, <2>1, <2>2 DEF TypeInv, Ask, SearchTypes
<1>3. CASE SetEnabled(p)
  <2>1. NameTypes'
    BY <1>3 DEF TypeInv, SetEnabled, SetDisabled, NameTypes
  <2>2. WorkTypes'
    BY <1>3, WorkMade DEF TypeInv, SetEnabled, WorkTypes, Stages
  <2>3. SearchTypes'
    BY <1>3 DEF TypeInv, SetEnabled, SetDisabled, SearchTypes, Inventories, searchVars
  <2> QED BY <2>1, <2>2, <2>3 DEF TypeInv
<1>4. CASE Refresh(p)
  <2>1. NameTypes'
    BY <1>4, CommandsAssumption DEF TypeInv, Refresh, Count, NameTypes
  <2>2. WorkTypes'
    BY <1>4 DEF TypeInv, Refresh, WorkTypes
  <2>3. SearchTypes'
    BY <1>4 DEF TypeInv, Refresh, SearchTypes, Inventories, searchVars
  <2> QED BY <2>1, <2>2, <2>3 DEF TypeInv
<1>5. CASE Find(p)
  <2>1. \A i \in DOMAIN Order : [kind |-> "start", path |-> Order[i]] \in Work
    BY WorkMade DEF Paths
  <2>2. WorkTypes'
    BY <1>5, <2>1, WorkMade DEF TypeInv, Find, WorkTypes, Stages
  <2> QED BY <1>5, <2>2 DEF TypeInv, Find, NameTypes, SearchTypes, searchVars
<1>6. CASE Show(p) \/ Start(p) \/ RunReturns(p)
  <2>1. WorkTypes'
    BY <1>6, WorkMade DEF TypeInv, Show, Start, RunReturns, WorkTypes, Stages
  <2> QED BY <1>6, <2>1 DEF TypeInv, Show, Start, RunReturns, NameTypes, SearchTypes, searchVars
<1> QED BY <1>1, <1>3, <1>4, <1>5, <1>6

LEMMA JobTypes ==
  ASSUME TypeInv, UNCHANGED <<disabled, commands, step, op, snapshot, next, found>>
  PROVE  TypeInv'
  BY DEF TypeInv, NameTypes, WorkTypes, SearchTypes

LEMMA TypeInvStep == Inv /\ TypeInv /\ [CatalogNext]_catalogVars => TypeInv'
<1> SUFFICES ASSUME Inv, TypeInv, [CatalogNext]_catalogVars PROVE TypeInv'
  OBVIOUS
<1>1. CASE UNCHANGED catalogVars
  BY <1>1, JobTypes DEF catalogVars, searchVars
<1>2. ASSUME NEW f \in Files, Install(f) \/ Uninstall(f) PROVE TypeInv'
  BY <1>2, JobTypes DEF Install, Uninstall, searchVars
<1>3. ASSUME NEW p \in Processes, CatalogStep(p) PROVE TypeInv'
  <2>1. ASSUME NEW path \in Paths, JobStep(p, path) PROVE TypeInv'
    BY <2>1, JobTypes DEF JobStep, ReadMarker, SpawnDescribe, Answer, TimeOut, LetGo
  <2>2. CASE Restart(p)
    BY <2>2, WorkMade, BuildTypes DEF Restart
  <2>3. CASE AccessHook(p)
    <3>1. op[p] \in Work /\ op[p].kind = "start"
      BY <2>3 DEF AccessHook, TypeInv, WorkTypes
    <3> QED BY <2>3, <3>1, WorkMade, BuildTypes DEF AccessHook
  <2>4. CASE Look(p) \/ Conclude(p)
    BY <2>4, SearchStepTypes DEF Inv, CacheInv
  <2> QED BY <1>3, <2>1, <2>2, <2>3, <2>4, CommandTypes DEF CatalogStep
<1> QED BY <1>1, <1>2, <1>3 DEF CatalogNext

\* Every variable of the inventory has its type.
THEOREM CatalogTypes == CatalogSpec => []CatalogTypeOK
<1>1. Inv /\ TypeInv => CatalogTypeOK
  BY DEF Inv, CacheInv, WorldOK, TypeInv, NameTypes, WorkTypes, SearchTypes, CatalogTypeOK,
         Stages, Statuses, Inventories
<1>2. CatalogInit => Inv /\ TypeInv
  BY InvInit, TypeInvInit
<1>3. Inv /\ TypeInv /\ [CatalogNext]_catalogVars => (Inv /\ TypeInv)'
  BY InvStep, TypeInvStep
<1> QED BY <1>1, <1>2, <1>3, PTL DEF CatalogSpec

-----------------------------------------------------------------------------
(* One provider of each name. *)

\* Nothing that was found before it has its name, and it is not disabled.
Foremost(i, names, at) ==
  /\ Name[Order[i]] \notin names
  /\ \A k \in DOMAIN Order : k < i /\ at[Order[k]] # None => Name[Order[k]] # Name[Order[i]]

\* A search that has come as far as n.
SearchFits(where, n, names, at, work) ==
  /\ where \notin {"search", "describe"} => at = Nowhere /\ work = Nowhere
  /\ \A i \in DOMAIN Order : n < i => at[Order[i]] = None
  /\ \A i \in DOMAIN Order : at[Order[i]] # None => (at[Order[i]] = "ok" <=> Foremost(i, names, at))
  /\ \A path \in Paths : work[path] # None => at[path] = "ok"

\* An inventory goes by the list of disabled names.
InventoryFits(names, inventory) ==
  inventory # None =>
    \A i \in DOMAIN Order : inventory[Order[i]] # None =>
      (Available(inventory[Order[i]]) <=> Foremost(i, names, inventory))

ProviderInv ==
  \A p \in Processes :
    /\ SearchFits(step[p], next[p], disabled[p], found[p], jobs[p])
    /\ InventoryFits(disabled[p], snapshot[p])

LEMMA OrderPaths == \A i \in DOMAIN Order : Order[i] \in Paths
  BY DEF Paths

LEMMA PathsInOrder == \A path \in Paths : \E i \in DOMAIN Order : path = Order[i]
  BY DEF Paths

LEMMA NowhereFits == \A where, n, names : SearchFits(where, n, names, Nowhere, Nowhere)
  BY OrderPaths DEF SearchFits, Nowhere

LEMMA NoneFits == \A names : InventoryFits(names, None)
  BY DEF InventoryFits

\* The next place in the search order.
LEMMA LookFits ==
  ASSUME Inv, TypeInv, NEW p \in Processes, Look(p),
         SearchFits(step[p], next[p], disabled[p], found[p], jobs[p])
  PROVE  SearchFits(step'[p], next'[p], disabled'[p], found'[p], jobs'[p])
<1> DEFINE i == next[p] + 1
           path == Order[i]
<1>1. next[p] \in Nat /\ i \in DOMAIN Order /\ next'[p] = i /\ path \in Paths
  <2>1. next[p] \in Nat /\ next[p] < Len(Order) /\ next'[p] = i
    BY OrderAssumption DEF Look, TypeInv, SearchTypes
  <2>2. i \in DOMAIN Order
    BY <2>1, OrderAssumption
  <2> QED BY <2>1, <2>2, OrderPaths
<1>2. step[p] = "search" /\ step'[p] \in {"search", "describe"} /\ disabled' = disabled
  BY DEF Look, TypeInv, WorkTypes
<1>3. \A k \in DOMAIN Order : k \in Nat /\ (k # i => Order[k] # path)
  BY <1>1, OrderAssumption
<1>4. \A k \in DOMAIN Order : next[p] < k => found[p][Order[k]] = None
  BY DEF SearchFits
<1>5. CASE UNCHANGED <<found, jobs>>
  BY <1>1, <1>2, <1>3, <1>4, <1>5 DEF SearchFits
<1>6. CASE Present(p, path)
  <2>1. /\ found' = [found EXCEPT ![p][path] = StatusOf(p, path)]
        /\ jobs' = [jobs EXCEPT ![p][path] =
                      IF StatusOf(p, path) = "ok" THEN JobFor(p, path) ELSE None]
    BY <1>1, <1>6 DEF Look
  <2> DEFINE status == StatusOf(p, path)
  <2>2. found'[p][path] = status /\ \A k \in DOMAIN Order : k # i => found'[p][Order[k]] = found[p][Order[k]]
    BY <1>1, <1>3, <2>1, OrderPaths DEF TypeInv, SearchTypes
  <2>3. \A r \in Paths : jobs'[p][r] # None =>
          (r = path /\ status = "ok") \/ (r # path /\ jobs[p][r] # None)
    BY <1>1, <2>1 DEF Inv, CacheInv
  <2>4. \A k \in DOMAIN Order : i < k => found'[p][Order[k]] = None
    BY <1>1, <1>3, <1>4, <2>2
  <2>5. \A r \in Paths : jobs'[p][r] # None => found'[p][r] = "ok"
    <3> SUFFICES ASSUME NEW r \in Paths, jobs'[p][r] # None PROVE found'[p][r] = "ok"
      OBVIOUS
    <3>1. CASE r = path
      BY <2>2, <2>3, <3>1
    <3>2. CASE r # path
      BY <2>2, <2>3, <3>2, PathsInOrder DEF SearchFits
    <3> QED BY <3>1, <3>2
  <2>6. status = "ok" <=> Foremost(i, disabled[p], found'[p])
    <3>1. status = "ok" <=>
            /\ Name[path] \notin disabled[p]
            /\ \A q \in Paths : found[p][q] # None => Name[q] # Name[path]
      BY DEF StatusOf
    <3>2. (\A q \in Paths : found[p][q] # None => Name[q] # Name[path]) <=>
          \A k \in DOMAIN Order : found[p][Order[k]] # None => Name[Order[k]] # Name[path]
      BY PathsInOrder, OrderPaths
    <3>3. \A k \in DOMAIN Order : found[p][Order[k]] # None <=> k < i /\ found'[p][Order[k]] # None
      BY <1>1, <1>3, <1>4, <2>2
    <3> QED BY <3>1, <3>2, <3>3 DEF Foremost
  <2>7. ASSUME NEW k \in DOMAIN Order, found'[p][Order[k]] # None
        PROVE  found'[p][Order[k]] = "ok" <=> Foremost(k, disabled[p], found'[p])
    <3>1. CASE k = i
      BY <2>2, <2>6, <3>1
    <3>2. CASE k # i
      <4>1. k < i /\ found[p][Order[k]] # None /\ found'[p][Order[k]] = found[p][Order[k]]
        BY <1>1, <1>3, <2>2, <2>4, <2>7, <3>2
      <4>2. found[p][Order[k]] = "ok" <=> Foremost(k, disabled[p], found[p])
        BY <4>1 DEF SearchFits
      <4>3. Foremost(k, disabled[p], found[p]) <=> Foremost(k, disabled[p], found'[p])
        BY <1>1, <1>3, <2>2, <4>1 DEF Foremost
      <4> QED BY <4>1, <4>2, <4>3
    <3> QED BY <3>1, <3>2
  <2> QED BY <1>1, <1>2, <2>4, <2>5, <2>7 DEF SearchFits
<1> QED BY <1>1, <1>5, <1>6 DEF Look

\* What a search has found is available in its inventory if nothing is in its way,
\* described or not.
LEMMA ConcludeFits ==
  ASSUME Inv, TypeInv, NEW p \in Processes,
         SearchFits(step[p], next[p], disabled[p], found[p], jobs[p])
  PROVE  InventoryFits(disabled[p], Inventory(p))
<1>1. ASSUME NEW path \in Paths
      PROVE  /\ Inventory(p)[path] # None <=> found[p][path] # None
             /\ Inventory(p)[path] # None => (Available(Inventory(p)[path]) <=> found[p][path] = "ok")
  <2>1. CASE found[p][path] = None
    BY <2>1 DEF Inventory
  <2>2. CASE found[p][path] # None
    <3> DEFINE says == IF jobs[p][path] = None THEN None ELSE jobs[p][path].says
               status == IF says = Failed THEN "describe error" ELSE found[p][path]
    <3>1. Inventory(p)[path] = [status |-> status, says |-> says]
      BY <2>2 DEF Inventory
    <3>2. Inventory(p)[path] # None
      <4>1. says \in Says
        BY DEF Inv, CacheInv, Job, Says
      <4>2. status \in {"ok", "disabled", "shadowed", "describe error"}
        BY <2>2 DEF TypeInv, SearchTypes, Statuses
      <4>3. \A t \in {"ok", "disabled", "shadowed", "describe error"}, s \in Says :
              [status |-> t, says |-> s] \in Plugin
        BY DEF Plugin
      <4> HIDE DEF says, status
      <4> QED BY <3>1, <4>1, <4>2, <4>3, NoneAssumption
    <3>3. says = Failed => found[p][path] = "ok"
      BY NoneAssumption DEF SearchFits
    <3>4. Available(Inventory(p)[path]) <=> status = "ok" \/ says = Failed
      <4> HIDE DEF says, status
      <4> QED BY <3>1, <3>2 DEF Available
    <3> QED BY <2>2, <3>2, <3>3, <3>4
  <2> QED BY <2>1, <2>2
<1>2. ASSUME NEW i \in DOMAIN Order, Inventory(p)[Order[i]] # None
      PROVE  Available(Inventory(p)[Order[i]]) <=> Foremost(i, disabled[p], Inventory(p))
  <2>1. found[p][Order[i]] # None /\ (Available(Inventory(p)[Order[i]]) <=> found[p][Order[i]] = "ok")
    BY <1>1, <1>2, OrderPaths
  <2>2. found[p][Order[i]] = "ok" <=> Foremost(i, disabled[p], found[p])
    BY <2>1 DEF SearchFits
  <2>3. Foremost(i, disabled[p], found[p]) <=> Foremost(i, disabled[p], Inventory(p))
    BY <1>1, OrderPaths DEF Foremost
  <2> QED BY <2>1, <2>2, <2>3
<1> QED BY <1>2 DEF InventoryFits

\* Steps of a process that leave its search and its inventory alone, and those
\* of others.
LEMMA OthersFit ==
  ASSUME ProviderInv, NEW q \in Processes,
         \/ step'[q] = step[q]
         \/ found[q] = Nowhere /\ jobs[q] = Nowhere,
         next'[q] = next[q], disabled'[q] = disabled[q],
         found'[q] = found[q], jobs'[q] = jobs[q], snapshot'[q] \in {snapshot[q], None}
  PROVE  /\ SearchFits(step'[q], next'[q], disabled'[q], found'[q], jobs'[q])
         /\ InventoryFits(disabled'[q], snapshot'[q])
<1>1. SearchFits(step[q], next[q], disabled[q], found[q], jobs[q]) /\ InventoryFits(disabled[q], snapshot[q])
  BY DEF ProviderInv
<1>2. InventoryFits(disabled'[q], snapshot'[q])
  BY <1>1, NoneFits
<1> QED BY <1>1, <1>2, NowhereFits

LEMMA ProviderInit == CatalogInit => ProviderInv
<1> SUFFICES ASSUME CatalogInit, NEW p \in Processes
             PROVE  /\ SearchFits(step[p], next[p], disabled[p], found[p], jobs[p])
                    /\ InventoryFits(disabled[p], snapshot[p])
  BY DEF ProviderInv
<1>1. found[p] = Nowhere /\ jobs[p] = Nowhere /\ snapshot[p] = None
  BY DEF CatalogInit
<1> QED BY <1>1, NowhereFits, NoneFits

Fits(p) ==
  /\ SearchFits(step[p], next[p], disabled[p], found[p], jobs[p])
  /\ InventoryFits(disabled[p], snapshot[p])

Untouched(q) ==
  /\ next'[q] = next[q] /\ disabled'[q] = disabled[q] /\ step'[q] = step[q]
  /\ found'[q] = found[q] /\ jobs'[q] = jobs[q] /\ snapshot'[q] = snapshot[q]

\* What a step of one process does to the search of another: nothing.
LEMMA Apart ==
  ASSUME Inv, TypeInv, ProviderInv, NEW p \in Processes, CatalogStep(p),
         NEW q \in Processes, q # p
  PROVE  Fits(q)'
<1>1. Untouched(q)
  <2> USE DEF Untouched, Inv, CacheInv, TypeInv, NameTypes, WorkTypes, SearchTypes
  <2>1. ASSUME NEW command, Ask(p, command) \/ Build(p, command) PROVE Untouched(q)
    BY <2>1 DEF Ask, Build, SetDisabled
  <2>2. ASSUME NEW path \in Paths, JobStep(p, path) PROVE Untouched(q)
    BY <2>2 DEF JobStep, ReadMarker, SpawnDescribe, Answer, TimeOut, LetGo
  <2>3. CASE Look(p) \/ Conclude(p)
    BY <2>3 DEF Look, Conclude
  <2>4. CASE Show(p) \/ Refresh(p)
    BY <2>4 DEF Show, Refresh, searchVars
  <2>5. CASE SetEnabled(p)
    BY <2>5 DEF SetEnabled, SetDisabled, searchVars
  <2>6. CASE Find(p) \/ Start(p) \/ RunReturns(p)
    BY <2>6 DEF Find, Start, RunReturns, searchVars
  <2> QED BY <2>1, <2>2, <2>3, <2>4, <2>5, <2>6 DEF CatalogStep, Restart, AccessHook
<1> QED BY <1>1, OthersFit DEF Untouched, Fits

\* Where nothing is being searched, nothing is found.
LEMMA NoSearch ==
  ASSUME ProviderInv, NEW p \in Processes, step[p] \notin {"search", "describe"}
  PROVE  found[p] = Nowhere /\ jobs[p] = Nowhere
  BY DEF ProviderInv, SearchFits

LEMMA OwnStep ==
  ASSUME Inv, TypeInv, ProviderInv, NEW p \in Processes, CatalogStep(p)
  PROVE  Fits(p)'
<1> USE DEF Inv, CacheInv, TypeInv, NameTypes, WorkTypes, SearchTypes
<1>1. CASE \E command \in Commands : Ask(p, command)
  <2>1. step[p] = "idle" /\ UNCHANGED <<next, disabled, found, jobs, snapshot>>
    BY <1>1 DEF Ask
  <2> QED BY <2>1, NoSearch, OthersFit DEF Fits
<1>2. ASSUME NEW command, Build(p, command) PROVE Fits(p)'
  <2>1. found'[p] = Nowhere /\ jobs'[p] = Nowhere /\ snapshot'[p] = None
    BY <1>2 DEF Build, SetDisabled
  <2> QED BY <2>1, NowhereFits, NoneFits DEF Fits
<1>3. CASE Look(p)
  <2>1. SearchFits(step'[p], next'[p], disabled'[p], found'[p], jobs'[p])
    BY <1>3, LookFits DEF ProviderInv
  <2>2. UNCHANGED <<disabled, snapshot>>
    BY <1>3 DEF Look
  <2> QED BY <2>1, <2>2 DEF Fits, ProviderInv
<1>4. CASE Conclude(p)
  <2>1. found'[p] = Nowhere /\ jobs'[p] = Nowhere /\ snapshot'[p] = Inventory(p) /\ disabled' = disabled
    BY <1>4 DEF Conclude
  <2>2. InventoryFits(disabled[p], Inventory(p))
    BY ConcludeFits DEF ProviderInv
  <2> QED BY <2>1, <2>2, NowhereFits DEF Fits
<1>5. ASSUME NEW path \in Paths, JobStep(p, path) PROVE Fits(p)'
  <2>1. UNCHANGED <<step, next, disabled, found, snapshot>>
    BY <1>5 DEF JobStep, ReadMarker, SpawnDescribe, Answer, TimeOut, LetGo
  <2>2. step[p] = "describe"
    BY <1>5 DEF JobStep, ReadMarker, SpawnDescribe, Answer, TimeOut, LetGo, AtStage
  <2>3. jobs[p][path] # None
    BY <1>5 DEF JobStep, ReadMarker, SpawnDescribe, Answer, TimeOut, LetGo, AtStage
  <2>4. ASSUME NEW r \in Paths, r # path PROVE jobs'[p][r] = jobs[p][r]
    <3>1. CASE ReadMarker(p, path)
      BY <2>4, <3>1 DEF ReadMarker
    <3>2. CASE SpawnDescribe(p, path)
      BY <2>4, <3>2 DEF SpawnDescribe
    <3>3. CASE Answer(p, path)
      BY <2>4, <3>3 DEF Answer
    <3>4. CASE TimeOut(p, path)
      BY <2>4, <3>4 DEF TimeOut
    <3>5. CASE LetGo(p, path)
      BY <2>4, <3>5 DEF LetGo
    <3> QED BY <1>5, <3>1, <3>2, <3>3, <3>4, <3>5 DEF JobStep
  <2>5. \A r \in Paths : jobs'[p][r] # None => jobs[p][r] # None
    BY <2>3, <2>4
  <2> QED BY <2>1, <2>2, <2>5 DEF Fits, ProviderInv, SearchFits
<1>6. CASE Show(p) \/ Find(p) \/ Start(p) \/ RunReturns(p)
  <2>1. UNCHANGED <<next, disabled, found, jobs, snapshot>> /\ step[p] \in {"answered", "running"}
    BY <1>6 DEF Show, Find, Start, RunReturns, searchVars
  <2> QED BY <2>1, NoSearch, OthersFit DEF Fits
<1>7. CASE SetEnabled(p)
  <2>1. UNCHANGED <<next, found, jobs>> /\ step[p] = "answered"
    BY <1>7 DEF SetEnabled, searchVars
  <2>2. found'[p] = Nowhere /\ jobs'[p] = Nowhere
    BY <2>1, NoSearch
  <2>3. CASE UNCHANGED <<disabled, snapshot>>
    BY <2>1, <2>2, <2>3, NowhereFits DEF Fits, ProviderInv
  <2>4. CASE \E names : SetDisabled(p, names)
    <3>1. snapshot'[p] = None
      BY <2>4 DEF SetDisabled
    <3> QED BY <2>2, <3>1, NowhereFits, NoneFits DEF Fits
  <2> QED BY <1>7, <2>3, <2>4 DEF SetEnabled
<1>8. CASE Refresh(p)
  <2>1. UNCHANGED <<step, next, disabled, found, jobs>> /\ snapshot'[p] = None
    BY <1>8 DEF Refresh, searchVars
  <2> QED BY <2>1, OthersFit DEF Fits
<1> QED BY <1>1, <1>2, <1>3, <1>4, <1>5, <1>6, <1>7, <1>8 DEF CatalogStep, Restart, AccessHook

LEMMA ProviderStep == Inv /\ TypeInv /\ ProviderInv /\ [CatalogNext]_catalogVars => ProviderInv'
<1> SUFFICES ASSUME Inv, TypeInv, ProviderInv, [CatalogNext]_catalogVars, NEW q \in Processes
             PROVE  Fits(q)'
  BY DEF ProviderInv, Fits
<1>1. CASE UNCHANGED <<disabled, searchVars, step, snapshot>>
  BY <1>1, OthersFit DEF searchVars, Fits
<1>2. ASSUME NEW f \in Files, Install(f) \/ Uninstall(f) PROVE Fits(q)'
  BY <1>1, <1>2 DEF Install, Uninstall
<1>3. CASE UNCHANGED catalogVars
  BY <1>1, <1>3 DEF catalogVars
<1>4. ASSUME NEW p \in Processes, CatalogStep(p) PROVE Fits(q)'
  BY <1>4, Apart, OwnStep
<1> QED BY <1>2, <1>3, <1>4 DEF CatalogNext

\* Of several executables of one name the first is available, described or not,
\* and none of a name that is disabled.
THEOREM OneProvider == CatalogSpec => []OneProviderPerName
<1>1. ProviderInv => OneProviderPerName
  <2> SUFFICES ASSUME ProviderInv, NEW p \in Processes, snapshot[p] # None, NEW name \in Names
               PROVE  LET here == {i \in DOMAIN Order : Name[Order[i]] = name /\ snapshot[p][Order[i]] # None}
                      IN  {i \in here : Available(snapshot[p][Order[i]])} =
                            IF name \in disabled[p] THEN {} ELSE {i \in here : \A k \in here : i <= k}
    BY DEF OneProviderPerName
  <2> DEFINE here == {i \in DOMAIN Order : Name[Order[i]] = name /\ snapshot[p][Order[i]] # None}
  <2>1. \A i \in here : Available(snapshot[p][Order[i]]) <=> Foremost(i, disabled[p], snapshot[p])
    BY DEF ProviderInv, InventoryFits
  <2>2. \A i \in here : Foremost(i, disabled[p], snapshot[p]) <=>
          name \notin disabled[p] /\ \A k \in here : i <= k
    <3>1. \A i, k \in DOMAIN Order : i <= k <=> ~(k < i)
      BY OrderAssumption
    <3> QED BY <3>1 DEF Foremost
  <2> QED BY <2>1, <2>2
<1>2. CatalogInit => Inv /\ TypeInv /\ ProviderInv
  BY InvInit, TypeInvInit, ProviderInit
<1>3. Inv /\ TypeInv /\ ProviderInv /\ [CatalogNext]_catalogVars => (Inv /\ TypeInv /\ ProviderInv)'
  BY InvStep, TypeInvStep, ProviderStep
<1> QED BY <1>1, <1>2, <1>3, PTL DEF CatalogSpec

=============================================================================
