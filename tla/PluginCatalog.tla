--------------------------- MODULE PluginCatalog ---------------------------
(***************************************************************************)
(* The inventory of executable commands: discovery with its describe cache *)
(* (src/plugin/discovery.rs), the manager around it (manager.rs), the time *)
(* limit of a describe run (run.rs), and the commands that ask for it.     *)
(*                                                                         *)
(* Several osp processes share the executables and the cache file.         *)
(* Executables are replaced while they are looked at. An executable is its *)
(* version, a new number each time one is installed: it stands for the     *)
(* contents, for the size and modification time and for the metadata that  *)
(* a describe run prints. Which names are disabled is any list here:       *)
(* DisabledList says which one a process has from the configuration.       *)
(***************************************************************************)
EXTENDS Naturals, Sequences

CONSTANTS
  Processes,    \* osp processes
  Runners,      \* those that run executables
  Editors,      \* those that enable and disable them
  Order,        \* the paths that may hold an executable, in search order
  Name,         \* Name[path]: the command it provides
  Folded,       \* Folded[name]: the name without regard to the case of its letters
  File,         \* File[path]: the file behind it, the same for symbolic links
  Plain,        \* versions without the text --osp-describe
  MaxVersions,  \* bound on the executables ever installed
  MaxCommands,  \* bound on the commands, and on the times a process is built
  Failed,       \* a describe run that gave no metadata, with its issue
  None

Paths == {Order[i] : i \in DOMAIN Order}
Names == {Name[path] : path \in Paths}
Files == {File[path] : path \in Paths}
Versions == 1 .. MaxVersions
Absent == 0

ASSUME OrderAssumption ==
  /\ Order # <<>> /\ Order \in Seq(Paths)
  /\ \A i, k \in DOMAIN Order : Order[i] = Order[k] => i = k
ASSUME VersionsAssumption == MaxVersions \in Nat /\ Plain \subseteq Versions
ASSUME FoldedAssumption == Folded \in [Names -> Names]
ASSUME RolesAssumption == Runners \subseteq Processes /\ Editors \subseteq Processes
ASSUME CommandsAssumption == MaxCommands \in Nat

VARIABLES
  installed,  \* installed[f]: the version in the file, or Absent
  latest,     \* history variable: the versions installed so far
  cached,     \* plugins-describe.json: its entry of each path, or None
  disabled,   \* disabled[p]: PluginManager::disabled
  snapshot,   \* snapshot[p]: PluginManager::snapshot, or None
  step,       \* step[p]: how far p is
  op,         \* op[p]: the command it works on
  next,       \* next[p]: how much of the search order it has looked at
  old,        \* old[p]: the cache it has read
  found,      \* found[p][path]: the status of what it found there, or None
  jobs,       \* jobs[p][path]: its metadata job, or None
  commands    \* counts what MaxCommands bounds

worldVars == <<installed, latest>>
searchVars == <<next, old, found, jobs>>
catalogVars == <<worldVars, disabled, searchVars, cached, snapshot, step, op, commands>>

Says == Versions \cup {None, Failed}
Entry == [print : Versions, says : Says]
Cache == [Paths -> Entry \cup {None}] \cup {None}
Job == [print : Versions, says : Says, ran : Versions \cup {None},
        stage : {"marker", "spawn", "running", "held", "done"}]
Plugin == [status : {"ok", "disabled", "shadowed", "describe error"}, says : Says]

ASSUME NoneAssumption == None \notin {"ok", "disabled", "shadowed", Failed} \cup Plugin \cup Job

Nowhere == [path \in Paths |-> None]
Listing == [kind |-> "list"]
Commands == {Listing} \cup [kind : {"run", "enable", "disable"}, name : Names]
Work ==
  Commands \cup [kind : {"start", "admitted"}, path : Paths]

CatalogInit ==
  /\ installed = [f \in Files |-> Absent]
  /\ latest = 0
  /\ cached = None
  /\ disabled \in [Processes -> SUBSET Names]
  /\ snapshot = [p \in Processes |-> None]
  /\ step = [p \in Processes |-> "idle"]
  /\ op = [p \in Processes |-> Listing]
  /\ next = [p \in Processes |-> 0]
  /\ old = [p \in Processes |-> None]
  /\ found = [p \in Processes |-> Nowhere]
  /\ jobs = [p \in Processes |-> Nowhere]
  /\ commands = 0

-----------------------------------------------------------------------------
(* Executables come and go. *)

Install(f) ==
  /\ latest < MaxVersions
  /\ latest' = latest + 1
  /\ installed' = [installed EXCEPT ![f] = latest']
  /\ UNCHANGED <<cached, disabled, snapshot, step, op, searchVars, commands>>

Uninstall(f) ==
  /\ installed[f] # Absent
  /\ installed' = [installed EXCEPT ![f] = Absent]
  /\ UNCHANGED <<latest, cached, disabled, snapshot, step, op, searchVars, commands>>

-----------------------------------------------------------------------------
(* Discovery. *)

Count == commands < MaxCommands /\ commands' = commands + 1

\* A command asks for the inventory: discover answers from the snapshot, or
\* reads the cache and searches.
Ask(p, command) ==
  /\ Count
  /\ step[p] = "idle"
  /\ command.kind = "run" => p \in Runners
  /\ command.kind \in {"enable", "disable"} => p \in Editors
  /\ op' = [op EXCEPT ![p] = command]
  /\ step' = [step EXCEPT ![p] = IF snapshot[p] # None THEN "answered" ELSE "search"]
  /\ old' = [old EXCEPT ![p] = IF snapshot[p] # None THEN @ ELSE cached]
  /\ UNCHANGED <<worldVars, disabled, cached, snapshot, next, found, jobs>>

\* executable_name, and seen_paths: the same file under the same name counts once.
Present(p, path) ==
  /\ installed[File[path]] # Absent
  /\ \A q \in Paths : found[p][q] # None => File[q] # File[path] \/ Name[q] # Name[path]

StatusOf(p, path) ==
  CASE Name[path] \in disabled[p] -> "disabled"
    [] Name[path] \notin disabled[p]
       /\ \E q \in Paths : found[p][q] # None /\ Name[q] = Name[path] -> "shadowed"
    [] OTHER -> "ok"

\* A cached entry counts as long as the fingerprint is the same.
JobFor(p, path) ==
  LET now   == installed[File[path]]
      known == old[p] # None /\ old[p][path] # None /\ old[p][path].print = now
  IN  [print |-> now, says |-> IF known THEN old[p][path].says ELSE None, ran |-> None,
       stage |-> IF known THEN "done" ELSE "marker"]

\* The next path is looked up, and the fingerprint taken of what is there.
\* After the last one the metadata jobs run, all at once.
Look(p) ==
  /\ step[p] = "search"
  /\ next[p] < Len(Order)
  /\ next' = [next EXCEPT ![p] = @ + 1]
  /\ step' = [step EXCEPT ![p] = IF next'[p] = Len(Order) THEN "describe" ELSE @]
  /\ LET path == Order[next'[p]] IN
       IF Present(p, path)
       THEN /\ found' = [found EXCEPT ![p][path] = StatusOf(p, path)]
            /\ jobs' = [jobs EXCEPT ![p][path] =
                          IF StatusOf(p, path) = "ok" THEN JobFor(p, path) ELSE None]
       ELSE UNCHANGED <<found, jobs>>
  /\ UNCHANGED <<worldVars, disabled, cached, snapshot, op, old, commands>>

AtStage(p, path, stage) ==
  step[p] = "describe" /\ jobs[p][path] # None /\ jobs[p][path].stage = stage

\* The marker is looked for in the file as it is now; what cannot be read has none.
ReadMarker(p, path) ==
  /\ AtStage(p, path, "marker")
  /\ LET now == installed[File[path]] IN
       jobs' = [jobs EXCEPT ![p][path].stage =
                  IF now = Absent \/ now \in Plain THEN "done" ELSE "spawn"]
  /\ UNCHANGED <<worldVars, disabled, cached, snapshot, step, op, next, old, found, commands>>

\* spawn runs whatever is there by then, in a process group of its own.
SpawnDescribe(p, path) ==
  /\ AtStage(p, path, "spawn")
  /\ LET now == installed[File[path]] IN
       jobs' = [jobs EXCEPT ![p][path] =
                  IF now = Absent THEN [@ EXCEPT !.says = Failed, !.stage = "done"]
                  ELSE [@ EXCEPT !.ran = now, !.stage = "running"]]
  /\ UNCHANGED <<worldVars, disabled, cached, snapshot, step, op, next, old, found, commands>>

\* Seeded bug: only the child is killed, and a descendant keeps the pipe.
ChildKilled == {"done", "held", "kept"}

\* What the reader comes to once the process group has been killed: the end of
\* the pipe, unless a descendant in another group still holds it.
GroupKilled == {"done", "held"}

\* The child exits: with metadata that is valid, or without.
Answer(p, path) ==
  /\ AtStage(p, path, "running")
  /\ \E says \in {Failed} \cup ({jobs[p][path].ran} \ Plain), stage \in GroupKilled :
       jobs' = [jobs EXCEPT ![p][path].says = says, ![p][path].ran = None,
                             ![p][path].stage = stage]
  /\ UNCHANGED <<worldVars, disabled, cached, snapshot, step, op, next, old, found, commands>>

\* The time is over.
TimeOut(p, path) ==
  /\ AtStage(p, path, "running")
  /\ \E stage \in GroupKilled :
       jobs' = [jobs EXCEPT ![p][path].says = Failed, ![p][path].ran = None,
                             ![p][path].stage = stage]
  /\ UNCHANGED <<worldVars, disabled, cached, snapshot, step, op, next, old, found, commands>>

\* A descendant that left the group lets go of the pipe.
LetGo(p, path) ==
  /\ AtStage(p, path, "held")
  /\ jobs' = [jobs EXCEPT ![p][path].stage = "done"]
  /\ UNCHANGED <<worldVars, disabled, cached, snapshot, step, op, next, old, found, commands>>

\* Seeded bug: the fingerprint is taken when the metadata is there.
LateEntries(p) ==
  [path \in Paths |->
     IF jobs[p][path] = None \/ installed[File[path]] = Absent THEN None
     ELSE [print |-> installed[File[path]], says |-> jobs[p][path].says]]

\* The cache of this search, without the entries of what it did not find.
NewEntries(p) ==
  [path \in Paths |-> IF jobs[p][path] = None THEN None
                      ELSE [print |-> jobs[p][path].print, says |-> jobs[p][path].says]]

\* Every plugin with its status and metadata.
Inventory(p) ==
  [path \in Paths |-> IF found[p][path] = None THEN None
                      ELSE LET says == IF jobs[p][path] = None THEN None ELSE jobs[p][path].says
                           IN  [status |-> IF says = Failed THEN "describe error" ELSE found[p][path],
                                says   |-> says]]

\* The search is over. The cache is replaced if it is not what was read, and an
\* empty one is not created; a failure to write it goes unnoticed.
Conclude(p) ==
  /\ step[p] = "describe"
  /\ \A path \in Paths : jobs[p][path] # None => jobs[p][path].stage = "done"
  /\ \/ /\ NewEntries(p) # old[p]
        /\ NewEntries(p) # Nowhere \/ old[p] # None
        /\ cached' = NewEntries(p)
     \/ UNCHANGED cached
  /\ snapshot' = [snapshot EXCEPT ![p] = Inventory(p)]
  /\ step' = [step EXCEPT ![p] = "answered"]
  /\ next' = [next EXCEPT ![p] = 0]
  /\ old' = [old EXCEPT ![p] = None]
  /\ found' = [found EXCEPT ![p] = Nowhere]
  /\ jobs' = [jobs EXCEPT ![p] = Nowhere]
  /\ UNCHANGED <<worldVars, disabled, op, commands>>

-----------------------------------------------------------------------------
(* What a command does with the answer. *)

\* A listing, a catalog, help or a completion.
Show(p) ==
  /\ step[p] = "answered"
  /\ op[p] = Listing
  /\ step' = [step EXCEPT ![p] = "idle"]
  /\ UNCHANGED <<worldVars, disabled, cached, snapshot, op, searchVars, commands>>

\* Plugin::available: a describe error takes the place of the status alone.
Available(plugin) == plugin # None /\ (plugin.status = "ok" \/ plugin.says = Failed)

Known(p, name) == \E path \in Paths : Name[path] = name /\ snapshot[p][path] # None

\* Seeded bug: the inventory from before the change is kept.
SetDisabledOnly(p, names) ==
  /\ disabled' = [disabled EXCEPT ![p] = names]
  /\ UNCHANGED snapshot

\* PluginManager::set_disabled
SetDisabled(p, names) ==
  /\ disabled' = [disabled EXCEPT ![p] = names]
  /\ snapshot' = [snapshot EXCEPT ![p] = None]

\* set_enabled: for a name that is in the inventory the list is read from the
\* configuration, changed and written, then handed to the manager, unless one of
\* these fails. DisabledList has the steps, between which others may write.
SetEnabled(p) ==
  /\ step[p] = "answered"
  /\ op[p].kind \in {"enable", "disable"}
  /\ \/ /\ Known(p, op[p].name)
        /\ \E names \in SUBSET Names :
             /\ op[p].name \in names <=> op[p].kind = "disable"
             /\ SetDisabled(p, names)
     \/ UNCHANGED <<disabled, snapshot>>
  /\ op' = [op EXCEPT ![p] = Listing]
  /\ step' = [step EXCEPT ![p] = "idle"]
  /\ UNCHANGED <<worldVars, cached, searchVars, commands>>

\* PluginManager::refresh
Refresh(p) ==
  /\ Count
  /\ step[p] = "idle"
  /\ cached' = None
  /\ snapshot' = [snapshot EXCEPT ![p] = None]
  /\ UNCHANGED <<worldVars, disabled, step, op, searchVars>>

\* The state of a process is built, or built again, from the configuration:
\* the new manager has the list that is resolved by then, and is asked for the
\* declared authorization before the command goes on.
Build(p, command) ==
  /\ Count
  /\ \E names \in SUBSET Names : SetDisabled(p, names)
  /\ step' = [step EXCEPT ![p] = "search"]
  /\ op' = [op EXCEPT ![p] = command]
  /\ next' = [next EXCEPT ![p] = 0]
  /\ old' = [old EXCEPT ![p] = cached]
  /\ found' = [found EXCEPT ![p] = Nowhere]
  /\ jobs' = [jobs EXCEPT ![p] = Nowhere]
  /\ UNCHANGED <<worldVars, cached>>

\* A process starts, in place of one that ended or was killed at any point.
Restart(p) == Build(p, Listing)

\* PluginManager::find, for run_external_plugin_command: the first available
\* executable of the name, if there is one. The list of disabled names and the
\* search tell the case of letters apart, this does not.
Find(p) ==
  /\ step[p] = "answered"
  /\ op[p].kind = "run"
  /\ LET here == {i \in DOMAIN Order :
                    /\ Folded[Name[Order[i]]] = Folded[op[p].name]
                    /\ Available(snapshot[p][Order[i]])}
     IN  \/ /\ here = {}
            /\ op' = [op EXCEPT ![p] = Listing]
            /\ step' = [step EXCEPT ![p] = "idle"]
         \/ /\ \E i \in here :
                 /\ \A k \in here : i <= k
                 /\ op' = [op EXCEPT ![p] = [kind |-> "start", path |-> Order[i]]]
            /\ UNCHANGED step
  /\ UNCHANGED <<worldVars, disabled, searchVars, cached, snapshot, commands>>

\* The access hook of the product asks for the configuration to be loaded
\* again. The executable that was found is kept.
AccessHook(p) ==
  /\ step[p] = "answered"
  /\ op[p].kind = "start"
  /\ Build(p, [op[p] EXCEPT !.kind = "admitted"])

\* run spawns what is at the path by now, or fails; PluginRun says what follows.
Start(p) ==
  /\ step[p] = "answered"
  /\ op[p].kind \in {"start", "admitted"}
  /\ step' = [step EXCEPT ![p] = IF installed[File[op[p].path]] = Absent THEN "idle" ELSE "running"]
  /\ op' = [op EXCEPT ![p] = Listing]
  /\ UNCHANGED <<worldVars, disabled, searchVars, cached, snapshot, commands>>

RunReturns(p) ==
  /\ step[p] = "running"
  /\ step' = [step EXCEPT ![p] = "idle"]
  /\ UNCHANGED <<worldVars, disabled, searchVars, cached, snapshot, op, commands>>

JobStep(p, path) ==
  \/ ReadMarker(p, path) \/ SpawnDescribe(p, path)
  \/ Answer(p, path) \/ TimeOut(p, path) \/ LetGo(p, path)

\* What p does of its own accord, whatever executables and users do.
Progress(p) ==
  \/ Look(p) \/ Conclude(p)
  \/ \E path \in Paths : ReadMarker(p, path) \/ SpawnDescribe(p, path) \/ TimeOut(p, path)

CatalogStep(p) ==
  \/ \E command \in Commands : Ask(p, command)
  \/ Look(p) \/ Conclude(p) \/ Show(p)
  \/ \E path \in Paths : JobStep(p, path)
  \/ SetEnabled(p)
  \/ Refresh(p) \/ Restart(p)
  \/ Find(p) \/ AccessHook(p) \/ Start(p) \/ RunReturns(p)

CatalogNext ==
  \/ \E f \in Files : Install(f) \/ Uninstall(f)
  \/ \E p \in Processes : CatalogStep(p)

CatalogSpec == CatalogInit /\ [][CatalogNext]_catalogVars

-----------------------------------------------------------------------------
(* Properties. *)

CatalogTypeOK ==
  /\ installed \in [Files -> Versions \cup {Absent}]
  /\ latest \in 0 .. MaxVersions
  /\ cached \in Cache
  /\ disabled \in [Processes -> SUBSET Names]
  /\ snapshot \in [Processes -> [Paths -> Plugin \cup {None}] \cup {None}]
  /\ step \in [Processes -> {"idle", "search", "describe", "answered", "running"}]
  /\ op \in [Processes -> Work]
  /\ next \in [Processes -> 0 .. Len(Order)]
  /\ old \in [Processes -> Cache]
  /\ found \in [Processes -> [Paths -> {"ok", "disabled", "shadowed", None}]]
  /\ jobs \in [Processes -> [Paths -> Job \cup {None}]]
  /\ commands \in 0 .. MaxCommands

Printed(version) == IF version \in Plain THEN None ELSE version

\* What the cache says under the fingerprint of the executable that is there
\* now is what that executable prints, if anything: however it was replaced
\* while it was looked at, and whichever process wrote the cache last.
CacheIsHonest ==
  cached # None =>
    \A path \in Paths :
      LET now == installed[File[path]] IN
        cached[path] # None /\ cached[path].print = now
        => cached[path].says \in {Failed, Printed(now)}

\* In every inventory each name has one provider, the first of those found,
\* described or not; a name that is disabled by now has none.
OneProviderPerName ==
  \A p \in Processes : snapshot[p] # None =>
    \A name \in Names :
      LET here == {i \in DOMAIN Order : Name[Order[i]] = name /\ snapshot[p][Order[i]] # None}
      IN  {i \in here : Available(snapshot[p][Order[i]])} =
            IF name \in disabled[p] THEN {} ELSE {i \in here : \A k \in here : i <= k}

\* A search ends, however long its executables take to describe themselves,
\* unless a descendant of one escaped from its process group with the pipe.
SearchEnds ==
  \A p \in Processes :
    step[p] = "search" ~>
      step[p] \notin {"search", "describe"} \/ \E path \in Paths : AtStage(p, path, "held")

=============================================================================
