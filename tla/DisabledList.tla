---------------------------- MODULE DisabledList ----------------------------
(***************************************************************************)
(* The list of disabled commands, extensions.plugins.disabled, among osp   *)
(* processes of one profile: set_enabled in src/cli/commands/plugins.rs    *)
(* and the manager that src/app/assembly.rs builds from the configuration. *)
(*                                                                         *)
(* config.toml holds the list of the profile. Something above it may give  *)
(* a process another one: a variable, the secrets store, or an entry of a  *)
(* more specific scope (`above`), and above these the overrides of its     *)
(* session. set_enabled resolves the list without the session, changes it  *)
(* and writes it to the profile: the resolution takes no lock, so another  *)
(* process may write between the two. PluginCatalog takes every list its   *)
(* manager may be given here.                                              *)
(***************************************************************************)
EXTENDS Naturals

CONSTANTS
  Hosts,       \* osp processes
  Switchable,  \* the names of executables
  Below,       \* the list of a less specific scope, or the default
  Outranking,  \* Outranking[h]: the lists that may come from above for h
  Overrides,   \* Overrides[h]: the lists that config set --session may give
  Nothing

Lists == SUBSET Switchable
MaybeList == Lists \cup {Nothing}

Gives(lists) == {given \in [Hosts -> MaybeList] : \A h \in Hosts : given[h] \in lists[h] \cup {Nothing}}

ASSUME ListsAssumption ==
  /\ Below \in Lists
  /\ Outranking \in [Hosts -> SUBSET Lists] /\ Overrides \in [Hosts -> SUBSET Lists]
ASSUME NothingAssumption ==
  /\ \A list \in Lists : Nothing # list
  /\ Nothing \notin {"enable", "disable"}
  /\ Nothing \notin [kind : {"enable", "disable"}, name : Switchable, names : Lists]

VARIABLES
  stored,    \* the list of the profile in config.toml, or Nothing
  above,     \* above[h]: what outranks it for h, or Nothing
  override,  \* override[h]: the list among the overrides of its session, or Nothing
  manager,   \* manager[h]: PluginManager::disabled
  edit,      \* edit[h]: what its command is about to write, or Nothing
  choice,    \* history variable: the last command on a name, or Nothing
  unseen     \* history variable: the names whose choice edit[h] does not know

listVars == <<stored, above, override, manager, edit, choice, unseen>>

OrElse(list, other) == IF list # Nothing THEN list ELSE other

\* resolve_runtime_config without a session layer, and with it.
Resolved(h) == OrElse(above[h], OrElse(stored, Below))
InSession(h) == OrElse(override[h], Resolved(h))

ListInit ==
  /\ stored \in MaybeList
  /\ above \in Gives(Outranking)
  /\ override \in Gives(Overrides)
  /\ manager = [h \in Hosts |-> InSession(h)]
  /\ edit = [h \in Hosts |-> Nothing]
  /\ choice = [name \in Switchable |-> Nothing]
  /\ unseen = [h \in Hosts |-> {}]

-----------------------------------------------------------------------------
(* osp plugins enable and disable. *)

\* Seeded bug: the list in memory stands for the configuration.
InMemory(h) == manager[h]

\* The list a command starts from.
Basis(h) == Resolved(h)

\* set_enabled resolves the configuration again and changes the list. What was
\* resolved from above says nothing of the commands that changed the profile's.
SwitchReads(h) ==
  /\ edit[h] = Nothing
  /\ \E name \in Switchable, kind \in {"enable", "disable"} :
       edit' = [edit EXCEPT ![h] = [kind |-> kind, name |-> name,
                  names |-> (Basis(h) \ {name}) \cup (IF kind = "disable" THEN {name} ELSE {})]]
  /\ unseen' = [unseen EXCEPT ![h] = IF above[h] = Nothing THEN {} ELSE Switchable]
  /\ UNCHANGED <<stored, above, override, manager, choice>>

\* What is left of the choices once h has written: its own, if it was told so,
\* and those its list knows.
Choices(h, own) ==
  [name \in Switchable |-> IF name = edit[h].name THEN own
                           ELSE IF name \in unseen[h] THEN Nothing ELSE choice[name]]

\* set_scoped_value_in_toml; every list read before no longer knows the choice.
Replace(h, own) ==
  /\ edit[h] # Nothing
  /\ stored' = edit[h].names
  /\ choice' = Choices(h, own)
  /\ unseen' = [g \in Hosts |-> IF g # h /\ edit[g] # Nothing THEN unseen[g] \cup {edit[h].name} ELSE {}]
  /\ edit' = [edit EXCEPT ![h] = Nothing]

\* The list is replaced in the file, then in the manager.
SwitchWrites(h) ==
  /\ Replace(h, edit[h].kind)
  /\ manager' = [manager EXCEPT ![h] = edit[h].names]
  /\ UNCHANGED <<above, override>>

\* The directory could not be synced after the rename: the command fails.
SwitchFailsLate(h) ==
  /\ Replace(h, Nothing)
  /\ UNCHANGED <<above, override, manager>>

SwitchFails(h) ==
  /\ edit[h] # Nothing
  /\ edit' = [edit EXCEPT ![h] = Nothing]
  /\ UNCHANGED <<stored, above, override, manager, choice, unseen>>

-----------------------------------------------------------------------------
(* What else changes the list that a process goes by. *)

\* config set and unset --session; the next cycle builds the manager again.
OverrideList(h) ==
  /\ edit[h] = Nothing
  /\ \E list \in Overrides[h] \cup {Nothing} : override' = [override EXCEPT ![h] = list]
  /\ UNCHANGED <<stored, above, manager, edit, choice, unseen>>

\* build_plugin_manager for a rebuild of a REPL, with the overrides of its session.
Rebuild(h) ==
  /\ edit[h] = Nothing
  /\ manager' = [manager EXCEPT ![h] = InSession(h)]
  /\ UNCHANGED <<stored, above, override, edit, choice, unseen>>

\* A process starts, in place of one that ended or was killed at any point.
HostStarts(h) ==
  /\ UNCHANGED <<stored, choice>>
  /\ \E list \in Outranking[h] \cup {Nothing} : above' = [above EXCEPT ![h] = list]
  /\ \E list \in Overrides[h] \cup {Nothing} : override' = [override EXCEPT ![h] = list]
  /\ manager' = [manager EXCEPT ![h] = InSession(h)']
  /\ edit' = [edit EXCEPT ![h] = Nothing]
  /\ unseen' = [unseen EXCEPT ![h] = {}]

\* An editor, or another command, changes the profile's list.
StoreOutside ==
  /\ stored' \in MaybeList
  /\ choice' = [name \in Switchable |-> Nothing]
  /\ UNCHANGED <<above, override, manager, edit, unseen>>

\* It changes an entry of a more specific scope.
OutrankOutside ==
  /\ above' \in Gives(Outranking)
  /\ UNCHANGED <<stored, override, manager, edit, choice, unseen>>

ListNext ==
  \/ \E h \in Hosts :
       \/ SwitchReads(h) \/ SwitchWrites(h) \/ SwitchFailsLate(h) \/ SwitchFails(h)
       \/ OverrideList(h) \/ Rebuild(h) \/ HostStarts(h)
  \/ StoreOutside \/ OutrankOutside

ListSpec == ListInit /\ [][ListNext]_listVars

-----------------------------------------------------------------------------
(* Properties. *)

ListTypeOK ==
  /\ stored = Nothing \/ stored \in Lists
  /\ above \in Gives(Outranking)
  /\ override \in Gives(Overrides)
  /\ manager \in [Hosts -> Lists]
  /\ edit \in [Hosts -> [kind : {"enable", "disable"}, name : Switchable, names : Lists] \cup {Nothing}]
  /\ choice \in [Switchable -> {"enable", "disable", Nothing}]
  /\ unseen \in [Hosts -> SUBSET Switchable]

\* The profile's list says of each name what the last command on it asked for.
\* A choice is lost to a command that had read the list before it was made, or
\* that something above the profile gave another list, to nothing else: neither
\* to what a session or a manager in memory goes by, nor to a failed command.
ChoicesStand ==
  \A name \in Switchable : choice[name] # Nothing =>
    stored # Nothing /\ (name \in stored <=> choice[name] = "disable")

=============================================================================
