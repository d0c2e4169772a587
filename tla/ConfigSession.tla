--------------------------- MODULE ConfigSession ---------------------------
(***************************************************************************)
(* A REPL that edits its own configuration (src/cli/commands/config.rs and *)
(* the rebuild of its state): it resolves its layers into a snapshot, each *)
(* config set, unset and theme reset is judged by the snapshot and writes  *)
(* a store scope by scope, and the REPL then resolves again and ends if it *)
(* cannot. Editors and other processes change the file at any time.        *)
(***************************************************************************)
EXTENDS ConfigStore

CONSTANTS
  Offered,      \* Offered[k]: the values that k is set to
  ProductDefaults, \* the defaults layer
  FirstFiles,   \* the config files a session may start with
  FirstVaults,  \* the secrets files a session may start with
  Environments, \* the variables of the process: [hidden, env |-> a layer]
  MaxEdits,     \* bound: config commands in a behaviour
  OutsideEdits, \* what others put in the config file: <<table, name, value or None>>
  MaxOutside    \* bound: changes that others make to the config file

ASSUME SessionAssumption ==
  /\ Offered \in [Keys -> SUBSET Values]
  /\ ProductDefaults \in Layer
  /\ FirstFiles \subseteq Store /\ FirstVaults \subseteq Store
  /\ \A e \in Environments : e.hidden \in Layer /\ e.env \in Layer
  /\ OutsideEdits \subseteq Tables \X Names \X (Values \cup {None})
  /\ MaxEdits \in Nat /\ MaxOutside \in Nat
  /\ None \notin {"set", "unset", "reset"}

VARIABLES
  file,      \* the config file
  vault,     \* the secrets file
  environ,   \* the variables of the process
  overrides, \* AppSession::config_overrides
  snapshot,  \* what the last load selected; a REPL runs on it if it is usable
  op,        \* the command under way
  edits,     \* commands so far
  outside,   \* changes by others so far
  fresh      \* history: only the command under way has changed a store since the snapshot

vars == <<file, vault, environ, overrides, snapshot, op, edits, outside, fresh>>

Layers == [defaults |-> ProductDefaults, file |-> Loaded(file), vault |-> Loaded(vault),
           hidden |-> environ.hidden, env |-> environ.env, session |-> overrides]

\* prepare_resolution and resolve_maps_for_frame, before the expansion.
Current == [raw |-> Winners(Layers),
            known |-> KnownProfiles(Layers, DeclaredProfiles(file) \cup DeclaredProfiles(vault))]

\* A profile that is not known and a placeholder that does not expand are errors.
Usable(config) == Active \in config.known /\ Expands(config.raw)

Idle(stage) == [stage |-> stage, kind |-> None, store |-> None, key |-> None,
                value |-> None, scopes |-> {}, todo |-> {}]

Init ==
  /\ file \in FirstFiles
  /\ vault \in FirstVaults
  /\ environ \in Environments
  /\ overrides = NoEntry
  /\ snapshot = Current
  /\ Usable(snapshot)
  /\ op = Idle("ready")
  /\ edits = 0
  /\ outside = 0
  /\ fresh = TRUE

-----------------------------------------------------------------------------
(* Which store and which scopes a command is for. *)

\* resolve_config_scopes, with --profile-all as the profiles of the snapshot.
\* The defaults for them (config.default-target) choose among these.
Targets ==
  {{s} : s \in DOMAIN Exact}
    \cup {{[profile |-> p, terminal |-> t] : p \in snapshot.known} : t \in {None, Terminal}}

\* resolve_edit_target: what is stored of a declared secret goes to the vault.
StoreFor(k, store) ==
  IF store = "config" /\ k \in Declared THEN "secrets" ELSE store

\* scope_applies
Applicable(scopes) == {s \in scopes : Applies(s)}

\* Seeded bug: a stored edit leaves the overrides of its key in place.
OverridesKept(k) == overrides

\* clear_session_values
WithoutOverride(k) ==
  [overrides EXCEPT ![k] = [s \in Scope |-> IF Applies(s) THEN None ELSE @[s]]]

Ready == op.stage = "ready" /\ edits < MaxEdits

Entered(k, v, kind, store, scopes) ==
  /\ Ready
  /\ edits' = edits + 1
  /\ scopes \subseteq DOMAIN Exact
  /\ op' = [stage |-> IF store = "session" THEN "reload" ELSE "writing", kind |-> kind,
            store |-> store, key |-> k, value |-> v, scopes |-> scopes,
            todo |-> IF store = "session" THEN {} ELSE scopes]
  /\ overrides' = IF store # "session" THEN overrides
                  ELSE [overrides EXCEPT ![k] = [s \in Scope |-> IF s \in scopes THEN v ELSE @[s]]]
  /\ UNCHANGED <<file, vault, environ, snapshot, outside, fresh>>

\* run_config_set, up to the first write.
Set(k, v) ==
  /\ Ready
  /\ Acceptable(snapshot.raw, k, v)
  /\ \E store \in {"session", "config", "secrets"}, scopes \in Targets :
       Entered(k, v, "set", StoreFor(k, store), scopes)

\* run_config_unset, up to the first write. Nothing is validated.
Unset(k, store, scopes) == Entered(k, None, "unset", StoreFor(k, store), scopes)

\* clear_theme_values: it unsets the key in every scope of the file that applies.
Reset(k) ==
  /\ k \notin Declared
  /\ Entered(k, None, "reset", "config", Applicable({s \in Scope : Loaded(file)[k][s] # None}))

-----------------------------------------------------------------------------
(* apply_scoped_edit *)

Edited(store, s, name) ==
  IF op.value = None THEN UnsetScoped(store, op.key, s)
  ELSE SetScoped(store, op.key, s, name, op.value)

\* One scope, in any order. Every scope of a reset is a config unset of its own.
Write(s) ==
  /\ op.stage = "writing"
  /\ s \in op.todo
  /\ \/ /\ op.store = "config"
        /\ file' = Edited(file, s, Display[op.key])
        /\ UNCHANGED vault
     \/ /\ op.store = "secrets"
        /\ vault' = Edited(vault, s, op.key)
        /\ UNCHANGED file
  /\ op' = [op EXCEPT !.todo = @ \ {s}]
  /\ overrides' = IF op.kind = "reset" THEN WithoutOverride(op.key) ELSE overrides
  /\ UNCHANGED <<environ, snapshot, edits, outside, fresh>>

\* A store that cannot be locked, read or written ends the command there: the
\* scopes before it stay written and the overrides stay in place.
FailToWrite ==
  /\ op.stage = "writing"
  /\ op.todo # {}
  /\ op' = Idle("ready")
  /\ fresh' = FALSE
  /\ UNCHANGED <<file, vault, environ, overrides, snapshot, edits, outside>>

\* A stored edit removes the overrides that would hide it.
Finish ==
  /\ op.stage = "writing"
  /\ op.todo = {}
  /\ overrides' = WithoutOverride(op.key)
  /\ op' = [op EXCEPT !.stage = "reload"]
  /\ UNCHANGED <<file, vault, environ, snapshot, edits, outside, fresh>>

-----------------------------------------------------------------------------
(* The REPL around it. *)

\* rebuild_repl_in_place in the next cycle: an error ends the REPL.
Reload ==
  /\ op.stage = "reload"
  /\ snapshot' = Current
  /\ op' = Idle(IF Usable(snapshot') THEN "ready" ELSE "over")
  /\ fresh' = TRUE
  /\ UNCHANGED <<file, vault, environ, overrides, edits, outside>>

\* A new process, which resolves before anything else.
Start ==
  /\ op.stage \in {"ready", "over"}
  /\ overrides' = NoEntry
  /\ op' = Idle("reload")
  /\ UNCHANGED <<file, vault, environ, snapshot, edits, outside, fresh>>

\* config unset on the command line, which resolves without expanding.
Repair(k, s) ==
  /\ op.stage = "over"
  /\ edits < MaxEdits
  /\ edits' = edits + 1
  /\ Active \in Current.known
  /\ \/ /\ StoreFor(k, "config") = "config"
        /\ file' = UnsetScoped(file, k, s)
        /\ UNCHANGED vault
     \/ /\ StoreFor(k, "config") = "secrets"
        /\ vault' = UnsetScoped(vault, k, s)
        /\ UNCHANGED file
  /\ UNCHANGED <<environ, overrides, snapshot, op, outside, fresh>>

\* Someone else sets or removes a name in a table, however it is spelled.
EditOutside(t, n, v) ==
  /\ outside < MaxOutside
  /\ outside' = outside + 1
  /\ t \in file.tables \/ v # None
  /\ file' = [tables |-> file.tables \cup ({t, Outer[t]} \ {None}),
              at |-> [file.at EXCEPT ![t][n] = v]]
  /\ fresh' = FALSE
  /\ UNCHANGED <<vault, environ, overrides, snapshot, op, edits>>

Next ==
  \/ \E k \in Keys :
       \/ \E v \in Offered[k] : Set(k, v)
       \/ \E store \in {"session", "config", "secrets"}, scopes \in Targets : Unset(k, store, scopes)
       \/ Reset(k)
  \/ \E s \in op.todo : Write(s)
  \/ FailToWrite \/ Finish \/ Reload \/ Start
  \/ \E k \in Keys, s \in DOMAIN Exact : Repair(k, s)
  \/ \E change \in OutsideEdits : EditOutside(change[1], change[2], change[3])

Spec == Init /\ [][Next]_vars

-----------------------------------------------------------------------------
(* Properties. *)

Commands ==
  [stage : {"ready", "writing", "reload", "over"}, kind : {None, "set", "unset", "reset"},
   store : {None, "session", "config", "secrets"}, key : Keys \cup {None},
   value : Values \cup {None}, scopes : SUBSET DOMAIN Exact, todo : SUBSET DOMAIN Exact]

\* The values of the variables, and that no store keeps entries of a table that
\* it does not have; that an edit under way is of a key in scopes that have a
\* table is what apply_scoped_edit relies on.
TypeOK ==
  /\ file \in Store /\ vault \in Store
  /\ environ \in Environments
  /\ overrides \in Layer
  /\ snapshot.known \subseteq Profiles /\ DOMAIN snapshot.raw = Keys
  /\ op \in Commands
  /\ op.stage = "writing" => /\ op.key \in Keys
                             /\ op.store \in {"config", "secrets"}
                             /\ op.value = None <=> op.kind # "set"
  /\ edits \in 0..MaxEdits /\ outside \in 0..MaxOutside /\ fresh \in BOOLEAN

Wrote(s) ==
  op.stage = "writing" /\ s \in op.todo /\ op'.stage = "writing" /\ s \notin op'.todo

\* An edit changes what the loader finds for its key in its scope, to its value,
\* and nothing else, in whatever spellings the tables and the names are; the
\* tables that go were empty, and no profile stops being declared
\* (set_scoped_value, unset_dotted_value).
EditIsExact(before, after, s) ==
  /\ Loaded(after) = [Loaded(before) EXCEPT ![op.key][s] = op.value]
  /\ WellFormed(after)
  /\ DeclaredProfiles(before) \subseteq DeclaredProfiles(after)
EditsAreExact ==
  [][\A s \in op.todo : Wrote(s) =>
       IF op.store = "config" THEN EditIsExact(file, file', s) /\ vault' = vault
                              ELSE EditIsExact(vault, vault', s) /\ file' = file]_vars

\* What docs/CONFIG.md puts above an entry of a store in a scope, the session
\* apart: a higher layer, a secret variable, or a more specific scope.
MoreSpecific(r, s) ==
  \/ r.profile # None /\ s.profile = None
  \/ r.profile = s.profile /\ r.terminal # None /\ s.terminal = None
Outranked(layers, k, store, s) ==
  \/ store # "session" /\ Chosen(layers.env[k]) # None
  \/ store = "config" /\ Chosen(EntriesOf(layers, "secrets", k)) # None
  \/ store = "secrets" /\ layers.hidden[k][s] # None
  \/ \E r \in Applicable(Scope) :
       /\ MoreSpecific(r, s)
       /\ EntriesOf(layers, IF store = "config" THEN "file" ELSE store, k)[r] # None

\* The REPL loads what a command of its own left, and nobody else changed it.
Loads(kind) == op.stage = "reload" /\ op'.stage # "reload" /\ op.kind = kind /\ fresh

\* A config set that was judged by a current snapshot leaves a configuration
\* that the REPL can load, unless it uncovers what an override has hidden, or
\* what a secret variable has: a stored secret of a more specific scope comes
\* before that variable, and the plain variable before a stored secret
\* (validate_candidate, should_preserve_selected_secret).
Uncovers(k) ==
  /\ snapshot.raw[k] # None
  /\ \/ op.store # "session" /\ snapshot.raw[k].source = "session"
     \/ /\ op.store = "secrets" /\ snapshot.raw[k].source = "secrets"
        /\ Chosen(environ.env[k]) # None
SetKeepsUsable ==
  [][Loads("set") /\ ~Uncovers(op.key) => op'.stage = "ready"]_vars

\* A set stops at a store that cannot be written.
StopsHalfWay == op.stage = "writing" /\ op'.stage = "ready" /\ op.kind = "set" /\ fresh

\* What the process had for each key, it has still, or the value of the set in
\* the place of anything but an override.
LeavesOldOrNew ==
  \A k \in Keys :
    LET was == snapshot.raw[k]
        now == Winner(Layers', k)
    IN  \/ now = was
        \/ /\ k = op.key
           /\ \/ now # None /\ now.value = op.value /\ (was = None \/ was.source # "session")
              \/ Uncovers(k) /\ was.source = "secrets"

\* A stored value that nothing outranks is what the REPL resolves once the
\* command is over, although a session override hid it before, and a key that
\* was reset has no entry left that applies (apply_scoped_edit, clear_theme_values).
\* A set of several scopes that stops half-way has its value in those it was
\* through with, and no override is gone that hid them.
CommandsTakeEffect ==
  [][/\ Loads("set") =>
          \A s \in Applicable(op.scopes) :
            \/ Outranked(Layers, op.key, op.store, s)
            \/ snapshot'.raw[op.key].value = op.value
     /\ Loads("reset") =>
          \A s \in Applicable(Scope) :
            Loaded(file)[op.key][s] = None /\ overrides[op.key][s] = None
     /\ StopsHalfWay =>
          /\ LeavesOldOrNew
          /\ \A s \in op.scopes \ op.todo :
               Loaded(IF op.store = "config" THEN file' ELSE vault')[op.key][s] = op.value]_vars

\* The keys that the value of k includes, by its placeholders and theirs.
Included(raw, k) ==
  {j \in Keys : \A closed \in SUBSET Keys :
     (k \in closed /\ \A i \in closed : raw[i] # None => Refs[raw[i].value] \subseteq closed)
       => j \in closed}

\* The expansion succeeds just where no placeholder is without a value or leads
\* back to itself, and a value is marked as a secret just where it includes one,
\* at any distance (Interpolator::resolve_value).
ExpansionSound ==
  LET raw == snapshot.raw
      expansion == Expansion(raw)
  IN op.stage \in {"ready", "over"} => \A k \in Keys : raw[k] # None =>
       /\ expansion[k].ok <=>
            \A j \in Included(raw, k) :
              raw[j] # None /\ \A ref \in Refs[raw[j].value] : j \notin Included(raw, ref)
       /\ expansion[k].ok =>
            (expansion[k].secret <=> \E j \in Included(raw, k) : raw[j].secret)
=============================================================================
