---------------------------- MODULE ConfigLayers ----------------------------
(***************************************************************************)
(* How a configuration is resolved from its layers (src/config/selector,   *)
(* resolver, bootstrap and interpolate): which entry wins for a key, what  *)
(* its placeholders expand to, and which profiles exist.                   *)
(*                                                                         *)
(* A layer is a function of a key and a scope. The code keeps a list of    *)
(* entries, of which the last one with a key and a scope counts.           *)
(***************************************************************************)
EXTENDS Naturals, FiniteSets, SequencesExt

CONSTANTS
  Keys,      \* canonical configuration keys
  Profiles,  \* profile names, normalized
  Terminals, \* terminal names, normalized
  Values,    \* what a key may be set to, before placeholders are expanded
  Refs,      \* Refs[v]: the keys that the placeholders of v name
  Declared,  \* keys whose product default is a secret
  Active,    \* the profile of the process
  Terminal,  \* the terminal of the process
  None

Scope == [profile : Profiles \cup {None}, terminal : Terminals \cup {None}]

ASSUME ProcessAssumption ==
  /\ Active \in Profiles
  /\ Terminal \in Terminals
  /\ None \notin Profiles \cup Terminals \cup Scope
ASSUME ValuesAssumption ==
  /\ IsFiniteSet(Keys)
  /\ None \notin Values
  /\ Refs \in [Values -> SUBSET Keys]
  /\ Declared \subseteq Keys

Layer == [Keys -> [Scope -> Values \cup {None}]]

NoEntry == [k \in Keys |-> [s \in Scope |-> None]]

Global == [profile |-> None, terminal |-> None]

-----------------------------------------------------------------------------
(* One layer. *)

Applies(s) == s.profile \in {Active, None} /\ s.terminal \in {Terminal, None}

\* ScopeSelector::rank: lower is more specific, and a profile counts for more
\* than a terminal.
Rank(s) == (IF s.profile = None THEN 2 ELSE 0) + (IF s.terminal = None THEN 1 ELSE 0)

\* ScopeSelector::select: the scope whose entry a layer offers, or None.
Chosen(entries) ==
  LET offered == {s \in Scope : Applies(s) /\ entries[s] # None}
  IN IF offered = {} THEN None
     ELSE CHOOSE s \in offered : \A r \in offered : Rank(s) <= Rank(r)

-----------------------------------------------------------------------------
(* All layers: [defaults, file, vault, hidden, env, session |-> a layer].  *)
(* vault is the persistent secrets store, hidden the OSP_SECRET__ and env  *)
(* the OSP__ variables.                                                    *)

Sources == <<"defaults", "file", "secrets", "env", "session">>

\* RuntimeSelectedSecretsLoader::load appends the variables to the store.
SecretEntries(layers, k) ==
  [s \in Scope |-> IF layers.hidden[k][s] # None THEN layers.hidden[k][s]
                                                 ELSE layers.vault[k][s]]

EntriesOf(layers, source, k) ==
  IF source = "secrets" THEN SecretEntries(layers, k) ELSE layers[source][k]

\* should_preserve_selected_secret: the secret that a plain variable leaves in
\* place came from a variable itself.
Preserved(layers, k) ==
  LET s == Chosen(SecretEntries(layers, k))
  IN s # None /\ layers.hidden[k][s] # None

\* ConfigResolver::select_across_layers: the last source that has an entry.
\* Values of the secrets layer are marked as secrets, and so are the declared
\* secrets in a default or an override.
Winner(layers, k) ==
  LET offering == {i \in DOMAIN Sources : Chosen(EntriesOf(layers, Sources[i], k)) # None}
      last == Max(offering)
      source == IF Sources[last] = "env" /\ Preserved(layers, k) THEN "secrets" ELSE Sources[last]
      s == Chosen(EntriesOf(layers, source, k))
  IN IF offering = {} THEN None
     ELSE [source |-> source, scope |-> s, value |-> EntriesOf(layers, source, k)[s],
           secret |-> \/ source = "secrets"
                      \/ source \in {"defaults", "session"} /\ k \in Declared]

Selected ==
  [source : {Sources[i] : i \in DOMAIN Sources}, scope : Scope, value : Values,
   secret : BOOLEAN]

ASSUME SelectedAssumption == None \notin Selected

\* ConfigResolver::collect_selected_values_for_frame
Winners(layers) == [k \in Keys |-> Winner(layers, k)]

-----------------------------------------------------------------------------
(* Placeholders. *)

\* Seeded bug: a value is a secret only if it was entered as one.
SecretByItself(raw, key, parts) == raw[key].secret

\* A value that includes a secret is one.
Secret(raw, key, parts) == raw[key].secret \/ \E part \in parts : part.secret

\* Interpolator::resolve_value, with the keys on its stack: it fails at a key
\* that is on the stack or that has no value.
Resolution(raw) ==
  LET expand[p \in Keys \X SUBSET Keys] ==
        LET key == p[1]
            stack == p[2]
        IN IF key \in stack \/ raw[key] = None THEN [ok |-> FALSE, secret |-> FALSE]
           ELSE LET parts == {expand[<<ref, stack \cup {key}>>] : ref \in Refs[raw[key].value]}
                IN [ok |-> \A part \in parts : part.ok,
                    secret |-> Secret(raw, key, parts)]
  IN expand

Expansion(raw) == [k \in Keys |-> Resolution(raw)[<<k, {}>>]]

\* Interpolator::apply_all: the error of one key fails the resolution.
Expands(raw) ==
  LET expansion == Expansion(raw)
  IN \A k \in Keys : raw[k] # None => expansion[k].ok

\* Seeded bug: a placeholder has only to name a key that has a value.
AcceptableByName(raw, k, v) == \A ref \in Refs[v] : raw[ref] # None

\* ResolvedConfig::validate_candidate: the proposed value among the values of
\* the snapshot, even where it would not win.
Acceptable(raw, k, v) ==
  Expands([raw EXCEPT ![k] = [source |-> "session", scope |-> Global, value |-> v,
                              secret |-> FALSE]])

-----------------------------------------------------------------------------
(* Profiles. *)

\* collect_known_profiles, but for profile.default: the profiles that the files
\* declare and the ones that entries of a layer are for.
KnownProfiles(layers, declared) ==
  declared \cup {p \in Profiles : \E source \in DOMAIN layers, k \in Keys, s \in Scope :
                                    s.profile = p /\ layers[source][k][s] # None}
=============================================================================
