---------------------------- MODULE ConfigStore ----------------------------
(***************************************************************************)
(* Edits of a TOML store (src/config/store.rs). The tables of a store are  *)
(* spelled as their author liked: [profile.Work] and [profile.work] hold   *)
(* the same scope, and a key may be stored under the name users see or     *)
(* under its canonical one. The loader reads them all and the last wins,   *)
(* so an edit has to find every spelling of what it edits.                 *)
(*                                                                         *)
(* A store is [tables |-> the tables it has, at |-> what is at a name of a *)
(* table]. A table that was emptied still declares its profile.            *)
(***************************************************************************)
EXTENDS ConfigLayers

CONSTANTS
  TableOrder, \* every spelling of every table, in the order the loader reads them
  ScopeOf,    \* ScopeOf[t]: the scope that table t holds
  Exact,      \* Exact[s]: the table of scope s in its normalized spelling
  Outer,      \* Outer[t]: the table that t is nested in, or None
  NameOrder,  \* every name of every key, in the order the loader reads them
  KeyOf,      \* KeyOf[n]: the key that name n stands for
  Display     \* Display[k]: the name of k that users see

Tables == {TableOrder[i] : i \in DOMAIN TableOrder}
Names == {NameOrder[i] : i \in DOMAIN NameOrder}

ASSUME TablesAssumption ==
  /\ TableOrder \in Seq(Tables)
  /\ \A i, j \in DOMAIN TableOrder : TableOrder[i] = TableOrder[j] => i = j
  /\ ScopeOf \in [Tables -> Scope]
  /\ DOMAIN Exact = {ScopeOf[t] : t \in Tables}
  /\ \A s \in DOMAIN Exact : Exact[s] \in Tables /\ ScopeOf[Exact[s]] = s
  /\ Outer \in [Tables -> Tables \cup {None}]
  /\ None \notin Tables
ASSUME NamesAssumption ==
  /\ NameOrder \in Seq(Names)
  /\ \A i, j \in DOMAIN NameOrder : NameOrder[i] = NameOrder[j] => i = j
  /\ KeyOf \in [Names -> Keys]
  /\ Keys \subseteq Names /\ \A k \in Keys : KeyOf[k] = k
  /\ Display \in [Keys -> Names] /\ \A k \in Keys : KeyOf[Display[k]] = k
  /\ \A n \in Names : n \in {KeyOf[n], Display[KeyOf[n]]}

EmptyTable == [n \in Names |-> None]
EmptyStore == [tables |-> {}, at |-> [t \in Tables |-> EmptyTable]]

\* A table that is not there holds nothing.
WellFormed(store) == \A t \in Tables \ store.tables : store.at[t] = EmptyTable

Store ==
  {store \in [tables : SUBSET Tables, at : [Tables -> [Names -> Values \cup {None}]]] :
     WellFormed(store)}

-----------------------------------------------------------------------------
(* What the loader finds. *)

\* ConfigLayer::from_toml_str: of the entries for a key in a scope, under all of
\* their spellings, the last one counts.
Later(i, j) == i[1] < j[1] \/ (i[1] = j[1] /\ i[2] <= j[2])
Entry(store, i) == store.at[TableOrder[i[1]]][NameOrder[i[2]]]
Places(k, s) ==
  {i \in DOMAIN TableOrder : ScopeOf[TableOrder[i]] = s}
    \X {i \in DOMAIN NameOrder : KeyOf[NameOrder[i]] = k}
LoadedEntry(store, k, s) ==
  LET taken == {i \in Places(k, s) : Entry(store, i) # None}
      last == {i \in taken : \A j \in taken : Later(j, i)}
  IN IF taken = {} THEN None ELSE CHOOSE v \in {Entry(store, i) : i \in last} : TRUE
Loaded(store) == [k \in Keys |-> [s \in Scope |-> LoadedEntry(store, k, s)]]

DeclaredProfiles(store) == {ScopeOf[t].profile : t \in store.tables} \ {None}

-----------------------------------------------------------------------------
(* Edits. *)

\* Seeded bug: only the normalized spelling is edited.
StoredExactly(store, s) == {Exact[s]} \cap store.tables

\* stored_scope_paths
Stored(store, s) == {t \in store.tables : ScopeOf[t] = s}

FirstOf(tables) ==
  CHOOSE t \in tables : \E i \in DOMAIN TableOrder :
    TableOrder[i] = t /\ \A j \in 1..(i - 1) : TableOrder[j] \notin tables

\* prune_empty_table_path: a table that was emptied goes, unless its name
\* declares a profile.
Emptied(store, at, t) ==
  /\ ScopeOf[t].profile = None
  /\ at[t] # store.at[t]
  /\ at[t] = EmptyTable
  /\ \A inner \in store.tables : Outer[inner] # t

\* remove_dotted_value
Removed(store, names, tables) ==
  LET at == [t \in Tables |-> [n \in Names |->
               IF t \in tables /\ n \in names THEN None ELSE store.at[t][n]]]
  IN [tables |-> store.tables \ {t \in tables : Emptied(store, at, t)}, at |-> at]

\* unset_dotted_value, under every name of the key.
UnsetScoped(store, k, s) == Removed(store, {k, Display[k]}, Stored(store, s))

\* set_scoped_value: the exact table if there is one, or else another spelling.
Target(store, s) ==
  IF Stored(store, s) = {} \/ Exact[s] \in Stored(store, s) THEN Exact[s]
  ELSE FirstOf(Stored(store, s))

\* edit_scoped_value_in_toml with a value. A key with two names is removed under
\* both of them first.
SetScoped(store, k, s, name, v) ==
  LET fresh == IF Display[k] = k THEN store ELSE UnsetScoped(store, k, s)
      target == Target(fresh, s)
      alone == Removed(fresh, {name}, Stored(fresh, s) \ {target})
  IN [tables |-> alone.tables \cup ({target, Outer[target]} \ {None}),
      at |-> [alone.at EXCEPT ![target][name] = v]]
=============================================================================
