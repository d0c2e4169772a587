---------------------------- MODULE Config_proofs ----------------------------
(***************************************************************************)
(* Proofs about the stores of the configuration.                           *)
(*                                                                         *)
(* ConfigStore and ConfigSession: an edit of a store finds every spelling  *)
(* of its table and of its key, whatever the tables and the names are, and *)
(* the states of a session are what TypeOK says.                           *)
(*                                                                         *)
(* ConfigLayers: what placeholders expand to, for any finite set of keys   *)
(* and any placeholders.  A call of resolve_value is made with more keys   *)
(* on its stack than the one that makes it, so that no call can be the     *)
(* least that lacks a property (CallInduction).                            *)
(*                                                                         *)
(* The effect of a command rests on EditInv, which says what a command     *)
(* under way has done and what it has left to do: the scopes that are done *)
(* hold its value, the overrides are gone when it is over, and what is     *)
(* selected meanwhile was selected before or is its value.                 *)
(*                                                                         *)
(* KeyringStore keeps one editor at a time and hides no secret, for any    *)
(* number of processes, entries and values and with every failure. Its     *)
(* inductive invariant adds to the two properties what an editor knows     *)
(* about its own entry while it holds the lock: where the credential is    *)
(* between its old and its new value, and that an entry with a credential  *)
(* was listed, or torn, when the edit began.                               *)
(***************************************************************************)
EXTENDS ConfigSession, KeyringStore, FiniteSetTheorems, WellFoundedInduction, TLAPS

-----------------------------------------------------------------------------
(* Operators on one store. *)

\* A set of numbers has a least one, or is empty.
LEMMA LeastNumber ==
  ASSUME NEW S \in SUBSET Nat, S # {}
  PROVE  \E n \in S : \A m \in S : ~ (m < n)
<1>1. \E n \in S : \A m \in S : ~ (<<m, n>> \in OpToRel(<, Nat))
  BY NatLessThanWellFounded, WFMin
<1> QED BY <1>1 DEF OpToRel

\* The first of some tables is one of them.
LEMMA FirstIsOneOfThem ==
  ASSUME NEW tables \in SUBSET Tables, tables # {}
  PROVE  FirstOf(tables) \in tables
<1> DEFINE Positions == {i \in DOMAIN TableOrder : TableOrder[i] \in tables}
<1>1. DOMAIN TableOrder = 1..Len(TableOrder) /\ Len(TableOrder) \in Nat
  BY TablesAssumption
<1>2. Positions # {} /\ Positions \subseteq Nat
  BY <1>1 DEF Tables
<1>3. \E i \in Positions : \A j \in Positions : ~ (j < i)
  <2> HIDE DEF Positions
  <2> QED BY <1>2, LeastNumber
<1>4. PICK i \in Positions : \A j \in Positions : ~ (j < i)
  BY <1>2, <1>3
<1>5. \A j \in 1..(i - 1) : TableOrder[j] \notin tables
  BY <1>1, <1>4
<1>6. TableOrder[i] \in tables
  OBVIOUS
<1> QED BY <1>5, <1>6 DEF FirstOf

\* An edit writes to a table of its scope, to one that is there if there is one.
LEMMA TargetHasScope ==
  ASSUME NEW store, NEW s \in DOMAIN Exact, store.tables \subseteq Tables
  PROVE  /\ Target(store, s) \in Tables
         /\ ScopeOf[Target(store, s)] = s
<1>1. Exact[s] \in Tables /\ ScopeOf[Exact[s]] = s
  BY TablesAssumption
<1>2. CASE Stored(store, s) = {} \/ Exact[s] \in Stored(store, s)
  BY <1>1, <1>2 DEF Target
<1>3. CASE ~ (Stored(store, s) = {} \/ Exact[s] \in Stored(store, s))
  <2>1. Stored(store, s) \in SUBSET Tables
    BY DEF Stored
  <2>2. FirstOf(Stored(store, s)) \in Stored(store, s)
    BY <1>3, <2>1, FirstIsOneOfThem
  <2> QED BY <1>3, <2>2 DEF Target, Stored
<1> QED BY <1>2, <1>3

\* What a removal leaves at each place; it drops no table that declares a
\* profile.
LEMMA RemovalIsExact ==
  ASSUME NEW store \in Store, NEW names, NEW tables \in SUBSET Tables
  PROVE  LET after == Removed(store, names, tables)
         IN /\ after \in Store
            /\ after.tables \subseteq store.tables
            /\ DeclaredProfiles(store) \subseteq DeclaredProfiles(after)
            /\ \A t \in Tables, n \in Names :
                 after.at[t][n] = IF t \in tables /\ n \in names THEN None ELSE store.at[t][n]
<1> DEFINE at == [t \in Tables |-> [n \in Names |->
                    IF t \in tables /\ n \in names THEN None ELSE store.at[t][n]]]
           gone == {t \in tables : Emptied(store, at, t)}
           after == Removed(store, names, tables)
<1>1. after = [tables |-> store.tables \ gone, at |-> at]
  BY DEF Removed
<1>2. store.tables \in SUBSET Tables /\ store.at \in [Tables -> [Names -> Values \cup {None}]]
  BY DEF Store
<1>3. at \in [Tables -> [Names -> Values \cup {None}]]
  BY <1>2
<1>4. \A t \in gone : at[t] = EmptyTable /\ ScopeOf[t].profile = None
  BY DEF Emptied
<1>5. ASSUME NEW t \in Tables \ (store.tables \ gone) PROVE at[t] = EmptyTable
  <2>1. CASE t \in gone
    BY <1>4, <2>1
  <2>2. CASE t \notin store.tables
    <3>1. store.at[t] = EmptyTable
      BY <2>2 DEF Store, WellFormed
    <3>2. \A n \in Names : store.at[t][n] = None
      BY <3>1 DEF EmptyTable
    <3> QED BY <3>2 DEF EmptyTable
  <2> QED BY <2>1, <2>2
<1> HIDE DEF at, gone
<1>6. after \in Store
  BY <1>1, <1>2, <1>3, <1>5 DEF Store, WellFormed
<1>7. DeclaredProfiles(store) \subseteq DeclaredProfiles(after)
  <2> SUFFICES ASSUME NEW t \in store.tables, ScopeOf[t].profile # None
               PROVE  t \in after.tables
    BY DEF DeclaredProfiles
  <2> QED BY <1>1, <1>4
<1>8. \A t \in Tables, n \in Names :
        after.at[t][n] = IF t \in tables /\ n \in names THEN None ELSE store.at[t][n]
  BY <1>1 DEF at
<1>9. after.tables \subseteq store.tables
  BY <1>1
<1> QED BY <1>6, <1>7, <1>8, <1>9

\* The two names of a key are all of them.
LEMMA NamesOfKey ==
  ASSUME NEW k \in Keys, NEW n \in Names
  PROVE  n \in {k, Display[k]} <=> KeyOf[n] = k
BY NamesAssumption

\* An unset leaves the key nowhere in the scope, and the rest as it was.
LEMMA UnsetIsExact ==
  ASSUME NEW store \in Store, NEW k \in Keys, NEW s \in DOMAIN Exact
  PROVE  LET after == UnsetScoped(store, k, s)
         IN /\ after \in Store
            /\ DeclaredProfiles(store) \subseteq DeclaredProfiles(after)
            /\ \A t \in Tables, n \in Names :
                 after.at[t][n] = IF ScopeOf[t] = s /\ KeyOf[n] = k THEN None ELSE store.at[t][n]
<1> DEFINE after == UnsetScoped(store, k, s)
<1>1. Stored(store, s) \in SUBSET Tables
  BY DEF Stored, Store
<1>2. /\ after \in Store
      /\ DeclaredProfiles(store) \subseteq DeclaredProfiles(after)
      /\ \A t \in Tables, n \in Names :
           after.at[t][n] = IF t \in Stored(store, s) /\ n \in {k, Display[k]} THEN None
                            ELSE store.at[t][n]
  BY <1>1, RemovalIsExact DEF UnsetScoped
<1>3. ASSUME NEW t \in Tables, NEW n \in Names
      PROVE  after.at[t][n] = IF ScopeOf[t] = s /\ KeyOf[n] = k THEN None ELSE store.at[t][n]
  <2>1. CASE t \in store.tables
    <3> HIDE DEF after
    <3> QED BY <1>2, <2>1, NamesOfKey DEF Stored
  <2>2. CASE t \notin store.tables
    <3>1. store.at[t][n] = None
      BY <2>2 DEF Store, WellFormed, EmptyTable
    <3> HIDE DEF after
    <3> QED BY <1>2, <2>2, <3>1 DEF Stored
  <2> QED BY <2>1, <2>2
<1> HIDE DEF after
<1> QED BY <1>2, <1>3 DEF after

\* A set leaves the value at one place of the scope, the key nowhere else in it,
\* and the rest as it was.
LEMMA SetIsExact ==
  ASSUME NEW store \in Store, NEW k \in Keys, NEW s \in DOMAIN Exact,
         NEW name \in Names, name = k \/ name = Display[k], NEW v \in Values,
         Display[k] = k => name = k
  PROVE  LET after == SetScoped(store, k, s, name, v)
         IN /\ after \in Store
            /\ DeclaredProfiles(store) \subseteq DeclaredProfiles(after)
            /\ \E target \in Tables :
                 /\ ScopeOf[target] = s
                 /\ \A t \in Tables, n \in Names :
                      after.at[t][n] = IF t = target /\ n = name THEN v
                                       ELSE IF ScopeOf[t] = s /\ KeyOf[n] = k THEN None
                                       ELSE store.at[t][n]
<1> DEFINE cleared == IF Display[k] = k THEN store ELSE UnsetScoped(store, k, s)
           target == Target(cleared, s)
           others == Stored(cleared, s) \ {target}
           alone == Removed(cleared, {name}, others)
           after == SetScoped(store, k, s, name, v)
<1>1. /\ cleared \in Store
      /\ DeclaredProfiles(store) \subseteq DeclaredProfiles(cleared)
  BY UnsetIsExact
<1>2. target \in Tables /\ ScopeOf[target] = s
  <2> HIDE DEF cleared
  <2> QED BY <1>1, TargetHasScope DEF Store
<1>3. after = [tables |-> alone.tables \cup ({target, Outer[target]} \ {None}),
               at |-> [alone.at EXCEPT ![target][name] = v]]
  BY DEF SetScoped
<1>4. others \in SUBSET Tables
  <2> HIDE DEF cleared
  <2> QED BY <1>1 DEF Stored, Store
<1> HIDE DEF target, others, cleared
<1>5. /\ alone \in Store
      /\ DeclaredProfiles(cleared) \subseteq DeclaredProfiles(alone)
      /\ \A t \in Tables, n \in Names :
           alone.at[t][n] = IF t \in others /\ n = name THEN None ELSE cleared.at[t][n]
  BY <1>1, <1>4, RemovalIsExact
<1> HIDE DEF alone, after
<1>6. after \in Store
  <2>1. {target, Outer[target]} \ {None} \subseteq Tables
    BY <1>2, TablesAssumption
  <2>2. alone.at \in [Tables -> [Names -> Values \cup {None}]] /\ alone.tables \in SUBSET Tables
    BY <1>5 DEF Store
  <2>3. /\ after.at \in [Tables -> [Names -> Values \cup {None}]]
        /\ \A t \in Tables \ {target} : after.at[t] = alone.at[t]
    BY <1>2, <1>3, <2>2
  <2>4. WellFormed(after)
    <3> SUFFICES ASSUME NEW t \in Tables \ after.tables PROVE after.at[t] = EmptyTable
      BY DEF WellFormed
    <3>1. t # target /\ t \notin alone.tables
      BY <1>2, <1>3, TablesAssumption
    <3>2. alone.at[t] = EmptyTable
      BY <1>5, <3>1 DEF Store, WellFormed
    <3> QED BY <2>3, <3>1, <3>2
  <2> QED BY <1>3, <2>1, <2>2, <2>3, <2>4 DEF Store
<1>7. DeclaredProfiles(store) \subseteq DeclaredProfiles(after)
  <2>1. DeclaredProfiles(alone) \subseteq DeclaredProfiles(after)
    BY <1>3 DEF DeclaredProfiles
  <2> QED BY <1>1, <1>5, <2>1
<1>8. ASSUME NEW t \in Tables, NEW n \in Names
      PROVE  after.at[t][n] = IF t = target /\ n = name THEN v
                              ELSE IF ScopeOf[t] = s /\ KeyOf[n] = k THEN None
                              ELSE store.at[t][n]
  <2>1. after.at[t][n] = IF t = target /\ n = name THEN v ELSE alone.at[t][n]
    <3>1. alone.at \in [Tables -> [Names -> Values \cup {None}]]
      BY <1>5 DEF Store
    <3> QED BY <1>2, <1>3, <3>1
  <2>2. CASE Display[k] = k
    <3>1. cleared = store /\ name = k
      BY <2>2 DEF cleared
    <3>2. KeyOf[n] = k <=> n = name
      BY <2>2, <3>1, NamesOfKey
    <3>3. t \in others <=> ScopeOf[t] = s /\ t \in store.tables /\ t # target
      BY <3>1 DEF others, Stored
    <3>4. t \notin store.tables => store.at[t][n] = None
      BY DEF Store, WellFormed, EmptyTable
    <3> QED BY <1>2, <1>5, <2>1, <3>1, <3>2, <3>3, <3>4
  <2>3. CASE Display[k] # k
    <3>1. cleared.at[t][n] = IF ScopeOf[t] = s /\ KeyOf[n] = k THEN None ELSE store.at[t][n]
      BY <2>3, UnsetIsExact DEF cleared
    <3>2. t \in others => ScopeOf[t] = s
      BY DEF others, Stored
    <3>3. n = name => KeyOf[n] = k
      BY NamesOfKey
    <3> QED BY <1>5, <2>1, <3>1, <3>2, <3>3
  <2> QED BY <2>2, <2>3
<1>9. \E u \in Tables :
        /\ ScopeOf[u] = s
        /\ \A t \in Tables, n \in Names :
             after.at[t][n] = IF t = u /\ n = name THEN v
                              ELSE IF ScopeOf[t] = s /\ KeyOf[n] = k THEN None
                              ELSE store.at[t][n]
  BY <1>2, <1>8
<1> QED BY <1>6, <1>7, <1>9 DEF after

-----------------------------------------------------------------------------
(* What the loader finds after an edit. *)

\* A place is a table of the scope and a name of the key.
LEMMA PlaceIsOfKey ==
  ASSUME NEW k \in Keys, NEW s \in Scope, NEW i \in Places(k, s)
  PROVE  /\ TableOrder[i[1]] \in Tables /\ ScopeOf[TableOrder[i[1]]] = s
         /\ NameOrder[i[2]] \in Names /\ KeyOf[NameOrder[i[2]]] = k
         /\ i[1] \in DOMAIN TableOrder /\ i[2] \in DOMAIN NameOrder
         /\ i = <<i[1], i[2]>>
BY DEF Places, Tables, Names

\* Where nothing changed the loader finds what it found.
LEMMA UnchangedIsLoaded ==
  ASSUME NEW before, NEW after, NEW k \in Keys, NEW s \in Scope,
         \A t \in Tables, n \in Names :
           ScopeOf[t] = s /\ KeyOf[n] = k => after.at[t][n] = before.at[t][n]
  PROVE  LoadedEntry(after, k, s) = LoadedEntry(before, k, s)
<1>1. \A i \in Places(k, s) : Entry(after, i) = Entry(before, i)
  BY PlaceIsOfKey DEF Entry
<1> DEFINE taken(store) == {i \in Places(k, s) : Entry(store, i) # None}
           last(store) == {i \in taken(store) : \A j \in taken(store) : Later(j, i)}
           values(store) == {Entry(store, i) : i \in last(store)}
           latest(store) == CHOOSE v \in values(store) : TRUE
<1>2. taken(after) = taken(before)
  BY <1>1
<1>3. last(after) = last(before) /\ last(before) \subseteq Places(k, s)
  BY <1>2
<1>4. values(after) = values(before)
  <2> HIDE DEF last
  <2> QED BY <1>1, <1>3
<1>5. LoadedEntry(before, k, s) = IF taken(before) = {} THEN None ELSE latest(before)
  BY DEF LoadedEntry
<1>6. LoadedEntry(after, k, s) = IF taken(after) = {} THEN None ELSE latest(after)
  BY DEF LoadedEntry
<1>7. latest(after) = latest(before)
  <2> HIDE DEF values
  <2> QED BY <1>4
<1> HIDE DEF taken, latest
<1> QED BY <1>2, <1>5, <1>6, <1>7

\* Where nothing is stored it finds nothing.
LEMMA NothingIsLoaded ==
  ASSUME NEW store, NEW k \in Keys, NEW s \in Scope,
         \A t \in Tables, n \in Names : ScopeOf[t] = s /\ KeyOf[n] = k => store.at[t][n] = None
  PROVE  LoadedEntry(store, k, s) = None
<1>1. {i \in Places(k, s) : Entry(store, i) # None} = {}
  BY PlaceIsOfKey DEF Entry
<1> QED BY <1>1 DEF LoadedEntry

\* Where one value is stored it finds that value.
LEMMA OneValueIsLoaded ==
  ASSUME NEW store, NEW k \in Keys, NEW s \in Scope, NEW v \in Values,
         NEW target \in Tables, ScopeOf[target] = s, NEW name \in Names, KeyOf[name] = k,
         store.at[target][name] = v,
         \A t \in Tables, n \in Names :
           ScopeOf[t] = s /\ KeyOf[n] = k /\ (t # target \/ n # name) => store.at[t][n] = None
  PROVE  LoadedEntry(store, k, s) = v
<1> DEFINE taken == {i \in Places(k, s) : Entry(store, i) # None}
           last == {i \in taken : \A j \in taken : Later(j, i)}
<1>1. PICK a \in DOMAIN TableOrder : TableOrder[a] = target
  BY DEF Tables
<1>2. PICK b \in DOMAIN NameOrder : NameOrder[b] = name
  BY DEF Names
<1>3. <<a, b>> \in Places(k, s)
  BY <1>1, <1>2 DEF Places
<1>4. Entry(store, <<a, b>>) = v
  BY <1>1, <1>2 DEF Entry
<1>5. v # None
  BY ValuesAssumption
<1>6. ASSUME NEW i \in taken PROVE i = <<a, b>>
  <2>1. i \in Places(k, s) /\ Entry(store, i) # None
    OBVIOUS
  <2>2. TableOrder[i[1]] = target /\ NameOrder[i[2]] = name
    BY <2>1, PlaceIsOfKey DEF Entry
  <2>3. i[1] = a /\ i[2] = b
    BY <1>1, <1>2, <2>1, <2>2, PlaceIsOfKey, TablesAssumption, NamesAssumption
  <2> QED BY <2>1, <2>3, PlaceIsOfKey
<1>7. taken = {<<a, b>>}
  BY <1>3, <1>4, <1>5, <1>6
<1>8. a \in Nat /\ b \in Nat
  BY TablesAssumption, NamesAssumption
<1>9. Later(<<a, b>>, <<a, b>>)
  BY <1>8 DEF Later
<1>10. last = {<<a, b>>}
  BY <1>7, <1>9
<1>11. {Entry(store, i) : i \in last} = {v}
  BY <1>4, <1>10
<1>12. (CHOOSE u \in {v} : TRUE) = v
  OBVIOUS
<1> QED BY <1>7, <1>11, <1>12 DEF LoadedEntry

\* The loader finds the value of an edit, and else what it found before.
LEMMA EditIsLoaded ==
  ASSUME NEW before, NEW after, NEW k \in Keys, NEW s \in Scope, NEW v,
         LoadedEntry(after, k, s) = v,
         \A t \in Tables, n \in Names :
           ~ (ScopeOf[t] = s /\ KeyOf[n] = k) => after.at[t][n] = before.at[t][n]
  PROVE  Loaded(after) = [Loaded(before) EXCEPT ![k][s] = v]
<1>1. ASSUME NEW j \in Keys, NEW r \in Scope, j # k \/ r # s
      PROVE  LoadedEntry(after, j, r) = LoadedEntry(before, j, r)
  BY <1>1, UnchangedIsLoaded
<1> DEFINE expected == [Loaded(before) EXCEPT ![k][s] = v]
<1>2. \A j \in Keys, r \in Scope : expected[j][r] = IF j = k /\ r = s THEN v
                                                    ELSE LoadedEntry(before, j, r)
  BY DEF Loaded
<1>3. expected = [j \in Keys |-> [r \in Scope |-> expected[j][r]]]
  BY DEF Loaded
<1>4. \A j \in Keys, r \in Scope : LoadedEntry(after, j, r) = expected[j][r]
  BY <1>1, <1>2
<1> HIDE DEF expected
<1>5. Loaded(after) = expected
  BY <1>3, <1>4 DEF Loaded
<1> QED BY <1>5 DEF expected

LEMMA UnsetIsLoaded ==
  ASSUME NEW store \in Store, NEW k \in Keys, NEW s \in DOMAIN Exact
  PROVE  Loaded(UnsetScoped(store, k, s)) = [Loaded(store) EXCEPT ![k][s] = None]
<1> DEFINE after == UnsetScoped(store, k, s)
<1>1. \A t \in Tables, n \in Names :
        after.at[t][n] = IF ScopeOf[t] = s /\ KeyOf[n] = k THEN None ELSE store.at[t][n]
  BY UnsetIsExact
<1>2. s \in Scope
  BY TablesAssumption
<1> HIDE DEF after
<1>3. LoadedEntry(after, k, s) = None
  BY <1>1, <1>2, NothingIsLoaded
<1>4. \A t \in Tables, n \in Names :
        ~ (ScopeOf[t] = s /\ KeyOf[n] = k) => after.at[t][n] = store.at[t][n]
  BY <1>1
<1>5. Loaded(after) = [Loaded(store) EXCEPT ![k][s] = None]
  BY <1>2, <1>3, <1>4, EditIsLoaded
<1> QED BY <1>5 DEF after

LEMMA SetIsLoaded ==
  ASSUME NEW store \in Store, NEW k \in Keys, NEW s \in DOMAIN Exact,
         NEW name \in Names, name = k \/ name = Display[k], NEW v \in Values,
         Display[k] = k => name = k
  PROVE  Loaded(SetScoped(store, k, s, name, v)) = [Loaded(store) EXCEPT ![k][s] = v]
<1> DEFINE after == SetScoped(store, k, s, name, v)
<1>1. PICK target \in Tables :
        /\ ScopeOf[target] = s
        /\ \A t \in Tables, n \in Names :
             after.at[t][n] = IF t = target /\ n = name THEN v
                              ELSE IF ScopeOf[t] = s /\ KeyOf[n] = k THEN None
                              ELSE store.at[t][n]
  BY SetIsExact
<1>2. s \in Scope /\ KeyOf[name] = k
  BY TablesAssumption, NamesAssumption
<1> HIDE DEF after
<1>3. LoadedEntry(after, k, s) = v
  <2>1. /\ after.at[target][name] = v
        /\ \A t \in Tables, n \in Names :
             ScopeOf[t] = s /\ KeyOf[n] = k /\ (t # target \/ n # name) => after.at[t][n] = None
    BY <1>1
  <2> QED BY <1>1, <1>2, <2>1, OneValueIsLoaded
<1>4. \A t \in Tables, n \in Names :
        ~ (ScopeOf[t] = s /\ KeyOf[n] = k) => after.at[t][n] = store.at[t][n]
  BY <1>1, <1>2
<1>5. Loaded(after) = [Loaded(store) EXCEPT ![k][s] = v]
  BY <1>2, <1>3, <1>4, EditIsLoaded
<1> QED BY <1>5 DEF after

-----------------------------------------------------------------------------
(* The session. *)

\* The profiles that a resolution knows are profiles.
LEMMA KnownAreProfiles ==
  ASSUME file \in Store, vault \in Store
  PROVE  Current.known \subseteq Profiles /\ DOMAIN Current.raw = Keys
<1>1. DeclaredProfiles(file) \cup DeclaredProfiles(vault) \subseteq Profiles
  <2>1. file.tables \subseteq Tables /\ vault.tables \subseteq Tables
    BY DEF Store
  <2>2. \A t \in Tables : ScopeOf[t].profile \in Profiles \cup {None}
    BY TablesAssumption DEF Scope
  <2> QED BY <2>1, <2>2 DEF DeclaredProfiles
<1>2. KnownProfiles(Layers, DeclaredProfiles(file) \cup DeclaredProfiles(vault)) \subseteq Profiles
  BY <1>1 DEF KnownProfiles
<1>3. DOMAIN Winners(Layers) = Keys
  BY DEF Winners
<1> QED BY <1>2, <1>3 DEF Current

LEMMA StoreIsWellFormed == \A store \in Store : WellFormed(store)
BY DEF Store

\* The scope of a write is one that has a table, and its name one of the key.
LEMMA EditedIsExact ==
  ASSUME TypeOK, op.stage = "writing", NEW s \in op.todo, NEW store \in Store,
         NEW name \in Names, name = op.key \/ name = Display[op.key],
         Display[op.key] = op.key => name = op.key
  PROVE  Edited(store, s, name) \in Store /\ EditIsExact(store, Edited(store, s, name), s)
<1>1. op.key \in Keys /\ s \in DOMAIN Exact /\ op.value \in Values \cup {None}
  BY DEF TypeOK, Commands
<1>2. CASE op.value = None
  BY <1>1, <1>2, UnsetIsExact, UnsetIsLoaded, StoreIsWellFormed, SMTT(30) DEF Edited, EditIsExact
<1>3. CASE op.value # None
  <2>1. op.value \in Values
    BY <1>1, <1>3
  <2> QED BY <1>1, <1>3, <2>1, SetIsExact, SetIsLoaded, StoreIsWellFormed DEF Edited, EditIsExact
<1> QED BY <1>2, <1>3

\* The names that the two stores are written under.
LEMMA WrittenNames ==
  ASSUME TypeOK, op.stage = "writing"
  PROVE  /\ op.key \in Names /\ Display[op.key] \in Names
         /\ Display[op.key] = op.key => Display[op.key] = op.key
BY NamesAssumption DEF TypeOK

LEMMA InitTypeOK == Init => TypeOK
<1> SUFFICES ASSUME Init PROVE TypeOK
  OBVIOUS
<1>1. file \in Store /\ vault \in Store /\ environ \in Environments
  BY SessionAssumption DEF Init
<1>2. overrides \in Layer
  BY DEF Init, NoEntry, Layer
<1>3. snapshot.known \subseteq Profiles /\ DOMAIN snapshot.raw = Keys
  BY <1>1, KnownAreProfiles DEF Init
<1>4. op \in Commands /\ op.stage = "ready"
  BY DEF Init, Idle, Commands
<1>5. edits \in 0..MaxEdits /\ outside \in 0..MaxOutside /\ fresh \in BOOLEAN
  BY SessionAssumption DEF Init
<1> QED BY <1>1, <1>2, <1>3, <1>4, <1>5 DEF TypeOK

\* A command that is accepted is one for scopes that have a table.
LEMMA EnteredTypeOK ==
  ASSUME TypeOK, NEW k \in Keys, NEW v \in Values \cup {None}, NEW kind,
         NEW store \in {"session", "config", "secrets"}, NEW scopes,
         kind \in {"set", "unset", "reset"}, v = None <=> kind # "set",
         Entered(k, v, kind, store, scopes)
  PROVE  TypeOK'
<1>1. op' \in Commands
  BY DEF Entered, Commands
<1>2. op'.stage = "writing" => /\ op'.key \in Keys
                               /\ op'.store \in {"config", "secrets"}
                               /\ op'.value = None <=> op'.kind # "set"
  BY DEF Entered
<1>3. overrides' \in Layer
  BY DEF Entered, TypeOK, Layer
<1>4. edits' \in 0..MaxEdits
  BY SessionAssumption DEF Entered, Ready, TypeOK
<1> QED BY <1>1, <1>2, <1>3, <1>4 DEF Entered, TypeOK

LEMMA StoresAreStores ==
  ASSUME NEW k, NEW store \in {"session", "config", "secrets"}
  PROVE  StoreFor(k, store) \in {"session", "config", "secrets"}
BY DEF StoreFor

LEMMA OverridesStayALayer ==
  ASSUME TypeOK, NEW k \in Keys
  PROVE  WithoutOverride(k) \in Layer
BY DEF TypeOK, WithoutOverride, Layer

LEMMA NextTypeOK == TypeOK /\ [Next]_vars => TypeOK'
<1> SUFFICES ASSUME TypeOK, [Next]_vars PROVE TypeOK'
  OBVIOUS
<1>1. ASSUME NEW k \in Keys, NEW v \in Offered[k], Set(k, v) PROVE TypeOK'
  <2>1. v \in Values
    BY SessionAssumption
  <2>2. PICK store \in {"session", "config", "secrets"}, scopes \in Targets :
          Entered(k, v, "set", StoreFor(k, store), scopes)
    BY <1>1 DEF Set
  <2> QED BY <2>1, <2>2, StoresAreStores, EnteredTypeOK, ValuesAssumption
<1>2. ASSUME NEW k \in Keys, NEW store \in {"session", "config", "secrets"}, NEW scopes \in Targets,
             Unset(k, store, scopes)
      PROVE  TypeOK'
  BY <1>2, StoresAreStores, EnteredTypeOK DEF Unset
<1>3. ASSUME NEW k \in Keys, Reset(k) PROVE TypeOK'
  BY <1>3, EnteredTypeOK DEF Reset
<1>4. ASSUME NEW s \in op.todo, Write(s) PROVE TypeOK'
  <2>1. Edited(file, s, Display[op.key]) \in Store /\ Edited(vault, s, op.key) \in Store
    BY <1>4, EditedIsExact, WrittenNames DEF Write, TypeOK
  <2>2. file' \in Store /\ vault' \in Store
    BY <1>4, <2>1 DEF Write, TypeOK
  <2>3. op' \in Commands /\ op'.stage = "writing" /\ op'.key = op.key /\ op'.store = op.store
        /\ op'.value = op.value /\ op'.kind = op.kind
    BY <1>4 DEF Write, TypeOK, Commands
  <2>4. overrides' \in Layer
    BY <1>4, OverridesStayALayer DEF Write, TypeOK
  <2> QED BY <1>4, <2>2, <2>3, <2>4 DEF Write, TypeOK
<1>5. ASSUME FailToWrite PROVE TypeOK'
  BY <1>5 DEF FailToWrite, TypeOK, Idle, Commands
<1>6. ASSUME Finish PROVE TypeOK'
  <2>1. overrides' \in Layer
    BY <1>6, OverridesStayALayer DEF Finish, TypeOK
  <2>2. op' \in Commands /\ op'.stage = "reload"
    BY <1>6 DEF Finish, TypeOK, Commands
  <2> QED BY <1>6, <2>1, <2>2 DEF Finish, TypeOK
<1>7. ASSUME Reload PROVE TypeOK'
  <2>1. snapshot'.known \subseteq Profiles /\ DOMAIN snapshot'.raw = Keys
    BY <1>7, KnownAreProfiles DEF Reload, TypeOK
  <2>2. op' \in Commands /\ op'.stage # "writing"
    BY <1>7 DEF Reload, Idle, Commands
  <2> QED BY <1>7, <2>1, <2>2 DEF Reload, TypeOK
<1>8. ASSUME Start PROVE TypeOK'
  <2>1. overrides' \in Layer
    BY <1>8 DEF Start, NoEntry, Layer
  <2>2. op' \in Commands /\ op'.stage # "writing"
    BY <1>8 DEF Start, Idle, Commands
  <2> QED BY <1>8, <2>1, <2>2 DEF Start, TypeOK
<1>9. ASSUME NEW k \in Keys, NEW s \in DOMAIN Exact, Repair(k, s) PROVE TypeOK'
  <2>1. UnsetScoped(file, k, s) \in Store /\ UnsetScoped(vault, k, s) \in Store
    BY UnsetIsExact DEF TypeOK
  <2>2. file' \in Store /\ vault' \in Store
    BY <1>9, <2>1 DEF Repair, TypeOK
  <2>3. edits' \in 0..MaxEdits
    BY <1>9, SessionAssumption DEF Repair, TypeOK
  <2> QED BY <1>9, <2>2, <2>3 DEF Repair, TypeOK
<1>10. ASSUME NEW t \in Tables, NEW n \in Names, NEW v \in Values \cup {None}, EditOutside(t, n, v)
       PROVE  TypeOK'
  <2>1. file.tables \in SUBSET Tables /\ file.at \in [Tables -> [Names -> Values \cup {None}]]
    BY DEF TypeOK, Store
  <2>2. file' = [tables |-> file.tables \cup ({t, Outer[t]} \ {None}),
                 at |-> [file.at EXCEPT ![t][n] = v]]
    BY <1>10 DEF EditOutside
  <2>3. /\ file'.tables \in SUBSET Tables
        /\ file'.at \in [Tables -> [Names -> Values \cup {None}]]
        /\ \A u \in Tables \ {t} : file'.at[u] = file.at[u]
    BY <2>1, <2>2, TablesAssumption
  <2>4. WellFormed(file')
    <3> SUFFICES ASSUME NEW u \in Tables \ file'.tables PROVE file'.at[u] = EmptyTable
      BY DEF WellFormed
    <3>1. u # t /\ u \notin file.tables
      BY <2>2, TablesAssumption
    <3>2. file.at[u] = EmptyTable
      BY <3>1 DEF TypeOK, Store, WellFormed
    <3> QED BY <2>3, <3>1, <3>2
  <2>5. file' \in Store
    BY <2>2, <2>3, <2>4 DEF Store
  <2>6. outside' \in 0..MaxOutside
    BY <1>10, SessionAssumption DEF EditOutside, TypeOK
  <2> QED BY <1>10, <2>5, <2>6 DEF EditOutside, TypeOK
<1>11. ASSUME NEW change \in OutsideEdits, EditOutside(change[1], change[2], change[3]) PROVE TypeOK'
  BY <1>10, <1>11, SessionAssumption
<1>12. CASE UNCHANGED vars
  BY <1>12 DEF vars, TypeOK
<1> QED BY <1>1, <1>2, <1>3, <1>4, <1>5, <1>6, <1>7, <1>8, <1>9, <1>11, <1>12 DEF Next

\* The states of a session are of the types that TypeOK states.
THEOREM ConfigTypes == Spec => []TypeOK
BY InitTypeOK, NextTypeOK, PTL DEF Spec

\* A step that takes a scope off the list of a command wrote that scope.
LEMMA StepEditsExactly ==
  ASSUME TypeOK, [Next]_vars
  PROVE  [\A s \in op.todo : Wrote(s) =>
            IF op.store = "config" THEN EditIsExact(file, file', s) /\ vault' = vault
                                   ELSE EditIsExact(vault, vault', s) /\ file' = file]_vars
<1> SUFFICES ASSUME NEW s \in op.todo, Wrote(s), Next
             PROVE  IF op.store = "config" THEN EditIsExact(file, file', s) /\ vault' = vault
                                           ELSE EditIsExact(vault, vault', s) /\ file' = file
  BY DEF vars, Wrote
<1>1. Write(s)
  <2>1. \A k, v, kind, store, scopes : ~ Entered(k, v, kind, store, scopes)
    BY DEF Entered, Ready, Wrote
  <2>2. \A k, v, store, scopes : ~ Set(k, v) /\ ~ Unset(k, store, scopes) /\ ~ Reset(k)
    BY <2>1 DEF Set, Unset, Reset
  <2>3. ~ FailToWrite /\ ~ Finish /\ ~ Reload /\ ~ Start
    BY DEF FailToWrite, Finish, Reload, Start, Idle, Wrote
  <2>4. \A k, r : ~ Repair(k, r)
    BY DEF Repair, Wrote
  <2>5. \A t, n, v : ~ EditOutside(t, n, v)
    BY DEF EditOutside, Wrote
  <2>6. \A r \in op.todo : Write(r) => r = s
    BY DEF Write, Wrote, TypeOK, Commands
  <2> QED BY <2>2, <2>3, <2>4, <2>5, <2>6 DEF Next
<1>2. EditIsExact(file, Edited(file, s, Display[op.key]), s)
  BY <1>1, EditedIsExact, WrittenNames DEF Write, TypeOK
<1>3. EditIsExact(vault, Edited(vault, s, op.key), s)
  BY <1>1, EditedIsExact, WrittenNames DEF Write, TypeOK
<1> QED BY <1>1, <1>2, <1>3 DEF Write

\* In whatever spellings the tables and the names of a store are, an edit changes
\* what the loader finds for its key in its scope, and nothing else.
THEOREM StoresAreEditedExactly == Spec => EditsAreExact
<1>1. TypeOK /\ [Next]_vars =>
        [\A s \in op.todo : Wrote(s) =>
           IF op.store = "config" THEN EditIsExact(file, file', s) /\ vault' = vault
                                  ELSE EditIsExact(vault, vault', s) /\ file' = file]_vars
  BY StepEditsExactly
<1> QED BY <1>1, ConfigTypes, PTL DEF Spec, EditsAreExact

-----------------------------------------------------------------------------
(* What placeholders expand to. *)

Visits == Keys \X SUBSET Keys

\* One call of Interpolator::resolve_value, whose calls f answers.
Visit(raw, f, p) ==
  IF p[1] \in p[2] \/ raw[p[1]] = None THEN [ok |-> FALSE, secret |-> FALSE]
  ELSE LET parts == {f[<<ref, p[2] \cup {p[1]}>>] : ref \in Refs[raw[p[1]].value]}
       IN [ok |-> \A part \in parts : part.ok, secret |-> Secret(raw, p[1], parts)]

Answers(raw, f, calls) == f = [p \in calls |-> Visit(raw, f, p)]

\* The values that are selected have placeholders for keys.
Placed(raw) == \A k \in Keys : raw[k] # None => raw[k].value \in Values

\* How many keys a call has not on its stack, and the calls with fewer than n.
Left(p) == Cardinality(Keys \ p[2])
Shallow(n) == {p \in Visits : Left(p) < n}

\* A call has fewer keys left than the call that it is made by.
LEMMA CallsDeepen ==
  ASSUME NEW raw, Placed(raw), NEW p \in Visits, p[1] \notin p[2], raw[p[1]] # None,
         NEW ref \in Refs[raw[p[1]].value]
  PROVE  LET q == <<ref, p[2] \cup {p[1]}>>
         IN  q \in Visits /\ Left(q) \in Nat /\ Left(p) \in Nat /\ Left(q) + 1 = Left(p)
<1> DEFINE q == <<ref, p[2] \cup {p[1]}>>
<1>1. p[1] \in Keys /\ p[2] \in SUBSET Keys /\ ref \in Keys
  BY ValuesAssumption DEF Placed, Visits
<1>2. q \in Visits /\ q[2] = p[2] \cup {p[1]}
  BY <1>1 DEF Visits
<1>3. IsFiniteSet(Keys \ p[2]) /\ p[1] \in Keys \ p[2]
  BY <1>1, ValuesAssumption, FS_Difference
<1>4. Cardinality((Keys \ p[2]) \ {p[1]}) = Cardinality(Keys \ p[2]) - 1
      /\ Cardinality(Keys \ p[2]) \in Nat
  BY <1>3, FS_RemoveElement, FS_CardinalityType
<1>5. Keys \ q[2] = (Keys \ p[2]) \ {p[1]}
  BY <1>2
<1>6. IsFiniteSet((Keys \ p[2]) \ {p[1]})
  BY <1>3, FS_RemoveElement
<1>7. Cardinality((Keys \ p[2]) \ {p[1]}) \in Nat
  BY <1>6, FS_CardinalityType
<1>8. Left(q) = Cardinality((Keys \ p[2]) \ {p[1]}) /\ Left(p) = Cardinality(Keys \ p[2])
  BY <1>5 DEF Left
<1> HIDE DEF q
<1>9. q \in Visits /\ Left(q) \in Nat /\ Left(p) \in Nat /\ Left(q) + 1 = Left(p)
  BY <1>2, <1>4, <1>7, <1>8
<1> QED BY <1>9 DEF q

\* A call depends on the calls it makes and on nothing else of f.
LEMMA VisitsOfCalls ==
  ASSUME NEW raw, NEW p \in Visits, NEW f, NEW g,
         p[1] \notin p[2] /\ raw[p[1]] # None =>
           \A ref \in Refs[raw[p[1]].value] :
             f[<<ref, p[2] \cup {p[1]}>>] = g[<<ref, p[2] \cup {p[1]}>>]
  PROVE  Visit(raw, f, p) = Visit(raw, g, p)
<1>1. CASE p[1] \in p[2] \/ raw[p[1]] = None
  BY <1>1 DEF Visit
<1>2. CASE ~ (p[1] \in p[2] \/ raw[p[1]] = None)
  <2> DEFINE parts(h) == {h[<<ref, p[2] \cup {p[1]}>>] : ref \in Refs[raw[p[1]].value]}
  <2>1. parts(f) = parts(g)
    BY <1>2
  <2>2. \A h : Visit(raw, h, p) = [ok |-> \A part \in parts(h) : part.ok,
                                   secret |-> Secret(raw, p[1], parts(h))]
    BY <1>2 DEF Visit
  <2> HIDE DEF parts
  <2> QED BY <2>1, <2>2
<1> QED BY <1>1, <1>2

\* Every selection has answers, as deep as the calls go.
LEMMA AnswersExist ==
  ASSUME NEW raw, Placed(raw)
  PROVE  \E f : Answers(raw, f, Visits)
<1> DEFINE Bad == {n \in Nat : ~ \E f : Answers(raw, f, Shallow(n))}
<1>1. Bad = {}
  <2> SUFFICES ASSUME Bad # {} PROVE FALSE
    OBVIOUS
  <2>1. PICK n \in Bad : \A m \in Bad : ~ (m < n)
    <3>1. Bad \in SUBSET Nat
      OBVIOUS
    <3> HIDE DEF Bad
    <3> QED BY <3>1, LeastNumber
  <2>2. n # 0
    <3> SUFFICES ASSUME n = 0 PROVE FALSE
      OBVIOUS
    <3>1. \A p \in Visits : Left(p) \in Nat
      BY ValuesAssumption, FS_Difference, FS_CardinalityType DEF Visits, Left
    <3>2. Shallow(0) = {}
      BY <3>1 DEF Shallow
    <3> DEFINE f == [p \in {} |-> 0]
    <3>3. f = [p \in {} |-> Visit(raw, f, p)]
      OBVIOUS
    <3> HIDE DEF f
    <3>4. Answers(raw, f, Shallow(0))
      BY <3>2, <3>3 DEF Answers
    <3> QED BY <3>4, <2>1
  <2>3. PICK f : Answers(raw, f, Shallow(n - 1))
    <3>1. n \in Nat /\ n - 1 \in Nat /\ n - 1 < n
      BY <2>2
    <3> QED BY <2>1, <3>1
  <2> DEFINE g == [p \in Shallow(n) |-> Visit(raw, f, p)]
  <2>4. ASSUME NEW p \in Shallow(n) PROVE Visit(raw, f, p) = Visit(raw, g, p)
    <3>1. p \in Visits
      BY DEF Shallow
    <3>2. ASSUME p[1] \notin p[2], raw[p[1]] # None, NEW ref \in Refs[raw[p[1]].value]
          PROVE  f[<<ref, p[2] \cup {p[1]}>>] = g[<<ref, p[2] \cup {p[1]}>>]
      <4> DEFINE q == <<ref, p[2] \cup {p[1]}>>
      <4>1. q \in Visits /\ Left(q) \in Nat /\ Left(p) \in Nat /\ Left(q) + 1 = Left(p)
        BY <3>1, <3>2, CallsDeepen
      <4>2. n \in Nat /\ Left(p) < n
        BY DEF Shallow
      <4> HIDE DEF q
      <4>3. q \in Shallow(n - 1) /\ q \in Shallow(n)
        BY <4>1, <4>2 DEF Shallow
      <4>4. f[q] = Visit(raw, f, q)
        BY <2>3, <4>3 DEF Answers
      <4>5. g[q] = Visit(raw, f, q)
        BY <4>3
      <4> QED BY <4>4, <4>5 DEF q
    <3> HIDE DEF g
    <3> QED BY <3>1, <3>2, VisitsOfCalls
  <2>5. g = [p \in Shallow(n) |-> Visit(raw, g, p)]
    <3> DEFINE h == g
    <3>1. g = [p \in Shallow(n) |-> Visit(raw, f, p)]
      OBVIOUS
    <3> HIDE DEF g
    <3> QED BY <2>4, <3>1
  <2> HIDE DEF g
  <2> QED BY <2>1, <2>5 DEF Answers
<1>2. Cardinality(Keys) + 1 \in Nat
  BY ValuesAssumption, FS_CardinalityType
<1>3. PICK f : Answers(raw, f, Shallow(Cardinality(Keys) + 1))
  BY <1>1, <1>2
<1>4. ASSUME NEW p \in Visits PROVE Left(p) < Cardinality(Keys) + 1
  <2>1. Keys \ p[2] \subseteq Keys /\ IsFiniteSet(Keys)
    BY ValuesAssumption
  <2>2. Cardinality(Keys \ p[2]) <= Cardinality(Keys) /\ IsFiniteSet(Keys \ p[2])
    BY <2>1, FS_Subset
  <2>3. Cardinality(Keys \ p[2]) \in Nat /\ Cardinality(Keys) \in Nat
    BY <2>1, <2>2, FS_CardinalityType
  <2> QED BY <2>2, <2>3 DEF Left
<1>5. Shallow(Cardinality(Keys) + 1) = Visits
  BY <1>4 DEF Shallow
<1> QED BY <1>3, <1>5

\* The expansion is what resolve_value answers to its own calls.
LEMMA ResolutionAnswers ==
  ASSUME NEW raw, Placed(raw)
  PROVE  \A p \in Visits : Resolution(raw)[p] = Visit(raw, Resolution(raw), p)
<1> DEFINE P(f) == f = [p \in Visits |-> Visit(raw, f, p)]
<1>1. Resolution(raw) = CHOOSE f : P(f)
  BY DEF Resolution, Visit, Visits
<1>2. \E f : P(f)
  BY AnswersExist DEF Answers
<1> HIDE DEF P
<1>3. P(Resolution(raw))
  BY <1>1, <1>2
<1> QED BY <1>3 DEF P

\* What a key includes is closed under placeholders: it has the key and all that
\* its placeholders include, and nothing else.
LEMMA IncludedIsClosed ==
  ASSUME NEW raw, Placed(raw), NEW k \in Keys
  PROVE  /\ k \in Included(raw, k) /\ Included(raw, k) \subseteq Keys
         /\ \A j \in Included(raw, k) : raw[j] # None =>
              \A ref \in Refs[raw[j].value] : ref \in Included(raw, k)
BY ValuesAssumption DEF Included, Placed

\* It is the least such set.
LEMMA IncludedIsLeast ==
  ASSUME NEW raw, NEW k \in Keys, NEW closed \in SUBSET Keys, k \in closed,
         \A i \in closed : raw[i] # None => Refs[raw[i].value] \subseteq closed
  PROVE  Included(raw, k) \subseteq closed
BY DEF Included

\* What a key includes, by its placeholders.
LEMMA IncludedByParts ==
  ASSUME NEW raw, Placed(raw), NEW k \in Keys, raw[k] # None
  PROVE  \A j : j \in Included(raw, k) <=>
           j = k \/ \E ref \in Refs[raw[k].value] : j \in Included(raw, ref)
<1> DEFINE parts == Refs[raw[k].value]
           all == {k} \cup UNION {Included(raw, ref) : ref \in parts}
<1>1. parts \subseteq Keys
  BY ValuesAssumption DEF Placed
<1>2. \A ref \in parts : ref \in Included(raw, k) /\ Included(raw, ref) \subseteq Included(raw, k)
  <2> TAKE ref \in parts
  <2>1. ref \in Keys /\ ref \in Included(raw, k)
    BY <1>1, IncludedIsClosed
  <2> DEFINE closed == Included(raw, k)
  <2>2. /\ closed \in SUBSET Keys /\ ref \in closed
        /\ \A i \in closed : raw[i] # None => Refs[raw[i].value] \subseteq closed
    BY <2>1, IncludedIsClosed
  <2> HIDE DEF closed
  <2>3. Included(raw, ref) \subseteq closed
    BY <2>1, <2>2, IncludedIsLeast
  <2> QED BY <2>1, <2>3 DEF closed
<1>3. Included(raw, k) \subseteq all
  <2>1. all \in SUBSET Keys /\ k \in all
    BY <1>1, IncludedIsClosed
  <2>2. ASSUME NEW i \in all, raw[i] # None, NEW j \in Refs[raw[i].value] PROVE j \in all
    <3>1. CASE i = k
      <4>1. j \in parts /\ j \in Included(raw, j)
        BY <1>1, <2>2, <3>1, IncludedIsClosed
      <4> QED BY <4>1
    <3>2. CASE i # k
      <4>1. PICK ref \in parts : i \in Included(raw, ref)
        BY <3>2
      <4>2. j \in Included(raw, ref)
        BY <1>1, <2>2, <4>1, IncludedIsClosed
      <4> QED BY <4>2
    <3> QED BY <3>1, <3>2
  <2> HIDE DEF all
  <2> QED BY <2>1, <2>2, IncludedIsLeast
<1>4. k \in Included(raw, k)
  BY IncludedIsClosed
<1> QED BY <1>2, <1>3, <1>4

\* Nothing that k includes lacks a value or leads back to itself.
Sound(raw, k) ==
  \A j \in Included(raw, k) :
    raw[j] # None /\ \A ref \in Refs[raw[j].value] : j \notin Included(raw, ref)

\* A key with a value is sound just where its placeholders are and do not lead back.
LEMMA SoundByParts ==
  ASSUME NEW raw, Placed(raw), NEW k \in Keys, raw[k] # None
  PROVE  Sound(raw, k) <=>
           \A ref \in Refs[raw[k].value] : Sound(raw, ref) /\ k \notin Included(raw, ref)
BY IncludedByParts DEF Sound

\* A property of calls that follows from that of the calls they make holds of
\* all: no call is the least that has not got it.
LEMMA CallInduction ==
  ASSUME NEW raw, Placed(raw), NEW True \in SUBSET Visits,
         \A p \in Visits :
           (p[1] \notin p[2] /\ raw[p[1]] # None =>
              \A ref \in Refs[raw[p[1]].value] : <<ref, p[2] \cup {p[1]}>> \in True)
           => p \in True
  PROVE  True = Visits
<1> DEFINE Depths == {Left(p) : p \in Visits \ True}
<1>1. \A p \in Visits : Left(p) \in Nat
  BY ValuesAssumption, FS_Difference, FS_CardinalityType DEF Visits, Left
<1> SUFFICES ASSUME Depths # {} PROVE FALSE
  OBVIOUS
<1>2. PICK n \in Depths : \A m \in Depths : ~ (m < n)
  <2>1. Depths \in SUBSET Nat
    BY <1>1
  <2> HIDE DEF Depths
  <2> QED BY <2>1, LeastNumber
<1>3. PICK p \in Visits \ True : Left(p) = n
  OBVIOUS
<1>4. PICK ref \in Refs[raw[p[1]].value] :
        p[1] \notin p[2] /\ raw[p[1]] # None /\ <<ref, p[2] \cup {p[1]}>> \notin True
  BY <1>3
<1> DEFINE q == <<ref, p[2] \cup {p[1]}>>
<1>5. q \in Visits /\ Left(q) \in Nat /\ Left(p) \in Nat /\ Left(q) + 1 = Left(p)
  BY <1>3, <1>4, CallsDeepen
<1>6. q \notin True
  BY <1>4
<1> HIDE DEF q
<1>7. Left(q) \in Depths
  BY <1>5, <1>6
<1> HIDE DEF Depths
<1> QED BY <1>2, <1>3, <1>5, <1>7

\* What a call makes of its parts.
LEMMA VisitOfParts ==
  ASSUME NEW raw, NEW f, NEW p, p[1] \notin p[2] /\ raw[p[1]] # None
  PROVE  /\ Visit(raw, f, p).ok <=>
              \A ref \in Refs[raw[p[1]].value] : f[<<ref, p[2] \cup {p[1]}>>].ok
         /\ Visit(raw, f, p).secret <=>
              \/ raw[p[1]].secret
              \/ \E ref \in Refs[raw[p[1]].value] : f[<<ref, p[2] \cup {p[1]}>>].secret
<1> DEFINE parts == {f[<<ref, p[2] \cup {p[1]}>>] : ref \in Refs[raw[p[1]].value]}
           ok == \A part \in parts : part.ok
           secret == raw[p[1]].secret \/ \E part \in parts : part.secret
<1>1. Visit(raw, f, p) = [ok |-> ok, secret |-> secret]
  BY DEF Visit, Secret
<1>2. ok <=> \A ref \in Refs[raw[p[1]].value] : f[<<ref, p[2] \cup {p[1]}>>].ok
  OBVIOUS
<1>3. secret <=> \/ raw[p[1]].secret
                 \/ \E ref \in Refs[raw[p[1]].value] : f[<<ref, p[2] \cup {p[1]}>>].secret
  OBVIOUS
<1> HIDE DEF ok, secret
<1>4. Visit(raw, f, p).ok = ok /\ Visit(raw, f, p).secret = secret
  BY <1>1
<1> QED BY <1>2, <1>3, <1>4, Zenon

\* A call succeeds just where its key is sound and includes nothing of the stack.
LEMMA SuccessIsSoundness ==
  ASSUME NEW raw, Placed(raw)
  PROVE  \A p \in Visits : Resolution(raw)[p].ok <=>
           Sound(raw, p[1]) /\ \A j \in p[2] : j \notin Included(raw, p[1])
<1> DEFINE Right(p) == Resolution(raw)[p].ok <=>
                         Sound(raw, p[1]) /\ \A j \in p[2] : j \notin Included(raw, p[1])
           True == {p \in Visits : Right(p)}
<1>1. ASSUME NEW p \in Visits,
             p[1] \notin p[2] /\ raw[p[1]] # None =>
               \A ref \in Refs[raw[p[1]].value] : <<ref, p[2] \cup {p[1]}>> \in True
      PROVE  Right(p)
  <2>1. Resolution(raw)[p] = Visit(raw, Resolution(raw), p)
    BY ResolutionAnswers
  <2>2. p[1] \in Keys /\ p[1] \in Included(raw, p[1])
    BY IncludedIsClosed DEF Visits
  <2>3. CASE p[1] \in p[2] \/ raw[p[1]] = None
    <3>1. ~ Resolution(raw)[p].ok
      BY <2>1, <2>3 DEF Visit
    <3>2. ~ (Sound(raw, p[1]) /\ \A j \in p[2] : j \notin Included(raw, p[1]))
      BY <2>2, <2>3 DEF Sound
    <3> QED BY <3>1, <3>2
  <2>4. CASE p[1] \notin p[2] /\ raw[p[1]] # None
    <3> DEFINE parts == Refs[raw[p[1]].value]
    <3>1. Resolution(raw)[p].ok <=>
            \A ref \in parts : Resolution(raw)[<<ref, p[2] \cup {p[1]}>>].ok
      BY <2>1, <2>4, VisitOfParts, Zenon
    <3>2. \A ref \in parts :
            Resolution(raw)[<<ref, p[2] \cup {p[1]}>>].ok <=>
              Sound(raw, ref) /\ \A j \in p[2] \cup {p[1]} : j \notin Included(raw, ref)
      BY <1>1, <2>4
    <3>3. Sound(raw, p[1]) <=>
            \A ref \in parts : Sound(raw, ref) /\ p[1] \notin Included(raw, ref)
      BY <2>2, <2>4, SoundByParts
    <3>4. \A j : j \in Included(raw, p[1]) <=>
            j = p[1] \/ \E ref \in parts : j \in Included(raw, ref)
      BY <2>2, <2>4, IncludedByParts
    <3> HIDE DEF parts
    <3>5. Resolution(raw)[p].ok <=>
            \A ref \in parts : Sound(raw, ref) /\ \A j \in p[2] \cup {p[1]} : j \notin Included(raw, ref)
      BY <3>1, <3>2, Zenon
    <3>6. (\A j \in p[2] : j \notin Included(raw, p[1])) <=>
            \A ref \in parts : \A j \in p[2] : j \notin Included(raw, ref)
      BY <2>4, <3>4
    <3> QED BY <3>3, <3>5, <3>6, Zenon
  <2> QED BY <2>3, <2>4
<1> HIDE DEF Right
<1>2. True = Visits
  BY <1>1, CallInduction
<1> QED BY <1>2 DEF Right

\* A call that succeeds yields a secret just where its key includes one.
LEMMA SecretIsInherited ==
  ASSUME NEW raw, Placed(raw)
  PROVE  \A p \in Visits : Resolution(raw)[p].ok =>
           (Resolution(raw)[p].secret <=> \E j \in Included(raw, p[1]) : raw[j].secret)
<1> DEFINE Right(p) == Resolution(raw)[p].ok =>
             (Resolution(raw)[p].secret <=> \E j \in Included(raw, p[1]) : raw[j].secret)
           True == {p \in Visits : Right(p)}
<1>1. ASSUME NEW p \in Visits,
             p[1] \notin p[2] /\ raw[p[1]] # None =>
               \A ref \in Refs[raw[p[1]].value] : <<ref, p[2] \cup {p[1]}>> \in True
      PROVE  Right(p)
  <2> SUFFICES ASSUME Resolution(raw)[p].ok
               PROVE  Resolution(raw)[p].secret <=> \E j \in Included(raw, p[1]) : raw[j].secret
    OBVIOUS
  <2>1. Resolution(raw)[p] = Visit(raw, Resolution(raw), p)
    BY ResolutionAnswers
  <2>2. p[1] \notin p[2] /\ raw[p[1]] # None /\ p[1] \in Keys
    BY <2>1 DEF Visit, Visits
  <2> DEFINE parts == Refs[raw[p[1]].value]
  <2>3. \A ref \in parts : Resolution(raw)[<<ref, p[2] \cup {p[1]}>>].ok
    BY <2>1, <2>2, VisitOfParts, Zenon
  <2>4. Resolution(raw)[p].secret <=>
          raw[p[1]].secret \/ \E ref \in parts : Resolution(raw)[<<ref, p[2] \cup {p[1]}>>].secret
    BY <2>1, <2>2, VisitOfParts, Zenon
  <2>5. \A ref \in parts :
          Resolution(raw)[<<ref, p[2] \cup {p[1]}>>].secret <=>
            \E j \in Included(raw, ref) : raw[j].secret
    BY <1>1, <2>2, <2>3
  <2>6. \A j : j \in Included(raw, p[1]) <=>
          j = p[1] \/ \E ref \in parts : j \in Included(raw, ref)
    BY <2>2, IncludedByParts
  <2> HIDE DEF parts
  <2> QED BY <2>4, <2>5, <2>6, Zenon
<1> HIDE DEF Right
<1>2. True = Visits
  BY <1>1, CallInduction
<1> QED BY <1>2 DEF Right

\* Whether an expansion succeeds depends on which keys have which values, and
\* not on where these are from.
LEMMA SuccessIsOfValues ==
  ASSUME NEW raw, NEW other, Placed(raw), Placed(other),
         \A k \in Keys : /\ raw[k] = None <=> other[k] = None
                         /\ raw[k] # None => raw[k].value = other[k].value
  PROVE  \A p \in Visits : Resolution(raw)[p].ok <=> Resolution(other)[p].ok
<1>1. ASSUME NEW k \in Keys PROVE Included(raw, k) = Included(other, k)
  BY DEF Included
<1>2. ASSUME NEW k \in Keys PROVE Sound(raw, k) <=> Sound(other, k)
  <2>1. \A j \in Included(raw, k) : /\ j \in Keys /\ (raw[j] = None <=> other[j] = None)
                                    /\ raw[j] # None => raw[j].value = other[j].value
    BY DEF Included
  <2>2. \A j \in Keys : raw[j] # None => Refs[raw[j].value] \subseteq Keys
    BY ValuesAssumption DEF Placed
  <2> QED BY <1>1, <2>1, <2>2 DEF Sound
<1> QED BY <1>1, <1>2, SuccessIsSoundness DEF Visits

-----------------------------------------------------------------------------
(* What is selected of the layers. *)

\* A scope that applies and is as specific as another that applies is that scope.
LEMMA RanksTellScopes ==
  ASSUME NEW r \in Scope, NEW s \in Scope, Applies(r), Applies(s)
  PROVE  /\ Rank(r) \in Nat /\ Rank(s) \in Nat
         /\ Rank(r) = Rank(s) => r = s
         /\ MoreSpecific(r, s) <=> Rank(r) < Rank(s)
<1>1. /\ r = [profile |-> r.profile, terminal |-> r.terminal]
      /\ s = [profile |-> s.profile, terminal |-> s.terminal]
  BY DEF Scope
<1>2. /\ r.profile \in {Active, None} /\ r.terminal \in {Terminal, None}
      /\ s.profile \in {Active, None} /\ s.terminal \in {Terminal, None}
  BY DEF Applies
<1>3. Active # None /\ Terminal # None
  BY ProcessAssumption
<1> DEFINE P(x) == IF x = None THEN 2 ELSE 0
           T(x) == IF x = None THEN 1 ELSE 0
<1>4. Rank(r) = P(r.profile) + T(r.terminal) /\ Rank(s) = P(s.profile) + T(s.terminal)
  BY DEF Rank
<1>5. \A x : P(x) \in {0, 2} /\ T(x) \in {0, 1} /\ (P(x) = 2 <=> x = None) /\ (T(x) = 1 <=> x = None)
  OBVIOUS
<1> HIDE DEF P, T
<1>6. Rank(r) = Rank(s) => P(r.profile) = P(s.profile) /\ T(r.terminal) = T(s.terminal)
  BY <1>4, <1>5
<1>7. Rank(r) < Rank(s) <=> \/ P(r.profile) = 0 /\ P(s.profile) = 2
                           \/ /\ P(r.profile) = P(s.profile)
                              /\ T(r.terminal) = 0 /\ T(s.terminal) = 1
  BY <1>4, <1>5
<1>8. Rank(r) \in Nat /\ Rank(s) \in Nat
  BY <1>4, <1>5
<1>9. /\ P(r.profile) = P(s.profile) <=> r.profile = s.profile
      /\ T(r.terminal) = T(s.terminal) <=> r.terminal = s.terminal
      /\ P(r.profile) = 0 <=> r.profile # None
      /\ T(r.terminal) = 0 <=> r.terminal # None
  BY <1>2, <1>3, <1>5
<1>10. Rank(r) = Rank(s) => r = s
  BY <1>1, <1>6, <1>9
<1>11. MoreSpecific(r, s) <=> Rank(r) < Rank(s)
  BY <1>5, <1>7, <1>9 DEF MoreSpecific
<1> QED BY <1>8, <1>10, <1>11

\* A layer offers its entry of the most specific scope that applies.
LEMMA ChosenIsOffered ==
  ASSUME NEW entries
  PROVE  /\ Chosen(entries) = None <=> \A s \in Scope : Applies(s) => entries[s] = None
         /\ Chosen(entries) # None =>
              /\ Chosen(entries) \in Scope /\ Applies(Chosen(entries))
              /\ entries[Chosen(entries)] # None
              /\ \A r \in Scope : Applies(r) /\ entries[r] # None => Rank(Chosen(entries)) <= Rank(r)
<1> DEFINE offered == {s \in Scope : Applies(s) /\ entries[s] # None}
           Best(s) == \A r \in offered : Rank(s) <= Rank(r)
<1>1. CASE offered = {}
  BY <1>1 DEF Chosen
<1>2. CASE offered # {}
  <2>1. {Rank(s) : s \in offered} \in SUBSET Nat
    BY RanksTellScopes
  <2>2. PICK n \in {Rank(s) : s \in offered} : \A m \in {Rank(s) : s \in offered} : ~ (m < n)
    <3> DEFINE ranks == {Rank(s) : s \in offered}
    <3>1. ranks # {} /\ ranks \in SUBSET Nat
      BY <1>2, <2>1
    <3> HIDE DEF ranks
    <3>2. \E n \in ranks : \A m \in ranks : ~ (m < n)
      BY <3>1, LeastNumber
    <3> QED BY <3>2 DEF ranks
  <2>3. \E s \in offered : Best(s)
    <3>1. PICK s \in offered : Rank(s) = n
      BY <2>2
    <3>2. \A r \in offered : Rank(r) \in Nat /\ ~ (Rank(r) < Rank(s))
      BY <2>1, <2>2, <3>1
    <3>3. Best(s)
      BY <3>1, <3>2
    <3> QED BY <3>1, <3>3
  <2> HIDE DEF Best
  <2>4. Chosen(entries) = CHOOSE s \in offered : Best(s)
    BY <1>2 DEF Chosen, Best
  <2>5. Chosen(entries) \in offered /\ Best(Chosen(entries))
    BY <2>3, <2>4
  <2>6. Chosen(entries) # None
    BY <2>5, ProcessAssumption
  <2> QED BY <1>2, <2>5, <2>6 DEF Best
<1> QED BY <1>1, <1>2

\* An entry that no other that applies is as specific as is the one.
LEMMA ChosenIsBest ==
  ASSUME NEW entries, NEW s \in Scope, Applies(s), entries[s] # None,
         \A r \in Scope : Applies(r) /\ entries[r] # None => Rank(s) <= Rank(r)
  PROVE  Chosen(entries) = s
<1> DEFINE c == Chosen(entries)
<1>1. /\ c \in Scope /\ Applies(c) /\ entries[c] # None
      /\ \A r \in Scope : Applies(r) /\ entries[r] # None => Rank(c) <= Rank(r)
  BY ChosenIsOffered
<1> HIDE DEF c
<1>2. Rank(c) <= Rank(s) /\ Rank(s) <= Rank(c) /\ Rank(c) \in Nat /\ Rank(s) \in Nat
  BY <1>1, RanksTellScopes
<1>3. Rank(c) = Rank(s)
  BY <1>2
<1>4. c = s
  BY <1>1, <1>3, RanksTellScopes
<1> QED BY <1>4 DEF c

\* Values that replace entries, or are added, are offered or leave the choice as
\* it was.
LEMMA ChosenAfterSet ==
  ASSUME NEW entries, NEW other, NEW v, v # None,
         \A s \in Scope : other[s] = entries[s] \/ other[s] = v
  PROVE  \/ Chosen(other) # None /\ other[Chosen(other)] = v
         \/ /\ Chosen(other) = Chosen(entries)
            /\ Chosen(other) # None => other[Chosen(other)] = entries[Chosen(other)]
<1> DEFINE c == Chosen(other)
<1>1. CASE c = None
  <2>1. \A s \in Scope : Applies(s) => other[s] = None
    BY <1>1, ChosenIsOffered
  <2>2. \A s \in Scope : Applies(s) => entries[s] = None
    BY <2>1
  <2>3. Chosen(entries) = None
    BY <2>2, ChosenIsOffered
  <2> QED BY <1>1, <2>3
<1>2. CASE c # None /\ other[c] # v
  <2>1. /\ c \in Scope /\ Applies(c) /\ other[c] # None
        /\ \A r \in Scope : Applies(r) /\ other[r] # None => Rank(c) <= Rank(r)
    BY <1>2, ChosenIsOffered
  <2> HIDE DEF c
  <2>2. other[c] = entries[c] /\ entries[c] # None
    BY <1>2, <2>1
  <2>3. \A r \in Scope : Applies(r) /\ entries[r] # None => Rank(c) <= Rank(r)
    BY <2>1
  <2>4. Chosen(entries) = c
    BY <2>1, <2>2, <2>3, ChosenIsBest
  <2> QED BY <2>2, <2>4 DEF c
<1> QED BY <1>1, <1>2

Typed(layers) ==
  /\ layers.defaults \in Layer /\ layers.file \in Layer /\ layers.vault \in Layer
  /\ layers.hidden \in Layer /\ layers.env \in Layer /\ layers.session \in Layer

Choice(layers, i, k) == Chosen(EntriesOf(layers, Sources[i], k))

\* What Winner takes from a source.
Won(layers, source, k) ==
  LET s == Chosen(EntriesOf(layers, source, k))
  IN  [source |-> source, scope |-> s, value |-> EntriesOf(layers, source, k)[s],
       secret |-> source = "secrets" \/ (source \in {"defaults", "session"} /\ k \in Declared)]

\* The order of the sources.
LEMMA FiveSources ==
  /\ DOMAIN Sources = 1..5
  /\ Sources[1] = "defaults" /\ Sources[2] = "file" /\ Sources[3] = "secrets"
  /\ Sources[4] = "env" /\ Sources[5] = "session"
BY DEF Sources

\* The last source that offers is the one that counts.
LEMMA WinnerIsOfLast ==
  ASSUME NEW layers, NEW k, NEW i \in 1..5, Choice(layers, i, k) # None,
         \A j \in 1..5 : j > i => Choice(layers, j, k) = None
  PROVE  Winner(layers, k) =
           Won(layers, IF i = 4 /\ Preserved(layers, k) THEN "secrets" ELSE Sources[i], k)
<1> DEFINE offering == {j \in DOMAIN Sources : Choice(layers, j, k) # None}
           source == IF Sources[i] = "env" /\ Preserved(layers, k) THEN "secrets" ELSE Sources[i]
<1>1. i \in offering /\ \A j \in offering : i >= j
  BY FiveSources
<1>2. Max(offering) = i
  <2>1. \A m \in offering : (\A j \in offering : m >= j) => m = i
    BY <1>1, FiveSources
  <2> HIDE DEF offering
  <2> QED BY <1>1, <2>1 DEF Max
<1>3. Winner(layers, k) = IF offering = {} THEN None ELSE
        LET at == IF Sources[Max(offering)] = "env" /\ Preserved(layers, k) THEN "secrets"
                  ELSE Sources[Max(offering)]
        IN  Won(layers, at, k)
  BY DEF Winner, Won, Choice
<1>4. Winner(layers, k) = Won(layers, source, k)
  <2> HIDE DEF offering
  <2> QED BY <1>1, <1>2, <1>3
<1>5. Sources[i] = "env" <=> i = 4
  BY FiveSources
<1> QED BY <1>4, <1>5

\* Where no source offers, nothing is selected.
LEMMA NoWinner ==
  ASSUME NEW layers, NEW k, \A i \in 1..5 : Choice(layers, i, k) = None
  PROVE  Winner(layers, k) = None
BY FiveSources DEF Winner, Choice

\* There is a last source that offers, if there is one at all.
LEMMA LastSource ==
  ASSUME NEW layers, NEW k, ~ \A i \in 1..5 : Choice(layers, i, k) = None
  PROVE  \E i \in 1..5 : /\ Choice(layers, i, k) # None
                         /\ \A j \in 1..5 : j > i => Choice(layers, j, k) = None
<1>1. \A i \in 1..5 : i = 1 \/ i = 2 \/ i = 3 \/ i = 4 \/ i = 5
  OBVIOUS
<1>2. CASE Choice(layers, 5, k) # None
  BY <1>2
<1>3. CASE Choice(layers, 5, k) = None /\ Choice(layers, 4, k) # None
  BY <1>1, <1>3
<1>4. CASE Choice(layers, 5, k) = None /\ Choice(layers, 4, k) = None /\ Choice(layers, 3, k) # None
  BY <1>1, <1>4
<1>5. CASE /\ Choice(layers, 5, k) = None /\ Choice(layers, 4, k) = None
           /\ Choice(layers, 3, k) = None /\ Choice(layers, 2, k) # None
  BY <1>1, <1>5
<1>6. CASE /\ Choice(layers, 5, k) = None /\ Choice(layers, 4, k) = None
           /\ Choice(layers, 3, k) = None /\ Choice(layers, 2, k) = None
           /\ Choice(layers, 1, k) # None
  BY <1>1, <1>6
<1> QED BY <1>1, <1>2, <1>3, <1>4, <1>5, <1>6

\* The entries of every source, by scope.
LEMMA EntriesAreTyped ==
  ASSUME NEW layers, Typed(layers), NEW i \in 1..5, NEW k \in Keys, NEW s \in Scope
  PROVE  EntriesOf(layers, Sources[i], k)[s] \in Values \cup {None}
<1>1. \A layer \in Layer : layer[k][s] \in Values \cup {None}
  BY DEF Layer
<1>2. SecretEntries(layers, k)[s] \in Values \cup {None}
  BY <1>1 DEF SecretEntries, Typed
<1>3. i = 1 \/ i = 2 \/ i = 3 \/ i = 4 \/ i = 5
  OBVIOUS
<1> QED BY <1>1, <1>2, <1>3, FiveSources DEF EntriesOf, Typed

\* A source that offers an entry offers a value.
LEMMA ChoiceIsTyped ==
  ASSUME NEW layers, Typed(layers), NEW i \in 1..5, NEW k \in Keys, Choice(layers, i, k) # None
  PROVE  /\ Choice(layers, i, k) \in Scope
         /\ EntriesOf(layers, Sources[i], k)[Choice(layers, i, k)] \in Values
<1>1. /\ Choice(layers, i, k) \in Scope
      /\ EntriesOf(layers, Sources[i], k)[Choice(layers, i, k)] # None
  BY ChosenIsOffered DEF Choice
<1> QED BY <1>1, EntriesAreTyped

\* A secret that comes before a variable is one that the secrets offer.
LEMMA PreservedIsOffered ==
  ASSUME NEW layers, NEW k, Preserved(layers, k)
  PROVE  Choice(layers, 3, k) # None
BY FiveSources DEF Preserved, Choice, EntriesOf

\* The source that counts, if one does.
LEMMA WinnerHasSource ==
  ASSUME NEW layers, NEW k, ~ \A i \in 1..5 : Choice(layers, i, k) = None
  PROVE  \E i \in 1..5 : Choice(layers, i, k) # None /\ Winner(layers, k) = Won(layers, Sources[i], k)
<1>1. PICK i \in 1..5 : /\ Choice(layers, i, k) # None
                        /\ \A j \in 1..5 : j > i => Choice(layers, j, k) = None
  BY LastSource
<1>2. CASE i = 4 /\ Preserved(layers, k)
  BY <1>1, <1>2, WinnerIsOfLast, PreservedIsOffered, FiveSources
<1>3. CASE ~ (i = 4 /\ Preserved(layers, k))
  <2>1. Winner(layers, k) = Won(layers, Sources[i], k)
    BY <1>1, <1>3, WinnerIsOfLast
  <2> QED BY <1>1, <2>1
<1> QED BY <1>2, <1>3

\* What a source offers can be selected.
LEMMA WonIsSelected ==
  ASSUME NEW layers, Typed(layers), NEW i \in 1..5, NEW k \in Keys, Choice(layers, i, k) # None
  PROVE  Won(layers, Sources[i], k) \in Selected
<1> DEFINE c == Choice(layers, i, k)
           secret == \/ Sources[i] = "secrets"
                     \/ Sources[i] \in {"defaults", "session"} /\ k \in Declared
           v == EntriesOf(layers, Sources[i], k)[c]
<1>1. Won(layers, Sources[i], k) = [source |-> Sources[i], scope |-> c, value |-> v, secret |-> secret]
  BY DEF Won, Choice
<1>2. c \in Scope /\ v \in Values
  BY ChoiceIsTyped
<1>3. secret \in BOOLEAN
  OBVIOUS
<1>4. Sources[i] \in {Sources[j] : j \in DOMAIN Sources}
  BY FiveSources
<1> HIDE DEF c, v, secret
<1> QED BY <1>1, <1>2, <1>3, <1>4 DEF Selected

\* What is selected has a value, and it is None only where nothing is offered.
LEMMA WinnerIsSelected ==
  ASSUME NEW layers, Typed(layers), NEW k \in Keys
  PROVE  /\ Winner(layers, k) \in Selected \cup {None}
         /\ Winner(layers, k) = None <=> \A i \in 1..5 : Choice(layers, i, k) = None
<1>1. CASE \A i \in 1..5 : Choice(layers, i, k) = None
  BY <1>1, NoWinner
<1>2. CASE ~ \A i \in 1..5 : Choice(layers, i, k) = None
  <2>1. Winner(layers, k) \in Selected
    BY <1>2, WinnerHasSource, WonIsSelected
  <2> QED BY <1>2, <2>1, SelectedAssumption
<1> QED BY <1>1, <1>2

\* The selection of a key is of its own entries.
LEMMA WinnerOfEntries ==
  ASSUME NEW layers, NEW other, NEW k,
         \A i \in 1..5 : EntriesOf(other, Sources[i], k) = EntriesOf(layers, Sources[i], k),
         other.hidden[k] = layers.hidden[k]
  PROVE  Winner(other, k) = Winner(layers, k)
<1>1. \A i \in 1..5 : /\ Choice(other, i, k) = Choice(layers, i, k)
                      /\ Won(other, Sources[i], k) = Won(layers, Sources[i], k)
  BY DEF Choice, Won
<1>2. Preserved(other, k) <=> Preserved(layers, k)
  <2>1. SecretEntries(other, k) = SecretEntries(layers, k)
    BY FiveSources DEF EntriesOf
  <2> QED BY <2>1 DEF Preserved
<1>3. CASE \A i \in 1..5 : Choice(layers, i, k) = None
  BY <1>1, <1>3, NoWinner
<1>4. CASE ~ \A i \in 1..5 : Choice(layers, i, k) = None
  <2>1. PICK i \in 1..5 : /\ Choice(layers, i, k) # None
                          /\ \A j \in 1..5 : j > i => Choice(layers, j, k) = None
    BY <1>4, LastSource
  <2>2. /\ Choice(other, i, k) # None
        /\ \A j \in 1..5 : j > i => Choice(other, j, k) = None
    BY <1>1, <2>1
  <2>3. CASE i = 4 /\ Preserved(layers, k)
    <3>1. Winner(layers, k) = Won(layers, "secrets", k) /\ Winner(other, k) = Won(other, "secrets", k)
      BY <1>2, <2>1, <2>2, <2>3, WinnerIsOfLast
    <3> QED BY <1>1, <3>1, FiveSources
  <2>4. CASE ~ (i = 4 /\ Preserved(layers, k))
    <3>1. /\ Winner(layers, k) = Won(layers, Sources[i], k)
          /\ Winner(other, k) = Won(other, Sources[i], k)
      BY <1>2, <2>1, <2>2, <2>4, WinnerIsOfLast
    <3> QED BY <1>1, <3>1
  <2> QED BY <2>3, <2>4
<1> QED BY <1>3, <1>4

\* Where secrets come before the variable of a key.
Shielded(layers, k) == Preserved(layers, k) /\ Choice(layers, 4, k) # None

\* When one source takes a value, that value is selected or what was before,
\* and no secret begins to shield the key.
LEMMA WinnerAfterSet ==
  ASSUME NEW layers, Typed(layers), NEW other, Typed(other), NEW k \in Keys, NEW v \in Values,
         NEW at \in {2, 3, 5},
         \A i \in 1..5 : i # at => EntriesOf(other, Sources[i], k) = EntriesOf(layers, Sources[i], k),
         \A s \in Scope : \/ EntriesOf(other, Sources[at], k)[s] = EntriesOf(layers, Sources[at], k)[s]
                          \/ EntriesOf(other, Sources[at], k)[s] = v,
         other.hidden[k] = layers.hidden[k],
         at = 3 => ~ Shielded(layers, k)
  PROVE  /\ \/ Winner(other, k) = Winner(layers, k)
            \/ Winner(other, k) # None /\ Winner(other, k).value = v
         /\ at = 3 => ~ Shielded(other, k)
<1> DEFINE E(l, i) == EntriesOf(l, Sources[i], k)
           C(l, i) == Choice(l, i, k)
<1>1. v # None
  BY ValuesAssumption
<1>2. \A i \in 1..5 : i # at => C(other, i) = C(layers, i) /\ Won(other, Sources[i], k) = Won(layers, Sources[i], k)
  BY DEF Choice, Won
<1>3. \/ C(other, at) # None /\ E(other, at)[C(other, at)] = v
      \/ /\ C(other, at) = C(layers, at)
         /\ C(other, at) # None => E(other, at)[C(other, at)] = E(layers, at)[C(other, at)]
  <2> DEFINE new == E(other, at)
             old == E(layers, at)
  <2>1. \A s \in Scope : new[s] = old[s] \/ new[s] = v
    OBVIOUS
  <2>2. C(other, at) = Chosen(new) /\ C(layers, at) = Chosen(old)
    BY DEF Choice
  <2> HIDE DEF new, old, C
  <2>3. \/ Chosen(new) # None /\ new[Chosen(new)] = v
        \/ /\ Chosen(new) = Chosen(old)
           /\ Chosen(new) # None => new[Chosen(new)] = old[Chosen(new)]
    BY <1>1, <2>1, ChosenAfterSet
  <2>4. \/ C(other, at) # None /\ new[C(other, at)] = v
        \/ /\ C(other, at) = C(layers, at)
           /\ C(other, at) # None => new[C(other, at)] = old[C(other, at)]
    BY <2>2, <2>3
  <2> QED BY <2>4 DEF new, old
<1>4. C(other, at) = C(layers, at)
        /\ (C(other, at) # None => E(other, at)[C(other, at)] = E(layers, at)[C(other, at)])
      => (C(other, at) # None => Won(other, Sources[at], k) = Won(layers, Sources[at], k))
  BY DEF Choice, Won
<1>5. \A l : SecretEntries(l, k) = E(l, 3) /\ C(l, 3) = Chosen(SecretEntries(l, k))
  BY FiveSources DEF EntriesOf, Choice
<1>7. ASSUME at = 3, Preserved(other, k), Choice(layers, 4, k) # None PROVE FALSE
  <2>1. ~ Preserved(layers, k)
    BY <1>7 DEF Shielded
  <2>2. C(other, 3) # None /\ layers.hidden[k][C(other, 3)] # None /\ C(other, 3) \in Scope
    BY <1>5, <1>7, ChosenIsOffered DEF Preserved
  <2>3. E(other, 3)[C(other, 3)] = E(layers, 3)[C(other, 3)]
    <3> DEFINE c == C(other, 3)
    <3>1. c \in Scope /\ other.hidden[k][c] # None /\ layers.hidden[k][c] = other.hidden[k][c]
      BY <2>2
    <3> HIDE DEF c
    <3>2. \A l : l.hidden[k][c] # None => SecretEntries(l, k)[c] = l.hidden[k][c]
      BY <3>1 DEF SecretEntries
    <3>3. SecretEntries(other, k)[c] = SecretEntries(layers, k)[c]
      BY <3>1, <3>2
    <3> QED BY <1>5, <3>3 DEF c
  <2>4. \A s \in Scope : Applies(s) /\ E(layers, 3)[s] # None => E(other, 3)[s] # None
    BY <1>1, <1>7
  <2>5. /\ Applies(C(other, 3)) /\ E(other, 3)[C(other, 3)] # None
        /\ \A r \in Scope : Applies(r) /\ E(other, 3)[r] # None => Rank(C(other, 3)) <= Rank(r)
    BY <2>2, ChosenIsOffered DEF Choice
  <2>6. C(layers, 3) = C(other, 3)
    BY <2>2, <2>3, <2>4, <2>5, ChosenIsBest DEF Choice
  <2> QED BY <2>1, <2>2, <2>6, <1>5 DEF Preserved
<1>8. at = 3 => ~ Shielded(other, k)
  BY <1>2, <1>7 DEF Shielded
<1>9. ASSUME NEW i \in 1..5, C(other, i) # None, \A j \in 1..5 : j > i => C(other, j) = None, i = at,
             E(other, at)[C(other, at)] = v
      PROVE  Winner(other, k) # None /\ Winner(other, k).value = v
  <2>1. Winner(other, k) = Won(other, Sources[at], k)
    BY <1>9, WinnerIsOfLast
  <2>2. Winner(other, k) # None
    BY <1>9, WinnerIsSelected
  <2> QED BY <1>9, <2>1, <2>2 DEF Won, Choice
<1>10. CASE \A i \in 1..5 : C(other, i) = None
  <2>1. \A i \in 1..5 : C(layers, i) = None
    BY <1>2, <1>3, <1>10
  <2> QED BY <1>8, <1>10, <2>1, NoWinner
<1>11. CASE ~ \A i \in 1..5 : C(other, i) = None
  <2>1. PICK i \in 1..5 : C(other, i) # None /\ \A j \in 1..5 : j > i => C(other, j) = None
    BY <1>11, LastSource
  <2>2. CASE i = at /\ E(other, at)[C(other, at)] = v
    BY <1>8, <1>9, <2>1, <2>2
  <2>3. CASE i = at /\ E(other, at)[C(other, at)] # v
    <3>1. C(layers, at) # None /\ \A j \in 1..5 : j > at => C(layers, j) = None
      BY <1>2, <1>3, <2>1, <2>3
    <3>2. at # 4
      OBVIOUS
    <3>3. Winner(other, k) = Won(other, Sources[at], k)
      BY <2>1, <2>3, <3>2, WinnerIsOfLast
    <3>4. Winner(layers, k) = Won(layers, Sources[at], k)
      BY <3>1, <3>2, WinnerIsOfLast
    <3> QED BY <1>3, <1>4, <1>8, <2>1, <2>3, <3>3, <3>4
  <2>4. CASE i # at
    <3>1. C(layers, i) # None
      BY <1>2, <2>1, <2>4
    <3>2. at > i => C(layers, at) = None
      BY <1>3, <2>1
    <3>3. \A j \in 1..5 : j > i => C(layers, j) = None
      BY <1>2, <2>1, <3>2
    <3>4. CASE i # 4
      <4>1. Winner(other, k) = Won(other, Sources[i], k) /\ Winner(layers, k) = Won(layers, Sources[i], k)
        BY <2>1, <3>1, <3>3, <3>4, WinnerIsOfLast
      <4> QED BY <1>2, <1>8, <2>4, <4>1
    <3>5. CASE i = 4 /\ at = 3
      <4>1. ~ Preserved(layers, k) /\ ~ Preserved(other, k)
        BY <1>7, <3>1, <3>5 DEF Shielded
      <4>2. Winner(other, k) = Won(other, Sources[i], k) /\ Winner(layers, k) = Won(layers, Sources[i], k)
        BY <2>1, <3>1, <3>3, <3>5, <4>1, WinnerIsOfLast
      <4> QED BY <1>2, <1>8, <2>4, <4>2
    <3>6. CASE i = 4 /\ at # 3
      <4>1. Preserved(layers, k) <=> Preserved(other, k)
        BY <1>2, <1>5, <3>6 DEF Preserved
      <4>2. Won(other, "secrets", k) = Won(layers, "secrets", k)
        BY <1>2, <3>6, FiveSources
      <4>3. CASE Preserved(layers, k)
        <5>1. Winner(other, k) = Won(other, "secrets", k) /\ Winner(layers, k) = Won(layers, "secrets", k)
          BY <2>1, <3>1, <3>3, <3>6, <4>1, <4>3, WinnerIsOfLast
        <5> QED BY <1>8, <4>2, <5>1
      <4>4. CASE ~ Preserved(layers, k)
        <5>1. Winner(other, k) = Won(other, Sources[i], k) /\ Winner(layers, k) = Won(layers, Sources[i], k)
          BY <2>1, <3>1, <3>3, <3>6, <4>1, <4>4, WinnerIsOfLast
        <5> QED BY <1>2, <1>8, <2>4, <5>1
      <4> QED BY <4>3, <4>4
    <3> QED BY <3>4, <3>5, <3>6
  <2> QED BY <2>2, <2>3, <2>4
<1> QED BY <1>10, <1>11

\* A value that nothing comes before is selected.
LEMMA StoredIsSelected ==
  ASSUME NEW layers, NEW k \in Keys, NEW at \in {2, 3, 5}, NEW s \in Scope, Applies(s),
         NEW v \in Values, EntriesOf(layers, Sources[at], k)[s] = v,
         \A r \in Scope : Applies(r) /\ MoreSpecific(r, s) => EntriesOf(layers, Sources[at], k)[r] = None,
         \A j \in 1..5 : j > at => Choice(layers, j, k) = None
  PROVE  Winner(layers, k).value = v
<1> DEFINE entries == EntriesOf(layers, Sources[at], k)
<1>1. v # None
  BY ValuesAssumption
<1>2. \A r \in Scope : Applies(r) /\ entries[r] # None => Rank(s) <= Rank(r)
  <2> TAKE r \in Scope
  <2>1. ASSUME Applies(r), entries[r] # None PROVE Rank(s) <= Rank(r)
    <3>1. ~ (Rank(r) < Rank(s)) /\ Rank(r) \in Nat /\ Rank(s) \in Nat
      BY <2>1, RanksTellScopes
    <3> QED BY <3>1
  <2> QED BY <2>1
<1>3. Chosen(entries) = s
  <2> HIDE DEF entries
  <2>1. entries[s] # None
    BY <1>1 DEF entries
  <2> QED BY <1>2, <2>1, ChosenIsBest
<1>4. Choice(layers, at, k) = s /\ s # None
  BY <1>3, ProcessAssumption DEF Choice
<1>5. Winner(layers, k) = Won(layers, Sources[at], k)
  <2>1. at \in 1..5 /\ at # 4
    OBVIOUS
  <2> QED BY <1>4, <2>1, WinnerIsOfLast
<1> QED BY <1>3, <1>5 DEF Won

\* What a store of the right type holds is a layer, and a scope that has an
\* entry has a table.
LEMMA LoadedIsLayer ==
  ASSUME NEW store \in Store
  PROVE  /\ Loaded(store) \in Layer
         /\ \A k \in Keys, s \in Scope : Loaded(store)[k][s] # None =>
              \E t \in store.tables : ScopeOf[t] = s
<1>1. ASSUME NEW k \in Keys, NEW s \in Scope
      PROVE  /\ LoadedEntry(store, k, s) \in Values \cup {None}
             /\ LoadedEntry(store, k, s) # None => \E t \in store.tables : ScopeOf[t] = s
  <2> DEFINE taken == {i \in Places(k, s) : Entry(store, i) # None}
             last == {i \in taken : \A j \in taken : Later(j, i)}
             values == {Entry(store, i) : i \in last}
  <2>1. LoadedEntry(store, k, s) = IF taken = {} THEN None ELSE CHOOSE v \in values : TRUE
    BY DEF LoadedEntry
  <2>2. ASSUME NEW i \in taken
        PROVE  /\ Entry(store, i) \in Values /\ (\E t \in store.tables : ScopeOf[t] = s)
               /\ i[1] \in 1..Len(TableOrder) /\ i[2] \in 1..Len(NameOrder)
    <3>1. /\ TableOrder[i[1]] \in Tables /\ ScopeOf[TableOrder[i[1]]] = s
          /\ NameOrder[i[2]] \in Names
          /\ i[1] \in DOMAIN TableOrder /\ i[2] \in DOMAIN NameOrder
      BY PlaceIsOfKey
    <3>2. Entry(store, i) \in Values
      BY <3>1 DEF Entry, Store
    <3>3. TableOrder[i[1]] \in store.tables
      BY <3>1 DEF Entry, Store, WellFormed, EmptyTable
    <3>4. DOMAIN TableOrder = 1..Len(TableOrder) /\ DOMAIN NameOrder = 1..Len(NameOrder)
      BY TablesAssumption, NamesAssumption
    <3> QED BY <3>1, <3>2, <3>3, <3>4
  <2>3. Len(TableOrder) \in Nat /\ Len(NameOrder) \in Nat
    BY TablesAssumption, NamesAssumption
  <2> HIDE DEF taken
  <2>4. taken # {} => last # {}
    <3> SUFFICES ASSUME taken # {} PROVE last # {}
      OBVIOUS
    <3> DEFINE tables == {Len(TableOrder) - i[1] : i \in taken}
    <3>1. tables # {} /\ tables \in SUBSET Nat
      BY <2>2, <2>3
    <3>2. PICK m \in tables : \A n \in tables : ~ (n < m)
      <4> HIDE DEF tables
      <4> QED BY <3>1, LeastNumber
    <3>3. PICK a \in taken : m = Len(TableOrder) - a[1]
      OBVIOUS
    <3>4. \A i \in taken : i[1] <= a[1]
      <4> TAKE i \in taken
      <4>1. Len(TableOrder) - i[1] \in tables
        OBVIOUS
      <4>2. ~ (Len(TableOrder) - i[1] < Len(TableOrder) - a[1])
        BY <3>2, <3>3, <4>1
      <4>3. i[1] \in Nat /\ a[1] \in Nat
        BY <2>2
      <4> HIDE DEF tables
      <4> QED BY <2>3, <4>2, <4>3
    <3> DEFINE names == {Len(NameOrder) - i[2] : i \in {j \in taken : j[1] = a[1]}}
    <3>5. names # {} /\ names \in SUBSET Nat
      BY <2>2, <2>3
    <3>6. PICK u \in names : \A n \in names : ~ (n < u)
      <4> HIDE DEF names
      <4> QED BY <3>5, LeastNumber
    <3>7. PICK b \in taken : b[1] = a[1] /\ u = Len(NameOrder) - b[2]
      OBVIOUS
    <3>8. \A i \in taken : i[1] = a[1] => i[2] <= b[2]
      <4> SUFFICES ASSUME NEW i \in taken, i[1] = a[1] PROVE i[2] <= b[2]
        OBVIOUS
      <4>1. Len(NameOrder) - i[2] \in names
        OBVIOUS
      <4>2. ~ (Len(NameOrder) - i[2] < Len(NameOrder) - b[2])
        BY <3>6, <3>7, <4>1
      <4>3. i[2] \in Nat /\ b[2] \in Nat
        BY <2>2
      <4> HIDE DEF names
      <4> QED BY <2>3, <4>2, <4>3
    <3>9. \A i \in taken : Later(i, b)
      BY <2>2, <3>4, <3>7, <3>8 DEF Later
    <3> QED BY <3>9
  <2>5. \A i \in last : i \in taken
    OBVIOUS
  <2> HIDE DEF last
  <2>6. taken # {} => (CHOOSE v \in values : TRUE) \in values
    BY <2>4
  <2>7. values \subseteq Values
    BY <2>2, <2>5
  <2> HIDE DEF values
  <2> QED BY <2>1, <2>2, <2>6, <2>7
<1>2. \A k \in Keys, s \in Scope : Loaded(store)[k][s] = LoadedEntry(store, k, s)
  BY DEF Loaded
<1>3. Loaded(store) \in Layer
  BY <1>1 DEF Loaded, Layer
<1> QED BY <1>1, <1>2, <1>3

\* The layers of a session are layers.
LEMMA LayersAreTyped == ASSUME TypeOK PROVE Typed(Layers)
<1>1. environ.hidden \in Layer /\ environ.env \in Layer
  BY SessionAssumption DEF TypeOK
<1> QED BY <1>1, LoadedIsLayer, SessionAssumption DEF TypeOK, Typed, Layers

-----------------------------------------------------------------------------
(* What an edit leaves to the REPL. *)

\* What the command under way is.
CommandInHand ==
  /\ op.stage = "writing" => op.kind # None /\ op.store # "session"
  /\ op.stage = "reload" => op.todo = {}
  /\ op.stage \in {"writing", "reload"} /\ op.kind # None =>
       /\ op.key \in Keys /\ op.store \in {"session", "config", "secrets"}
       /\ op.kind = "set" => op.value \in Values
       /\ op.kind # "set" => op.value = None
       /\ op.kind = "reset" => op.store = "config"

\* The scopes that are done hold the value, or nothing after a reset.
DoneIsStored ==
  fresh /\ op.stage \in {"writing", "reload"} =>
    /\ op.kind = "set" /\ op.store = "config" =>
         \A s \in op.scopes \ op.todo : Loaded(file)[op.key][s] = op.value
    /\ op.kind = "set" /\ op.store = "secrets" =>
         \A s \in op.scopes \ op.todo : Loaded(vault)[op.key][s] = op.value
    /\ op.kind = "reset" =>
         \A s \in Applicable(Scope) \ op.todo : Loaded(file)[op.key][s] = None

\* A command that is over has left no override, or its own.
OverridesFollow ==
  op.stage = "reload" =>
    /\ op.kind # None /\ op.store # "session" =>
         \A s \in Applicable(Scope) : overrides[op.key][s] = None
    /\ op.kind = "set" /\ op.store = "session" =>
         \A s \in op.scopes : overrides[op.key][s] = op.value

\* A profile that is declared, or used by what no command changes.
Lasting ==
  DeclaredProfiles(file) \cup DeclaredProfiles(vault)
    \cup {p \in Profiles : \E layer \in {ProductDefaults, environ.hidden, environ.env},
                              k \in Keys, s \in Scope : s.profile = p /\ layer[k][s] # None}

ActiveIsKnown == Active \in Lasting

SnapshotIsSelected == \A k \in Keys : snapshot.raw[k] \in Selected \cup {None}

ReadyIsCurrent == fresh /\ op.stage = "ready" => snapshot = Current /\ Expands(snapshot.raw)

\* What is selected while a set is under way was selected before, or is its value.
SetIsJudged ==
  fresh /\ op.stage \in {"writing", "reload"} /\ op.kind = "set" =>
    /\ Expands(snapshot.raw) /\ Acceptable(snapshot.raw, op.key, op.value)
    /\ \A k \in Keys \ {op.key} : Winner(Layers, k) = snapshot.raw[k]
    /\ ~ Uncovers(op.key) =>
         /\ \/ Winner(Layers, op.key) = snapshot.raw[op.key]
            \/ Winner(Layers, op.key) # None /\ Winner(Layers, op.key).value = op.value
         /\ op.store # "session" => Choice(Layers, 5, op.key) = None
         /\ op.store = "secrets" => ~ Shielded(Layers, op.key)

\* An override that was selected when a stored set began is selected as long as
\* the set is under way.
OverrideStands ==
  fresh /\ op.stage = "writing" /\ op.kind = "set"
    /\ snapshot.raw[op.key] # None /\ snapshot.raw[op.key].source = "session" =>
      Choice(Layers, 5, op.key) # None /\ Winner(Layers, op.key) = snapshot.raw[op.key]

EditInv ==
  /\ TypeOK
  /\ CommandInHand
  /\ DoneIsStored
  /\ OverridesFollow
  /\ ActiveIsKnown
  /\ SnapshotIsSelected
  /\ ReadyIsCurrent
  /\ SetIsJudged
  /\ OverrideStands

\* The layers of a session, as a function of its state.
Stack(f, v, e, o) ==
  [defaults |-> ProductDefaults, file |-> Loaded(f), vault |-> Loaded(v),
   hidden |-> e.hidden, env |-> e.env, session |-> o]

\* The layers before and after a step.
LEMMA StackIsLayers ==
  /\ Layers = Stack(file, vault, environ, overrides)
  /\ Layers' = Stack(file', vault', environ', overrides')
BY DEF Layers, Stack

\* The selection of a key that nothing was done to.
LEMMA SameEntriesSameWinner ==
  ASSUME NEW f, NEW v, NEW e, NEW o, NEW g, NEW w, NEW q, NEW k,
         Loaded(g)[k] = Loaded(f)[k], Loaded(w)[k] = Loaded(v)[k], q[k] = o[k]
  PROVE  Winner(Stack(g, w, e, q), k) = Winner(Stack(f, v, e, o), k)
<1> DEFINE new == Stack(g, w, e, q)
           old == Stack(f, v, e, o)
<1>1. new.hidden[k] = old.hidden[k]
  BY DEF Stack
<1>2. \A i \in 1..5 : EntriesOf(new, Sources[i], k) = EntriesOf(old, Sources[i], k)
  <2>1. \A i \in 1..5 : i = 1 \/ i = 2 \/ i = 3 \/ i = 4 \/ i = 5
    OBVIOUS
  <2> DEFINE E(l, i) == EntriesOf(l, Sources[i], k)
  <2>2. /\ E(new, 1) = ProductDefaults[k] /\ E(new, 2) = Loaded(g)[k]
        /\ E(new, 3) = [s \in Scope |-> IF e.hidden[k][s] # None THEN e.hidden[k][s] ELSE Loaded(w)[k][s]]
        /\ E(new, 4) = e.env[k] /\ E(new, 5) = q[k]
    BY FiveSources DEF Stack, EntriesOf, SecretEntries
  <2>3. /\ E(old, 1) = ProductDefaults[k] /\ E(old, 2) = Loaded(f)[k]
        /\ E(old, 3) = [s \in Scope |-> IF e.hidden[k][s] # None THEN e.hidden[k][s] ELSE Loaded(v)[k][s]]
        /\ E(old, 4) = e.env[k] /\ E(old, 5) = o[k]
    BY FiveSources DEF Stack, EntriesOf, SecretEntries
  <2> HIDE DEF new, old, E
  <2>5. \A i \in 1..5 : E(new, i) = E(old, i)
    BY <2>1, <2>2, <2>3
  <2> QED BY <2>5 DEF E
<1> HIDE DEF new, old
<1>3. Winner(new, k) = Winner(old, k)
  BY <1>1, <1>2, WinnerOfEntries
<1> QED BY <1>3 DEF new, old

\* A source that offers nothing for the session or shields nothing.
LEMMA NotUncovered ==
  ASSUME NEW layers, Typed(layers), NEW k \in Keys
  PROVE  /\ Choice(layers, 5, k) # None =>
              Winner(layers, k) # None /\ Winner(layers, k).source = "session"
         /\ Choice(layers, 5, k) = None /\ Shielded(layers, k) =>
              Winner(layers, k) # None /\ Winner(layers, k).source = "secrets"
<1>1. ASSUME Choice(layers, 5, k) # None
      PROVE  Winner(layers, k) # None /\ Winner(layers, k).source = "session"
  <2>1. Winner(layers, k) = Won(layers, Sources[5], k)
    BY <1>1, WinnerIsOfLast
  <2> QED BY <1>1, <2>1, WinnerIsSelected, FiveSources DEF Won
<1>2. ASSUME Choice(layers, 5, k) = None, Shielded(layers, k)
      PROVE  Winner(layers, k) # None /\ Winner(layers, k).source = "secrets"
  <2>1. Winner(layers, k) = Won(layers, "secrets", k)
    BY <1>2, WinnerIsOfLast DEF Shielded
  <2> QED BY <1>2, <2>1, WinnerIsSelected DEF Won, Shielded
<1> QED BY <1>1, <1>2

\* What the session selects is an override.
LEMMA SessionOffers ==
  ASSUME NEW layers, Typed(layers), NEW k \in Keys,
         Winner(layers, k) # None, Winner(layers, k).source = "session"
  PROVE  Choice(layers, 5, k) # None
<1>1. ~ \A i \in 1..5 : Choice(layers, i, k) = None
  BY WinnerIsSelected
<1>2. PICK i \in 1..5 : Choice(layers, i, k) # None /\ Winner(layers, k) = Won(layers, Sources[i], k)
  BY <1>1, WinnerHasSource
<1>3. Sources[i] = "session"
  BY <1>2 DEF Won
<1>4. i = 5
  BY <1>3, FiveSources
<1> QED BY <1>2, <1>4

\* An override is selected whatever the other layers hold.
LEMMA SessionStands ==
  ASSUME NEW layers, NEW other, NEW k, other.session = layers.session,
         Choice(layers, 5, k) # None
  PROVE  Choice(other, 5, k) # None /\ Winner(other, k) = Winner(layers, k)
<1>1. EntriesOf(other, "session", k) = EntriesOf(layers, "session", k)
  BY DEF EntriesOf
<1>2. Choice(other, 5, k) # None /\ Won(other, "session", k) = Won(layers, "session", k)
  BY <1>1, FiveSources DEF Choice, Won
<1>3. Winner(layers, k) = Won(layers, "session", k)
  BY FiveSources, WinnerIsOfLast
<1>4. Winner(other, k) = Won(other, "session", k)
  BY <1>2, FiveSources, WinnerIsOfLast
<1> QED BY <1>2, <1>3, <1>4

\* A scope that a command can name is a scope.
LEMMA ScopesOfTables == DOMAIN Exact \subseteq Scope
BY TablesAssumption

\* Every profile that a layer of a new process names is one that lasts.
LEMMA KnownLasts ==
  ASSUME TypeOK, overrides = NoEntry, Active \in Current.known
  PROVE  ActiveIsKnown
<1>1. CASE Active \in DeclaredProfiles(file) \cup DeclaredProfiles(vault)
  BY <1>1 DEF ActiveIsKnown, Lasting
<1>2. CASE Active \notin DeclaredProfiles(file) \cup DeclaredProfiles(vault)
  <2>1. PICK source \in DOMAIN Layers, k \in Keys, s \in Scope :
          s.profile = Active /\ Layers[source][k][s] # None
    BY <1>2 DEF Current, KnownProfiles
  <2>2. source \in {"defaults", "file", "vault", "hidden", "env", "session"}
    BY DEF Layers
  <2>3. Active # None /\ Active \in Profiles
    BY ProcessAssumption
  <2>4. \A store \in Store : Loaded(store)[k][s] # None => Active \in DeclaredProfiles(store)
    BY <2>1, <2>3, LoadedIsLayer DEF DeclaredProfiles
  <2>5. source \notin {"file", "vault"}
    <3>1. file \in Store /\ vault \in Store
      BY DEF TypeOK
    <3>2. Layers["file"] = Loaded(file) /\ Layers["vault"] = Loaded(vault)
      BY DEF Layers
    <3> QED BY <1>2, <2>1, <2>4, <3>1, <3>2
  <2>6. source # "session"
    BY <2>1 DEF Layers, NoEntry
  <2>7. Layers[source] \in {ProductDefaults, environ.hidden, environ.env}
    BY <2>2, <2>5, <2>6 DEF Layers
  <2> QED BY <2>1, <2>3, <2>7 DEF ActiveIsKnown, Lasting
<1> QED BY <1>1, <1>2

\* What a resolution selects now.
LEMMA SelectionIsTyped ==
  ASSUME TypeOK
  PROVE  \A k \in Keys : Current.raw[k] = Winner(Layers, k) /\ Current.raw[k] \in Selected \cup {None}
BY LayersAreTyped, WinnerIsSelected DEF Current, Winners

\* A session begins with no command under way.
LEMMA InitEditInv == Init => EditInv
<1> SUFFICES ASSUME Init PROVE EditInv
  OBVIOUS
<1>1. TypeOK
  BY InitTypeOK
<1>2. ActiveIsKnown
  BY <1>1, KnownLasts DEF Init, Usable
<1>3. SnapshotIsSelected
  BY <1>1, SelectionIsTyped DEF Init, SnapshotIsSelected
<1>4. op.stage = "ready" /\ op.todo = {} /\ snapshot = Current /\ Expands(snapshot.raw)
  BY DEF Init, Idle, Usable
<1> QED BY <1>1, <1>2, <1>3, <1>4 DEF EditInv, CommandInHand, DoneIsStored, OverridesFollow,
                                      ReadyIsCurrent, SetIsJudged, OverrideStands

\* A session override that a command sets is selected, or what was before.
LEMMA OverrideIsJudged ==
  ASSUME EditInv, NEW k \in Keys, NEW v \in Values, NEW o \in Layer,
         \A j \in Keys \ {k} : o[j] = overrides[j],
         \A s \in Scope : o[k][s] = overrides[k][s] \/ o[k][s] = v
  PROVE  LET l == Stack(file, vault, environ, o)
         IN  /\ \A j \in Keys \ {k} : Winner(l, j) = Winner(Layers, j)
             /\ \/ Winner(l, k) = Winner(Layers, k)
                \/ Winner(l, k) # None /\ Winner(l, k).value = v
<1> DEFINE l == Stack(file, vault, environ, o)
<1>1. Typed(Layers)
  BY LayersAreTyped DEF EditInv
<1>2. Typed(l)
  BY <1>1 DEF Typed, Layers, Stack
<1>6. \A j \in Keys \ {k} : Winner(l, j) = Winner(Layers, j)
  <2> TAKE j \in Keys \ {k}
  <2>1. Winner(l, j) = Winner(Stack(file, vault, environ, overrides), j)
    BY SameEntriesSameWinner
  <2> QED BY <2>1, StackIsLayers
<1>7. /\ \A i \in 1..5 : i # 5 => EntriesOf(l, Sources[i], k) = EntriesOf(Layers, Sources[i], k)
      /\ EntriesOf(l, Sources[5], k) = o[k] /\ EntriesOf(Layers, Sources[5], k) = overrides[k]
      /\ l.hidden[k] = Layers.hidden[k]
  <2>1. \A i \in 1..5 : i # 5 => i = 1 \/ i = 2 \/ i = 3 \/ i = 4
    OBVIOUS
  <2> QED BY <2>1, FiveSources DEF Layers, Stack, EntriesOf, SecretEntries
<1> HIDE DEF l
<1>8. \/ Winner(l, k) = Winner(Layers, k)
      \/ Winner(l, k) # None /\ Winner(l, k).value = v
  BY <1>1, <1>2, <1>7, WinnerAfterSet
<1> QED BY <1>6, <1>8 DEF l

\* One lemma for each action.
LEMMA SetEditInv ==
  ASSUME EditInv, NEW k \in Keys, NEW v \in Offered[k], Set(k, v)
  PROVE  EditInv'
<1>1. v \in Values
  BY SessionAssumption
<1>2. PICK store \in {"session", "config", "secrets"}, scopes \in Targets :
        Entered(k, v, "set", StoreFor(k, store), scopes)
  BY DEF Set
<1>3. TypeOK'
  BY <1>1, <1>2, StoresAreStores, EnteredTypeOK, ValuesAssumption DEF EditInv
<1> DEFINE st == StoreFor(k, store)
<1>4. st \in {"session", "config", "secrets"}
  BY StoresAreStores
<1> HIDE DEF st
<1>5. /\ op' = [stage |-> IF st = "session" THEN "reload" ELSE "writing", kind |-> "set",
                store |-> st, key |-> k, value |-> v, scopes |-> scopes,
                todo |-> IF st = "session" THEN {} ELSE scopes]
      /\ overrides' = IF st # "session" THEN overrides
                      ELSE [overrides EXCEPT ![k] = [s \in Scope |-> IF s \in scopes THEN v ELSE @[s]]]
      /\ scopes \subseteq DOMAIN Exact /\ op.stage = "ready"
      /\ UNCHANGED <<file, vault, environ, snapshot, outside, fresh>>
  BY <1>2 DEF Entered, Ready, st
<1>6. /\ op'.stage = IF st = "session" THEN "reload" ELSE "writing"
      /\ op'.kind = "set" /\ op'.store = st /\ op'.key = k /\ op'.value = v /\ op'.scopes = scopes
      /\ op'.todo = IF st = "session" THEN {} ELSE scopes
  BY <1>5
<1>7. CommandInHand'
  BY <1>1, <1>4, <1>6, SessionAssumption DEF CommandInHand
<1>8. DoneIsStored'
  BY <1>4, <1>6 DEF DoneIsStored
<1>9. OverridesFollow'
  <2> SUFFICES ASSUME st = "session", NEW s \in scopes PROVE overrides'[k][s] = v
    BY <1>6 DEF OverridesFollow
  <2>1. overrides \in Layer /\ s \in Scope
    BY <1>5, ScopesOfTables DEF EditInv, TypeOK
  <2> QED BY <1>5, <2>1 DEF Layer
<1>10. ActiveIsKnown' /\ SnapshotIsSelected' /\ ReadyIsCurrent'
  BY <1>4, <1>5, <1>6 DEF EditInv, ActiveIsKnown, Lasting, SnapshotIsSelected, ReadyIsCurrent
<1>11. SetIsJudged'
  <2> SUFFICES ASSUME fresh PROVE SetIsJudged'
    BY <1>5 DEF SetIsJudged
  <2>1. snapshot = Current /\ Expands(snapshot.raw) /\ Acceptable(snapshot.raw, k, v)
    BY <1>5 DEF EditInv, ReadyIsCurrent, Set
  <2>2. \A j \in Keys : snapshot.raw[j] = Winner(Layers, j)
    BY <2>1, SelectionIsTyped DEF EditInv
  <2>3. Typed(Layers)
    BY LayersAreTyped DEF EditInv
  <2>4. CASE st # "session"
    <3>1. Layers' = Layers
      BY <1>5, <2>4 DEF Layers
    <3>2. ASSUME ~ Uncovers(k)' PROVE Choice(Layers, 5, k) = None /\ (st = "secrets" => ~ Shielded(Layers, k))
      <4>1. snapshot.raw[k] # None =>
              /\ snapshot.raw[k].source # "session"
              /\ ~ (st = "secrets" /\ snapshot.raw[k].source = "secrets" /\ Chosen(environ.env[k]) # None)
        BY <1>5, <1>6, <2>4, <3>2 DEF Uncovers
      <4>2. Choice(Layers, 5, k) = None
        BY <2>2, <2>3, <4>1, NotUncovered
      <4>3. Choice(Layers, 4, k) = Chosen(environ.env[k])
        BY FiveSources DEF Choice, EntriesOf, Layers
      <4>4. Shielded(Layers, k) => Chosen(environ.env[k]) # None
        BY <4>3 DEF Shielded
      <4> QED BY <2>2, <2>3, <4>1, <4>2, <4>4, NotUncovered
    <3> QED BY <1>5, <1>6, <2>1, <2>2, <3>1, <3>2 DEF SetIsJudged
  <2>5. CASE st = "session"
    <3>1. overrides' \in Layer
      BY <1>3 DEF TypeOK
    <3>2. /\ \A j \in Keys \ {k} : Winner(Stack(file, vault, environ, overrides'), j) = Winner(Layers, j)
          /\ \/ Winner(Stack(file, vault, environ, overrides'), k) = Winner(Layers, k)
             \/ /\ Winner(Stack(file, vault, environ, overrides'), k) # None
                /\ Winner(Stack(file, vault, environ, overrides'), k).value = v
      <4> DEFINE o == overrides'
      <4>1. /\ o \in Layer
            /\ \A j \in Keys \ {k} : o[j] = overrides[j]
            /\ \A s \in Scope : o[k][s] = overrides[k][s] \/ o[k][s] = v
        BY <1>5, <2>5, <3>1 DEF EditInv, TypeOK, Layer
      <4> HIDE DEF o
      <4>2. /\ \A j \in Keys \ {k} : Winner(Stack(file, vault, environ, o), j) = Winner(Layers, j)
            /\ \/ Winner(Stack(file, vault, environ, o), k) = Winner(Layers, k)
               \/ /\ Winner(Stack(file, vault, environ, o), k) # None
                  /\ Winner(Stack(file, vault, environ, o), k).value = v
        BY <1>1, <4>1, OverrideIsJudged
      <4> QED BY <4>2 DEF o
    <3>3. Layers' = Stack(file, vault, environ, overrides')
      BY <1>5, StackIsLayers
    <3>4. op'.store = "session"
      BY <1>6, <2>5
    <3> QED BY <1>5, <1>6, <2>1, <2>2, <3>2, <3>3, <3>4 DEF SetIsJudged
  <2> QED BY <2>4, <2>5
<1>12. OverrideStands'
  <2> SUFFICES ASSUME fresh, st # "session", snapshot.raw[k] # None, snapshot.raw[k].source = "session"
               PROVE  Choice(Layers', 5, k) # None /\ Winner(Layers', k) = snapshot.raw[k]
    BY <1>5, <1>6 DEF OverrideStands
  <2>1. snapshot = Current /\ Layers' = Layers
    BY <1>5 DEF EditInv, ReadyIsCurrent, Layers
  <2>2. snapshot.raw[k] = Winner(Layers, k)
    BY <2>1, SelectionIsTyped DEF EditInv
  <2>3. Typed(Layers)
    BY LayersAreTyped DEF EditInv
  <2> QED BY <2>1, <2>2, <2>3, SessionOffers
<1> QED BY <1>3, <1>7, <1>8, <1>9, <1>10, <1>11, <1>12 DEF EditInv

LEMMA UnsetEditInv ==
  ASSUME EditInv, NEW k \in Keys, NEW store \in {"session", "config", "secrets"},
         NEW scopes \in Targets, Unset(k, store, scopes)
  PROVE  EditInv'
<1> DEFINE st == StoreFor(k, store)
<1>1. TypeOK' /\ st \in {"session", "config", "secrets"}
  BY StoresAreStores, EnteredTypeOK DEF Unset, EditInv
<1> HIDE DEF st
<1>2. /\ op'.stage = IF st = "session" THEN "reload" ELSE "writing"
      /\ op'.kind = "unset" /\ op'.store = st /\ op'.key = k /\ op'.value = None
      /\ op'.todo = IF st = "session" THEN {} ELSE scopes
      /\ UNCHANGED <<file, vault, environ, snapshot, outside, fresh>>
  BY DEF Unset, Entered, st
<1>3. CommandInHand'
  BY <1>1, <1>2, SessionAssumption DEF CommandInHand
<1>4. DoneIsStored' /\ SetIsJudged' /\ OverrideStands' /\ ReadyIsCurrent'
  BY <1>2 DEF DoneIsStored, SetIsJudged, OverrideStands, ReadyIsCurrent
<1>5. OverridesFollow'
  BY <1>2 DEF OverridesFollow
<1>6. ActiveIsKnown' /\ SnapshotIsSelected'
  BY <1>2 DEF EditInv, ActiveIsKnown, Lasting, SnapshotIsSelected
<1> QED BY <1>1, <1>3, <1>4, <1>5, <1>6 DEF EditInv

LEMMA ResetEditInv ==
  ASSUME EditInv, NEW k \in Keys, Reset(k)
  PROVE  EditInv'
<1>1. TypeOK'
  BY EnteredTypeOK DEF Reset, EditInv
<1> DEFINE scopes == Applicable({s \in Scope : Loaded(file)[k][s] # None})
<1>2. /\ op'.stage = "writing"
      /\ op'.kind = "reset" /\ op'.store = "config" /\ op'.key = k /\ op'.value = None
      /\ op'.todo = scopes
      /\ UNCHANGED <<file, vault, environ, snapshot, outside, fresh>>
  BY DEF Reset, Entered
<1>3. CommandInHand'
  BY <1>2, SessionAssumption DEF CommandInHand
<1>4. \A s \in Applicable(Scope) \ scopes : Loaded(file)[k][s] = None
  BY DEF Applicable
<1> HIDE DEF scopes
<1>5. DoneIsStored'
  <2>1. \A s \in Applicable(Scope) \ op'.todo : Loaded(file')[op'.key][s] = None
    BY <1>2, <1>4
  <2> QED BY <1>2, <2>1 DEF DoneIsStored
<1>6. SetIsJudged' /\ OverrideStands' /\ ReadyIsCurrent' /\ OverridesFollow'
  BY <1>2 DEF SetIsJudged, OverrideStands, ReadyIsCurrent, OverridesFollow
<1>7. ActiveIsKnown' /\ SnapshotIsSelected'
  BY <1>2 DEF EditInv, ActiveIsKnown, Lasting, SnapshotIsSelected
<1> QED BY <1>1, <1>3, <1>5, <1>6, <1>7 DEF EditInv

\* What is selected of a store that took a value in a scope.
LEMMA StoredIsJudged ==
  ASSUME EditInv, NEW k \in Keys, NEW v \in Values, NEW f \in Store, NEW w \in Store,
         NEW at \in {2, 3}, at = 2 => w = vault, at = 3 => f = file,
         \A j \in Keys \ {k} : Loaded(f)[j] = Loaded(file)[j] /\ Loaded(w)[j] = Loaded(vault)[j],
         at = 2 => \A s \in Scope : Loaded(f)[k][s] = Loaded(file)[k][s] \/ Loaded(f)[k][s] = v,
         at = 3 => \A s \in Scope : Loaded(w)[k][s] = Loaded(vault)[k][s] \/ Loaded(w)[k][s] = v,
         at = 3 => ~ Shielded(Layers, k)
  PROVE  LET l == Stack(f, w, environ, overrides)
         IN  /\ \A j \in Keys \ {k} : Winner(l, j) = Winner(Layers, j)
             /\ \/ Winner(l, k) = Winner(Layers, k)
                \/ Winner(l, k) # None /\ Winner(l, k).value = v
             /\ at = 3 => ~ Shielded(l, k)
             /\ Choice(l, 5, k) = Choice(Layers, 5, k)
<1> DEFINE l == Stack(f, w, environ, overrides)
<1>1. Typed(Layers)
  BY LayersAreTyped DEF EditInv
<1>2. Typed(l)
  BY <1>1, LoadedIsLayer DEF Typed, Layers, Stack
<1>3. \A j \in Keys \ {k} : Winner(l, j) = Winner(Layers, j)
  <2> TAKE j \in Keys \ {k}
  <2>1. Winner(l, j) = Winner(Stack(file, vault, environ, overrides), j)
    BY SameEntriesSameWinner
  <2> QED BY <2>1, StackIsLayers
<1>4. /\ \A i \in 1..5 : i # at => EntriesOf(l, Sources[i], k) = EntriesOf(Layers, Sources[i], k)
      /\ l.hidden[k] = Layers.hidden[k]
  <2>1. \A i \in 1..5 : i = 1 \/ i = 2 \/ i = 3 \/ i = 4 \/ i = 5
    OBVIOUS
  <2>2. CASE at = 2
    BY <2>1, <2>2, FiveSources DEF Layers, Stack, EntriesOf, SecretEntries
  <2>3. CASE at = 3
    BY <2>1, <2>3, FiveSources DEF Layers, Stack, EntriesOf, SecretEntries
  <2> QED BY <2>2, <2>3
<1>5. \A s \in Scope : \/ EntriesOf(l, Sources[at], k)[s] = EntriesOf(Layers, Sources[at], k)[s]
                       \/ EntriesOf(l, Sources[at], k)[s] = v
  <2>1. CASE at = 2
    BY <2>1, FiveSources DEF Layers, Stack, EntriesOf
  <2>2. CASE at = 3
    BY <2>2, FiveSources DEF Layers, Stack, EntriesOf, SecretEntries
  <2> QED BY <2>1, <2>2
<1>6. Choice(l, 5, k) = Choice(Layers, 5, k)
  BY <1>4 DEF Choice
<1> HIDE DEF l
<1>7. /\ \/ Winner(l, k) = Winner(Layers, k)
         \/ Winner(l, k) # None /\ Winner(l, k).value = v
      /\ at = 3 => ~ Shielded(l, k)
  BY <1>1, <1>2, <1>4, <1>5, WinnerAfterSet
<1> QED BY <1>3, <1>6, <1>7 DEF l

\* What a write changes.
LEMMA WriteEffect ==
  ASSUME EditInv, NEW s \in op.todo, Write(s)
  PROVE  /\ op.key \in Keys /\ s \in Scope
         /\ op.store \in {"config", "secrets"}
         /\ op.store = "config" =>
              /\ vault' = vault /\ DeclaredProfiles(file) \subseteq DeclaredProfiles(file')
              /\ \A j \in Keys \ {op.key} : Loaded(file')[j] = Loaded(file)[j]
              /\ \A r \in Scope : Loaded(file')[op.key][r] = IF r = s THEN op.value
                                                             ELSE Loaded(file)[op.key][r]
         /\ op.store = "secrets" =>
              /\ file' = file /\ DeclaredProfiles(vault) \subseteq DeclaredProfiles(vault')
              /\ \A j \in Keys \ {op.key} : Loaded(vault')[j] = Loaded(vault)[j]
              /\ \A r \in Scope : Loaded(vault')[op.key][r] = IF r = s THEN op.value
                                                              ELSE Loaded(vault)[op.key][r]
<1>1. /\ op.key \in Keys /\ s \in DOMAIN Exact /\ op.store \in {"config", "secrets"}
      /\ file \in Store /\ vault \in Store /\ op.stage = "writing"
  BY DEF Write, EditInv, TypeOK, Commands
<1>2. s \in Scope
  BY <1>1, ScopesOfTables
<1>3. EditIsExact(file, Edited(file, s, Display[op.key]), s)
  BY <1>1, EditedIsExact, WrittenNames DEF EditInv
<1>4. EditIsExact(vault, Edited(vault, s, op.key), s)
  BY <1>1, EditedIsExact, WrittenNames DEF EditInv
<1>5. ASSUME NEW before \in Store, NEW after, EditIsExact(before, after, s)
      PROVE  /\ DeclaredProfiles(before) \subseteq DeclaredProfiles(after)
             /\ \A j \in Keys \ {op.key} : Loaded(after)[j] = Loaded(before)[j]
             /\ \A r \in Scope : Loaded(after)[op.key][r] = IF r = s THEN op.value
                                                            ELSE Loaded(before)[op.key][r]
  BY <1>1, <1>2, <1>5, LoadedIsLayer DEF EditIsExact, Layer
<1>6. op.store = "config" => file' = Edited(file, s, Display[op.key]) /\ vault' = vault
  BY DEF Write
<1>7. op.store = "secrets" => vault' = Edited(vault, s, op.key) /\ file' = file
  BY DEF Write
<1>8. CASE op.store = "config"
  <2> DEFINE after == Edited(file, s, Display[op.key])
  <2> HIDE DEF after
  <2>1. /\ DeclaredProfiles(file) \subseteq DeclaredProfiles(after)
        /\ \A j \in Keys \ {op.key} : Loaded(after)[j] = Loaded(file)[j]
        /\ \A r \in Scope : Loaded(after)[op.key][r] = IF r = s THEN op.value
                                                       ELSE Loaded(file)[op.key][r]
    BY <1>1, <1>3, <1>5 DEF after
  <2>2. file' = after
    BY <1>6, <1>8 DEF after
  <2> QED BY <1>1, <1>2, <1>6, <1>8, <2>1, <2>2
<1>9. CASE op.store = "secrets"
  <2> DEFINE after == Edited(vault, s, op.key)
  <2> HIDE DEF after
  <2>1. /\ DeclaredProfiles(vault) \subseteq DeclaredProfiles(after)
        /\ \A j \in Keys \ {op.key} : Loaded(after)[j] = Loaded(vault)[j]
        /\ \A r \in Scope : Loaded(after)[op.key][r] = IF r = s THEN op.value
                                                       ELSE Loaded(vault)[op.key][r]
    BY <1>1, <1>4, <1>5 DEF after
  <2>2. vault' = after
    BY <1>7, <1>9 DEF after
  <2> QED BY <1>1, <1>2, <1>7, <1>9, <2>1, <2>2
<1> QED BY <1>1, <1>8, <1>9

LEMMA WriteEditInv ==
  ASSUME EditInv, NEW s \in op.todo, Write(s), TypeOK'
  PROVE  EditInv'
<1>1. /\ op'.stage = "writing" /\ op'.kind = op.kind /\ op'.store = op.store /\ op'.key = op.key
      /\ op'.value = op.value /\ op'.scopes = op.scopes /\ op'.todo = op.todo \ {s}
      /\ op.stage = "writing"
      /\ UNCHANGED <<environ, snapshot, edits, outside, fresh>>
  BY DEF Write, EditInv, TypeOK, Commands
<1>2. CommandInHand'
  BY <1>1 DEF EditInv, CommandInHand
<1>3. DoneIsStored'
  <2>1. op.kind = "reset" => op.value = None /\ op.store = "config"
    BY <1>1, SessionAssumption DEF EditInv, CommandInHand
  <2>2. op.scopes \subseteq Scope
    BY ScopesOfTables DEF EditInv, TypeOK, Commands
  <2>3. CASE op.store = "config"
    BY <1>1, <2>1, <2>2, <2>3, WriteEffect DEF EditInv, DoneIsStored, Applicable
  <2>4. CASE op.store = "secrets"
    BY <1>1, <2>1, <2>2, <2>4, WriteEffect DEF EditInv, DoneIsStored, Applicable
  <2> QED BY <2>3, <2>4, WriteEffect
<1>4. OverridesFollow' /\ ReadyIsCurrent' /\ SnapshotIsSelected'
  BY <1>1 DEF EditInv, OverridesFollow, ReadyIsCurrent, SnapshotIsSelected
<1>5. ActiveIsKnown'
  <2>1. DeclaredProfiles(file) \subseteq DeclaredProfiles(file')
        /\ DeclaredProfiles(vault) \subseteq DeclaredProfiles(vault')
    BY WriteEffect
  <2> QED BY <1>1, <2>1 DEF EditInv, ActiveIsKnown, Lasting
<1>6. SetIsJudged'
  <2> SUFFICES ASSUME fresh, op.kind = "set" PROVE SetIsJudged'
    BY <1>1 DEF SetIsJudged
  <2>1. overrides' = overrides
    BY DEF Write
  <2>2. op.key \in Keys /\ op.value \in Values /\ op.store \in {"config", "secrets"}
    BY <1>1, WriteEffect, SessionAssumption DEF EditInv, CommandInHand
  <2>3. file' \in Store /\ vault' \in Store
    BY DEF TypeOK
  <2>4. SetIsJudged /\ Layers' = Stack(file', vault', environ, overrides)
    BY <1>1, <2>1, StackIsLayers DEF EditInv
  <2>5. Uncovers(op.key)' <=> Uncovers(op.key)
    BY <1>1 DEF Uncovers
  <2>6. /\ \A j \in Keys \ {op.key} : Winner(Layers', j) = Winner(Layers, j)
        /\ ~ Uncovers(op.key) =>
             /\ \/ Winner(Layers', op.key) = Winner(Layers, op.key)
                \/ Winner(Layers', op.key) # None /\ Winner(Layers', op.key).value = op.value
             /\ op.store = "secrets" => ~ Shielded(Layers', op.key)
             /\ Choice(Layers', 5, op.key) = Choice(Layers, 5, op.key)
    <3> DEFINE f == file'
               w == vault'
               k == op.key
               v == op.value
               l == Stack(f, w, environ, overrides)
    <3>1. f \in Store /\ w \in Store /\ k \in Keys /\ v \in Values
      BY <2>2, <2>3
    <3>2. /\ op.store = "config" =>
              /\ w = vault
              /\ \A j \in Keys \ {k} : Loaded(f)[j] = Loaded(file)[j]
              /\ \A r \in Scope : Loaded(f)[k][r] = IF r = s THEN v ELSE Loaded(file)[k][r]
          /\ op.store = "secrets" =>
              /\ f = file
              /\ \A j \in Keys \ {k} : Loaded(w)[j] = Loaded(vault)[j]
              /\ \A r \in Scope : Loaded(w)[k][r] = IF r = s THEN v ELSE Loaded(vault)[k][r]
      BY WriteEffect
    <3>3. Layers' = l
      BY <2>4
    <3>4. op.store = "secrets" /\ ~ Uncovers(k) => ~ Shielded(Layers, k)
      BY <1>1, <2>4 DEF SetIsJudged
    <3> HIDE DEF f, w, k, v
    <3>5. \A j \in Keys \ {k} : Winner(l, j) = Winner(Layers, j)
      <4> TAKE j \in Keys \ {k}
      <4>1. Loaded(f)[j] = Loaded(file)[j] /\ Loaded(w)[j] = Loaded(vault)[j]
        BY <2>2, <3>2
      <4>2. Winner(l, j) = Winner(Stack(file, vault, environ, overrides), j)
        BY <4>1, SameEntriesSameWinner
      <4> QED BY <4>2, StackIsLayers
    <3>6. ASSUME ~ Uncovers(k)
          PROVE  /\ \/ Winner(l, k) = Winner(Layers, k)
                    \/ Winner(l, k) # None /\ Winner(l, k).value = v
                 /\ op.store = "secrets" => ~ Shielded(l, k)
                 /\ Choice(l, 5, k) = Choice(Layers, 5, k)
      <4>1. CASE op.store = "config"
        <5> DEFINE at == 2
        <5>1. at \in {2, 3}
          OBVIOUS
        <5>2. /\ \A j \in Keys \ {k} : Loaded(f)[j] = Loaded(file)[j] /\ Loaded(w)[j] = Loaded(vault)[j]
              /\ \A r \in Scope : Loaded(f)[k][r] = Loaded(file)[k][r] \/ Loaded(f)[k][r] = v
              /\ w = vault
          BY <3>2, <4>1
        <5> QED BY <3>1, <4>1, <5>1, <5>2, StoredIsJudged
      <4>2. CASE op.store = "secrets"
        <5> DEFINE at == 3
        <5>1. at \in {2, 3}
          OBVIOUS
        <5>2. /\ \A j \in Keys \ {k} : Loaded(f)[j] = Loaded(file)[j] /\ Loaded(w)[j] = Loaded(vault)[j]
              /\ \A r \in Scope : Loaded(w)[k][r] = Loaded(vault)[k][r] \/ Loaded(w)[k][r] = v
              /\ f = file
          BY <3>2, <4>2
        <5>3. ~ Shielded(Layers, k)
          BY <3>4, <3>6, <4>2
        <5> QED BY <3>1, <4>2, <5>1, <5>2, <5>3, StoredIsJudged
      <4> QED BY <2>2, <4>1, <4>2
    <3> HIDE DEF l
    <3> QED BY <3>3, <3>5, <3>6 DEF k, v
  <2> QED BY <1>1, <2>2, <2>4, <2>5, <2>6 DEF SetIsJudged
<1>7. OverrideStands'
  <2> SUFFICES ASSUME fresh, op.kind = "set", snapshot.raw[op.key] # None,
                      snapshot.raw[op.key].source = "session"
               PROVE  Choice(Layers', 5, op.key) # None /\ Winner(Layers', op.key) = snapshot.raw[op.key]
    BY <1>1 DEF OverrideStands
  <2>1. overrides' = overrides
    BY DEF Write
  <2>2. Layers'.session = Layers.session
    BY <2>1 DEF Layers
  <2>3. Choice(Layers, 5, op.key) # None /\ Winner(Layers, op.key) = snapshot.raw[op.key]
    BY <1>1 DEF EditInv, OverrideStands
  <2> DEFINE l == Layers
             m == Layers'
             k == op.key
  <2>4. m.session = l.session /\ Choice(l, 5, k) # None
    BY <2>2, <2>3
  <2> HIDE DEF l, m, k
  <2>5. Choice(m, 5, k) # None /\ Winner(m, k) = Winner(l, k)
    BY <2>4, SessionStands
  <2> QED BY <2>3, <2>5 DEF l, m, k
<1> QED BY <1>2, <1>3, <1>4, <1>5, <1>6, <1>7 DEF EditInv

LEMMA FinishEditInv ==
  ASSUME EditInv, Finish, TypeOK'
  PROVE  EditInv'
<1>1. /\ op'.stage = "reload" /\ op'.kind = op.kind /\ op'.store = op.store /\ op'.key = op.key
      /\ op'.value = op.value /\ op'.scopes = op.scopes /\ op'.todo = {}
      /\ op.stage = "writing" /\ op.todo = {} /\ op.key \in Keys
      /\ overrides' = WithoutOverride(op.key) /\ overrides \in Layer
      /\ UNCHANGED <<file, vault, environ, snapshot, edits, outside, fresh>>
  BY DEF Finish, EditInv, TypeOK, Commands
<1>2. CommandInHand'
  BY <1>1 DEF EditInv, CommandInHand
<1>3. DoneIsStored'
  BY <1>1 DEF EditInv, DoneIsStored
<1>4. /\ \A j \in Keys \ {op.key} : overrides'[j] = overrides[j]
      /\ \A s \in Scope : overrides'[op.key][s] = IF Applies(s) THEN None ELSE overrides[op.key][s]
  BY <1>1 DEF WithoutOverride, Layer
<1>5. OverridesFollow'
  BY <1>1, <1>4 DEF OverridesFollow, Applicable, EditInv, CommandInHand
<1>6. ActiveIsKnown' /\ SnapshotIsSelected' /\ ReadyIsCurrent'
  BY <1>1 DEF EditInv, ActiveIsKnown, Lasting, SnapshotIsSelected, ReadyIsCurrent
<1>7. SetIsJudged'
  <2> SUFFICES ASSUME fresh, op.kind = "set" PROVE SetIsJudged'
    BY <1>1 DEF SetIsJudged
  <2>1. SetIsJudged
    BY DEF EditInv
  <2>2. Uncovers(op.key)' <=> Uncovers(op.key)
    BY <1>1 DEF Uncovers
  <2>3. \A j \in Keys \ {op.key} : Winner(Layers', j) = Winner(Layers, j)
    <3> DEFINE o == overrides'
               k == op.key
    <3>1. \A j \in Keys \ {k} : o[j] = overrides[j]
      BY <1>4
    <3>2. Layers' = Stack(file, vault, environ, o)
      BY <1>1, StackIsLayers
    <3> HIDE DEF o, k
    <3>3. \A j \in Keys \ {k} :
            Winner(Stack(file, vault, environ, o), j) = Winner(Stack(file, vault, environ, overrides), j)
      BY <3>1, SameEntriesSameWinner
    <3> QED BY <3>2, <3>3, StackIsLayers DEF k
  <2>4. ~ Uncovers(op.key) => Layers' = Layers
    <3> SUFFICES ASSUME ~ Uncovers(op.key) PROVE Layers' = Layers
      OBVIOUS
    <3>1. op.store # "session"
      BY <1>1 DEF EditInv, CommandInHand
    <3>2. Choice(Layers, 5, op.key) = None
      BY <1>1, <2>1, <3>1 DEF SetIsJudged
    <3>3. Choice(Layers, 5, op.key) = Chosen(overrides[op.key])
      BY FiveSources DEF Choice, EntriesOf, Layers
    <3>4. \A s \in Scope : Applies(s) => overrides[op.key][s] = None
      BY <3>2, <3>3, ChosenIsOffered
    <3>5. \A k \in Keys : \A s \in Scope : overrides'[k][s] = overrides[k][s]
      BY <1>4, <3>4
    <3>6. overrides' \in Layer
      BY DEF TypeOK
    <3>7. overrides' = overrides
      BY <1>1, <3>5, <3>6 DEF Layer
    <3> QED BY <1>1, <3>7 DEF Layers
  <2> QED BY <1>1, <2>1, <2>2, <2>3, <2>4 DEF SetIsJudged
<1>8. OverrideStands'
  BY <1>1 DEF OverrideStands
<1> QED BY <1>2, <1>3, <1>5, <1>6, <1>7, <1>8 DEF EditInv

LEMMA ReloadEditInv ==
  ASSUME EditInv, Reload, TypeOK'
  PROVE  EditInv'
<1>1. /\ op'.stage \in {"ready", "over"}
      /\ op'.stage = "ready" => Usable(snapshot')
      /\ op'.todo = {} /\ snapshot' = Current
      /\ UNCHANGED <<file, vault, environ, overrides, edits, outside>>
  BY DEF Reload, Idle
<1>2. Current' = Current
  BY <1>1 DEF Current, Layers
<1>3. CommandInHand' /\ DoneIsStored' /\ OverridesFollow' /\ SetIsJudged' /\ OverrideStands'
  BY <1>1 DEF CommandInHand, DoneIsStored, OverridesFollow, SetIsJudged, OverrideStands
<1>4. ActiveIsKnown'
  BY <1>1 DEF EditInv, ActiveIsKnown, Lasting
<1>5. SnapshotIsSelected'
  BY <1>1, SelectionIsTyped DEF EditInv, SnapshotIsSelected
<1>6. ReadyIsCurrent'
  BY <1>1, <1>2 DEF ReadyIsCurrent, Usable
<1> QED BY <1>3, <1>4, <1>5, <1>6 DEF EditInv

LEMMA StartEditInv ==
  ASSUME EditInv, Start, TypeOK'
  PROVE  EditInv'
<1>1. /\ op'.stage = "reload" /\ op'.kind = None /\ op'.todo = {}
      /\ UNCHANGED <<file, vault, environ, snapshot, edits, outside, fresh>>
  BY DEF Start, Idle
<1>2. None \notin {"set", "unset", "reset"}
  BY SessionAssumption
<1>3. CommandInHand' /\ DoneIsStored' /\ OverridesFollow' /\ SetIsJudged'
      /\ OverrideStands' /\ ReadyIsCurrent'
  BY <1>1, <1>2 DEF CommandInHand, DoneIsStored, OverridesFollow, SetIsJudged, OverrideStands,
                   ReadyIsCurrent
<1>4. ActiveIsKnown' /\ SnapshotIsSelected'
  BY <1>1 DEF EditInv, ActiveIsKnown, Lasting, SnapshotIsSelected
<1> QED BY <1>3, <1>4 DEF EditInv

LEMMA FailEditInv ==
  ASSUME EditInv, FailToWrite, TypeOK'
  PROVE  EditInv'
<1>1. /\ op'.stage = "ready" /\ op'.todo = {} /\ ~ fresh'
      /\ UNCHANGED <<file, vault, environ, overrides, snapshot, edits, outside>>
  BY DEF FailToWrite, Idle
<1>2. CommandInHand' /\ DoneIsStored' /\ OverridesFollow' /\ SetIsJudged'
      /\ OverrideStands' /\ ReadyIsCurrent'
  BY <1>1 DEF CommandInHand, DoneIsStored, OverridesFollow, SetIsJudged, OverrideStands,
                   ReadyIsCurrent
<1>3. ActiveIsKnown' /\ SnapshotIsSelected'
  BY <1>1 DEF EditInv, ActiveIsKnown, Lasting, SnapshotIsSelected
<1> QED BY <1>2, <1>3 DEF EditInv

LEMMA RepairEditInv ==
  ASSUME EditInv, NEW k \in Keys, NEW s \in DOMAIN Exact, Repair(k, s), TypeOK'
  PROVE  EditInv'
<1>1. op.stage = "over" /\ UNCHANGED <<environ, overrides, snapshot, op, outside, fresh>>
  BY DEF Repair
<1>2. CommandInHand' /\ DoneIsStored' /\ OverridesFollow' /\ SetIsJudged'
      /\ OverrideStands' /\ ReadyIsCurrent'
  BY <1>1 DEF EditInv, CommandInHand, DoneIsStored, OverridesFollow, SetIsJudged, OverrideStands,
                   ReadyIsCurrent
<1>3. /\ DeclaredProfiles(file) \subseteq DeclaredProfiles(file')
      /\ DeclaredProfiles(vault) \subseteq DeclaredProfiles(vault')
  <2>1. \A store \in Store : DeclaredProfiles(store) \subseteq DeclaredProfiles(UnsetScoped(store, k, s))
    BY UnsetIsExact
  <2>2. file \in Store /\ vault \in Store
    BY DEF EditInv, TypeOK
  <2>3. /\ file' = file \/ file' = UnsetScoped(file, k, s)
        /\ vault' = vault \/ vault' = UnsetScoped(vault, k, s)
    BY DEF Repair
  <2> QED BY <2>1, <2>2, <2>3
<1>4. ActiveIsKnown' /\ SnapshotIsSelected'
  BY <1>1, <1>3 DEF EditInv, ActiveIsKnown, Lasting, SnapshotIsSelected
<1> QED BY <1>2, <1>4 DEF EditInv

LEMMA OutsideEditInv ==
  ASSUME EditInv, NEW t \in Tables, NEW n, NEW v, EditOutside(t, n, v), TypeOK'
  PROVE  EditInv'
<1>1. ~ fresh' /\ UNCHANGED <<vault, environ, snapshot, overrides, op, edits>>
  BY DEF EditOutside
<1>2. CommandInHand' /\ DoneIsStored' /\ OverridesFollow' /\ SetIsJudged'
      /\ OverrideStands' /\ ReadyIsCurrent'
  BY <1>1 DEF EditInv, CommandInHand, DoneIsStored, OverridesFollow, SetIsJudged, OverrideStands,
                   ReadyIsCurrent
<1>3. DeclaredProfiles(file) \subseteq DeclaredProfiles(file')
  <2>1. file.tables \subseteq file'.tables
    BY DEF EditOutside
  <2> QED BY <2>1 DEF DeclaredProfiles
<1>4. ActiveIsKnown' /\ SnapshotIsSelected'
  BY <1>1, <1>3 DEF EditInv, ActiveIsKnown, Lasting, SnapshotIsSelected
<1> QED BY <1>2, <1>4 DEF EditInv

\* Every step keeps the invariant.
LEMMA NextEditInv == EditInv /\ [Next]_vars => EditInv'
<1> SUFFICES ASSUME EditInv, [Next]_vars PROVE EditInv'
  OBVIOUS
<1>1. TypeOK'
  BY NextTypeOK DEF EditInv
<1>2. ASSUME NEW change \in OutsideEdits, EditOutside(change[1], change[2], change[3])
      PROVE  EditInv'
  <2>1. change[1] \in Tables
    BY SessionAssumption
  <2> QED BY <1>1, <1>2, <2>1, OutsideEditInv
<1>3. CASE UNCHANGED vars
  BY <1>1, <1>3 DEF EditInv, vars, CommandInHand, DoneIsStored, OverridesFollow, ActiveIsKnown,
                    Lasting, SnapshotIsSelected, ReadyIsCurrent, SetIsJudged, OverrideStands, Uncovers,
                    Current, Layers
<1> QED BY <1>1, <1>2, <1>3, SetEditInv, UnsetEditInv, ResetEditInv, WriteEditInv, FailEditInv,
           FinishEditInv, ReloadEditInv, StartEditInv, RepairEditInv DEF Next

\* What EditInv says of a command under way holds however the commands of the
\* session, outside edits and failures follow one another.
THEOREM EditInvariance == Spec => []EditInv
BY InitEditInv, NextEditInv, PTL DEF Spec

\* Whatever a REPL has resolved, and however far placeholders lead, the
\* expansion fails just where one leads back to itself or to no value, and marks
\* as secrets just the values that include one (Interpolator::resolve_value).
THEOREM ExpansionsAreSound == Spec => []ExpansionSound
<1>1. ASSUME EditInv PROVE ExpansionSound
  <2> DEFINE raw == snapshot.raw
  <2>1. Placed(raw)
    BY <1>1 DEF EditInv, SnapshotIsSelected, Placed, Selected
  <2> SUFFICES ASSUME NEW k \in Keys, raw[k] # None
               PROVE  /\ Expansion(raw)[k].ok <=>
                           \A j \in Included(raw, k) :
                             raw[j] # None /\ \A ref \in Refs[raw[j].value] : j \notin Included(raw, ref)
                      /\ Expansion(raw)[k].ok =>
                           (Expansion(raw)[k].secret <=> \E j \in Included(raw, k) : raw[j].secret)
    BY DEF ExpansionSound
  <2> DEFINE p == <<k, {}>>
  <2>2. p \in Visits /\ p[1] = k /\ p[2] = {} /\ Expansion(raw)[k] = Resolution(raw)[p]
    BY DEF Visits, Expansion
  <2> HIDE DEF p, raw
  <2>3. Expansion(raw)[k].ok <=> Sound(raw, k)
    BY <2>1, <2>2, SuccessIsSoundness
  <2>4. Expansion(raw)[k].ok =>
          (Expansion(raw)[k].secret <=> \E j \in Included(raw, k) : raw[j].secret)
    BY <2>1, <2>2, SecretIsInherited
  <2> QED BY <2>3, <2>4 DEF Sound
<1> QED BY <1>1, EditInvariance, PTL

\* Only a resolution ends a command that waits for one.
LEMMA LoadsIsReload ==
  ASSUME EditInv, [Next]_vars, NEW kind \in {"set", "reset"}, Loads(kind)
  PROVE  Reload
<1>1. op.stage = "reload" /\ op'.stage # "reload"
  BY DEF Loads
<1>2. \A k, v, kd, store, scopes : ~ Entered(k, v, kd, store, scopes)
  BY <1>1 DEF Entered, Ready
<1>3. \A k, v, store, scopes : ~ Set(k, v) /\ ~ Unset(k, store, scopes) /\ ~ Reset(k)
  BY <1>2 DEF Set, Unset, Reset
<1>4. ~ FailToWrite /\ ~ Finish /\ ~ Start /\ \A s : ~ Write(s)
  BY <1>1 DEF FailToWrite, Finish, Start, Write
<1>5. \A k, r : ~ Repair(k, r)
  BY <1>1 DEF Repair
<1>6. \A t, n, v : ~ EditOutside(t, n, v)
  BY <1>1 DEF EditOutside
<1> QED BY <1>1, <1>3, <1>4, <1>5, <1>6 DEF Next, vars

\* A set that nothing outranks is selected once it is over.
LEMMA SetTakesEffect ==
  ASSUME EditInv, op.stage = "reload", op.kind = "set", fresh,
         NEW s \in Applicable(op.scopes), ~ Outranked(Layers, op.key, op.store, s)
  PROVE  Winner(Layers, op.key).value = op.value
<1> DEFINE k == op.key
           v == op.value
<1>1. /\ k \in Keys /\ v \in Values /\ op.store \in {"session", "config", "secrets"}
      /\ op.todo = {}
  BY SessionAssumption DEF EditInv, CommandInHand
<1>2. s \in op.scopes /\ s \in Scope /\ Applies(s)
  BY ScopesOfTables DEF Applicable, EditInv, TypeOK, Commands
<1>3. /\ EntriesOf(Layers, Sources[2], k) = Loaded(file)[k]
      /\ EntriesOf(Layers, Sources[3], k) = SecretEntries(Layers, k)
      /\ EntriesOf(Layers, Sources[4], k) = environ.env[k]
      /\ EntriesOf(Layers, Sources[5], k) = overrides[k]
      /\ Layers.env = environ.env /\ Layers.hidden = environ.hidden /\ Layers.vault = Loaded(vault)
  BY FiveSources DEF Layers, EntriesOf
<1>4. /\ op.store # "session" => Choice(Layers, 4, k) = None
      /\ op.store = "config" => Choice(Layers, 3, k) = None
      /\ op.store = "secrets" => environ.hidden[k][s] = None
  BY <1>3, FiveSources DEF Outranked, Choice, EntriesOf
<1>5. op.store # "session" => Choice(Layers, 5, k) = None
  <2> SUFFICES ASSUME op.store # "session" PROVE Choice(Layers, 5, k) = None
    OBVIOUS
  <2>1. \A r \in Scope : Applies(r) => overrides[k][r] = None
    BY SessionAssumption DEF EditInv, OverridesFollow, Applicable
  <2>2. Chosen(overrides[k]) = None
    BY <2>1, ChosenIsOffered
  <2> QED BY <1>3, <2>2 DEF Choice
<1>6. \A r \in Scope : Applies(r) /\ MoreSpecific(r, s) =>
        EntriesOf(Layers, IF op.store = "config" THEN "file" ELSE op.store, k)[r] = None
  BY DEF Outranked, Applicable
<1>7. CASE op.store = "config"
  <2>1. Loaded(file)[k][s] = v
    BY <1>1, <1>2, <1>7 DEF EditInv, DoneIsStored
  <2>2. \A j \in 1..5 : j > 2 => Choice(Layers, j, k) = None
    BY <1>4, <1>5, <1>7
  <2>3. \A r \in Scope : Applies(r) /\ MoreSpecific(r, s) => EntriesOf(Layers, Sources[2], k)[r] = None
    BY <1>6, <1>7, FiveSources
  <2> QED BY <1>1, <1>2, <1>3, <2>1, <2>2, <2>3, StoredIsSelected
<1>8. CASE op.store = "secrets"
  <2>1. Loaded(vault)[k][s] = v
    BY <1>1, <1>2, <1>8 DEF EditInv, DoneIsStored
  <2>2. SecretEntries(Layers, k)[s] = v
    BY <1>2, <1>3, <1>4, <1>8, <2>1 DEF SecretEntries
  <2>3. \A j \in 1..5 : j > 3 => Choice(Layers, j, k) = None
    BY <1>4, <1>5, <1>8
  <2>4. \A r \in Scope : Applies(r) /\ MoreSpecific(r, s) => EntriesOf(Layers, Sources[3], k)[r] = None
    BY <1>6, <1>8, FiveSources
  <2> QED BY <1>1, <1>2, <1>3, <2>2, <2>3, <2>4, StoredIsSelected
<1>9. CASE op.store = "session"
  <2>1. overrides[k][s] = v
    BY <1>2, <1>9 DEF EditInv, OverridesFollow
  <2>2. \A r \in Scope : Applies(r) /\ MoreSpecific(r, s) => EntriesOf(Layers, Sources[5], k)[r] = None
    BY <1>6, <1>9, FiveSources
  <2>3. \A j \in 1..5 : ~ (j > 5)
    OBVIOUS
  <2> QED BY <1>1, <1>2, <1>3, <2>1, <2>2, <2>3, StoredIsSelected
<1> QED BY <1>1, <1>7, <1>8, <1>9

\* Only a failure stops a command that writes.
LEMMA StopIsFailure ==
  ASSUME EditInv, [Next]_vars, StopsHalfWay
  PROVE  FailToWrite
<1>1. op.stage = "writing" /\ op'.stage = "ready"
  BY DEF StopsHalfWay
<1>2. \A k, v, kd, store, scopes : ~ Entered(k, v, kd, store, scopes)
  BY <1>1 DEF Entered, Ready
<1>3. \A k, v, store, scopes : ~ Set(k, v) /\ ~ Unset(k, store, scopes) /\ ~ Reset(k)
  BY <1>2 DEF Set, Unset, Reset
<1>4. \A s : ~ Write(s)
  BY <1>1 DEF Write, EditInv, TypeOK, Commands
<1>5. ~ Finish /\ ~ Reload /\ ~ Start /\ \A k, r : ~ Repair(k, r)
  <2>1. ~ Finish
    BY <1>1 DEF Finish, EditInv, TypeOK, Commands
  <2> QED BY <1>1, <2>1 DEF Reload, Start, Repair
<1>6. \A t, n, v : ~ EditOutside(t, n, v)
  BY <1>1 DEF EditOutside
<1>7. ~ UNCHANGED vars
  BY <1>1 DEF vars
<1> QED BY <1>3, <1>4, <1>5, <1>6, <1>7 DEF Next

\* A set that stops half-way has stored its value where it was, and left the
\* REPL what it had or the value.
LEMMA StopLeavesOldOrNew ==
  ASSUME EditInv, [Next]_vars, StopsHalfWay
  PROVE  /\ LeavesOldOrNew
         /\ \A s \in op.scopes \ op.todo :
              Loaded(IF op.store = "config" THEN file' ELSE vault')[op.key][s] = op.value
<1>1. /\ op.stage = "writing" /\ op.kind = "set" /\ fresh
      /\ UNCHANGED <<file, vault, environ, overrides>>
  BY StopIsFailure DEF FailToWrite, StopsHalfWay
<1>2. op.key \in Keys /\ op.store \in {"config", "secrets"}
  BY <1>1, SessionAssumption DEF EditInv, CommandInHand
<1>3. Layers' = Layers
  BY <1>1 DEF Layers
<1>4. \A s \in op.scopes \ op.todo :
        Loaded(IF op.store = "config" THEN file' ELSE vault')[op.key][s] = op.value
  BY <1>1, <1>2 DEF EditInv, DoneIsStored
<1>5. \A k \in Keys \ {op.key} : Winner(Layers, k) = snapshot.raw[k]
  BY <1>1 DEF EditInv, SetIsJudged
<1>6. snapshot.raw[op.key] # None /\ snapshot.raw[op.key].source = "session" =>
        Winner(Layers, op.key) = snapshot.raw[op.key]
  BY <1>1 DEF EditInv, OverrideStands
<1>7. ~ Uncovers(op.key) =>
        \/ Winner(Layers, op.key) = snapshot.raw[op.key]
        \/ Winner(Layers, op.key) # None /\ Winner(Layers, op.key).value = op.value
  BY <1>1 DEF EditInv, SetIsJudged
<1>8. Uncovers(op.key) => snapshot.raw[op.key] # None /\ snapshot.raw[op.key].source \in {"session", "secrets"}
  BY DEF Uncovers
<1>9. LeavesOldOrNew
  BY <1>3, <1>5, <1>6, <1>7, <1>8 DEF LeavesOldOrNew
<1> QED BY <1>4, <1>9

\* A step that ends a command shows its effect.
LEMMA StepTakesEffect ==
  ASSUME EditInv, [Next]_vars
  PROVE  /\ Loads("set") =>
              \A s \in Applicable(op.scopes) :
                \/ Outranked(Layers, op.key, op.store, s)
                \/ snapshot'.raw[op.key].value = op.value
         /\ Loads("reset") =>
              \A s \in Applicable(Scope) :
                Loaded(file)[op.key][s] = None /\ overrides[op.key][s] = None
         /\ StopsHalfWay =>
              /\ LeavesOldOrNew
              /\ \A s \in op.scopes \ op.todo :
                   Loaded(IF op.store = "config" THEN file' ELSE vault')[op.key][s] = op.value
<1>1. ASSUME Loads("set"), NEW s \in Applicable(op.scopes), ~ Outranked(Layers, op.key, op.store, s)
      PROVE  snapshot'.raw[op.key].value = op.value
  <2>1. op.stage = "reload" /\ op.kind = "set" /\ fresh
    BY <1>1 DEF Loads
  <2>2. Winner(Layers, op.key).value = op.value
    BY <1>1, <2>1, SetTakesEffect
  <2>3. snapshot' = Current
    BY <1>1, LoadsIsReload DEF Reload
  <2>4. op.key \in Keys
    BY <2>1, SessionAssumption DEF EditInv, CommandInHand
  <2> QED BY <2>2, <2>3, <2>4, SelectionIsTyped DEF EditInv
<1>2. ASSUME Loads("reset"), NEW s \in Applicable(Scope)
      PROVE  Loaded(file)[op.key][s] = None /\ overrides[op.key][s] = None
  <2>1. op.stage = "reload" /\ op.kind = "reset" /\ fresh
    BY <1>2 DEF Loads
  <2>2. op.todo = {} /\ op.store = "config" /\ op.kind # None
    BY <2>1, SessionAssumption DEF EditInv, CommandInHand
  <2> QED BY <2>1, <2>2 DEF EditInv, DoneIsStored, OverridesFollow
<1> QED BY <1>1, <1>2, StopLeavesOldOrNew

\* Whatever tables, names, layers and overrides there are, a value that nothing
\* outranks is what the REPL resolves once its command is over, and a reset
\* leaves no entry that applies; one that stops half-way leaves the REPL what it
\* had or the value (apply_scoped_edit, clear_theme_values).
THEOREM EditsTakeEffect == Spec => CommandsTakeEffect
<1>1. EditInv /\ [Next]_vars =>
        [/\ Loads("set") =>
              \A s \in Applicable(op.scopes) :
                \/ Outranked(Layers, op.key, op.store, s)
                \/ snapshot'.raw[op.key].value = op.value
         /\ Loads("reset") =>
              \A s \in Applicable(Scope) :
                Loaded(file)[op.key][s] = None /\ overrides[op.key][s] = None
         /\ StopsHalfWay =>
              /\ LeavesOldOrNew
              /\ \A s \in op.scopes \ op.todo :
                   Loaded(IF op.store = "config" THEN file' ELSE vault')[op.key][s] = op.value]_vars
  BY StepTakesEffect
<1> QED BY <1>1, EditInvariance, PTL DEF Spec, CommandsTakeEffect

\* Two selections of the same values both expand, or neither.
LEMMA SameValuesExpand ==
  ASSUME NEW raw, NEW other, Placed(raw), Placed(other), Expands(raw),
         \A k \in Keys : /\ raw[k] = None <=> other[k] = None
                         /\ raw[k] # None => raw[k].value = other[k].value
  PROVE  Expands(other)
<1> SUFFICES ASSUME NEW k \in Keys, other[k] # None PROVE Expansion(other)[k].ok
  BY DEF Expands
<1> DEFINE p == <<k, {}>>
<1>1. /\ p \in Visits
      /\ Expansion(other)[k] = Resolution(other)[p] /\ Expansion(raw)[k] = Resolution(raw)[p]
  BY DEF Visits, Expansion
<1>2. Expansion(raw)[k].ok
  BY DEF Expands
<1> HIDE DEF p
<1>3. Resolution(raw)[p].ok <=> Resolution(other)[p].ok
  BY <1>1, SuccessIsOfValues
<1> QED BY <1>1, <1>2, <1>3

\* A step that ends a set that was accepted leaves what can be loaded.
LEMMA StepKeepsUsable ==
  ASSUME EditInv, [Next]_vars
  PROVE  Loads("set") /\ ~ Uncovers(op.key) => op'.stage = "ready"
<1> SUFFICES ASSUME Loads("set"), ~ Uncovers(op.key) PROVE op'.stage = "ready"
  OBVIOUS
<1>1. op.stage = "reload" /\ op.kind = "set" /\ fresh
  BY DEF Loads
<1>2. snapshot' = Current /\ op' = Idle(IF Usable(snapshot') THEN "ready" ELSE "over")
  BY LoadsIsReload DEF Reload
<1>3. op.key \in Keys /\ op.value \in Values
  BY <1>1, SessionAssumption DEF EditInv, CommandInHand
<1>4. Active \in Current.known
  <2>1. Active \in Lasting /\ Active \in Profiles
    BY ProcessAssumption DEF EditInv, ActiveIsKnown
  <2>2. ASSUME NEW layer \in {ProductDefaults, environ.hidden, environ.env}, NEW k \in Keys,
               NEW s \in Scope, s.profile = Active, layer[k][s] # None
        PROVE  \E source \in DOMAIN Layers : Layers[source][k][s] # None
    <3>1. /\ "defaults" \in DOMAIN Layers /\ Layers["defaults"] = ProductDefaults
          /\ "hidden" \in DOMAIN Layers /\ Layers["hidden"] = environ.hidden
          /\ "env" \in DOMAIN Layers /\ Layers["env"] = environ.env
      BY DEF Layers
    <3> QED BY <2>2, <3>1
  <2> QED BY <2>1, <2>2 DEF Lasting, Current, KnownProfiles
<1>5. /\ Expands(snapshot.raw) /\ Acceptable(snapshot.raw, op.key, op.value)
      /\ \A k \in Keys \ {op.key} : Winner(Layers, k) = snapshot.raw[k]
      /\ \/ Winner(Layers, op.key) = snapshot.raw[op.key]
         \/ Winner(Layers, op.key) # None /\ Winner(Layers, op.key).value = op.value
  BY <1>1 DEF EditInv, SetIsJudged
<1>6. \A k \in Keys : Current.raw[k] = Winner(Layers, k) /\ Current.raw[k] \in Selected \cup {None}
  BY SelectionIsTyped DEF EditInv
<1>7. Placed(Current.raw) /\ Placed(snapshot.raw)
  BY <1>6 DEF Placed, Selected, EditInv, SnapshotIsSelected
<1>8. Expands(Current.raw)
  <2> DEFINE k == op.key
             judged == [source |-> "session", scope |-> Global, value |-> op.value, secret |-> FALSE]
             proposed == [snapshot.raw EXCEPT ![k] = judged]
  <2>1. CASE Winner(Layers, k) = snapshot.raw[k]
    <3>1. \A j \in Keys : Current.raw[j] = snapshot.raw[j]
      BY <1>5, <1>6, <2>1
    <3> QED BY <1>5, <1>7, <3>1, SameValuesExpand
  <2>2. CASE Winner(Layers, k) # None /\ Winner(Layers, k).value = op.value
    <3>1. judged # None /\ judged.value = op.value
      <4>1. judged \in Selected
        BY <1>3, FiveSources DEF Selected, Global, Scope
      <4> QED BY <4>1, SelectedAssumption
    <3>2. Expands(proposed)
      BY <1>5 DEF Acceptable
    <3>3. DOMAIN snapshot.raw = Keys
      BY DEF EditInv, TypeOK
    <3>4. proposed[k] = judged /\ \A j \in Keys \ {k} : proposed[j] = snapshot.raw[j]
      BY <1>3, <3>3
    <3> HIDE DEF proposed, judged
    <3>5. Placed(proposed)
      BY <1>3, <1>7, <3>1, <3>4 DEF Placed
    <3>6. \A j \in Keys : /\ proposed[j] = None <=> Current.raw[j] = None
                          /\ proposed[j] # None => proposed[j].value = Current.raw[j].value
      BY <1>3, <1>5, <1>6, <2>2, <3>1, <3>4
    <3> QED BY <1>7, <3>2, <3>5, <3>6, SameValuesExpand
  <2> QED BY <1>5, <2>1, <2>2
<1>9. Usable(snapshot')
  BY <1>2, <1>4, <1>8 DEF Usable
<1> QED BY <1>2, <1>9 DEF Idle

\* Whatever is configured, a config set that the current snapshot accepted leaves
\* what the REPL can load, unless it uncovers an entry (validate_candidate).
THEOREM AcceptedSetsLoad == Spec => SetKeepsUsable
<1>1. EditInv /\ [Next]_vars => [Loads("set") /\ ~ Uncovers(op.key) => op'.stage = "ready"]_vars
  BY StepKeepsUsable
<1> QED BY <1>1, EditInvariance, PTL DEF Spec, SetKeepsUsable

-----------------------------------------------------------------------------
(* The keyring and its index. *)

\* The credential of the entry that p edits, at each step.
OwnEntry(p) ==
  LET e == EntryOf(p)
  IN  /\ step[p] \in InTransaction =>
           (held[p].previous # NoSecret => e \in held[p].index \/ e \in torn)
      /\ step[p] = "credential" => creds[e] \in {held[p].previous, NoSecret}
      /\ step[p] = "index" => creds[e] \in {call[p].value, NoSecret}
      /\ step[p] = "rollback" /\ ~IsSet(p) => creds[e] = NoSecret
      /\ step[p] = "rollback" => (e \in held[p].index => e \in index \/ e \in torn)

KeyringInv ==
  /\ KeyringTypeOK
  /\ OneEditor
  /\ NoHiddenSecret
  /\ \A p \in Processes : OwnEntry(p)

LEMMA InitKeyringInv == KeyringInit => KeyringInv
BY NobodyAssumption, NoSecretAssumption
   DEF KeyringInit, KeyringInv, KeyringTypeOK, OneEditor, NoHiddenSecret, OwnEntry, Steps, InTransaction, Call,
       View, EntryOf, IsSet, Editing

LEMMA TypeStep == KeyringTypeOK /\ [KeyringNext]_keyringVars => KeyringTypeOK'
<1> SUFFICES ASSUME KeyringTypeOK, [KeyringNext]_keyringVars PROVE KeyringTypeOK'
  OBVIOUS
<1> USE DEF KeyringTypeOK, Steps, Call, View, EntryOf, IsSet, Release
<1>1. ASSUME NEW p \in Processes, Begin(p) PROVE KeyringTypeOK'
  BY <1>1 DEF Begin
<1>2. ASSUME NEW p \in Processes, Acquire(p) PROVE KeyringTypeOK'
  BY <1>2 DEF Acquire
<1>3. ASSUME NEW p \in Processes, ChangeCredential(p) PROVE KeyringTypeOK'
  BY <1>3 DEF ChangeCredential
<1>4. ASSUME NEW p \in Processes, SkipIndex(p) \/ WriteIndex(p) PROVE KeyringTypeOK'
  BY <1>4 DEF SkipIndex, WriteIndex, NewIndex
<1>5. ASSUME NEW p \in Processes, FailToWriteIndex(p) PROVE KeyringTypeOK'
  BY <1>5 DEF FailToWriteIndex, NewIndex
<1>6. ASSUME NEW p \in Processes, RollBack(p) \/ FailToRollBack(p) PROVE KeyringTypeOK'
  BY <1>6 DEF RollBack, FailToRollBack
<1>7. ASSUME NEW p \in Processes, Fail(p) \/ Crash(p) PROVE KeyringTypeOK'
  BY <1>7 DEF Fail, Crash
<1>8. ASSUME NEW e \in Entries, RemoveOutside(e) PROVE KeyringTypeOK'
  BY <1>8 DEF RemoveOutside
<1>9. CASE UNCHANGED keyringVars
  BY <1>9 DEF keyringVars
<1> QED BY <1>1, <1>2, <1>3, <1>4, <1>5, <1>6, <1>7, <1>8, <1>9 DEF KeyringNext

LEMMA EditorStep == KeyringTypeOK /\ OneEditor /\ [KeyringNext]_keyringVars => OneEditor'
<1> SUFFICES ASSUME KeyringTypeOK, OneEditor, [KeyringNext]_keyringVars PROVE OneEditor'
  OBVIOUS
<1> USE NobodyAssumption DEF KeyringTypeOK, OneEditor, Steps, InTransaction, Release
<1>1. ASSUME NEW p \in Processes, Begin(p) PROVE OneEditor'
  BY <1>1 DEF Begin
<1>2. ASSUME NEW p \in Processes, Acquire(p) PROVE OneEditor'
  <2>1. held'[p].index = index
    BY <1>2 DEF Acquire, View
  <2> QED BY <1>2, <2>1 DEF Acquire
<1>3. ASSUME NEW p \in Processes, ChangeCredential(p) PROVE OneEditor'
  BY <1>3 DEF ChangeCredential
<1>4. ASSUME NEW p \in Processes, SkipIndex(p) \/ WriteIndex(p) PROVE OneEditor'
  BY <1>4 DEF SkipIndex, WriteIndex
<1>5. ASSUME NEW p \in Processes, FailToWriteIndex(p) PROVE OneEditor'
  BY <1>5 DEF FailToWriteIndex
<1>6. ASSUME NEW p \in Processes, RollBack(p) \/ FailToRollBack(p) PROVE OneEditor'
  BY <1>6 DEF RollBack, FailToRollBack
<1>7. ASSUME NEW p \in Processes, Fail(p) \/ Crash(p) PROVE OneEditor'
  BY <1>7 DEF Fail, Crash
<1>8. ASSUME NEW e \in Entries, RemoveOutside(e) PROVE OneEditor'
  BY <1>8 DEF RemoveOutside
<1>9. CASE UNCHANGED keyringVars
  BY <1>9 DEF keyringVars
<1> QED BY <1>1, <1>2, <1>3, <1>4, <1>5, <1>6, <1>7, <1>8, <1>9 DEF KeyringNext

LEMMA SecretStep == KeyringInv /\ [KeyringNext]_keyringVars => NoHiddenSecret' /\ \A p \in Processes : OwnEntry(p)'
<1> SUFFICES ASSUME KeyringInv, [KeyringNext]_keyringVars
             PROVE  NoHiddenSecret' /\ \A p \in Processes : OwnEntry(p)'
  OBVIOUS
<1> DEFINE Goal == NoHiddenSecret' /\ \A p \in Processes : OwnEntry(p)'
<1> USE NobodyAssumption, NoSecretAssumption
        DEF KeyringInv, KeyringTypeOK, OneEditor, NoHiddenSecret, OwnEntry, Steps, InTransaction, EntryOf,
            IsSet, Editing, Release, Call, View
<1>1. ASSUME NEW p \in Processes, Begin(p) PROVE Goal
  BY <1>1 DEF Begin
<1>2. ASSUME NEW p \in Processes, Acquire(p) PROVE Goal
  <2>1. /\ held'[p].index = index
        /\ held'[p].previous = creds[EntryOf(p)]
        /\ \A q \in Processes : q # p => held'[q] = held[q] /\ step'[q] = step[q]
    BY <1>2 DEF Acquire
  <2>2. \A q \in Processes : q # p => step'[q] \notin InTransaction
    BY <1>2, <2>1 DEF Acquire
  <2>3. NoHiddenSecret'
    BY <1>2 DEF Acquire
  <2> QED BY <1>2, <2>1, <2>2, <2>3 DEF Acquire
<1>3. ASSUME NEW p \in Processes, ChangeCredential(p) PROVE Goal
  BY <1>3 DEF ChangeCredential
<1>4. ASSUME NEW p \in Processes, SkipIndex(p) PROVE Goal
  BY <1>4 DEF SkipIndex
<1>5. ASSUME NEW p \in Processes, WriteIndex(p) PROVE Goal
  BY <1>5 DEF WriteIndex, NewIndex
<1>6. ASSUME NEW p \in Processes, FailToWriteIndex(p) PROVE Goal
  BY <1>6 DEF FailToWriteIndex, NewIndex
<1>7. ASSUME NEW p \in Processes, RollBack(p) PROVE Goal
  BY <1>7 DEF RollBack
<1>8. ASSUME NEW p \in Processes, FailToRollBack(p) PROVE Goal
  BY <1>8 DEF FailToRollBack
<1>9. ASSUME NEW p \in Processes, Fail(p) PROVE Goal
  BY <1>9 DEF Fail
<1>10. ASSUME NEW p \in Processes, Crash(p) PROVE Goal
  BY <1>10 DEF Crash
<1>11. ASSUME NEW e \in Entries, RemoveOutside(e) PROVE Goal
  BY <1>11 DEF RemoveOutside
<1>12. CASE UNCHANGED keyringVars
  BY <1>12 DEF keyringVars
<1> QED BY <1>1, <1>2, <1>3, <1>4, <1>5, <1>6, <1>7, <1>8, <1>9, <1>10, <1>11, <1>12 DEF KeyringNext

THEOREM KeyringInvariance == KeyringSpec => []KeyringInv
<1>1. KeyringInit => KeyringInv
  BY InitKeyringInv
<1>2. KeyringInv /\ [KeyringNext]_keyringVars => KeyringInv'
  BY TypeStep, EditorStep, SecretStep DEF KeyringInv
<1> QED BY <1>1, <1>2, PTL DEF KeyringSpec

\* The lock of the index file keeps edits apart: set_scoped and unset_scoped
\* write the index they read, with their own change only.
THEOREM OneEditorAtATime == KeyringSpec => []OneEditor
BY KeyringInvariance, PTL DEF KeyringInv

\* A credential that the index does not list is left by a crash or a failed
\* rollback only, however edits and failures interleave.
THEOREM SecretsStayListed == KeyringSpec => []NoHiddenSecret
BY KeyringInvariance, PTL DEF KeyringInv

-----------------------------------------------------------------------------
(* What a single step may do. *)

LEMMA OthersStep ==
  KeyringInv /\ [KeyringNext]_keyringVars =>
    [\A e \in Entries :
       Visible(e)' # Visible(e) => Editing(e) \/ (creds[e] # NoSecret /\ creds'[e] = NoSecret)]_keyringVars
<1> SUFFICES ASSUME KeyringInv, KeyringNext, NEW e \in Entries, Visible(e)' # Visible(e)
             PROVE  Editing(e) \/ (creds[e] # NoSecret /\ creds'[e] = NoSecret)
  BY DEF Visible, Shown, keyringVars
<1> USE NobodyAssumption DEF KeyringInv, KeyringTypeOK, OneEditor, Steps, InTransaction, EntryOf, IsSet, Editing,
        Visible, Shown, Call, View
<1>1. ASSUME NEW p \in Processes, ChangeCredential(p) \/ RollBack(p) PROVE Editing(e)
  BY <1>1 DEF ChangeCredential, RollBack
<1>2. ASSUME NEW p \in Processes, WriteIndex(p) \/ FailToWriteIndex(p) PROVE Editing(e)
  BY <1>2 DEF WriteIndex, FailToWriteIndex, NewIndex
<1>3. ASSUME NEW f \in Entries, RemoveOutside(f) PROVE creds[e] # NoSecret /\ creds'[e] = NoSecret
  BY <1>3 DEF RemoveOutside
<1>4. ASSUME NEW p \in Processes,
             Begin(p) \/ Acquire(p) \/ SkipIndex(p) \/ FailToRollBack(p) \/ Fail(p) \/ Crash(p)
      PROVE  FALSE
  BY <1>4 DEF Begin, Acquire, SkipIndex, FailToRollBack, Fail, Crash
<1> QED BY <1>1, <1>2, <1>3, <1>4 DEF KeyringNext

LEMMA UndoneStep ==
  KeyringInv /\ [KeyringNext]_keyringVars =>
    [\A p \in Processes :
       step[p] = "rollback" /\ step'[p] = "idle" /\ EntryOf(p) \notin torn' =>
         Visible(EntryOf(p))' = Shown(held[p].index, [e \in Entries |-> held[p].previous], EntryOf(p))]_keyringVars
<1> SUFFICES ASSUME KeyringInv, KeyringNext, NEW p \in Processes,
                    step[p] = "rollback", step'[p] = "idle", EntryOf(p) \notin torn'
             PROVE  Visible(EntryOf(p))' =
                      Shown(held[p].index, [e \in Entries |-> held[p].previous], EntryOf(p))
  BY DEF keyringVars
<1> USE DEF KeyringInv, KeyringTypeOK, OneEditor, Steps, InTransaction, Call, View
<1>1. RollBack(p)
  <2>1. ASSUME NEW q \in Processes, q # p,
               \/ Begin(q) \/ Acquire(q) \/ ChangeCredential(q)
               \/ SkipIndex(q) \/ WriteIndex(q) \/ FailToWriteIndex(q)
               \/ RollBack(q) \/ FailToRollBack(q) \/ Fail(q) \/ Crash(q)
        PROVE  FALSE
    BY <2>1 DEF Begin, Acquire, ChangeCredential, SkipIndex, WriteIndex, FailToWriteIndex,
                RollBack, FailToRollBack, Fail, Crash, Release
  <2>2. ASSUME \/ Begin(p) \/ Acquire(p) \/ ChangeCredential(p)
               \/ SkipIndex(p) \/ WriteIndex(p) \/ FailToWriteIndex(p)
               \/ FailToRollBack(p) \/ Fail(p) \/ Crash(p)
        PROVE  FALSE
    BY <2>2 DEF Begin, Acquire, ChangeCredential, SkipIndex, WriteIndex, FailToWriteIndex,
                FailToRollBack, Fail, Crash, Release, EntryOf
  <2>3. ASSUME NEW e \in Entries, RemoveOutside(e) PROVE FALSE
    BY <2>3 DEF RemoveOutside
  <2> QED BY <2>1, <2>2, <2>3 DEF KeyringNext
<1>2. EntryOf(p) \in Entries /\ EntryOf(p)' = EntryOf(p) /\ EntryOf(p) \notin torn
  BY <1>1 DEF RollBack, EntryOf
<1>3. OwnEntry(p)
  OBVIOUS
<1> QED BY <1>1, <1>2, <1>3, NoSecretAssumption DEF RollBack, OwnEntry, Visible, Shown, IsSet, EntryOf

LEMMA DoneStep ==
  KeyringInv /\ [KeyringNext]_keyringVars =>
    [\A p \in Processes :
       step[p] = "index" /\ step'[p] = "idle" /\ EntryOf(p) \notin torn' =>
         Visible(EntryOf(p))' = call[p].value \/ creds'[EntryOf(p)] = NoSecret]_keyringVars
<1> SUFFICES ASSUME KeyringInv, KeyringNext, NEW p \in Processes,
                    step[p] = "index", step'[p] = "idle", EntryOf(p) \notin torn'
             PROVE  Visible(EntryOf(p))' = call[p].value \/ creds'[EntryOf(p)] = NoSecret
  BY DEF keyringVars
<1> USE DEF KeyringInv, KeyringTypeOK, OneEditor, Steps, InTransaction, Call, View
<1>1. SkipIndex(p) \/ WriteIndex(p)
  <2>1. ASSUME NEW q \in Processes, q # p,
               \/ Begin(q) \/ Acquire(q) \/ ChangeCredential(q)
               \/ SkipIndex(q) \/ WriteIndex(q) \/ FailToWriteIndex(q)
               \/ RollBack(q) \/ FailToRollBack(q) \/ Fail(q) \/ Crash(q)
        PROVE  FALSE
    BY <2>1 DEF Begin, Acquire, ChangeCredential, SkipIndex, WriteIndex, FailToWriteIndex,
                RollBack, FailToRollBack, Fail, Crash, Release
  <2>2. ASSUME \/ Begin(p) \/ Acquire(p) \/ ChangeCredential(p) \/ FailToWriteIndex(p)
               \/ RollBack(p) \/ FailToRollBack(p) \/ Fail(p) \/ Crash(p)
        PROVE  FALSE
    BY <2>2 DEF Begin, Acquire, ChangeCredential, FailToWriteIndex, RollBack, FailToRollBack,
                Fail, Crash, Release, EntryOf
  <2>3. ASSUME NEW e \in Entries, RemoveOutside(e) PROVE FALSE
    BY <2>3 DEF RemoveOutside
  <2> QED BY <2>1, <2>2, <2>3 DEF KeyringNext
<1>2. EntryOf(p) \in Entries /\ EntryOf(p)' = EntryOf(p) /\ creds' = creds
  BY <1>1 DEF SkipIndex, WriteIndex, EntryOf
<1>3. OwnEntry(p)
  OBVIOUS
<1> QED BY <1>1, <1>2, <1>3
        DEF SkipIndex, WriteIndex, NewIndex, OwnEntry, Visible, Shown, IsSet, EntryOf

\* Edits of different entries never disturb one another, although each writes
\* the whole index.
THEOREM EditsAreLocal == KeyringSpec => OthersUntouched
<1>1. KeyringSpec => []KeyringInv
  BY KeyringInvariance
<1> QED BY <1>1, OthersStep, PTL DEF KeyringSpec, OthersUntouched

\* A failed edit that was rolled back is as if it had never begun.
THEOREM FailureIsUndone == KeyringSpec => FailedEditUndone
<1>1. KeyringSpec => []KeyringInv
  BY KeyringInvariance
<1> QED BY <1>1, UndoneStep, PTL DEF KeyringSpec, FailedEditUndone

\* A finished edit is visible.
THEOREM SuccessIsVisible == KeyringSpec => DoneEditVisible
<1>1. KeyringSpec => []KeyringInv
  BY KeyringInvariance
<1> QED BY <1>1, DoneStep, PTL DEF KeyringSpec, DoneEditVisible

=============================================================================
