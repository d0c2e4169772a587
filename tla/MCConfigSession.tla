-------------------------- MODULE MCConfigSession --------------------------
(***************************************************************************)
(* An instance of ConfigSession for TLC: a product key with two names, a   *)
(* framework key, and a product key whose default is a secret, in a store  *)
(* that spells the active profile in two ways.                             *)
(***************************************************************************)
EXTENDS ConfigSession

ThreeKeys == {"ext.colour", "theme", "ext.token"}

AllValues == {"red", "${theme}", "dark", "${colour}", "${token}", "s1"}
References ==
  [v \in AllValues \ {"${theme}", "${colour}", "${token}"} |-> {}]
    @@ "${theme}" :> {"theme"} @@ "${colour}" :> {"ext.colour"} @@ "${token}" :> {"ext.token"}
Inputs ==
  "ext.colour" :> {"red", "${theme}"} @@ "theme" :> {"dark", "${colour}"}
    @@ "ext.token" :> {"s1"}

At(profile, terminal) == [profile |-> profile, terminal |-> terminal]
Work == At("work", None)
WorkRepl == At("work", "repl")
Home == At("home", None)
Repl == At(None, "repl")

AllTables == <<"default", "profile.Work", "profile.home", "profile.work", "terminal.repl",
               "terminal.repl.profile.work">>
Scoping ==
  "default" :> Global @@ "profile.Work" :> Work @@ "profile.work" :> Work @@ "profile.home" :> Home
    @@ "terminal.repl" :> Repl @@ "terminal.repl.profile.work" :> WorkRepl
Normalized ==
  Global :> "default" @@ Work :> "profile.work" @@ Home :> "profile.home" @@ Repl :> "terminal.repl"
    @@ WorkRepl :> "terminal.repl.profile.work"
Nesting ==
  "terminal.repl.profile.work" :> "terminal.repl" @@ [t \in ToSet(AllTables) |-> None]

AllNames == <<"colour", "ext.colour", "ext.token", "theme", "token">>
Named ==
  "colour" :> "ext.colour" @@ "ext.colour" :> "ext.colour" @@ "theme" :> "theme"
    @@ "token" :> "ext.token" @@ "ext.token" :> "ext.token"
Shown == "ext.colour" :> "colour" @@ "ext.token" :> "token" @@ "theme" :> "theme"

Only(k, s, v) == [NoEntry EXCEPT ![k][s] = v]
Defaults == [Only("theme", Global, "dark") EXCEPT !["ext.token"][Global] = "s1"]

With(tables, entries) ==
  [tables |-> tables,
   at |-> [t \in Tables |-> [n \in Names |-> IF <<t, n>> \in DOMAIN entries THEN entries[<<t, n>>]
                                              ELSE None]]]
Spelled ==
  <<"profile.Work", "colour">> :> "red" @@ <<"profile.work", "ext.colour">> :> "${theme}"
    @@ <<"terminal.repl", "theme">> :> "${token}"
Files == {With({"profile.Work", "profile.work", "profile.home", "terminal.repl",
                "terminal.repl.profile.work"}, Spelled)}
Vaults == {EmptyStore}
Variables == {[hidden |-> NoEntry, env |-> NoEntry],
              [hidden |-> Only("ext.token", Global, "s1"), 
               env |-> [Only("theme", Global, "dark") EXCEPT !["ext.token"][Global] = "${token}"]]}
Others == {<<"default", "theme", "${colour}">>}
=============================================================================
