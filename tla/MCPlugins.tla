----------------------------- MODULE MCPlugins -----------------------------
(***************************************************************************)
(* An instance of PluginCatalog and of PluginRun for TLC. They have no     *)
(* variable in common, so either the one moves or the other.               *)
(***************************************************************************)
EXTENDS PluginCatalog, PluginRun

VARIABLE part  \* which of them moves

vars == <<catalogVars, runVars, part>>

\* What does not move has one initial state.
Init ==
  /\ CatalogInit /\ RunInit
  /\ part \in {"catalog", "run"}
  /\ part = "catalog" \/ \A p \in Processes : disabled[p] = {}
  /\ part = "run" \/ ~capture

Next ==
  \/ part = "catalog" /\ CatalogNext /\ UNCHANGED <<runVars, part>>
  \/ part = "run" /\ RunNext /\ UNCHANGED <<catalogVars, part>>

\* A process goes on with its search, and with the run it waits for.
Fairness ==
  /\ \A p \in Processes : WF_vars(part = "catalog" /\ Progress(p) /\ UNCHANGED <<runVars, part>>)
  /\ WF_vars(part = "run" /\ HostReads /\ UNCHANGED <<catalogVars, part>>)

FairSpec == Init /\ [][Next]_vars /\ Fairness

\* The same command from two directories.
SearchOrder == <<"plugins/osp-hi", "path/osp-hi">>
Provides == [path \in {"plugins/osp-hi", "path/osp-hi"} |-> "hi"]
Behind == [path \in {"plugins/osp-hi", "path/osp-hi"} |-> path]
Same == [name \in {"hi"} |-> name]
=============================================================================
