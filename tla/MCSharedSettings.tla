-------------------------- MODULE MCSharedSettings --------------------------
(***************************************************************************)
(* Instances of KeyringStore and of DisabledList for TLC. They have no     *)
(* variable in common, so either the one moves or the other.               *)
(***************************************************************************)
EXTENDS KeyringStore, DisabledList, TLC

VARIABLE part  \* which of them moves

\* What does not move has one initial state.
Init ==
  /\ KeyringInit /\ ListInit
  /\ part \in {"keyring", "list"}
  /\ part = "keyring" \/ \A p, q \in Processes : call[p] = call[q]
  /\ part = "list" \/ stored = Nothing
  /\ part = "list" \/ \A h \in Hosts : above[h] = Nothing /\ override[h] = Nothing

Next ==
  \/ part = "keyring" /\ KeyringNext /\ UNCHANGED <<listVars, part>>
  \/ part = "list" /\ ListNext /\ UNCHANGED <<keyringVars, part>>

Spec == Init /\ [][Next]_<<keyringVars, listVars, part>>

\* A shell with a variable that empties the list of disabled commands and with an
\* override of its session, and a process without either.
NoNames == {}
Above == [h \in Hosts |-> IF h = "shell" THEN {{}} ELSE {}]
Over == [h \in Hosts |-> IF h = "shell" THEN {{"hi"}} ELSE {}]

Symmetric == Permutations(Processes) \cup Permutations(Entries) \cup Permutations(Secrets)

=============================================================================
