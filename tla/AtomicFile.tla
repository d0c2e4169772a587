----------------------------- MODULE AtomicFile -----------------------------
(***************************************************************************)
(* What a transaction on a file promises when it is synced: the file is a  *)
(* set of edits to which each transaction adds its own in one step. An     *)
(* edit is acknowledged once it is there; a power loss takes back edits    *)
(* that were not acknowledged yet, and no others.                          *)
(***************************************************************************)
CONSTANT Edits

VARIABLES contents, acked

vars == <<contents, acked>>

Init == contents = {} /\ acked = {}

Add(e) == contents' = contents \cup {e} /\ acked' = acked

Acknowledge(e) ==
  /\ e \in contents
  /\ acked' = acked \cup {e}
  /\ UNCHANGED contents

PowerLoss ==
  /\ contents' \in SUBSET contents
  /\ acked \subseteq contents'
  /\ UNCHANGED acked

Next == (\E e \in Edits : Add(e) \/ Acknowledge(e)) \/ PowerLoss

Spec == Init /\ [][Next]_vars

=============================================================================
