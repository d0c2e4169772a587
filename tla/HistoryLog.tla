----------------------------- MODULE HistoryLog -----------------------------
(***************************************************************************)
(* What the history file promises to the REPL processes that share it: one *)
(* bounded log. A step appends one line to the log as it is at that        *)
(* moment, removes some of its entries, or empties it. No step brings a    *)
(* line back, reorders the others, or drops another process's line except  *)
(* by trimming the oldest.                                                 *)
(***************************************************************************)
EXTENDS HistoryRecords

VARIABLE log

Init == log \in Seq(Lines) /\ Len(log) <= MaxEntries

\* A process appends the line it executed, behind every line in the log.
Append1(line) == log' = Payload(Committed(log, line))

\* A process removes entries that it was asked to prune or clear.
Forget(removed) ==
  /\ removed # {}
  /\ log' = Payload(RemoveIndices(log, removed))

Empty == log' = <<>>

Next ==
  \/ \E line \in Lines : Append1(line)
  \/ \E removed \in SUBSET DOMAIN log : Forget(removed)
  \/ Empty

Spec == Init /\ [][Next]_log

=============================================================================
