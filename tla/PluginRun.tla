----------------------------- MODULE PluginRun -----------------------------
(***************************************************************************)
(* A run of an executable command (src/plugin/run.rs: run and              *)
(* read_captured_stdout). Output is counted in pieces. A captured child    *)
(* and the descendants it leaves behind share the writing end of a pipe,   *)
(* from which the host reads without blocking: it asks whether the child   *)
(* has exited, then reads, then decides.                                   *)
(***************************************************************************)
EXTENDS Naturals

CONSTANTS
  MaxStdout,  \* MAX_STDOUT, in pieces
  MaxWritten  \* bound on the pieces written to the pipe

ASSUME PiecesAssumption == MaxStdout \in Nat /\ MaxWritten \in Nat

VARIABLES
  capture,  \* stdout is a pipe to the host
  open,     \* the child still has its end of the pipe
  left,     \* a descendant has the writing end as well
  exited,   \* the child has exited
  sent,     \* pieces written to the pipe
  owed,     \* history variable: those written before the child exited
  got,      \* pieces read
  saw,      \* try_wait has found that the child exited
  stage     \* where the host is

runVars == <<capture, open, left, exited, sent, owed, got, saw, stage>>

\* The child has been spawned.
RunInit ==
  /\ capture \in BOOLEAN
  /\ open = capture
  /\ left = FALSE
  /\ exited = FALSE
  /\ sent = 0 /\ owed = 0 /\ got = 0
  /\ saw = FALSE
  /\ stage = IF capture THEN "probe" ELSE "wait"

-----------------------------------------------------------------------------
(* The child and its descendants. *)

\* Whoever has the writing end writes a piece.
WriteOut ==
  /\ open \/ left
  /\ sent < MaxWritten
  /\ sent' = sent + 1
  /\ owed' = IF exited THEN owed ELSE sent'
  /\ UNCHANGED <<capture, open, left, exited, got, saw, stage>>

\* The child starts a descendant that inherits its stdout.
Fork ==
  /\ open
  /\ left' = TRUE
  /\ UNCHANGED <<capture, open, exited, sent, owed, got, saw, stage>>

CloseStdout ==
  /\ open
  /\ open' = FALSE
  /\ UNCHANGED <<capture, left, exited, sent, owed, got, saw, stage>>

Exit ==
  /\ ~exited
  /\ exited' = TRUE
  /\ open' = FALSE
  /\ UNCHANGED <<capture, left, sent, owed, got, saw, stage>>

\* The descendant ends, or closes its stdout.
DescendantEnds ==
  /\ left
  /\ left' = FALSE
  /\ UNCHANGED <<capture, open, exited, sent, owed, got, saw, stage>>

-----------------------------------------------------------------------------
(* The host. *)

Unread == got < sent
AtEnd == ~Unread /\ ~open /\ ~left

\* child.try_wait
Probe ==
  /\ stage = "probe"
  /\ saw' = exited
  /\ stage' = "read"
  /\ UNCHANGED <<capture, open, left, exited, sent, owed, got>>

\* A read takes some of what is there; more than the limit is an error, after
\* which the child is killed, but not what it left behind.
ReadSome ==
  /\ stage = "read"
  /\ Unread
  /\ got' \in got + 1 .. sent
  /\ stage' = IF got' > MaxStdout THEN "failed" ELSE "probe"
  /\ exited' = (exited \/ got' > MaxStdout)
  /\ open' = (open /\ got' <= MaxStdout)
  /\ UNCHANGED <<capture, left, sent, owed, saw>>

\* The pipe is empty. At its end the capture is over.
ReadNothing ==
  /\ stage = "read"
  /\ ~Unread
  /\ stage' = IF AtEnd THEN "wait" ELSE "empty"
  /\ UNCHANGED <<capture, open, left, exited, sent, owed, got, saw>>

\* Seeded bug: whether the child has exited is asked when the pipe was empty.
DecideNow ==
  /\ stage = "empty"
  /\ stage' = IF exited THEN "wait" ELSE "probe"
  /\ UNCHANGED <<capture, open, left, exited, sent, owed, got, saw>>

\* Seeded bug: nothing but the end of the pipe ends the capture.
DecideNever ==
  /\ stage = "empty"
  /\ stage' = "probe"
  /\ UNCHANGED <<capture, open, left, exited, sent, owed, got, saw>>

\* WouldBlock: the capture is over if the child was known to have exited before
\* the pipe was looked at. Otherwise the host sleeps and asks again.
Decide ==
  /\ stage = "empty"
  /\ stage' = IF saw THEN "wait" ELSE "probe"
  /\ UNCHANGED <<capture, open, left, exited, sent, owed, got, saw>>

\* child.wait, which an ordinary run spends its time in.
Wait ==
  /\ stage = "wait"
  /\ exited
  /\ stage' = "returned"
  /\ UNCHANGED <<capture, open, left, exited, sent, owed, got, saw>>

HostReads == Probe \/ ReadSome \/ ReadNothing \/ Decide \/ Wait

RunNext == WriteOut \/ Fork \/ CloseStdout \/ Exit \/ DescendantEnds \/ HostReads

RunSpec == RunInit /\ [][RunNext]_runVars

-----------------------------------------------------------------------------
(* Properties. *)

RunTypeOK ==
  /\ capture \in BOOLEAN /\ open \in BOOLEAN /\ left \in BOOLEAN
  /\ exited \in BOOLEAN /\ saw \in BOOLEAN
  /\ sent \in 0 .. MaxWritten /\ owed \in 0 .. sent /\ got \in 0 .. sent
  /\ stage \in {"probe", "read", "empty", "wait", "failed", "returned"}

\* A captured run returns all that was written before its child exited, however
\* writing, closing and exiting fall between the probes and the reads, and
\* whether or not descendants still have the pipe.
CapturedIsComplete == capture /\ stage = "returned" => got >= owed

\* docs/PLUGINS.md: a run ends when its child has exited, even if descendants
\* retain stdout.
RunEnds == exited ~> stage \in {"returned", "failed"}

=============================================================================
