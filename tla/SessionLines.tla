---------------------------- MODULE SessionLines ----------------------------
(***************************************************************************)
(* What the lines of a REPL leave in its session besides the history: the  *)
(* way back through a paged result (PaginationState in src/native.rs) and  *)
(* a recording of lines and their output (src/repl/recording.rs).          *)
(*                                                                         *)
(* A line is a frame of a stack: `source` runs other lines, `next` and     *)
(* `prev` run the command that the page names. Both services have to tell  *)
(* a line from the lines it runs. A command does not know that it was      *)
(* reached by `next`; it publishes its page as ever, and the pages behind  *)
(* it are carried over its run. A recording takes the line that was        *)
(* submitted and, under it, the output of all that it runs.                *)
(***************************************************************************)
EXTENDS Naturals, Sequences

CONSTANTS
  Lists,      \* native commands with a paged result
  Children,   \* the lines of a sourced file
  Files,      \* names of recordings
  Nil,        \* no page, no recording, no file
  MaxWalk,    \* bound: how many pages deep `next` is typed
  MaxBlocks,  \* bound: lines that are recorded
  MaxOutput   \* bound: what a recorded line prints

Sources == {"source", "private source"}

BuiltIns == Sources \cup {"next", "prev", "recording start", "recording stop", "private"}

Lines == Lists \cup BuiltIns

\* The number of a line, and 0 for its command or the number of what it printed.
Events == Nat \X Nat

ASSUME LinesAssumption ==
  /\ Lists \cap BuiltIns = {}
  /\ Children \subseteq Lines \ Sources
  /\ Nil \notin Lists \cup Files \cup Seq(Lists) \cup Seq(Events)
  /\ MaxWalk \in Nat /\ MaxBlocks \in Nat /\ MaxOutput \in Nat

VARIABLES
  page,     \* PaginationState::page, or Nil
  back,     \* PaginationState::back
  carried,  \* PaginationState::carried, or Nil
  walk,     \* history variable: the pages that lead to the one shown, and that one
  stack,    \* the lines being run, the innermost last
  inside,   \* recording::ACTIVE: a submitted line owns what is run
  capture,  \* the events taken of it, or Nil
  target,   \* the file of the recording, or Nil
  taken,    \* the events in each file, or Nil if there is no such file
  cut,      \* history variable: files whose last write failed
  lines,    \* history variable: lines submitted to be recorded
  printed   \* history variable: what each of them has printed

pageVars == <<page, back, carried, walk>>
recordingVars == <<inside, capture, target, taken, cut, lines, printed>>
lineVars == <<pageVars, stack, recordingVars>>

Innermost == stack[Len(stack)]
Outer == SubSeq(stack, 1, Len(stack) - 1)

LinesInit ==
  /\ page = Nil /\ back = <<>> /\ carried = Nil /\ walk = <<>>
  /\ stack = <<>>
  /\ inside = FALSE /\ capture = Nil
  /\ target = Nil /\ taken = [f \in Files |-> Nil] /\ cut = {}
  /\ lines = 0 /\ printed = [n \in 0 .. MaxBlocks |-> 0]

-----------------------------------------------------------------------------
(* A line is run. *)

\* Lines with secrets, typed with a leading space, or about the recording.
Omitted == {"private", "private source", "recording start", "recording stop"}

\* Seeded bug: only a line that is recorded owns what it runs.
EntersUnlessRecorded == ~inside \/ capture = Nil

\* What a line runs belongs to it, also when the line is omitted.
Enters == ~inside

\* Recording::enter
Enter(line) ==
  /\ inside' = TRUE
  /\ capture' = IF Enters /\ target # Nil /\ line \notin Omitted THEN <<<<lines', 0>>>> ELSE capture
  /\ UNCHANGED <<target, taken, cut, printed>>

\* clear_pagination leaves alone what is carried to the next page.
ClearPages == page' = Nil /\ back' = <<>> /\ walk' = <<>>

\* `from` are the pages behind the one that the line will show.
Frame(line, from, owns) ==
  [line |-> line, from |-> from, owns |-> owns, stepped |-> FALSE, published |-> FALSE]

\* The dispatcher clears the pages before any other line than these two.
Dispatch(line) ==
  /\ Enter(line)
  /\ stack' = Append(stack, Frame(line, <<>>, Enters))
  /\ IF line \in {"next", "prev"} THEN UNCHANGED pageVars ELSE ClearPages /\ UNCHANGED carried

Submit ==
  /\ stack = <<>>
  /\ \E line \in Lines :
       /\ lines' = IF target = Nil \/ line \in Omitted THEN lines ELSE lines + 1
       /\ lines' <= MaxBlocks
       /\ Dispatch(line)

\* execute_source_line
RunChild ==
  /\ stack # <<>> /\ Innermost.line \in Sources
  /\ UNCHANGED lines
  /\ \E line \in Children : Dispatch(line)

\* step_page: nothing happens at either end.
CanStep(forward) ==
  /\ page # Nil
  /\ IF forward THEN page.next # Nil /\ Len(walk) < MaxWalk ELSE back # <<>>

Command(forward) == IF forward THEN page.next ELSE back[Len(back)]

Behind(forward) == IF forward THEN Append(back, page.current)
                   ELSE SubSeq(back, 1, Len(back) - 1)

\* execute_pagination_builtin up to the run of the command, which is dispatched
\* as a line of its own and so clears the pages.
StepPage(forward) ==
  /\ stack # <<>> /\ Innermost.line = (IF forward THEN "next" ELSE "prev")
  /\ ~Innermost.stepped /\ CanStep(forward)
  /\ LET outer == [stack EXCEPT ![Len(stack)].stepped = TRUE]
         from  == SubSeq(walk, 1, IF forward THEN Len(walk) ELSE Len(walk) - 2)
     IN  stack' = Append(outer, Frame(Command(forward), from, FALSE))
  /\ carried' = Behind(forward)
  /\ ClearPages
  /\ UNCHANGED recordingVars

-----------------------------------------------------------------------------
(* What it does. *)

\* set_pagination, once in a run.
Publish ==
  /\ stack # <<>> /\ Innermost.line \in Lists /\ ~Innermost.published
  /\ back' = IF carried = Nil THEN <<>> ELSE carried
  /\ carried' = Nil
  /\ \E shown \in Lists, next \in Lists \cup {Nil} :
       /\ page' = [current |-> shown, next |-> next]
       /\ walk' = Append(Innermost.from, shown)
  /\ stack' = [stack EXCEPT ![Len(stack)].published = TRUE]
  /\ UNCHANGED recordingVars

\* Capture::output and Capture::http
Emit ==
  /\ stack # <<>> /\ capture # Nil
  /\ printed[lines] < MaxOutput
  /\ printed' = [printed EXCEPT ![lines] = @ + 1]
  /\ capture' = Append(capture, <<lines, printed[lines] + 1>>)
  /\ UNCHANGED <<pageVars, stack, inside, target, taken, cut, lines>>

\* Recording::start; a file that exists is refused.
StartRecording ==
  /\ stack # <<>> /\ Innermost.line = "recording start" /\ target = Nil
  /\ \E f \in Files :
       /\ taken[f] = Nil
       /\ target' = f
       /\ taken' = [taken EXCEPT ![f] = <<>>]
  /\ UNCHANGED <<pageVars, stack, inside, capture, cut, lines, printed>>

\* Recording::stop
StopRecording ==
  /\ stack # <<>> /\ Innermost.line = "recording stop" /\ target # Nil
  /\ target' = Nil
  /\ UNCHANGED <<pageVars, stack, inside, capture, taken, cut, lines, printed>>

-----------------------------------------------------------------------------
(* The end of a line. *)

\* Recording::finish. A failed write leaves some of the events in the file and
\* ends the recording.
FinishRecording ==
  /\ inside' = FALSE /\ capture' = Nil
  /\ IF capture = Nil \/ target = Nil
     THEN UNCHANGED <<target, taken, cut>>
     ELSE \/ /\ taken' = [taken EXCEPT ![target] = @ \o capture]
             /\ UNCHANGED <<target, cut>>
          \/ \E n \in 0 .. Len(capture) - 1 :
               /\ taken' = [taken EXCEPT ![target] = @ \o SubSeq(capture, 1, n)]
               /\ target' = Nil
               /\ cut' = cut \cup {target}
  /\ UNCHANGED <<lines, printed>>

\* Seeded bug: a command that published nothing leaves what was carried.
LeaveCarried == carried

\* finish_page_step, when the command of a page has run.
LeaveStep == IF Len(stack) > 1 /\ stack[Len(stack) - 1].stepped THEN Nil ELSE carried

\* A result that cannot go through its pipeline takes its page with it.
FailToRender == Innermost.published /\ ClearPages

\* A line ends, well or with an error.
EndLine ==
  /\ stack # <<>>
  /\ Innermost.line \in {"next", "prev"} =>
       Innermost.stepped \/ ~CanStep(Innermost.line = "next")
  /\ Innermost.line = "recording stop" => target = Nil
  /\ FailToRender \/ UNCHANGED <<page, back, walk>>
  /\ carried' = LeaveStep
  /\ stack' = Outer
  /\ IF Innermost.owns THEN FinishRecording ELSE UNCHANGED recordingVars

LinesNext ==
  \/ Submit \/ RunChild \/ \E forward \in BOOLEAN : StepPage(forward)
  \/ Publish \/ Emit \/ StartRecording \/ StopRecording
  \/ EndLine

LinesSpec == LinesInit /\ [][LinesNext]_lineVars

-----------------------------------------------------------------------------
(* Properties. *)

\* The pages behind the one shown are those that `next` went through to it:
\* neither a command that failed, nor one that publishes no page, nor a line run
\* by another leaves the way back of one result to the next.
WayBack == page # Nil => walk = Append(back, page.current)

Whole(f) ==
  \A i \in DOMAIN taken[f] :
    LET event == taken[f][i]
        last  == event[2] = printed[event[1]]
        fresh == \A k \in 1 .. i - 1 : taken[f][k][1] < event[1]
    IN  /\ event[1] \in 1 .. lines
        /\ event[2] = 0 => fresh
        /\ event[2] > 0 => i > 1 /\ taken[f][i - 1] = <<event[1], event[2] - 1>>
        /\ i = Len(taken[f]) /\ f \notin cut => last
        /\ i < Len(taken[f]) /\ ~last => taken[f][i + 1] = <<event[1], event[2] + 1>>

\* A recording is a sequence of submitted lines, in their order and each with all
\* that it and the lines it ran have printed; only the last line of a recording
\* that ended in a failed write is cut off. No line is in two recordings.
RecordingsAreWhole ==
  /\ \A f \in Files : taken[f] # Nil => Whole(f)
  /\ \A f, g \in Files : taken[f] # Nil /\ taken[g] # Nil /\ f # g =>
       \A i \in DOMAIN taken[f], k \in DOMAIN taken[g] : taken[f][i][1] # taken[g][k][1]

=============================================================================
