------------------------------ MODULE ReplLine ------------------------------
(***************************************************************************)
(* The life of one submitted REPL line, from the editor to the history     *)
(* file: src/repl/engine/session.rs, repl/host.rs, repl/dispatch.rs and    *)
(* app/session.rs around one OspHistoryStore.                              *)
(*                                                                         *)
(* The editor saves a line before it runs, under the prefix of the shell   *)
(* the user is in; the dispatcher decides what to keep after it ran, under *)
(* the prefix of the shell the line left the user in. In between the line  *)
(* may enter or leave a shell, run other lines (source, each), queue       *)
(* commands for the history, or ask for a restart of the editor loop,      *)
(* which opens a new store. A line that is being executed is a frame of a  *)
(* stack; a line it runs is above it.                                      *)
(*                                                                         *)
(* One process: the transactions of HistoryStore are single steps here,    *)
(* which may fail when IOFails.                                            *)
(***************************************************************************)
EXTENDS HistoryRecords, SequencesExt

CONSTANTS
  Typed,       \* what the user submits
  Picked,      \* what the history picker submits as root-form lines
  BangLines,   \* history expansions
  ShellWords,  \* repl.shellable_commands
  Words,       \* Words[p]: the first words that resolve in the shell with prefix p
  RootWords,   \* words that mean the same in every shell: global commands and aliases
  LeaveLines,  \* exit and quit
  Batches,     \* Batches[line]: the lines of a source or each command
  Rewrites,    \* Rewrites[line]: what context.executed may turn the line into
  Products,    \* lines whose command may queue history through ReplFeedback
  Queued,      \* the commands they queue, in root form
  IOFails,     \* a history transaction may fail
  MaxDepth,    \* bound: how many lines may be running inside one another
  FirstFile    \* the history file at the start

\* ScopePrefixes, words and what lines are made of them by a shell or a recall.
ScopePrefixes == {<<>>} \cup {<<word>> : word \in ShellWords}

Vocabulary == ShellWords \cup UNION {{line[i] : i \in DOMAIN line} : line \in Lines}

Text == Seq(Vocabulary)

TextStore == [records : Seq(Text), pending : [index : Nat, line : Text] \cup {None},
              last : Text \cup {None}]

ASSUME TypedAssumption ==
  /\ Lines \subseteq Text
  /\ Typed \subseteq Lines /\ Picked \subseteq Lines /\ Queued \subseteq Lines
  /\ \A line \in DOMAIN Batches : Batches[line] \subseteq Lines
  /\ \A line \in DOMAIN Rewrites : Rewrites[line] \subseteq Lines
  /\ IOFails \in BOOLEAN /\ MaxDepth \in Nat
  /\ FirstFile \in Seq(Lines)
ASSUME ShellsAssumption == ShellWords \cap SensitiveWords = {}
\* write_records leaves out sensitive lines.
ASSUME FirstFileAssumption == \A i \in DOMAIN FirstFile : ~Sensitive(FirstFile[i])
ASSUME NoRecordAssumption == None \notin [index : Nat, line : Text]

VARIABLES
  file,      \* the history file
  store,     \* the OspHistoryStore
  scope,     \* AppSession::scope and the HistoryShellContext, as a prefix
  stack,     \* the lines being executed, the innermost last
  prompt,    \* command_scope of the render settings: the shell the line in hand began in
  feedback,  \* ReplFeedback's queue
  restart    \* the line asks to leave the editor loop, which stops a batch

vars == <<file, store, scope, prompt, stack, feedback, restart>>

\* A frame is the line as typed and as resolved, whether it is admitted to the
\* history and whether it was typed with a leading space (`hidden`), the shell to
\* return to after a root line (`home`), and the shell it started in (`at`, a
\* history variable).
Top == Last(stack)

Load(f) == Trim(f)

Init ==
  /\ file = FirstFile
  /\ store = Opened(Load(FirstFile))
  /\ scope = <<>>
  /\ prompt = <<>>
  /\ stack = <<>>
  /\ feedback = <<>>
  /\ restart = FALSE

-----------------------------------------------------------------------------
(* What history does for a line. *)

\* admits_repl_line under repl.history.record = commands.
Admits(line, p) ==
  /\ line # <<>>
  /\ line[1] \in Words[p] \/ (p # <<>> /\ line[1] \in ShellWords)

\* expand: !! is the last accepted command or the newest one in view, as
\* stored; the others are a command in view, as displayed.
Recalled(st) ==
  LET view == Visible(st.records, scope)
      last == IF st.last # None THEN {st.last}
              ELSE {st.records[i] : i \in {i \in view : \A k \in view : k <= i}}
  IN  last \cup {StripPrefix(scope, st.records[i]) : i \in view}

\* A request that matches nothing stays as it is and runs nothing.
Resolutions(st, line) == IF line \in BangLines THEN Recalled(st) \cup {line} ELSE {line}

\* Seeded bug: what was recalled is not taken into account.
FinalizedByInput(h, p, input, resolved, admitted, ok) ==
  LET keep == admitted /\ ~Sensitive(input) /\ ~Excluded(resolved)
      all  == Committed(Load(h.file), h.store.pending.line)
  IN  CASE ~IsPendingFor(h.store, p, input) -> h
        [] IsPendingFor(h.store, p, input) /\ ~keep -> [h EXCEPT !.store = Discarded(@)]
        [] IsPendingFor(h.store, p, input) /\ keep /\ ~ok -> h
        [] IsPendingFor(h.store, p, input) /\ keep /\ ok ->
             [file |-> Payload(all), store |-> [h.store EXCEPT !.records = all, !.pending = None]]

\* finalize_execution with its commit, which fails when ok is FALSE.
Finalized(h, p, input, resolved, admitted, ok) ==
  LET keep == admitted /\ ~Sensitive(input) /\ ~Excluded(resolved)
      st   == Renamed(h.store, p, input, resolved, keep)
      all  == Committed(Load(h.file), st.pending.line)
  IN  CASE ~IsPendingFor(st, p, resolved) -> [h EXCEPT !.store = st]
        [] IsPendingFor(st, p, resolved) /\ ~keep -> [h EXCEPT !.store = Discarded(st)]
        [] IsPendingFor(st, p, resolved) /\ keep /\ ~ok -> [h EXCEPT !.store = st]
        [] IsPendingFor(st, p, resolved) /\ keep /\ ok ->
             [file |-> Payload(all), store |-> [st EXCEPT !.records = all, !.pending = None]]

\* CommandScope::command: a queued command as it is typed in a shell, the word
\* sudo in front of it aside. The shell's name stays where the word after it
\* would mean something else without it.
InScope(p, line) ==
  LET sudo    == Len(line) > 1 /\ Head(line) = "sudo"
      command == IF sudo THEN Tail(line) ELSE line
      named   == /\ p # <<>> /\ command # <<>> /\ Head(command) = Head(p)
                 /\ Len(command) > 1 => command[2] \notin RootWords
  IN  IF ~named THEN line ELSE IF sudo THEN <<"sudo">> \o Tail(command) ELSE Tail(command)

\* A command that was queued is saved and finalized at once.
StagedOne(h, p, line, ok) ==
  Finalized([h EXCEPT !.store = Save(@, p, line)], p, line, line, TRUE, ok)

\* take_history, the oldest first: written for the reader of that prompt.
Staged(h, p, reader, queue, ok) ==
  LET after[n \in 0 .. Len(queue)] ==
        IF n = 0 THEN h ELSE StagedOne(after[n - 1], p, InScope(reader, queue[n]), ok)
  IN  after[Len(queue)]

-----------------------------------------------------------------------------
(* Submitting. *)

\* A line begins with set_command_scope.
Push(line, resolved, hidden, home, at) ==
  /\ prompt' = at
  /\ stack' = Append(stack, [input |-> line, resolved |-> resolved,
                             admitted |-> resolved \notin BangLines /\ Admits(resolved, at),
                             hidden |-> hidden, home |-> home, at |-> at])

\* The editor saves the line, then the host dispatches it. A line typed with a
\* leading space is not saved and will not be finalized.
Submit ==
  /\ stack = <<>>
  /\ \E line \in Typed, hidden \in BOOLEAN :
       /\ store' = IF hidden THEN [store EXCEPT !.pending = None] ELSE Save(store, scope, line)
       /\ \E resolved \in Resolutions(store', line) : Push(line, resolved, hidden, None, scope)
  /\ UNCHANGED <<file, scope, feedback, restart>>

\* ReplEvent::RootLine: the copy staged under the shell goes, and the line is
\* staged and run at the root; the shell comes back when it is done.
SubmitRoot ==
  /\ stack = <<>>
  /\ \E line \in Picked :
       LET staged  == [file |-> file, store |-> Save(store, scope, line)]
           cleared == Finalized(staged, scope, line, line, FALSE, TRUE)
       IN  /\ store' = Save(cleared.store, <<>>, line)
           /\ Push(line, line, FALSE, scope, <<>>)
  /\ scope' = <<>>
  /\ UNCHANGED <<file, feedback, restart>>

-----------------------------------------------------------------------------
(* Executing the innermost line. *)

Running == stack # <<>> /\ ~restart

\* enter_repl_shell: a bare shellable word, unless it is the current shell.
EnterShell ==
  /\ Running
  /\ Len(Top.resolved) = 1 /\ Top.resolved[1] \in ShellWords
  /\ scope # Top.resolved
  /\ scope' = Top.resolved
  /\ restart' = TRUE
  /\ UNCHANGED <<file, store, prompt, stack, feedback>>

\* request_repl_exit: back to the root, or the end of the program.
LeaveShell ==
  /\ Running
  /\ Top.resolved \in LeaveLines
  /\ scope' = <<>>
  /\ restart' = TRUE
  /\ UNCHANGED <<file, store, prompt, stack, feedback>>

\* execute_source_line: a line of the batch goes through the same dispatcher,
\* without the editor. A line that is itself a batch is refused, but the line
\* is looked at before a history request in it is resolved.
RunChild ==
  /\ Running
  /\ Len(stack) < MaxDepth
  /\ Top.resolved \in DOMAIN Batches
  /\ \E line \in Batches[Top.resolved] \ DOMAIN Batches :
       \E resolved \in Resolutions(store, line) : Push(line, resolved, FALSE, None, scope)
  /\ UNCHANGED <<file, store, scope, feedback, restart>>

\* ReplFeedback::remember_command, from a native command. One is enough.
QueueHistory ==
  /\ Running
  /\ Top.resolved \in Products
  /\ feedback = <<>>
  /\ \E line \in Queued : feedback' = <<line>>
  /\ UNCHANGED <<file, store, scope, prompt, stack, restart>>

\* request_completion_refresh: the finished line turns into a restart.
RequestRefresh ==
  /\ Running
  /\ Top.resolved \notin DOMAIN Batches
  /\ restart' = TRUE
  /\ UNCHANGED <<file, store, scope, prompt, stack, feedback>>

-----------------------------------------------------------------------------
(* The end of a line. *)

Results(line) == {line} \cup (IF line \in DOMAIN Rewrites THEN Rewrites[line] ELSE {})

\* Whether history promises to keep the line, had it ended as `resolved`.
Keeps(frame, resolved) ==
  /\ frame.admitted /\ ~frame.hidden
  /\ ~Sensitive(frame.input) /\ ~Excluded(resolved)

\* remember_command: what !! recalls from now on.
Remembered(last, resolved, accepted) ==
  IF accepted /\ resolved # <<>> /\ ~Sensitive(resolved) /\ resolved \notin BangLines
  THEN resolved ELSE last

Outcomes == IF IOFails THEN BOOLEAN ELSE {TRUE}

\* Finalize the line, remember it for !!, and take what was queued; a finished
\* root line restores the shell, and a restart opens the store again.
Finish ==
  /\ stack # <<>>
  /\ \E resolved \in Results(Top.resolved), accepted \in BOOLEAN,
        ok, okQueued \in Outcomes :
       LET before == [file |-> file, store |-> store]
           final  == IF Top.hidden THEN before
                     ELSE Finalized(before, scope, Top.input, resolved, Top.admitted, ok)
           after  == Staged([final EXCEPT !.store.last = Remembered(@, resolved, accepted)],
                            scope, prompt, feedback, okQueued)
           leaves == Len(stack) = 1 /\ restart
       IN  /\ file' = after.file
           /\ store' = IF leaves THEN Opened(Load(after.file)) ELSE after.store
           /\ restart' = IF leaves THEN FALSE ELSE restart
  /\ scope' = IF Top.home = None THEN scope ELSE Top.home
  /\ feedback' = <<>>
  /\ stack' = Front(stack)
  /\ UNCHANGED prompt

Next ==
  \/ Submit \/ SubmitRoot
  \/ EnterShell \/ LeaveShell \/ RunChild \/ QueueHistory \/ RequestRefresh
  \/ Finish

Spec == Init /\ [][Next]_vars

-----------------------------------------------------------------------------
(* Properties. *)

Frame == [input : Text, resolved : Text, admitted : BOOLEAN, hidden : BOOLEAN,
          home : ScopePrefixes \cup {None}, at : ScopePrefixes]

\* Every variable has its type; lines are made of the words of lines and shells.
TypeOK ==
  /\ file \in Seq(Text)
  /\ store \in TextStore
  /\ scope \in ScopePrefixes /\ prompt \in ScopePrefixes
  /\ stack \in Seq(Frame)
  /\ feedback \in Seq(Queued) /\ Len(feedback) <= 1
  /\ restart \in BOOLEAN

\* Nothing reaches the file but the line that ends, if dispatch admitted it, as
\* it was resolved and in the shell it left the user in, and the commands it
\* queued, as they would be typed where it began: unknown and excluded commands, lines
\* typed with a leading space, the text of history requests and the line around a
\* batch stay out.
OnlyAdmitted ==
  [][\A i \in DOMAIN file' :
       \/ \E k \in DOMAIN file : file[k] = file'[i]
       \/ \E k \in DOMAIN feedback :
            /\ ~Excluded(InScope(prompt, feedback[k]))
            /\ file'[i] = ApplyPrefix(scope, InScope(prompt, feedback[k]))
       \/ \E resolved \in Results(Top.resolved) :
            Keeps(Top, resolved) /\ file'[i] = ApplyPrefix(scope, resolved)]_vars

\* A command that a batch runs does not queue history: it would displace the
\* pending line of the batch, which stays in memory and is never written.
QueuesAlone == Products = {} \/ DOMAIN Batches = {}

\* Between two lines nothing is pending and navigation offers the newest part
\* of what the file holds: a line that was given up is gone from memory too.
MemoryFollowsFile ==
  stack = <<>> /\ ~IOFails /\ QueuesAlone =>
    store.pending = None /\ IsSuffix(store.records, Load(file))

OwnLines == {Top.input} \cup Results(Top.resolved)

\* A line of a batch leaves the pending line of its parent alone, unless that is
\* the same line or the command queued something.
ChildLeavesPending ==
  [][Len(stack) > 1 /\ stack' = Front(stack) /\ feedback = <<>> /\ store.pending # None
       /\ store.pending.line \notin {ApplyPrefix(scope, line) : line \in OwnLines}
     => store'.pending = store.pending]_vars

\* A line to be kept is the newest line of the file when it has run, as long as
\* it left the user in the shell it started in, ran no batch, queued nothing and
\* no transaction fails.
KeptLineIsOnDisk ==
  [][Len(stack) = 1 /\ stack' = <<>> /\ ~IOFails /\ QueuesAlone
       /\ feedback = <<>> /\ scope = Top.at
       /\ Keeps(Top, Top.resolved) /\ Top.resolved \notin DOMAIN Rewrites \cup DOMAIN Batches
     => /\ file' # <<>>
        /\ Newest(file') = ApplyPrefix(scope, Top.resolved)]_vars

\* The documented promise in full: a line whose first word resolves in the
\* shell it was typed in is in the file when it has run, in that shell's form.
AdmittedLineIsOnDisk ==
  [][Len(stack) = 1 /\ stack' = <<>> /\ Keeps(Top, Top.resolved)
     => \E i \in DOMAIN file' : file'[i] = ApplyPrefix(Top.at, Top.resolved)]_vars

\* The comment on finalize_execution: a sourced child leaves an unrelated
\* pending parent record alone, whatever its command queued.
ParentStaysPending ==
  [][Len(stack) > 1 /\ stack' = Front(stack) /\ store.pending # None
       /\ store.pending.line \notin {ApplyPrefix(scope, line) : line \in OwnLines}
     => store'.pending = store.pending]_vars

=============================================================================
