------------------------------ MODULE Notices ------------------------------
(***************************************************************************)
(* Background notices above the live editor (src/repl/notices.rs).         *)
(*                                                                         *)
(* A run of the editor owns a session, whose handle background workers     *)
(* keep for as long as they like. A notice waits in a bounded queue until  *)
(* the idle editor moves it to its printer, a bounded channel, and prints  *)
(* it. What does not fit is counted in a summary, "+3 more notices". A     *)
(* command may run an editor of its own, whose session supersedes that of  *)
(* the run around it; basic input ends the session of whoever has one.     *)
(*                                                                         *)
(* Every action but Show and Leave is one section under the NOTICES mutex. *)
(* Notices are numbered in the order they are accepted.                    *)
(***************************************************************************)
EXTENDS Naturals, Sequences, FiniteSets

CONSTANTS
  Runs,         \* runs of the rich editor
  MaxPending,   \* lines kept until the editor is idle
  Capacity,     \* lines the printer of an editor holds
  Startup,      \* the poster of a notice that no session posted
  None,
  MaxPosts      \* bound on the notices accepted

ASSUME BoundsAssumption == MaxPending \in Nat \ {0} /\ Capacity \in Nat \ {0} /\ MaxPosts \in Nat
ASSUME NamesAssumption == None \notin Runs /\ Startup \notin Runs

VARIABLES
  owner,      \* Notices::owner, a run or None
  printer,    \* Notices::printer, the run whose channel it sends to, or None
  pending,    \* Notices::pending
  overflow,   \* Notices::overflow
  basic,      \* Notices::basic
  cancelled,  \* the runs whose Lifetime is cancelled
  state,      \* state[r]: how far the run r is
  nesting,    \* the runs under way, each started by a command of the one before
  channel,    \* channel[r]: lines sent to the printer of r and not yet printed
  posts,      \* posts[n]: who posted notice n
  settled,    \* notices printed, or given up with the run that was to print them
  before      \* before[r]: the runs that were over when r began

vars == <<owner, printer, pending, overflow, basic, cancelled, state, nesting, channel,
          posts, settled, before>>
queueVars == <<pending, overflow, posts>>

\* A line as it is displayed: `says` is the number of notices it speaks of,
\* `about` the notices it stands for.
Line(number, notices) == [says |-> number, about |-> notices]

About(lines) == UNION {lines[i].about : i \in DOMAIN lines}

Innermost(r) == nesting # <<>> /\ nesting[Len(nesting)] = r

Init ==
  /\ owner = None
  /\ printer = None
  /\ pending = <<>>
  /\ overflow = 0
  /\ basic = FALSE
  /\ cancelled = {}
  /\ state = [r \in Runs |-> "unborn"]
  /\ nesting = <<>>
  /\ channel = [r \in Runs |-> <<>>]
  /\ posts = <<>>
  /\ settled = {}
  /\ before = [r \in Runs |-> {}]

-----------------------------------------------------------------------------
(* The runs of the editor. *)

\* SessionOwner::new
New(r) ==
  /\ state[r] = "unborn"
  /\ nesting # <<>> => state[nesting[Len(nesting)]] = "editing"
  /\ state' = [state EXCEPT ![r] = "starting"]
  /\ nesting' = Append(nesting, r)
  /\ owner' = r
  /\ cancelled' = cancelled \cup ({owner} \ {None})
  /\ before' = [before EXCEPT ![r] = {t \in Runs : state[t] = "over"}]
  /\ UNCHANGED <<printer, basic, channel, settled, queueVars>>

\* attach, when the editor is built. Workers get the session once it has been
\* painted.
Attach(r) ==
  /\ Innermost(r)
  /\ state[r] = "starting"
  /\ state' = [state EXCEPT ![r] = "editing"]
  /\ basic' = FALSE
  /\ printer' = r
  /\ UNCHANGED <<owner, cancelled, nesting, channel, settled, before, queueVars>>

\* The editor is gone with its printer, or could not be built, and the drop of
\* the SessionOwner cancels the session.
Leave(r) ==
  /\ Innermost(r)
  /\ state[r] \in {"starting", "editing"}
  /\ state' = [state EXCEPT ![r] = "leaving"]
  /\ cancelled' = cancelled \cup {r}
  /\ channel' = [channel EXCEPT ![r] = <<>>]
  /\ settled' = settled \cup About(channel[r])
  /\ UNCHANGED <<owner, printer, basic, nesting, before, queueVars>>

End(r) ==
  /\ Innermost(r)
  /\ state[r] = "leaving"
  /\ state' = [state EXCEPT ![r] = "over"]
  /\ nesting' = SubSeq(nesting, 1, Len(nesting) - 1)
  /\ UNCHANGED <<basic, cancelled, channel, posts, before>>

\* Seeded bug: what waits is left for the next editor.
CleanupKeepingPending(r) ==
  /\ End(r)
  /\ owner' = IF owner = r THEN None ELSE owner
  /\ printer' = IF owner = r THEN None ELSE printer
  /\ UNCHANGED <<pending, overflow, settled>>

\* The rest of the drop: it cleans up unless another session took over.
Cleanup(r) ==
  /\ End(r)
  /\ \/ /\ owner # r
        /\ UNCHANGED <<owner, printer, pending, overflow, settled>>
     \/ /\ owner = r
        /\ owner' = None
        /\ printer' = None
        /\ pending' = <<>>
        /\ overflow' = 0
        /\ settled' = settled \cup About(pending)

\* attach_basic: what waits is written out at once.
AttachBasic ==
  /\ nesting # <<>> => state[nesting[Len(nesting)]] = "editing"
  /\ cancelled' = cancelled \cup ({owner} \ {None})
  /\ owner' = None
  /\ printer' = None
  /\ pending' = <<>>
  /\ overflow' = 0
  /\ basic' = TRUE
  /\ settled' = settled \cup About(pending)
  /\ UNCHANGED <<state, nesting, channel, posts, before>>

-----------------------------------------------------------------------------
(* Posting and printing. *)

\* Notices::post, when input is not basic: a line of its own, the first
\* summary in the place of the last line, or one more in the summary.
Queue(poster) ==
  LET n    == Len(posts) + 1
      last == Len(pending)
      Summary(count) == pending' = [pending EXCEPT ![last] = Line(count, @.about \cup {n})]
  IN  /\ Len(posts) < MaxPosts
      /\ ~basic
      /\ posts' = Append(posts, poster)
      /\ \/ /\ overflow > 0
            /\ overflow' = overflow + 1
            /\ Summary(overflow + 1)
         \/ /\ overflow = 0
            /\ last < MaxPending
            /\ pending' = Append(pending, Line(1, {n}))
            /\ UNCHANGED overflow
         \/ /\ overflow = 0
            /\ last >= MaxPending
            /\ overflow' = 2
            /\ Summary(2)
      /\ UNCHANGED <<owner, printer, basic, cancelled, state, nesting, channel, settled, before>>

\* Seeded bug: a session that is not cancelled may post although another one
\* is current.
PostAnyway(r) ==
  /\ state[r] \in {"editing", "leaving", "over"}
  /\ Queue(r)

\* ReplSession::post_notice by a worker of r, whatever has become of the run.
Post(r) ==
  /\ state[r] \in {"editing", "leaving", "over"}
  /\ r \notin cancelled
  /\ owner = r
  /\ Queue(r)

\* The function post_notice. Basic input writes the line out.
PostStartup == Queue(Startup)

Send(r, count) ==
  /\ Innermost(r)
  /\ state[r] = "editing"
  /\ printer # None
  /\ pending # <<>>
  /\ channel' = [channel EXCEPT ![printer] = @ \o SubSeq(pending, 1, count)]
  /\ UNCHANGED <<owner, printer, basic, cancelled, state, nesting, posts, settled, before>>

Room == Capacity - Len(channel[printer])

\* How much of the queue try_send accepts.
Fitting == IF Len(pending) <= Room THEN Len(pending) ELSE Room

\* Seeded bug: a line is taken out before the printer has accepted it.
FlushRemovingFirst(r) ==
  /\ Send(r, Fitting)
  /\ pending' = SubSeq(pending, Fitting + 2, Len(pending))
  /\ overflow' = IF Fitting + 1 >= Len(pending) THEN 0 ELSE overflow

\* Seeded bug: the summary is taken for sent although the printer was full.
FlushResetting(r) ==
  /\ Send(r, Fitting)
  /\ pending' = SubSeq(pending, Fitting + 1, Len(pending))
  /\ overflow' = 0

\* Seeded bug: nothing is sent unless everything fits.
FlushAllOrNothing(r) ==
  /\ Send(r, Fitting)
  /\ Fitting = Len(pending)
  /\ pending' = <<>>
  /\ overflow' = 0

\* Notices::flush, from the idle callback of the editor: it sends until the
\* printer is full.
Flush(r) ==
  /\ Send(r, Fitting)
  /\ pending' = SubSeq(pending, Fitting + 1, Len(pending))
  /\ overflow' = IF Fitting = Len(pending) THEN 0 ELSE overflow

\* The editor prints a line of its channel.
Show(r) ==
  /\ Innermost(r)
  /\ state[r] = "editing"
  /\ channel[r] # <<>>
  /\ channel' = [channel EXCEPT ![r] = Tail(@)]
  /\ settled' = settled \cup Head(channel[r]).about
  /\ UNCHANGED <<owner, printer, basic, cancelled, state, nesting, before, queueVars>>

-----------------------------------------------------------------------------

Next ==
  \/ \E r \in Runs : New(r) \/ Attach(r) \/ Leave(r) \/ Cleanup(r) \/ Post(r) \/ Flush(r) \/ Show(r)
  \/ AttachBasic \/ PostStartup

\* A run that has begun to start or to end goes on, and the editor calls its
\* idle callback and prints what its channel holds. Nothing makes a user or a
\* worker act.
Fairness == \A r \in Runs :
  /\ WF_vars(Attach(r))
  /\ WF_vars(Cleanup(r))
  /\ WF_vars(Flush(r))
  /\ WF_vars(Show(r))

Spec == Init /\ [][Next]_vars /\ Fairness

-----------------------------------------------------------------------------
(* Properties. *)

Lines == [says : 1 .. MaxPosts, about : SUBSET (1 .. MaxPosts)]

\* Every variable has its type, and neither the queue nor a channel outgrows
\* its bound.
TypeOK ==
  /\ owner \in Runs \cup {None}
  /\ printer \in Runs \cup {None}
  /\ pending \in Seq(Lines) /\ Len(pending) <= MaxPending
  /\ overflow \in 0 .. MaxPosts
  /\ basic \in BOOLEAN
  /\ cancelled \subseteq Runs
  /\ state \in [Runs -> {"unborn", "starting", "editing", "leaving", "over"}]
  /\ nesting \in Seq(Runs)
  /\ channel \in [Runs -> Seq(Lines)]
  /\ \A r \in Runs : Len(channel[r]) <= Capacity
  /\ posts \in Seq(Runs \cup {Startup})
  /\ settled \subseteq 1 .. MaxPosts
  /\ before \in [Runs -> SUBSET Runs]

\* post, flush and the printer between them neither lose nor repeat a notice,
\* whatever room there is, and keep the order: each one accepted is settled or
\* in one line of one channel or of the queue, behind all earlier ones.
NoticesKept ==
  /\ \A n \in 1 .. Len(posts) :
       Cardinality({i \in DOMAIN pending : n \in pending[i].about})
         + Cardinality({at \in Runs \X (1 .. Capacity) :
                          /\ at[2] <= Len(channel[at[1]])
                          /\ n \in channel[at[1]][at[2]].about})
         + (IF n \in settled THEN 1 ELSE 0) = 1
  /\ LET queue == (IF printer = None THEN <<>> ELSE channel[printer]) \o pending
     IN  \A i, j \in DOMAIN queue :
           i < j => \A m \in queue[i].about, n \in queue[j].about : m < n

\* The number a summary displays is the number of notices it stands for, also
\* when the printer accepted a part of the queue only. While post counts on,
\* there is a last line to replace (it unwraps last_mut), and it is the summary.
SummariesCount ==
  /\ overflow > 0 => pending # <<>> /\ pending[Len(pending)].says = overflow
  /\ \A i \in DOMAIN pending : pending[i].says = Cardinality(pending[i].about)
  /\ \A r \in Runs : \A i \in DOMAIN channel[r] :
       channel[r][i].says = Cardinality(channel[r][i].about)

\* The comment on ReplSession: old workers cannot publish into a later editor.
\* No editor is sent a notice that was posted by a session of a run that was
\* over before the editor's own run began.
EarlierRunsSilent ==
  \A r \in Runs : \A i \in DOMAIN channel[r] :
    \A n \in channel[r][i].about : posts[n] \notin before[r]

\* A session that can no longer publish, because its run has ended, another
\* one superseded it or basic input took over, has been told so: its workers
\* see it cancelled.
OutdatedAreCancelled ==
  \A r \in Runs : state[r] # "unborn" /\ owner # r => r \in cancelled

\* While an editor is attached a waiting notice is sent sooner or later, even
\* if there never is room for all that wait.
NoticesFlow ==
  \A n \in 1 .. MaxPosts :
    n \in About(pending) /\ printer # None ~> n \notin About(pending) \/ printer = None

=============================================================================
