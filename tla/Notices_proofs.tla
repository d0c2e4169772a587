--------------------------- MODULE Notices_proofs ---------------------------
(***************************************************************************)
(* Proofs about Notices, for any number of runs and any bounds.            *)
(*                                                                         *)
(* IInv is inductive and gives the types, the summaries and what sessions  *)
(* know of each other. KInv adds where each notice is: in one line or      *)
(* settled, never in the channel of an editor that does not print yet, and *)
(* before whatever was accepted later. It needs IInv and gives NoticesKept.*)
(***************************************************************************)
EXTENDS Notices, FiniteSetTheorems, SequenceTheorems, TLAPS

\* Lines are about notices that were accepted, and speak of as many as they
\* are about.
Sound(line) ==
  /\ line.about \subseteq 1 .. Len(posts)
  /\ line.says = Cardinality(line.about)

LinesAreSound ==
  /\ \A i \in DOMAIN pending : Sound(pending[i])
  /\ \A r \in Runs : \A i \in DOMAIN channel[r] : Sound(channel[r][i])

QueueIsSound ==
  /\ Len(pending) <= Len(posts) /\ Len(posts) <= MaxPosts /\ overflow <= Len(posts)
  /\ overflow = 0 => \A i \in DOMAIN pending : pending[i].says = 1
  /\ overflow > 0 => pending # <<>> /\ pending[Len(pending)].says = overflow

\* The runs under way are nested: each is there once, and a run that is not
\* under way has not begun or is over.
NestingIsSound ==
  /\ \A i, j \in DOMAIN nesting : nesting[i] = nesting[j] => i = j
  /\ \A i \in DOMAIN nesting : state[nesting[i]] \notin {"unborn", "over"}

GoneAreCancelled == \A r \in Runs : state[r] \in {"leaving", "over"} => r \in cancelled

OwnerIsUnderWay == owner # None => \E i \in DOMAIN nesting : nesting[i] = owner

\* A session's notice waits only while its run, and that of the owner inside
\* it, are under way.
PendingIsLive ==
  \A i \in DOMAIN pending : \A n \in pending[i].about :
    posts[n] # Startup =>
      /\ owner # None
      /\ \E a, b \in DOMAIN nesting : a <= b /\ nesting[a] = posts[n] /\ nesting[b] = owner

BeforeAreOver ==
  /\ \A r \in Runs : \A t \in before[r] : state[t] = "over"
  /\ \A r \in Runs : state[r] = "unborn" => channel[r] = <<>> /\ printer # r

IInv ==
  /\ TypeOK /\ QueueIsSound /\ LinesAreSound /\ NestingIsSound
  /\ GoneAreCancelled /\ OutdatedAreCancelled /\ OwnerIsUnderWay
  /\ PendingIsLive /\ BeforeAreOver /\ EarlierRunsSilent

\* Every notice that was accepted is somewhere (Accounted), and in one place
\* (Once); the lines that the current editor prints and those that wait are in
\* order. A run that has not started its editor has nothing to print.
Accounted ==
  \A n \in 1 .. Len(posts) :
    \/ n \in settled
    \/ \E i \in DOMAIN pending : n \in pending[i].about
    \/ \E r \in Runs : \E i \in DOMAIN channel[r] : n \in channel[r][i].about

Once ==
  /\ settled \subseteq 1 .. Len(posts)
  /\ \A i \in DOMAIN pending : \A n \in pending[i].about :
       n \notin settled /\ \A j \in DOMAIN pending : n \in pending[j].about => i = j
  /\ \A r \in Runs : \A i \in DOMAIN channel[r] : \A n \in channel[r][i].about :
       /\ n \notin settled
       /\ \A j \in DOMAIN pending : n \notin pending[j].about
       /\ \A s \in Runs : \A j \in DOMAIN channel[s] :
            n \in channel[s][j].about => r = s /\ i = j

\* Every notice of a line is older than those of another.
Before(first, second) == \A m \in first.about, n \in second.about : m < n

InOrder ==
  /\ \A i, j \in DOMAIN pending : i < j => Before(pending[i], pending[j])
  /\ printer # None =>
       /\ \A i, j \in DOMAIN channel[printer] :
            i < j => Before(channel[printer][i], channel[printer][j])
       /\ \A i \in DOMAIN channel[printer], j \in DOMAIN pending :
            Before(channel[printer][i], pending[j])

NotYetPrinting ==
  \A r \in Runs : state[r] \in {"unborn", "starting"} => channel[r] = <<>> /\ printer # r

KInv == IInv /\ Accounted /\ Once /\ InOrder /\ NotYetPrinting

\* A part of a sequence.
LEMMA PartProperties ==
  ASSUME NEW S, NEW seq \in Seq(S), NEW m \in 1 .. Len(seq) + 1, NEW n \in 0 .. Len(seq)
  PROVE  /\ SubSeq(seq, m, n) \in Seq(S)
         /\ Len(SubSeq(seq, m, n)) = IF m <= n THEN n - m + 1 ELSE 0
         /\ \A i \in DOMAIN SubSeq(seq, m, n) :
              /\ SubSeq(seq, m, n)[i] = seq[m + i - 1]
              /\ m + i - 1 \in DOMAIN seq
<1>1. m \in Int /\ n \in Int /\ Len(seq) \in Nat
  OBVIOUS
<1>2. \A i \in m .. n : seq[i] \in S
  OBVIOUS
<1> DEFINE part == SubSeq(seq, m, n)
<1>3. /\ part \in Seq(S)
      /\ Len(part) = IF m <= n THEN n - m + 1 ELSE 0
      /\ \A i \in 1 .. n - m + 1 : part[i] = seq[m + i - 1]
  BY <1>1, <1>2, SubSeqProperties
<1> HIDE DEF part
<1>4. \A i \in DOMAIN part : i \in 1 .. n - m + 1 /\ m + i - 1 \in 1 .. Len(seq)
  BY <1>1, <1>3
<1>5. DOMAIN seq = 1 .. Len(seq)
  OBVIOUS
<1>6. \A i \in DOMAIN part : part[i] = seq[m + i - 1] /\ m + i - 1 \in DOMAIN seq
  BY <1>3, <1>4, <1>5
<1> QED BY <1>3, <1>6 DEF part

\* A sequence without its last element.
LEMMA ButLast ==
  ASSUME NEW S, NEW seq \in Seq(S), Len(seq) \in DOMAIN seq
  PROVE  /\ SubSeq(seq, 1, Len(seq) - 1) \in Seq(S)
         /\ Len(SubSeq(seq, 1, Len(seq) - 1)) = Len(seq) - 1
         /\ \A i \in 1 .. Len(seq) - 1 : SubSeq(seq, 1, Len(seq) - 1)[i] = seq[i]
<1> DEFINE last == Len(seq)
           front == SubSeq(seq, 1, last - 1)
<1>1. last \in Nat /\ last >= 1
  OBVIOUS
<1>2. 1 \in 1 .. last + 1 /\ last - 1 \in 0 .. last
  BY <1>1
<1>3. /\ front \in Seq(S)
      /\ Len(front) = IF 1 <= last - 1 THEN last - 1 - 1 + 1 ELSE 0
      /\ \A i \in DOMAIN front : front[i] = seq[1 + i - 1]
  BY <1>2, PartProperties
<1> HIDE DEF front, last
<1>4. Len(front) = last - 1
  BY <1>1, <1>3
<1>5. DOMAIN front = 1 .. last - 1
  BY <1>3, <1>4
<1>6. \A i \in 1 .. last - 1 : front[i] = seq[i]
  BY <1>1, <1>3, <1>5
<1> QED BY <1>3, <1>4, <1>6 DEF front, last

LEMMA NothingWaits ==
  /\ <<>> \in Seq(Lines) /\ <<>> \in Seq(Runs) /\ <<>> \in Seq(Runs \cup {Startup})
  /\ Len(<<>>) = 0
OBVIOUS

LEMMA AboutAccepted ==
  ASSUME NEW lines \in Seq(Lines)
  PROVE  About(lines) \subseteq 1 .. MaxPosts
<1> SUFFICES ASSUME NEW i \in DOMAIN lines, NEW n \in lines[i].about
             PROVE  n \in 1 .. MaxPosts
  BY DEF About
<1>1. lines[i] \in Lines
  OBVIOUS
<1> QED BY <1>1 DEF Lines

LEMMA InitInv == Init => IInv
<1> SUFFICES ASSUME Init PROVE IInv
  OBVIOUS
<1> USE DEF Init
<1>1. TypeOK
  <2>1. channel \in [Runs -> Seq(Lines)] /\ \A r \in Runs : Len(channel[r]) <= Capacity
    BY BoundsAssumption, NothingWaits
  <2>2. pending \in Seq(Lines) /\ Len(pending) <= MaxPending /\ overflow \in 0 .. MaxPosts
    BY BoundsAssumption, NothingWaits
  <2>3. nesting \in Seq(Runs) /\ posts \in Seq(Runs \cup {Startup})
    BY NothingWaits
  <2>4. before \in [Runs -> SUBSET Runs]
    OBVIOUS
  <2> QED BY <2>1, <2>2, <2>3, <2>4 DEF TypeOK
<1>2. QueueIsSound /\ LinesAreSound
  BY BoundsAssumption DEF QueueIsSound, LinesAreSound
<1>3. NestingIsSound /\ OwnerIsUnderWay /\ PendingIsLive
  BY DEF NestingIsSound, OwnerIsUnderWay, PendingIsLive
<1>4. GoneAreCancelled /\ OutdatedAreCancelled /\ BeforeAreOver /\ EarlierRunsSilent
  BY NamesAssumption DEF GoneAreCancelled, OutdatedAreCancelled, BeforeAreOver, EarlierRunsSilent
<1> QED BY <1>1, <1>2, <1>3, <1>4 DEF IInv

-----------------------------------------------------------------------------
(* The runs. *)

\* The end of the stack of runs.
LEMMA InnermostIsLast ==
  ASSUME TypeOK, NEW r \in Runs, Innermost(r)
  PROVE  /\ Len(nesting) \in DOMAIN nesting
         /\ nesting[Len(nesting)] = r
BY DEF TypeOK, Innermost

LEMMA NewStep == ASSUME IInv, NEW r \in Runs, New(r) PROVE IInv'
<1> USE DEF New, queueVars
<1>1. TypeOK'
  BY NamesAssumption DEF IInv, TypeOK
<1>2. QueueIsSound' /\ LinesAreSound'
  BY DEF IInv, QueueIsSound, LinesAreSound, Sound
<1>3. /\ nesting \in Seq(Runs) /\ Len(nesting') = Len(nesting) + 1
      /\ DOMAIN nesting' = DOMAIN nesting \cup {Len(nesting) + 1}
      /\ nesting'[Len(nesting) + 1] = r
      /\ \A i \in DOMAIN nesting : nesting'[i] = nesting[i] /\ i < Len(nesting) + 1
  BY DEF IInv, TypeOK
<1>4. \A i \in DOMAIN nesting : nesting[i] # r /\ nesting[i] \in Runs
  BY DEF IInv, TypeOK, NestingIsSound
<1>5. NestingIsSound'
  BY <1>3, <1>4 DEF IInv, TypeOK, NestingIsSound
<1>6. OwnerIsUnderWay'
  BY <1>3 DEF IInv, OwnerIsUnderWay
<1>7. GoneAreCancelled' /\ OutdatedAreCancelled'
  BY NamesAssumption DEF IInv, TypeOK, GoneAreCancelled, OutdatedAreCancelled
<1>8. PendingIsLive'
  <2> SUFFICES ASSUME NEW i \in DOMAIN pending, NEW n \in pending[i].about, posts[n] # Startup
               PROVE  \E a, b \in DOMAIN nesting' : a <= b /\ nesting'[a] = posts[n] /\ nesting'[b] = r
    BY NamesAssumption DEF PendingIsLive
  <2>1. PICK a \in DOMAIN nesting : nesting[a] = posts[n]
    BY DEF IInv, PendingIsLive
  <2> QED BY <2>1, <1>3
<1>9. BeforeAreOver'
  BY DEF IInv, TypeOK, BeforeAreOver
<1>10. EarlierRunsSilent'
  BY DEF IInv, TypeOK, BeforeAreOver, EarlierRunsSilent
<1> QED BY <1>1, <1>2, <1>5, <1>6, <1>7, <1>8, <1>9, <1>10 DEF IInv

LEMMA AttachStep == ASSUME IInv, NEW r \in Runs, Attach(r) PROVE IInv'
<1> USE DEF Attach, queueVars
<1>1. TypeOK'
  BY DEF IInv, TypeOK
<1>2. QueueIsSound' /\ LinesAreSound' /\ OwnerIsUnderWay' /\ PendingIsLive' /\ EarlierRunsSilent'
  BY DEF IInv, QueueIsSound, LinesAreSound, Sound, OwnerIsUnderWay, PendingIsLive, EarlierRunsSilent
<1>3. NestingIsSound'
  BY DEF IInv, TypeOK, NestingIsSound
<1>4. GoneAreCancelled' /\ OutdatedAreCancelled'
  BY DEF IInv, TypeOK, GoneAreCancelled, OutdatedAreCancelled
<1>5. BeforeAreOver'
  BY DEF IInv, TypeOK, BeforeAreOver
<1> QED BY <1>1, <1>2, <1>3, <1>4, <1>5 DEF IInv

LEMMA LeaveStep == ASSUME IInv, NEW r \in Runs, Leave(r) PROVE IInv'
<1> USE DEF Leave, queueVars
<1>1. About(channel[r]) \subseteq 1 .. MaxPosts
  BY AboutAccepted DEF IInv, TypeOK
<1>2. TypeOK'
  <2>1. settled' \subseteq 1 .. MaxPosts
    BY <1>1 DEF IInv, TypeOK
  <2>2. channel' \in [Runs -> Seq(Lines)] /\ \A x \in Runs : Len(channel'[x]) <= Capacity
    BY BoundsAssumption, NothingWaits DEF IInv, TypeOK
  <2>3. cancelled' \subseteq Runs
        /\ state' \in [Runs -> {"unborn", "starting", "editing", "leaving", "over"}]
    BY DEF IInv, TypeOK
  <2> QED BY <2>1, <2>2, <2>3 DEF IInv, TypeOK
<1>3. QueueIsSound' /\ OwnerIsUnderWay' /\ PendingIsLive'
  BY DEF IInv, QueueIsSound, OwnerIsUnderWay, PendingIsLive
<1>4. LinesAreSound' /\ EarlierRunsSilent'
  BY DEF IInv, TypeOK, LinesAreSound, Sound, EarlierRunsSilent
<1>5. NestingIsSound'
  BY DEF IInv, TypeOK, NestingIsSound
<1>6. GoneAreCancelled' /\ OutdatedAreCancelled'
  BY DEF IInv, TypeOK, GoneAreCancelled, OutdatedAreCancelled
<1>7. BeforeAreOver'
  BY DEF IInv, TypeOK, BeforeAreOver
<1> QED BY <1>2, <1>3, <1>4, <1>5, <1>6, <1>7 DEF IInv

LEMMA CleanupStep == ASSUME IInv, NEW r \in Runs, Cleanup(r) PROVE IInv'
<1> USE DEF Cleanup, End
<1>1. About(pending) \subseteq 1 .. MaxPosts
  BY AboutAccepted DEF IInv, TypeOK
<1>2. TypeOK'
  <2>1. nesting' \in Seq(Runs)
    BY DEF IInv, TypeOK, Innermost
  <2>2. settled' \subseteq 1 .. MaxPosts
    BY <1>1 DEF IInv, TypeOK
  <2>3. pending' \in Seq(Lines) /\ Len(pending') <= MaxPending /\ overflow' \in 0 .. MaxPosts
    <3>1. CASE owner # r
      BY <3>1 DEF IInv, TypeOK
    <3>2. CASE owner = r
      BY <3>2, BoundsAssumption, NothingWaits
    <3> QED BY <3>1, <3>2
  <2>4. owner' \in Runs \cup {None} /\ printer' \in Runs \cup {None}
    BY DEF IInv, TypeOK
  <2>5. state' \in [Runs -> {"unborn", "starting", "editing", "leaving", "over"}]
    BY DEF IInv, TypeOK
  <2> QED BY <2>1, <2>2, <2>3, <2>4, <2>5 DEF IInv, TypeOK
<1>3. QueueIsSound' /\ LinesAreSound'
  BY BoundsAssumption, SMTT(40) DEF IInv, TypeOK, QueueIsSound, LinesAreSound, Sound
<1>4. /\ DOMAIN nesting' = DOMAIN nesting \ {Len(nesting)}
      /\ \A i \in DOMAIN nesting' : nesting'[i] = nesting[i]
      /\ \A i \in DOMAIN nesting : i # Len(nesting) <=> nesting[i] # r
      /\ \A i \in DOMAIN nesting : i \in Nat /\ i <= Len(nesting)
  <2>1. /\ nesting \in Seq(Runs)
        /\ Len(nesting) \in DOMAIN nesting
        /\ nesting[Len(nesting)] = r
        /\ \A i, j \in DOMAIN nesting : nesting[i] = nesting[j] => i = j
    BY InnermostIsLast DEF IInv, TypeOK, NestingIsSound
  <2>2. \A i \in DOMAIN nesting : i # Len(nesting) <=> nesting[i] # r
    BY <2>1
  <2>3. /\ nesting' \in Seq(Runs)
        /\ Len(nesting') = Len(nesting) - 1
        /\ \A i \in 1 .. Len(nesting) - 1 : nesting'[i] = nesting[i]
    BY <2>1, ButLast
  <2> QED BY <2>1, <2>2, <2>3
<1>5. NestingIsSound'
  BY <1>4, SMTT(40) DEF IInv, TypeOK, NestingIsSound
<1>6. OwnerIsUnderWay'
  BY <1>4 DEF IInv, OwnerIsUnderWay
<1>7. GoneAreCancelled' /\ OutdatedAreCancelled'
  BY DEF IInv, TypeOK, GoneAreCancelled, OutdatedAreCancelled
<1>8. PendingIsLive'
  <2> SUFFICES ASSUME owner # r, NEW i \in DOMAIN pending, NEW n \in pending[i].about,
                      posts[n] # Startup
               PROVE  /\ owner # None
                      /\ \E a, b \in DOMAIN nesting' :
                           a <= b /\ nesting'[a] = posts[n] /\ nesting'[b] = owner
    BY DEF PendingIsLive
  <2>1. PICK a, b \in DOMAIN nesting : a <= b /\ nesting[a] = posts[n] /\ nesting[b] = owner
    BY DEF IInv, PendingIsLive
  <2>2. owner # None
    BY DEF IInv, PendingIsLive
  <2>3. b # Len(nesting) /\ a # Len(nesting)
    BY <2>1, <1>4, InnermostIsLast DEF IInv, TypeOK
  <2> QED BY <2>1, <2>2, <2>3, <1>4
<1>9. BeforeAreOver'
  BY NamesAssumption DEF IInv, TypeOK, BeforeAreOver
<1>10. EarlierRunsSilent'
  BY DEF IInv, EarlierRunsSilent
<1> QED BY <1>2, <1>3, <1>5, <1>6, <1>7, <1>8, <1>9, <1>10 DEF IInv

LEMMA BasicStep == ASSUME IInv, AttachBasic PROVE IInv'
<1> USE DEF AttachBasic
<1>1. About(pending) \subseteq 1 .. MaxPosts
  BY AboutAccepted DEF IInv, TypeOK
<1>2. TypeOK'
  <2>1. settled' \subseteq 1 .. MaxPosts
    BY <1>1 DEF IInv, TypeOK
  <2>2. pending' \in Seq(Lines) /\ Len(pending') <= MaxPending /\ overflow' \in 0 .. MaxPosts
    BY BoundsAssumption, NothingWaits
  <2>3. cancelled' \subseteq Runs /\ owner' = None /\ printer' = None /\ basic' = TRUE
    BY DEF IInv, TypeOK
  <2> QED BY <2>1, <2>2, <2>3 DEF IInv, TypeOK
<1>3. QueueIsSound' /\ LinesAreSound'
  BY BoundsAssumption DEF IInv, TypeOK, QueueIsSound, LinesAreSound, Sound
<1>4. NestingIsSound' /\ OwnerIsUnderWay' /\ PendingIsLive'
  BY DEF IInv, NestingIsSound, OwnerIsUnderWay, PendingIsLive
<1>5. GoneAreCancelled' /\ OutdatedAreCancelled'
  BY DEF IInv, TypeOK, GoneAreCancelled, OutdatedAreCancelled
<1>6. BeforeAreOver' /\ EarlierRunsSilent'
  BY NamesAssumption DEF IInv, BeforeAreOver, EarlierRunsSilent
<1> QED BY <1>2, <1>3, <1>4, <1>5, <1>6 DEF IInv

-----------------------------------------------------------------------------
(* Posting. *)

\* The bounds within which the invariant keeps a line.
LEMMA SoundLine ==
  ASSUME IInv, NEW line \in Lines, Sound(line)
  PROVE  /\ IsFiniteSet(line.about)
         /\ Cardinality(line.about) \in Nat
         /\ Len(posts) + 1 \notin line.about
<1>1. Len(posts) \in Nat
  BY DEF IInv, TypeOK
<1>2. IsFiniteSet(1 .. Len(posts))
  BY <1>1, FS_Interval
<1>3. IsFiniteSet(line.about)
  BY <1>2, FS_Subset DEF Sound
<1>4. Len(posts) + 1 \notin line.about
  BY <1>1 DEF Sound
<1> QED BY <1>3, <1>4, FS_CardinalityType

\* One more notice in a line.
LEMMA OneMore ==
  ASSUME IInv, Len(posts) < MaxPosts, NEW line \in Lines, Sound(line)
  PROVE  LET n == Len(posts) + 1
             more == Line(line.says + 1, line.about \cup {n})
         IN  /\ more \in Lines
             /\ more.about = line.about \cup {n}
             /\ more.says = line.says + 1
             /\ more.about \subseteq 1 .. n
             /\ more.says = Cardinality(more.about)
<1> DEFINE n == Len(posts) + 1
           about == line.about \cup {n}
<1>1. Len(posts) \in Nat /\ n \in 1 .. MaxPosts
  BY BoundsAssumption DEF IInv, TypeOK
<1>2. about \subseteq 1 .. n
  BY <1>1 DEF Sound
<1>3. Cardinality(about) = line.says + 1 /\ line.says \in Nat
  BY SoundLine, FS_AddElement DEF Sound
<1>4. Cardinality(about) <= n
  <2>1. IsFiniteSet(1 .. n) /\ Cardinality(1 .. n) = n
    BY <1>1, FS_Interval
  <2> QED BY <2>1, <1>2, FS_Subset
<1>5. line.says + 1 \in 1 .. MaxPosts
  BY <1>1, <1>3, <1>4, BoundsAssumption
<1>6. about \in SUBSET (1 .. MaxPosts)
  BY <1>1, <1>2, BoundsAssumption
<1> HIDE DEF about
<1>7. Line(line.says + 1, about) \in Lines
  BY <1>5, <1>6 DEF Line, Lines
<1> QED BY <1>2, <1>3, <1>7 DEF Line, about

\* What posting does to the queue, in whatever way it finds room.
LEMMA QueueEffect ==
  ASSUME IInv, NEW poster \in Runs \cup {Startup}, Queue(poster)
  PROVE  LET n == Len(posts) + 1
         IN  /\ pending' \in Seq(Lines) /\ Len(pending') <= MaxPending
             /\ Len(pending') <= Len(pending) + 1
             /\ \A i \in DOMAIN pending' :
                  /\ pending'[i].about \subseteq 1 .. n
                  /\ pending'[i].says = Cardinality(pending'[i].about)
                  /\ \A k \in pending'[i].about :
                       k = n \/ \E j \in DOMAIN pending : k \in pending[j].about
             /\ overflow' \in 0 .. n
             /\ overflow' = 0 => \A i \in DOMAIN pending' : pending'[i].says = 1
             /\ overflow' > 0 => pending' # <<>> /\ pending'[Len(pending')].says = overflow'
<1> DEFINE n == Len(posts) + 1
           last == Len(pending)
           more == Line(pending[last].says + 1, pending[last].about \cup {n})
<1>1. /\ pending \in Seq(Lines) /\ last \in Nat /\ last <= MaxPending
      /\ Len(posts) \in Nat /\ n \in Nat /\ Len(posts) < MaxPosts
      /\ overflow \in Nat /\ overflow <= Len(posts) /\ last <= Len(posts)
  BY DEF IInv, TypeOK, QueueIsSound, Queue
<1>2. \A i \in DOMAIN pending :
        /\ pending[i] \in Lines
        /\ Sound(pending[i])
        /\ pending[i].about \subseteq 1 .. n
  BY <1>1 DEF IInv, LinesAreSound, Sound
<1> DEFINE Goal ==
             /\ pending' \in Seq(Lines) /\ Len(pending') <= MaxPending
             /\ Len(pending') <= last + 1
             /\ \A i \in DOMAIN pending' :
                  /\ pending'[i].about \subseteq 1 .. n
                  /\ pending'[i].says = Cardinality(pending'[i].about)
                  /\ \A k \in pending'[i].about :
                       k = n \/ \E j \in DOMAIN pending : k \in pending[j].about
             /\ overflow' \in 0 .. n
             /\ overflow' = 0 => \A i \in DOMAIN pending' : pending'[i].says = 1
             /\ overflow' > 0 => pending' # <<>> /\ pending'[Len(pending')].says = overflow'
<1>3. ASSUME last > 0, pending' = [pending EXCEPT ![last] = more],
             overflow' = pending[last].says + 1, overflow' <= n, overflow' > 0
      PROVE  Goal
  <2>1. last \in 1 .. Len(pending) /\ last \in DOMAIN pending
    BY <1>1, <1>3
  <2>2. /\ more \in Lines /\ more.about = pending[last].about \cup {n}
        /\ more.says = overflow' /\ more.about \subseteq 1 .. n
        /\ more.says = Cardinality(more.about)
    BY <1>1, <1>2, <1>3, <2>1, OneMore
  <2> HIDE DEF more
  <2>3. /\ pending' \in Seq(Lines) /\ Len(pending') = last
        /\ \A j \in 1 .. last : pending'[j] = IF j = last THEN more ELSE pending[j]
    BY <1>1, <1>3, <2>1, <2>2, ExceptSeq
  <2>4. DOMAIN pending' = 1 .. last /\ DOMAIN pending = 1 .. last
    BY <1>1, <2>3
  <2>5. ASSUME NEW i \in 1 .. last
        PROVE  /\ pending'[i].about \subseteq 1 .. n
               /\ pending'[i].says = Cardinality(pending'[i].about)
               /\ \A k \in pending'[i].about :
                    k = n \/ \E j \in DOMAIN pending : k \in pending[j].about
    <3>1. CASE i = last
      BY <3>1, <2>1, <2>2, <2>3
    <3>2. CASE i # last
      BY <3>2, <2>3, <2>4, <1>2 DEF Sound
    <3> QED BY <3>1, <3>2
  <2>6. overflow' \in 0 .. n
    BY <1>1, <1>2, <1>3, <2>1 DEF Lines
  <2>7. pending' # <<>> /\ pending'[Len(pending')].says = overflow'
    BY <1>1, <1>3, <2>2, <2>3
  <2>8. \A i \in DOMAIN pending' :
          /\ pending'[i].about \subseteq 1 .. n
          /\ pending'[i].says = Cardinality(pending'[i].about)
          /\ \A k \in pending'[i].about :
               k = n \/ \E j \in DOMAIN pending : k \in pending[j].about
    BY <2>4, <2>5
  <2>9. Len(pending') <= MaxPending /\ Len(pending') <= last + 1 /\ overflow' # 0
    BY <1>1, <1>3, <2>3
  <2> QED BY <2>3, <2>6, <2>7, <2>8, <2>9
<1>4. ASSUME overflow = 0, last < MaxPending, pending' = Append(pending, Line(1, {n})),
             overflow' = 0
      PROVE  Goal
  <2> DEFINE line == Line(1, {n})
  <2>1. line \in Lines /\ line.about = {n} /\ line.says = 1 /\ Cardinality({n}) = 1
    <3>1. Cardinality({n}) = 1
      BY FS_Singleton
    <3>2. n \in 1 .. MaxPosts /\ 1 \in 1 .. MaxPosts
      BY <1>1, BoundsAssumption
    <3>3. line.about = {n} /\ line.says = 1
      BY DEF Line
    <3>4. line \in Lines
      BY <3>2 DEF Line, Lines
    <3> QED BY <3>1, <3>3, <3>4
  <2> HIDE DEF line
  <2>2. /\ pending' \in Seq(Lines) /\ Len(pending') = last + 1
        /\ \A j \in 1 .. last : pending'[j] = pending[j]
        /\ pending'[last + 1] = line
    BY <1>1, <1>4, <2>1, AppendProperties DEF line
  <2>3. DOMAIN pending' = 1 .. last + 1 /\ DOMAIN pending = 1 .. last
    BY <1>1, <2>2
  <2>4. ASSUME NEW i \in 1 .. last + 1
        PROVE  /\ pending'[i].about \subseteq 1 .. n
               /\ pending'[i].says = Cardinality(pending'[i].about)
               /\ pending'[i].says = 1
               /\ \A k \in pending'[i].about :
                    k = n \/ \E j \in DOMAIN pending : k \in pending[j].about
    <3>1. CASE i = last + 1
      <4>1. pending'[i] = line
        BY <3>1, <2>2
      <4>2. {n} \subseteq 1 .. n
        BY <1>1
      <4> QED BY <4>1, <4>2, <2>1
    <3>2. CASE i \in 1 .. last
      BY <3>2, <1>2, <1>4, <2>2, <2>3 DEF IInv, QueueIsSound, Sound
    <3> QED BY <3>1, <3>2, <1>1
  <2>5. \A i \in DOMAIN pending' :
          /\ pending'[i].about \subseteq 1 .. n
          /\ pending'[i].says = Cardinality(pending'[i].about)
          /\ \A k \in pending'[i].about :
               k = n \/ \E j \in DOMAIN pending : k \in pending[j].about
    BY <2>3, <2>4
  <2>6. Len(pending') <= MaxPending /\ Len(pending') <= last + 1
    BY <1>1, <1>4, <2>2, BoundsAssumption
  <2>7. overflow' \in 0 .. n /\ \A i \in DOMAIN pending' : pending'[i].says = 1
    <3>1. overflow' \in 0 .. n
      BY <1>1, <1>4
    <3> QED BY <3>1, <2>3, <2>4
  <2>8. ~ (overflow' > 0)
    BY <1>4
  <2> QED BY <2>2, <2>5, <2>6, <2>7, <2>8
<1>5. overflow > 0 => last > 0 /\ pending[last].says = overflow
  BY <1>1, EmptySeq DEF IInv, QueueIsSound
<1>6. overflow = 0 /\ last >= MaxPending => last > 0 /\ pending[last].says = 1 /\ Len(posts) > 0
  BY <1>1, BoundsAssumption DEF IInv, QueueIsSound
<1>7. Goal
  <2>1. CASE overflow > 0
    BY <2>1, <1>1, <1>3, <1>5 DEF Queue
  <2>2. CASE overflow = 0 /\ last < MaxPending
    BY <2>2, <1>1, <1>4, BoundsAssumption DEF Queue
  <2>3. CASE overflow = 0 /\ last >= MaxPending
    BY <2>3, <1>1, <1>3, <1>6, BoundsAssumption DEF Queue
  <2> QED BY <2>1, <2>2, <2>3, <1>1, BoundsAssumption
<1> QED BY <1>7

\* Posting needs a session that is current, or none.
LEMMA QueueStep ==
  ASSUME IInv, NEW poster \in Runs \cup {Startup}, Queue(poster),
         poster # Startup => owner = poster
  PROVE  IInv'
<1> DEFINE n == Len(posts) + 1
<1>1. /\ posts \in Seq(Runs \cup {Startup}) /\ Len(posts) \in Nat /\ n \in Nat
      /\ Len(posts) < MaxPosts /\ n <= MaxPosts
  BY BoundsAssumption DEF IInv, TypeOK, Queue
<1>2. /\ posts' \in Seq(Runs \cup {Startup}) /\ Len(posts') = n
      /\ posts'[n] = poster
      /\ \A k \in 1 .. Len(posts) : posts'[k] = posts[k]
  BY <1>1, AppendProperties DEF Queue
<1>3. UNCHANGED <<owner, printer, basic, cancelled, state, nesting, channel, settled, before>>
  BY DEF Queue
<1>4. TypeOK'
  <2>1. overflow' \in 0 .. MaxPosts
    BY <1>1, QueueEffect, BoundsAssumption
  <2> QED BY <2>1, <1>2, <1>3, QueueEffect DEF IInv, TypeOK
<1>5. QueueIsSound'
  <2>1. Len(pending') <= Len(posts') /\ Len(posts') <= MaxPosts /\ overflow' <= Len(posts')
    BY <1>1, <1>2, QueueEffect DEF IInv, TypeOK, QueueIsSound
  <2> QED BY <2>1, QueueEffect DEF QueueIsSound
<1>6. LinesAreSound'
  <2>1. \A i \in DOMAIN pending' : Sound(pending[i])'
    BY <1>2, QueueEffect DEF Sound
  <2>2. ASSUME NEW r \in Runs, NEW i \in DOMAIN channel[r] PROVE Sound(channel[r][i])'
    BY <1>1, <1>2, <1>3 DEF IInv, LinesAreSound, Sound
  <2> QED BY <2>1, <2>2, <1>3 DEF LinesAreSound
<1>7. NestingIsSound' /\ GoneAreCancelled' /\ OutdatedAreCancelled' /\ OwnerIsUnderWay' /\ BeforeAreOver'
  BY <1>3 DEF IInv, NestingIsSound, GoneAreCancelled, OutdatedAreCancelled, OwnerIsUnderWay,
              BeforeAreOver
<1>8. PendingIsLive'
  <2> SUFFICES ASSUME NEW i \in DOMAIN pending', NEW k \in pending'[i].about,
                      posts'[k] # Startup
               PROVE  /\ owner # None
                      /\ \E a, b \in DOMAIN nesting :
                           a <= b /\ nesting[a] = posts'[k] /\ nesting[b] = owner
    BY <1>3 DEF PendingIsLive
  <2>1. CASE k = n
    <3>1. owner = poster /\ posts'[k] = poster /\ owner # None
      BY <2>1, <1>2, NamesAssumption
    <3>2. PICK a \in DOMAIN nesting : nesting[a] = owner
      BY <3>1 DEF IInv, OwnerIsUnderWay
    <3>3. a <= a
      BY <3>2 DEF IInv, TypeOK
    <3> QED BY <3>1, <3>2, <3>3
  <2>2. CASE k # n
    <3>1. PICK j \in DOMAIN pending : k \in pending[j].about
      BY <2>2, QueueEffect
    <3>2. k \in 1 .. Len(posts)
      BY <3>1 DEF IInv, LinesAreSound, Sound
    <3> QED BY <3>1, <3>2, <1>2 DEF IInv, PendingIsLive
  <2> QED BY <2>1, <2>2
<1>9. EarlierRunsSilent'
  BY <1>2, <1>3 DEF IInv, LinesAreSound, Sound, EarlierRunsSilent
<1> QED BY <1>4, <1>5, <1>6, <1>7, <1>8, <1>9 DEF IInv

-----------------------------------------------------------------------------
(* Printing. *)

\* The first k lines of the queue have been sent.
Sent(k) ==
  LET held == Len(channel[printer])
  IN  /\ Len(channel'[printer]) = held + k
      /\ \A i \in 1 .. held : channel'[printer][i] = channel[printer][i]
      /\ \A i \in held + 1 .. held + k : channel'[printer][i] = pending[i - held]
      /\ Len(pending') = Len(pending) - k
      /\ \A i \in 1 .. Len(pending) - k : pending'[i] = pending[k + i]

\* What a flush does: lines leave the front of the queue, in order, and are
\* behind those the printer has.
LEMMA FlushEffect ==
  ASSUME IInv, NEW r \in Runs, Flush(r)
  PROVE  /\ printer \in Runs
         /\ channel' \in [Runs -> Seq(Lines)]
         /\ \A x \in Runs : Len(channel'[x]) <= Capacity
         /\ \A x \in Runs : \A i \in DOMAIN channel'[x] :
              \/ \E j \in DOMAIN channel[x] : channel'[x][i] = channel[x][j]
              \/ x = printer /\ \E j \in DOMAIN pending : channel'[x][i] = pending[j]
         /\ \A x \in Runs \ {printer} : channel'[x] = channel[x]
         /\ pending' \in Seq(Lines) /\ Len(pending') <= Len(pending)
         /\ \A i \in DOMAIN pending' : \E j \in DOMAIN pending : pending'[i] = pending[j]
         /\ overflow' = 0 => overflow = 0 \/ pending' = <<>>
         /\ overflow' # 0 => /\ overflow' = overflow
                             /\ pending' # <<>>
                             /\ pending'[Len(pending')] = pending[Len(pending)]
         /\ \E k \in 0 .. Len(pending) : Sent(k)
<1> DEFINE c     == channel[printer]
           sent  == SubSeq(pending, 1, Fitting)
           all   == Len(pending)
<1>1. /\ printer \in Runs /\ pending \in Seq(Lines) /\ c \in Seq(Lines)
      /\ Len(c) <= Capacity /\ Len(c) \in Nat /\ all \in Nat /\ all > 0
  BY EmptySeq DEF IInv, TypeOK, Flush, Send
<1>2. Fitting \in 0 .. all /\ Len(c) + Fitting <= Capacity
  <2>1. Fitting = IF all <= Capacity - Len(c) THEN all ELSE Capacity - Len(c)
    BY DEF Fitting, Room
  <2> DEFINE held == Len(c)
             taken == Fitting
  <2>2. /\ held \in Nat /\ all \in Nat /\ Capacity \in Nat /\ held <= Capacity
        /\ taken = IF all <= Capacity - held THEN all ELSE Capacity - held
    BY <1>1, <2>1, BoundsAssumption
  <2> HIDE DEF held, taken, all
  <2>3. taken \in 0 .. all /\ held + taken <= Capacity
    BY <2>2
  <2> QED BY <2>3 DEF held, taken
<1>3. /\ sent \in Seq(Lines) /\ Len(sent) = Fitting
      /\ \A i \in DOMAIN sent : sent[i] = pending[i] /\ i \in DOMAIN pending
  <2>1. 1 \in 1 .. all + 1
    BY <1>1
  <2>2. /\ sent \in Seq(Lines)
        /\ Len(sent) = IF 1 <= Fitting THEN Fitting - 1 + 1 ELSE 0
        /\ \A i \in DOMAIN sent : sent[i] = pending[1 + i - 1] /\ 1 + i - 1 \in DOMAIN pending
    BY <1>1, <1>2, <2>1, PartProperties
  <2> HIDE DEF sent
  <2>3. \A i \in DOMAIN sent : 1 + i - 1 = i
    BY <2>2
  <2> QED BY <1>2, <2>2, <2>3
<1>4. channel' = [channel EXCEPT ![printer] = c \o sent]
  BY DEF Flush, Send
<1>5. /\ c \o sent \in Seq(Lines) /\ Len(c \o sent) = Len(c) + Fitting
      /\ \A i \in 1 .. Len(c) + Fitting :
           (c \o sent)[i] = IF i <= Len(c) THEN c[i] ELSE sent[i - Len(c)]
  <2> HIDE DEF sent, c
  <2> QED BY <1>1, <1>3, ConcatProperties
<1>6. \A i \in DOMAIN (c \o sent) :
        \/ \E j \in DOMAIN c : (c \o sent)[i] = c[j]
        \/ \E j \in DOMAIN pending : (c \o sent)[i] = pending[j]
  <2> DEFINE both == c \o sent
  <2> HIDE DEF c, sent
  <2> SUFFICES ASSUME NEW i \in DOMAIN both
               PROVE  \/ \E j \in DOMAIN c : both[i] = c[j]
                      \/ \E j \in DOMAIN pending : both[i] = pending[j]
    OBVIOUS
  <2>1. i \in 1 .. Len(c) + Fitting
    BY <1>5
  <2>2. CASE i <= Len(c)
    BY <2>1, <2>2, <1>1, <1>5
  <2>3. CASE i > Len(c)
    <3>1. i - Len(c) \in DOMAIN sent
      BY <2>1, <2>3, <1>1, <1>2, <1>3
    <3> QED BY <3>1, <2>1, <2>3, <1>1, <1>3, <1>5
  <2> QED BY <2>1, <2>2, <2>3, <1>1
<1>7. /\ channel' \in [Runs -> Seq(Lines)]
      /\ channel'[printer] = c \o sent
      /\ \A x \in Runs \ {printer} : channel'[x] = channel[x]
  <2> DEFINE both == c \o sent
  <2>1. channel \in [Runs -> Seq(Lines)] /\ both \in Seq(Lines)
    BY <1>5 DEF IInv, TypeOK
  <2> HIDE DEF both
  <2>2. channel' = [channel EXCEPT ![printer] = both]
    BY <1>4 DEF both
  <2>3. channel' \in [Runs -> Seq(Lines)] /\ channel'[printer] = both
        /\ \A x \in Runs \ {printer} : channel'[x] = channel[x]
    BY <1>1, <2>1, <2>2
  <2> QED BY <2>3 DEF both
<1>8. /\ pending' \in Seq(Lines) /\ Len(pending') = all - Fitting
      /\ \A i \in DOMAIN pending' : pending'[i] = pending[Fitting + i] /\ Fitting + i \in DOMAIN pending
  <2> DEFINE rest == SubSeq(pending, Fitting + 1, all)
  <2>1. Fitting + 1 \in 1 .. all + 1 /\ all \in 0 .. all
    BY <1>1, <1>2
  <2>2. /\ rest \in Seq(Lines)
        /\ Len(rest) = IF Fitting + 1 <= all THEN all - (Fitting + 1) + 1 ELSE 0
        /\ \A i \in DOMAIN rest : /\ rest[i] = pending[Fitting + 1 + i - 1]
                                  /\ Fitting + 1 + i - 1 \in DOMAIN pending
    BY <1>1, <2>1, PartProperties
  <2>3. pending' = rest
    BY DEF Flush
  <2> HIDE DEF rest
  <2>4. Len(rest) = all - Fitting
    BY <1>1, <1>2, <2>2
  <2>5. \A i \in DOMAIN rest : Fitting + 1 + i - 1 = Fitting + i
    BY <1>2, <2>2
  <2> QED BY <2>2, <2>3, <2>4, <2>5
<1>9. \A x \in Runs : Len(channel'[x]) <= Capacity
  <2>1. Len(channel'[printer]) <= Capacity
    BY <1>2, <1>5, <1>7
  <2> QED BY <2>1, <1>7 DEF IInv, TypeOK
<1>10. \A x \in Runs : \A i \in DOMAIN channel'[x] :
          \/ \E j \in DOMAIN channel[x] : channel'[x][i] = channel[x][j]
          \/ x = printer /\ \E j \in DOMAIN pending : channel'[x][i] = pending[j]
  <2> DEFINE both == c \o sent
  <2>1. /\ channel'[printer] = both
        /\ \A i \in DOMAIN both : \/ \E j \in DOMAIN channel[printer] : both[i] = channel[printer][j]
                                 \/ \E j \in DOMAIN pending : both[i] = pending[j]
    BY <1>6, <1>7
  <2> HIDE DEF both
  <2> TAKE x \in Runs
  <2>2. CASE x = printer
    BY <2>1, <2>2
  <2>3. CASE x # printer
    BY <2>3, <1>7
  <2> QED BY <2>2, <2>3
<1>11. overflow' = 0 => overflow = 0 \/ pending' = <<>>
  BY <1>1, <1>2, <1>8, EmptySeq DEF Flush
<1>12. ASSUME overflow' # 0
       PROVE  /\ overflow' = overflow
              /\ pending' # <<>>
              /\ pending'[Len(pending')] = pending[all]
  <2>1. overflow' = overflow /\ Fitting # all
    BY <1>12 DEF Flush
  <2>2. Len(pending') > 0 /\ Fitting + Len(pending') = all /\ Len(pending') \in DOMAIN pending'
    BY <2>1, <1>1, <1>2, <1>8
  <2> QED BY <2>1, <2>2, <1>8, EmptySeq
<1>13. Len(pending') <= all
  BY <1>1, <1>2, <1>8
<1>14. Sent(Fitting)
  <2> DEFINE both == c \o sent
  <2>1. channel'[printer] = both /\ Len(both) = Len(c) + Fitting
    BY <1>5, <1>7
  <2>2. \A i \in 1 .. Len(c) : both[i] = c[i]
    <3> HIDE DEF c, sent
    <3> QED BY <1>1, <1>2, <1>5
  <2>3. \A i \in Len(c) + 1 .. Len(c) + Fitting : both[i] = pending[i - Len(c)]
    <3> HIDE DEF c, sent
    <3> TAKE i \in Len(c) + 1 .. Len(c) + Fitting
    <3>1. i - Len(c) \in DOMAIN sent /\ i \in 1 .. Len(c) + Fitting /\ ~(i <= Len(c))
      BY <1>1, <1>2, <1>3
    <3> QED BY <1>3, <1>5, <3>1
  <2>4. \A i \in 1 .. Len(pending) - Fitting : pending'[i] = pending[Fitting + i]
    BY <1>8
  <2> HIDE DEF both
  <2> QED BY <1>8, <2>1, <2>2, <2>3, <2>4 DEF Sent
<1> HIDE DEF c, sent
<1> QED BY <1>1, <1>2, <1>7, <1>8, <1>9, <1>10, <1>11, <1>12, <1>13, <1>14

LEMMA FlushStep == ASSUME IInv, NEW r \in Runs, Flush(r) PROVE IInv'
<1>1. UNCHANGED <<owner, printer, basic, cancelled, state, nesting, posts, settled, before>>
  BY DEF Flush, Send
<1>2. TypeOK'
  <2>1. overflow' \in 0 .. MaxPosts
    BY BoundsAssumption DEF IInv, TypeOK, Flush
  <2>2. Len(pending') <= MaxPending
    <3>1. /\ Len(pending) \in Nat /\ Len(pending) <= MaxPending /\ MaxPending \in Nat
      BY BoundsAssumption DEF IInv, TypeOK
    <3>2. pending' \in Seq(Lines) /\ Len(pending') <= Len(pending)
      BY FlushEffect
    <3>3. Len(pending') \in Nat
      BY <3>2
    <3> QED BY <3>1, <3>2, <3>3
  <2>3. pending' \in Seq(Lines) /\ channel' \in [Runs -> Seq(Lines)]
        /\ \A x \in Runs : Len(channel'[x]) <= Capacity
    BY FlushEffect
  <2> QED BY <2>1, <2>2, <2>3, <1>1 DEF IInv, TypeOK
<1>3. QueueIsSound'
  <2>1. Len(pending') <= Len(posts')
    <3>1. Len(pending) \in Nat /\ Len(posts) \in Nat /\ Len(pending) <= Len(posts)
      BY DEF IInv, TypeOK, QueueIsSound
    <3>2. pending' \in Seq(Lines) /\ Len(pending') <= Len(pending)
      BY FlushEffect
    <3>3. Len(pending') \in Nat
      BY <3>2
    <3> QED BY <3>1, <3>2, <3>3, <1>1
  <2>2. Len(posts') <= MaxPosts /\ overflow' <= Len(posts')
    BY <1>1 DEF IInv, TypeOK, QueueIsSound, Flush
  <2>3. overflow' = 0 => \A i \in DOMAIN pending' : pending'[i].says = 1
    <3>1. CASE overflow = 0
      BY <3>1, FlushEffect DEF IInv, QueueIsSound
    <3>2. CASE pending' = <<>>
      BY <3>2
    <3> QED BY <3>1, <3>2, FlushEffect
  <2>4. overflow' > 0 => pending' # <<>> /\ pending'[Len(pending')].says = overflow'
    <3> SUFFICES ASSUME overflow' > 0
                 PROVE  pending' # <<>> /\ pending'[Len(pending')].says = overflow'
      OBVIOUS
    <3>1. overflow' # 0
      BY <1>2 DEF TypeOK
    <3>2. /\ overflow' = overflow /\ pending' # <<>>
          /\ pending'[Len(pending')] = pending[Len(pending)]
      BY <3>1, FlushEffect
    <3> QED BY <3>2 DEF IInv, QueueIsSound
  <2> QED BY <2>1, <2>2, <2>3, <2>4 DEF QueueIsSound
<1>4. LinesAreSound'
  <2>1. \A i \in DOMAIN pending' : Sound(pending[i])'
    BY <1>1, FlushEffect DEF IInv, LinesAreSound, Sound
  <2>2. ASSUME NEW x \in Runs, NEW i \in DOMAIN channel'[x] PROVE Sound(channel[x][i])'
    BY <1>1, FlushEffect DEF IInv, LinesAreSound, Sound
  <2> QED BY <2>1, <2>2 DEF LinesAreSound
<1>5. NestingIsSound' /\ GoneAreCancelled' /\ OutdatedAreCancelled' /\ OwnerIsUnderWay'
  BY <1>1 DEF IInv, NestingIsSound, GoneAreCancelled, OutdatedAreCancelled, OwnerIsUnderWay
<1>6. PendingIsLive'
  <2> SUFFICES ASSUME NEW i \in DOMAIN pending', NEW n \in pending'[i].about, posts[n] # Startup
               PROVE  /\ owner # None
                      /\ \E a, b \in DOMAIN nesting :
                           a <= b /\ nesting[a] = posts[n] /\ nesting[b] = owner
    BY <1>1 DEF PendingIsLive
  <2>1. PICK j \in DOMAIN pending : pending'[i] = pending[j]
    BY FlushEffect
  <2> QED BY <2>1 DEF IInv, PendingIsLive
<1>7. BeforeAreOver'
  <2>1. state[printer] # "unborn" /\ printer \in Runs
    BY FlushEffect DEF IInv, BeforeAreOver
  <2>2. ASSUME NEW x \in Runs, state[x] = "unborn" PROVE channel'[x] = <<>> /\ printer # x
    BY <2>1, <2>2, FlushEffect DEF IInv, BeforeAreOver
  <2> QED BY <2>2, <1>1 DEF IInv, BeforeAreOver
<1>8. EarlierRunsSilent'
  <2> SUFFICES ASSUME NEW x \in Runs, NEW i \in DOMAIN channel'[x],
                      NEW n \in channel'[x][i].about
               PROVE  posts[n] \notin before[x]
    BY <1>1 DEF EarlierRunsSilent
  <2>1. ASSUME NEW j \in DOMAIN channel[x], channel'[x][i] = channel[x][j]
        PROVE  posts[n] \notin before[x]
    BY <2>1 DEF IInv, EarlierRunsSilent
  <2>2. ASSUME NEW j \in DOMAIN pending, channel'[x][i] = pending[j]
        PROVE  posts[n] \notin before[x]
    <3>1. CASE posts[n] = Startup
      BY <3>1, NamesAssumption DEF IInv, TypeOK
    <3>2. CASE posts[n] # Startup
      <4>1. PICK a \in DOMAIN nesting : nesting[a] = posts[n]
        BY <2>2, <3>2 DEF IInv, PendingIsLive
      <4>2. state[posts[n]] # "over"
        BY <4>1 DEF IInv, NestingIsSound
      <4> QED BY <4>2 DEF IInv, BeforeAreOver
    <3> QED BY <3>1, <3>2
  <2> QED BY <2>1, <2>2, FlushEffect
<1> QED BY <1>2, <1>3, <1>4, <1>5, <1>6, <1>7, <1>8 DEF IInv

LEMMA ShowStep == ASSUME IInv, NEW r \in Runs, Show(r) PROVE IInv'
<1> DEFINE c    == channel[r]
           rest == Tail(c)
<1>1. /\ c \in Seq(Lines) /\ c # <<>> /\ Len(c) \in Nat /\ Len(c) <= Capacity
      /\ channel \in [Runs -> Seq(Lines)]
  BY DEF IInv, TypeOK, Show
<1>2. UNCHANGED <<owner, printer, basic, cancelled, state, nesting, before, pending, overflow, posts>>
  BY DEF Show, queueVars
<1>3. /\ rest \in Seq(Lines) /\ Len(rest) = Len(c) - 1
      /\ \A i \in DOMAIN rest : i + 1 \in DOMAIN c /\ rest[i] = c[i + 1]
  <2> HIDE DEF c
  <2> QED BY <1>1
<1>4. channel' = [channel EXCEPT ![r] = rest]
  BY DEF Show
<1> HIDE DEF rest
<1>5. /\ channel' \in [Runs -> Seq(Lines)] /\ channel'[r] = rest
      /\ \A x \in Runs \ {r} : channel'[x] = channel[x]
  BY <1>1, <1>3, <1>4
<1>6. ASSUME NEW x \in Runs, NEW i \in DOMAIN channel'[x]
      PROVE  \E j \in DOMAIN channel[x] : channel'[x][i] = channel[x][j]
  BY <1>3, <1>5
<1>7. TypeOK'
  <2>1. settled' \subseteq 1 .. MaxPosts
    <3>1. Head(c) = c[1] /\ 1 \in DOMAIN c
      BY <1>1, EmptySeq
    <3>2. Head(c).about \subseteq About(c)
      BY <3>1 DEF About
    <3>3. About(c) \subseteq 1 .. MaxPosts
      BY <1>1, AboutAccepted
    <3> QED BY <3>2, <3>3 DEF IInv, TypeOK, Show
  <2>2. \A x \in Runs : Len(channel'[x]) <= Capacity
    <3>1. Len(channel'[r]) <= Capacity
      BY <1>1, <1>3, <1>5, BoundsAssumption
    <3> QED BY <3>1, <1>5 DEF IInv, TypeOK
  <2> QED BY <2>1, <2>2, <1>2, <1>5 DEF IInv, TypeOK
<1>8. QueueIsSound' /\ NestingIsSound' /\ GoneAreCancelled' /\ OutdatedAreCancelled'
      /\ OwnerIsUnderWay' /\ PendingIsLive'
  BY <1>2 DEF IInv, QueueIsSound, NestingIsSound, GoneAreCancelled, OutdatedAreCancelled,
              OwnerIsUnderWay, PendingIsLive
<1>9. LinesAreSound'
  <2>1. ASSUME NEW x \in Runs, NEW i \in DOMAIN channel'[x] PROVE Sound(channel[x][i])'
    BY <1>2, <1>6 DEF IInv, LinesAreSound, Sound
  <2>2. \A i \in DOMAIN pending' : Sound(pending[i])'
    BY <1>2 DEF IInv, LinesAreSound, Sound
  <2> QED BY <2>1, <2>2 DEF LinesAreSound
<1>10. BeforeAreOver'
  <2>1. state[r] # "unborn"
    BY DEF Show
  <2> QED BY <2>1, <1>2, <1>5 DEF IInv, BeforeAreOver
<1>11. EarlierRunsSilent'
  <2> SUFFICES ASSUME NEW x \in Runs, NEW i \in DOMAIN channel'[x],
                      NEW n \in channel'[x][i].about
               PROVE  posts[n] \notin before[x]
    BY <1>2 DEF EarlierRunsSilent
  <2>1. PICK j \in DOMAIN channel[x] : channel'[x][i] = channel[x][j]
    BY <1>6
  <2> QED BY <2>1 DEF IInv, EarlierRunsSilent
<1> QED BY <1>7, <1>8, <1>9, <1>10, <1>11 DEF IInv

-----------------------------------------------------------------------------
(* The theorems. *)

LEMMA StepInv == IInv /\ [Next]_vars => IInv'
<1> SUFFICES ASSUME IInv, [Next]_vars PROVE IInv'
  OBVIOUS
<1>1. ASSUME NEW r \in Runs,
             New(r) \/ Attach(r) \/ Leave(r) \/ Cleanup(r) \/ Flush(r) \/ Show(r)
      PROVE  IInv'
  BY <1>1, NewStep, AttachStep, LeaveStep, CleanupStep, FlushStep, ShowStep
<1>2. ASSUME NEW r \in Runs, Post(r) PROVE IInv'
  BY <1>2, QueueStep DEF Post
<1>3. CASE AttachBasic
  BY <1>3, BasicStep
<1>4. CASE PostStartup
  BY <1>4, QueueStep DEF PostStartup
<1>5. CASE UNCHANGED vars
  BY <1>5 DEF vars, IInv, TypeOK, QueueIsSound, LinesAreSound, Sound, NestingIsSound,
              GoneAreCancelled, OutdatedAreCancelled, OwnerIsUnderWay, PendingIsLive,
              BeforeAreOver, EarlierRunsSilent
<1> QED BY <1>1, <1>2, <1>3, <1>4, <1>5 DEF Next

LEMMA Invariance == Spec => []IInv
BY InitInv, StepInv, PTL DEF Spec

-----------------------------------------------------------------------------
(* Where every notice is. *)

\* A step that moves no notice.
LEMMA NothingMoved ==
  ASSUME KInv, IInv', NotYetPrinting', UNCHANGED <<pending, channel, settled, posts>>,
         \/ printer' \in {printer, None}
         \/ printer' \in Runs /\ channel[printer'] = <<>>
  PROVE  KInv'
<1>1. Accounted' /\ Once'
  BY DEF KInv, Accounted, Once
<1>2. InOrder'
  <2>1. CASE printer' \in {printer, None}
    BY <2>1 DEF KInv, InOrder, Before
  <2>2. CASE printer' \in Runs /\ channel[printer'] = <<>>
    <3>1. DOMAIN channel'[printer'] = {}
      BY <2>2, EmptySeq
    <3> QED BY <3>1 DEF KInv, InOrder, Before
  <2> QED BY <2>1, <2>2
<1> QED BY <1>1, <1>2 DEF KInv

\* What waits is given up, with the printer.
LEMMA QueueGivenUp ==
  ASSUME KInv, IInv', pending' = <<>>, printer' = None, settled' = settled \cup About(pending),
         UNCHANGED <<channel, posts>>, \A r \in Runs : state'[r] \in {state[r], "over"}
  PROVE  KInv'
<1>1. DOMAIN pending' = {}
  BY EmptySeq
<1>2. \A n \in About(pending) : \E i \in DOMAIN pending : n \in pending[i].about
  BY DEF About
<1>3. Accounted'
  <2> SUFFICES ASSUME NEW n \in 1 .. Len(posts), n \notin settled'
               PROVE  \E r \in Runs : \E i \in DOMAIN channel[r] : n \in channel[r][i].about
    BY DEF Accounted
  <2>1. \A i \in DOMAIN pending : n \notin pending[i].about
    BY DEF About
  <2> QED BY <2>1 DEF KInv, Accounted
<1>4. Once'
  <2>1. settled' \subseteq 1 .. Len(posts')
    BY <1>2 DEF KInv, Once, IInv, LinesAreSound, Sound
  <2> QED BY <1>1, <1>2, <2>1 DEF KInv, Once
<1>5. InOrder' /\ NotYetPrinting'
  <2>1. None \notin Runs
    BY NamesAssumption
  <2> QED BY <1>1, <2>1 DEF KInv, InOrder, NotYetPrinting
<1> QED BY <1>3, <1>4, <1>5 DEF KInv

LEMMA RunsKeep ==
  ASSUME KInv, IInv', NEW r \in Runs, New(r) \/ Attach(r) \/ Cleanup(r)
  PROVE  KInv'
<1>1. state \in [Runs -> {"unborn", "starting", "editing", "leaving", "over"}]
      /\ None \notin Runs
  BY NamesAssumption DEF KInv, IInv, TypeOK
<1>2. CASE New(r)
  <2>1. NotYetPrinting'
    BY <1>1, <1>2 DEF New, KInv, NotYetPrinting
  <2> QED BY <1>2, <2>1, NothingMoved DEF New, queueVars
<1>3. CASE Attach(r)
  <2>1. channel[r] = <<>> /\ state[r] = "starting"
    BY <1>3 DEF Attach, KInv, NotYetPrinting
  <2>2. NotYetPrinting'
    BY <1>1, <1>3 DEF Attach, KInv, NotYetPrinting
  <2>3. printer' = r /\ UNCHANGED <<pending, channel, settled, posts>>
    BY <1>3 DEF Attach, queueVars
  <2> QED BY <2>1, <2>2, <2>3, NothingMoved
<1>4. CASE Cleanup(r)
  <2>1. /\ UNCHANGED <<channel, posts>> /\ state' = [state EXCEPT ![r] = "over"]
        /\ \A x \in Runs : state'[x] \in {state[x], "over"}
    BY <1>1, <1>4 DEF Cleanup, End
  <2>2. CASE owner # r
    <3>1. UNCHANGED <<printer, pending, settled>>
      BY <1>4, <2>2 DEF Cleanup
    <3>2. NotYetPrinting'
      BY <2>1, <3>1 DEF KInv, NotYetPrinting
    <3> QED BY <2>1, <3>1, <3>2, NothingMoved
  <2>3. CASE owner = r
    BY <1>4, <2>1, <2>3, QueueGivenUp DEF Cleanup
  <2> QED BY <2>2, <2>3
<1> QED BY <1>2, <1>3, <1>4

\* What an editor has not printed when it ends is given up.
LEMMA LeaveKeeps == ASSUME KInv, IInv', NEW r \in Runs, Leave(r) PROVE KInv'
<1>1. /\ channel \in [Runs -> Seq(Lines)]
      /\ state \in [Runs -> {"unborn", "starting", "editing", "leaving", "over"}]
  BY DEF KInv, IInv, TypeOK
<1>2. /\ channel' = [channel EXCEPT ![r] = <<>>] /\ settled' = settled \cup About(channel[r])
      /\ state' = [state EXCEPT ![r] = "leaving"] /\ UNCHANGED <<printer, pending, posts>>
  BY DEF Leave, queueVars
<1>3. channel'[r] = <<>> /\ \A x \in Runs : x # r => channel'[x] = channel[x]
  BY <1>1, <1>2
<1>4. DOMAIN channel'[r] = {}
  BY <1>3, EmptySeq
<1>5. \A n : n \in About(channel[r]) <=> \E i \in DOMAIN channel[r] : n \in channel[r][i].about
  BY DEF About
<1>6. Accounted'
  BY <1>2, <1>3, <1>5 DEF KInv, Accounted
<1>7. Once'
  <2>1. settled' \subseteq 1 .. Len(posts')
    BY <1>2, <1>5 DEF KInv, Once, IInv, LinesAreSound, Sound
  <2>2. \A i \in DOMAIN pending' : \A n \in pending'[i].about :
          n \notin settled' /\ \A j \in DOMAIN pending' : n \in pending'[j].about => i = j
    BY <1>2, <1>5 DEF KInv, Once
  <2>3. ASSUME NEW x \in Runs, NEW i \in DOMAIN channel'[x], NEW n \in channel'[x][i].about
        PROVE  /\ n \notin settled'
               /\ \A j \in DOMAIN pending' : n \notin pending'[j].about
               /\ \A y \in Runs : \A j \in DOMAIN channel'[y] :
                    n \in channel'[y][j].about => x = y /\ i = j
    <3>1. x # r
      BY <1>4, <2>3
    <3>2. channel'[x] = channel[x]
      BY <1>3, <3>1
    <3>3. n \notin settled /\ n \notin About(channel[r])
      BY <1>5, <2>3, <3>1, <3>2 DEF KInv, Once
    <3>4. \A j \in DOMAIN pending' : n \notin pending'[j].about
      BY <1>2, <2>3, <3>2 DEF KInv, Once
    <3>5. \A y \in Runs : \A j \in DOMAIN channel'[y] :
            n \in channel'[y][j].about => x = y /\ i = j
      BY <1>3, <1>4, <2>3, <3>2 DEF KInv, Once
    <3> QED BY <1>2, <3>3, <3>4, <3>5
  <2> QED BY <2>1, <2>2, <2>3 DEF Once
<1>8. InOrder'
  <2>1. CASE printer = r
    BY <1>2, <1>4, <2>1 DEF KInv, InOrder, Before
  <2>2. CASE printer # r
    <3>1. printer # None => channel'[printer] = channel[printer]
      BY <1>3, <2>2 DEF KInv, IInv, TypeOK
    <3> QED BY <1>2, <3>1 DEF KInv, InOrder, Before
  <2> QED BY <2>1, <2>2
<1>9. NotYetPrinting'
  BY <1>1, <1>2, <1>3 DEF KInv, NotYetPrinting
<1> QED BY <1>6, <1>7, <1>8, <1>9 DEF KInv

\* Replacing the last element of a sequence leaves its length and the others.
LEMMA LastReplaced ==
  ASSUME NEW S, NEW seq \in Seq(S), Len(seq) > 0, NEW e
  PROVE  LET after == [seq EXCEPT ![Len(seq)] = e]
         IN  /\ DOMAIN after = 1 .. Len(seq) /\ Len(after) = Len(seq)
             /\ after[Len(seq)] = e
             /\ \A i \in 1 .. Len(seq) : i # Len(seq) => after[i] = seq[i]
<1> DEFINE T == S \cup {e}
<1>1. seq \in Seq(T) /\ e \in T /\ Len(seq) \in 1 .. Len(seq)
  OBVIOUS
<1> HIDE DEF T
<1> QED BY <1>1, ExceptSeq

\* A notice that is accepted is in the last line that waits, and nowhere else
\* in the queue; all others are where they were.
LEMMA QueuePlaces ==
  ASSUME IInv, NEW poster, Queue(poster)
  PROVE  LET n == Len(posts) + 1
         IN  /\ Len(pending') \in DOMAIN pending' /\ n \in pending'[Len(pending')].about
             /\ DOMAIN pending \subseteq DOMAIN pending'
             /\ DOMAIN pending' = 1 .. Len(pending') /\ Len(pending') \in Nat
             /\ \A i \in DOMAIN pending : \A k \in pending[i].about : k \in pending'[i].about
             /\ \A i \in DOMAIN pending' : \A k \in pending'[i].about :
                  \/ k = n /\ i = Len(pending')
                  \/ i \in DOMAIN pending /\ k \in pending[i].about
<1> DEFINE n == Len(posts) + 1
           last == Len(pending)
           Goal ==
             /\ Len(pending') \in DOMAIN pending' /\ n \in pending'[Len(pending')].about
             /\ DOMAIN pending \subseteq DOMAIN pending'
             /\ DOMAIN pending' = 1 .. Len(pending') /\ Len(pending') \in Nat
             /\ \A i \in DOMAIN pending : \A k \in pending[i].about : k \in pending'[i].about
             /\ \A i \in DOMAIN pending' : \A k \in pending'[i].about :
                  \/ k = n /\ i = Len(pending')
                  \/ i \in DOMAIN pending /\ k \in pending[i].about
<1>1. /\ pending \in Seq(Lines) /\ last \in Nat /\ DOMAIN pending = 1 .. last
      /\ overflow \in Nat
  BY DEF IInv, TypeOK
<1>2. ASSUME last > 0, NEW count,
             pending' = [pending EXCEPT ![last] = Line(count, @.about \cup {n})]
      PROVE  Goal
  <2> DEFINE more == Line(count, pending[last].about \cup {n})
  <2>1. more.about = pending[last].about \cup {n}
    BY DEF Line
  <2>2. pending' = [pending EXCEPT ![last] = more]
    BY <1>2
  <2> HIDE DEF more
  <2>3. /\ DOMAIN pending' = 1 .. last /\ Len(pending') = last /\ pending'[last] = more
        /\ \A i \in 1 .. last : i # last => pending'[i] = pending[i]
    BY <1>1, <1>2, <2>2, LastReplaced
  <2>4. last \in 1 .. last
    BY <1>1, <1>2
  <2>5. \A i \in 1 .. last : \A k \in pending[i].about : k \in pending'[i].about
    BY <2>1, <2>3
  <2>6. \A i \in 1 .. last : \A k \in pending'[i].about :
          (k = n /\ i = last) \/ k \in pending[i].about
    BY <2>1, <2>3
  <2> QED BY <1>1, <2>1, <2>3, <2>4, <2>5, <2>6
<1>3. ASSUME pending' = Append(pending, Line(1, {n})) PROVE Goal
  <2> DEFINE line == Line(1, {n})
  <2>1. line.about = {n}
    BY DEF Line
  <2>2. pending' = Append(pending, line)
    BY <1>3
  <2> HIDE DEF line
  <2>3. /\ DOMAIN pending' = 1 .. last + 1 /\ Len(pending') = last + 1
        /\ pending'[last + 1] = line
        /\ \A i \in 1 .. last : pending'[i] = pending[i]
    BY <1>1, <2>2
  <2>4. last + 1 \in 1 .. last + 1 /\ 1 .. last \subseteq 1 .. last + 1 /\ last + 1 \in Nat
        /\ \A i \in 1 .. last + 1 : i = last + 1 \/ i \in 1 .. last
    BY <1>1
  <2> QED BY <1>1, <2>1, <2>3, <2>4
<1>4. overflow > 0 => last > 0
  BY <1>1, EmptySeq DEF IInv, QueueIsSound
<1>5. last >= MaxPending => last > 0
  BY <1>1, BoundsAssumption
<1>6. Goal
  <2>1. CASE overflow > 0
    <3>1. /\ last > 0
          /\ pending' = [pending EXCEPT ![last] = Line(overflow + 1, @.about \cup {n})]
      BY <1>1, <1>4, <2>1 DEF Queue
    <3> QED BY <1>2, <3>1
  <2>2. CASE overflow = 0 /\ last >= MaxPending
    <3>1. last > 0 /\ pending' = [pending EXCEPT ![last] = Line(2, @.about \cup {n})]
      BY <1>1, <1>5, <2>2, BoundsAssumption DEF Queue
    <3> QED BY <1>2, <3>1
  <2>3. CASE overflow = 0 /\ last < MaxPending
    BY <1>1, <1>3, <2>3, BoundsAssumption DEF Queue
  <2> QED BY <1>1, <2>1, <2>2, <2>3, BoundsAssumption
<1> QED BY <1>6

LEMMA QueueKeeps ==
  ASSUME KInv, IInv', NEW poster \in Runs \cup {Startup}, Queue(poster)
  PROVE  KInv'
<1> DEFINE n == Len(posts) + 1
<1>1. /\ Len(posts) \in Nat /\ Len(posts') = n
      /\ UNCHANGED <<printer, state, channel, settled>>
  <2>1. posts \in Seq(Runs \cup {Startup})
    BY DEF KInv, IInv, TypeOK
  <2> QED BY <2>1 DEF Queue
<1>2. /\ Len(pending') \in DOMAIN pending' /\ n \in pending'[Len(pending')].about
      /\ DOMAIN pending \subseteq DOMAIN pending'
      /\ DOMAIN pending' = 1 .. Len(pending') /\ Len(pending') \in Nat
      /\ \A i \in DOMAIN pending : \A k \in pending[i].about : k \in pending'[i].about
      /\ \A i \in DOMAIN pending' : \A k \in pending'[i].about :
           \/ k = n /\ i = Len(pending')
           \/ i \in DOMAIN pending /\ k \in pending[i].about
  BY QueuePlaces DEF KInv
<1>3. /\ \A i \in DOMAIN pending : \A k \in pending[i].about : k \in 1 .. Len(posts)
      /\ \A r \in Runs : \A i \in DOMAIN channel[r] : \A k \in channel[r][i].about :
           k \in 1 .. Len(posts)
      /\ \A k \in settled : k \in 1 .. Len(posts)
  BY DEF KInv, IInv, LinesAreSound, Sound, Once
<1>4. \A k \in 1 .. Len(posts) : k < n /\ k # n /\ k \in 1 .. n
  BY <1>1
<1>5. \A k \in 1 .. n : k = n \/ k \in 1 .. Len(posts)
  BY <1>1
<1>6. Accounted'
  <2> HIDE DEF n
  <2> SUFFICES ASSUME NEW k \in 1 .. n
               PROVE  \/ k \in settled
                      \/ \E i \in DOMAIN pending' : k \in pending'[i].about
                      \/ \E r \in Runs : \E i \in DOMAIN channel[r] : k \in channel[r][i].about
    BY <1>1 DEF Accounted
  <2>1. CASE k = n
    BY <1>2, <2>1
  <2>2. CASE k \in 1 .. Len(posts)
    BY <1>2, <2>2 DEF KInv, Accounted
  <2> QED BY <1>5, <2>1, <2>2
<1>7. Once'
  <2> HIDE DEF n
  <2>1. settled' \subseteq 1 .. Len(posts')
    BY <1>1, <1>3, <1>4
  <2>2. ASSUME NEW i \in DOMAIN pending', NEW k \in pending'[i].about
        PROVE  k \notin settled /\ \A j \in DOMAIN pending' : k \in pending'[j].about => i = j
    <3>1. CASE k = n
      BY <1>2, <1>3, <1>4, <2>2, <3>1
    <3>2. CASE k # n
      BY <1>2, <2>2, <3>2 DEF KInv, Once
    <3> QED BY <3>1, <3>2
  <2>3. ASSUME NEW r \in Runs, NEW i \in DOMAIN channel[r], NEW k \in channel[r][i].about
        PROVE  /\ k \notin settled
               /\ \A j \in DOMAIN pending' : k \notin pending'[j].about
               /\ \A s \in Runs : \A j \in DOMAIN channel[s] :
                    k \in channel[s][j].about => r = s /\ i = j
    <3>1. k # n
      BY <1>3, <1>4
    <3>2. \A j \in DOMAIN pending' : k \notin pending'[j].about
      BY <1>2, <3>1 DEF KInv, Once
    <3> QED BY <3>2 DEF KInv, Once
  <2> QED BY <1>1, <2>1, <2>2, <2>3 DEF Once
<1>8. InOrder'
  <2> HIDE DEF n
  <2>1. ASSUME NEW i \in DOMAIN pending', NEW j \in DOMAIN pending', i < j
        PROVE  Before(pending'[i], pending'[j])
    <3> SUFFICES ASSUME NEW a \in pending'[i].about, NEW b \in pending'[j].about PROVE a < b
      BY DEF Before
    <3>1. i # Len(pending')
      BY <1>2, <2>1
    <3>2. i \in DOMAIN pending /\ a \in pending[i].about
      BY <1>2, <3>1
    <3>3. CASE b = n
      BY <1>3, <1>4, <3>2, <3>3
    <3>4. CASE b # n
      BY <1>2, <2>1, <3>2, <3>4 DEF KInv, InOrder, Before
    <3> QED BY <3>3, <3>4
  <2>2. ASSUME printer # None, NEW i \in DOMAIN channel[printer], NEW j \in DOMAIN pending'
        PROVE  Before(channel[printer][i], pending'[j])
    <3> SUFFICES ASSUME NEW a \in channel[printer][i].about, NEW b \in pending'[j].about
                 PROVE  a < b
      BY DEF Before
    <3>1. printer \in Runs
      BY <2>2 DEF KInv, IInv, TypeOK
    <3>2. CASE b = n
      BY <1>3, <1>4, <3>1, <3>2
    <3>3. CASE b # n
      BY <1>2, <2>2, <3>3 DEF KInv, InOrder, Before
    <3> QED BY <3>2, <3>3
  <2> QED BY <1>1, <2>1, <2>2 DEF KInv, InOrder, Before
<1>9. NotYetPrinting'
  BY <1>1 DEF KInv, NotYetPrinting
<1> QED BY <1>6, <1>7, <1>8, <1>9 DEF KInv

\* Lines move from the queue to the printer as they are, and in order.
LEMMA FlushKeeps == ASSUME KInv, IInv', NEW r \in Runs, Flush(r) PROVE KInv'
<1>1. /\ printer \in Runs /\ pending \in Seq(Lines) /\ channel \in [Runs -> Seq(Lines)]
      /\ channel' \in [Runs -> Seq(Lines)] /\ pending' \in Seq(Lines)
      /\ \A x \in Runs : x # printer => channel'[x] = channel[x]
  BY FlushEffect DEF KInv, IInv, TypeOK
<1>2. UNCHANGED <<printer, state, posts, settled>>
  BY DEF Flush, Send
<1>3. PICK k \in 0 .. Len(pending) : Sent(k)
  BY FlushEffect DEF KInv
<1> DEFINE held == Len(channel[printer])
           all == Len(pending)
<1>4. held \in Nat /\ all \in Nat /\ k \in Nat /\ k <= all
  BY <1>1, <1>3
<1>5. /\ DOMAIN channel[printer] = 1 .. held /\ DOMAIN channel'[printer] = 1 .. held + k
      /\ DOMAIN pending = 1 .. all /\ DOMAIN pending' = 1 .. all - k
      /\ \A i \in 1 .. held : channel'[printer][i] = channel[printer][i]
      /\ \A i \in held + 1 .. held + k : channel'[printer][i] = pending[i - held]
      /\ \A i \in 1 .. all - k : pending'[i] = pending[k + i]
  BY <1>1, <1>3 DEF Sent
<1> HIDE DEF held, all
<1>6. /\ \A i \in 1 .. held + k : i \in 1 .. held \/ i \in held + 1 .. held + k
      /\ \A i \in 1 .. held : i \in 1 .. held + k
      /\ \A i \in held + 1 .. held + k : i - held \in 1 .. k /\ i - held \in 1 .. all
      /\ \A i \in 1 .. k : held + i \in held + 1 .. held + k /\ held + i - held = i
                           /\ held + i \in 1 .. held + k
      /\ \A i \in 1 .. all - k : k + i \in 1 .. all
      /\ \A i \in 1 .. all : i \in 1 .. k \/ (i - k \in 1 .. all - k /\ k + (i - k) = i)
  BY <1>4
<1>7. Accounted'
  <2> SUFFICES ASSUME NEW n \in 1 .. Len(posts), n \notin settled
               PROVE  \/ \E i \in DOMAIN pending' : n \in pending'[i].about
                      \/ \E x \in Runs : \E i \in DOMAIN channel'[x] : n \in channel'[x][i].about
    BY <1>2 DEF Accounted
  <2>1. CASE \E i \in DOMAIN pending : n \in pending[i].about
    <3>1. PICK i \in 1 .. all : n \in pending[i].about
      BY <1>5, <2>1
    <3>2. CASE i \in 1 .. k
      <4> DEFINE at == held + i
      <4>1. at \in held + 1 .. held + k /\ at - held = i /\ at \in 1 .. held + k
        <5>1. i \in 1 .. k
          BY <3>2
        <5> QED BY <1>4, <5>1
      <4> HIDE DEF at
      <4>2. channel'[printer][at] = pending[i] /\ at \in DOMAIN channel'[printer]
        BY <1>5, <4>1
      <4> QED BY <1>1, <3>1, <4>2
    <3>3. CASE i \notin 1 .. k
      <4>1. pending'[i - k] = pending[i] /\ i - k \in DOMAIN pending'
        BY <1>5, <1>6, <3>3
      <4> QED BY <3>1, <4>1
    <3> QED BY <3>2, <3>3
  <2>2. CASE \E x \in Runs : \E i \in DOMAIN channel[x] : n \in channel[x][i].about
    <3>1. PICK x \in Runs : \E i \in DOMAIN channel[x] : n \in channel[x][i].about
      BY <2>2
    <3>2. PICK i \in DOMAIN channel[x] : n \in channel[x][i].about
      BY <3>1
    <3>3. i \in DOMAIN channel'[x] /\ channel'[x][i] = channel[x][i]
      <4>1. CASE x = printer
        BY <1>5, <1>6, <4>1
      <4>2. CASE x # printer
        BY <1>1, <4>2
      <4> QED BY <4>1, <4>2
    <3> QED BY <3>2, <3>3
  <2> QED BY <2>1, <2>2 DEF KInv, Accounted
\* Where a line of a channel was before.
<1>8. ASSUME NEW x \in Runs, NEW i \in DOMAIN channel'[x]
      PROVE  \/ i \in DOMAIN channel[x] /\ channel'[x][i] = channel[x][i]
             \/ /\ x = printer /\ i \in held + 1 .. held + k /\ i - held \in 1 .. k
                /\ i - held \in DOMAIN pending /\ channel'[x][i] = pending[i - held]
  <2>1. CASE x # printer
    BY <1>1, <1>8, <2>1
  <2>2. CASE x = printer
    BY <1>5, <1>6, <1>8, <2>2
  <2> QED BY <2>1, <2>2
<1>9. \A i \in DOMAIN pending' : pending'[i] = pending[k + i] /\ k + i \in DOMAIN pending
  BY <1>5, <1>6
<1>10. \A i \in DOMAIN pending', j \in 1 .. k : i \in Nat /\ j \in Nat /\ k + i # j /\ j < k + i
  BY <1>4, <1>5
<1>11. \A i, j \in DOMAIN pending' : (k + i = k + j => i = j) /\ (i < j => k + i < k + j)
  BY <1>4, <1>5
<1>12. \A i, j \in held + 1 .. held + k :
         (i - held = j - held => i = j) /\ (i < j => i - held < j - held)
  BY <1>4
<1>13. Once'
  <2>1. settled' \subseteq 1 .. Len(posts')
    BY <1>2 DEF KInv, Once
  <2>2. ASSUME NEW i \in DOMAIN pending', NEW n \in pending'[i].about
        PROVE  n \notin settled /\ \A j \in DOMAIN pending' : n \in pending'[j].about => i = j
    BY <1>9, <1>11, <2>2 DEF KInv, Once
  <2>3. ASSUME NEW x \in Runs, NEW i \in DOMAIN channel'[x], NEW n \in channel'[x][i].about
        PROVE  n \notin settled
    BY <1>8, <2>3 DEF KInv, Once
  <2>4. ASSUME NEW x \in Runs, NEW i \in DOMAIN channel'[x], NEW n \in channel'[x][i].about,
               NEW j \in DOMAIN pending', n \in pending'[j].about
        PROVE  FALSE
    <3>1. n \in pending[k + j].about /\ k + j \in DOMAIN pending
      BY <1>9, <2>4
    <3>2. CASE i \in DOMAIN channel[x] /\ channel'[x][i] = channel[x][i]
      BY <2>4, <3>1, <3>2 DEF KInv, Once
    <3>3. CASE /\ i - held \in 1 .. k /\ i - held \in DOMAIN pending
               /\ channel'[x][i] = pending[i - held]
      <4>1. k + j = i - held
        BY <2>4, <3>1, <3>3 DEF KInv, Once
      <4> QED BY <1>10, <3>3, <4>1
    <3> QED BY <1>8, <3>2, <3>3
  <2>5. ASSUME NEW x \in Runs, NEW i \in DOMAIN channel'[x], NEW n \in channel'[x][i].about,
               NEW y \in Runs, NEW j \in DOMAIN channel'[y], n \in channel'[y][j].about
        PROVE  x = y /\ i = j
    <3>1. CASE i \in DOMAIN channel[x] /\ channel'[x][i] = channel[x][i]
      <4>1. CASE j \in DOMAIN channel[y] /\ channel'[y][j] = channel[y][j]
        BY <2>5, <3>1, <4>1 DEF KInv, Once
      <4>2. CASE j - held \in DOMAIN pending /\ channel'[y][j] = pending[j - held]
        BY <2>5, <3>1, <4>2 DEF KInv, Once
      <4> QED BY <1>8, <4>1, <4>2
    <3>2. CASE /\ x = printer /\ i \in held + 1 .. held + k
               /\ i - held \in DOMAIN pending /\ channel'[x][i] = pending[i - held]
      <4>1. CASE j \in DOMAIN channel[y] /\ channel'[y][j] = channel[y][j]
        BY <2>5, <3>2, <4>1 DEF KInv, Once
      <4>2. CASE /\ y = printer /\ j \in held + 1 .. held + k
                 /\ j - held \in DOMAIN pending /\ channel'[y][j] = pending[j - held]
        <5>1. i - held = j - held
          BY <2>5, <3>2, <4>2 DEF KInv, Once
        <5> QED BY <1>12, <3>2, <4>2, <5>1
      <4> QED BY <1>8, <4>1, <4>2
    <3> QED BY <1>8, <3>1, <3>2
  <2> QED BY <1>2, <2>1, <2>2, <2>3, <2>4, <2>5 DEF Once
<1>14. InOrder'
  <2>1. printer # None /\ printer' = printer
    BY <1>1, <1>2, NamesAssumption
  <2>2. /\ \A i, j \in 1 .. all : i < j => Before(pending[i], pending[j])
        /\ \A i, j \in 1 .. held : i < j => Before(channel[printer][i], channel[printer][j])
        /\ \A i \in 1 .. held, j \in 1 .. all : Before(channel[printer][i], pending[j])
    BY <1>5, <2>1 DEF KInv, InOrder
  <2>3. \A i, j \in DOMAIN pending' : i < j => Before(pending'[i], pending'[j])
    BY <1>5, <1>6, <1>9, <1>11, <2>2
  <2>4. ASSUME NEW i \in 1 .. held + k, NEW j \in 1 .. held + k, i < j
        PROVE  Before(channel'[printer][i], channel'[printer][j])
    <3>1. CASE i \in 1 .. held /\ j \in 1 .. held
      BY <1>5, <2>2, <2>4, <3>1
    <3>2. CASE i \in 1 .. held /\ j \in held + 1 .. held + k
      BY <1>5, <1>6, <2>2, <3>2
    <3>3. CASE i \in held + 1 .. held + k /\ j \in held + 1 .. held + k
      BY <1>5, <1>6, <1>12, <2>2, <2>4, <3>3, SMTT(40)
    <3>4. ~(i \in held + 1 .. held + k /\ j \in 1 .. held)
      BY <1>4, <2>4
    <3> QED BY <1>6, <3>1, <3>2, <3>3, <3>4
  <2>5. ASSUME NEW i \in 1 .. held + k, NEW j \in DOMAIN pending'
        PROVE  Before(channel'[printer][i], pending'[j])
    <3>1. CASE i \in 1 .. held
      BY <1>5, <1>6, <1>9, <2>2, <3>1
    <3>2. CASE i \in held + 1 .. held + k
      <4>1. i - held \in 1 .. k /\ i - held < k + j /\ i - held \in 1 .. all /\ k + j \in 1 .. all
        BY <1>5, <1>6, <1>9, <1>10, <3>2
      <4> QED BY <1>5, <1>9, <2>2, <3>2, <4>1
    <3> QED BY <1>6, <3>1, <3>2
  <2> QED BY <1>5, <2>1, <2>3, <2>4, <2>5 DEF InOrder
<1>15. NotYetPrinting'
  <2>1. state[printer] \notin {"unborn", "starting"}
    BY <1>1 DEF KInv, NotYetPrinting
  <2> QED BY <1>1, <1>2, <2>1 DEF KInv, NotYetPrinting
<1> QED BY <1>7, <1>13, <1>14, <1>15 DEF KInv

LEMMA ShowKeeps == ASSUME KInv, IInv', NEW r \in Runs, Show(r) PROVE KInv'
<1> DEFINE c    == channel[r]
           rest == Tail(c)
<1>1. /\ c \in Seq(Lines) /\ c # <<>> /\ channel \in [Runs -> Seq(Lines)]
      /\ channel' = [channel EXCEPT ![r] = rest]
      /\ settled' = settled \cup c[1].about
      /\ UNCHANGED <<printer, state, posts, pending>>
  BY DEF KInv, IInv, TypeOK, Show, queueVars
<1>2. /\ DOMAIN c = 1 .. Len(c) /\ Len(c) \in Nat /\ Len(c) > 0
      /\ DOMAIN rest = 1 .. Len(c) - 1 /\ \A i \in 1 .. Len(c) - 1 : rest[i] = c[i + 1]
  <2> HIDE DEF c
  <2> QED BY <1>1
<1>3. channel'[r] = rest /\ \A x \in Runs : x # r => channel'[x] = channel[x]
  <2> HIDE DEF rest
  <2> QED BY <1>1
<1> HIDE DEF rest
<1>4. /\ 1 \in DOMAIN c
      /\ \A i \in DOMAIN rest : i + 1 \in DOMAIN c /\ i + 1 # 1 /\ i \in Nat
      /\ \A i \in DOMAIN c : i = 1 \/ (i - 1 \in DOMAIN rest /\ rest[i - 1] = c[i])
  BY <1>2
<1>5. \A i, j \in DOMAIN rest : (i + 1 = j + 1 => i = j) /\ (i < j => i + 1 < j + 1)
  BY <1>4
<1> HIDE DEF c
<1>6. c = channel[r]
  BY DEF c
\* Where a line of a channel was before.
<1>7. ASSUME NEW x \in Runs, NEW i \in DOMAIN channel'[x]
      PROVE  \/ x # r /\ i \in DOMAIN channel[x] /\ channel'[x][i] = channel[x][i]
             \/ /\ x = r /\ i \in DOMAIN rest /\ i + 1 \in DOMAIN channel[r] /\ i + 1 # 1
                /\ channel'[x][i] = channel[r][i + 1]
  BY <1>2, <1>3, <1>4, <1>6, <1>7
<1>8. Accounted'
  <2> SUFFICES ASSUME NEW n \in 1 .. Len(posts), n \notin settled'
               PROVE  \/ \E i \in DOMAIN pending : n \in pending[i].about
                      \/ \E x \in Runs : \E i \in DOMAIN channel'[x] : n \in channel'[x][i].about
    BY <1>1 DEF Accounted
  <2>1. CASE \E x \in Runs : \E i \in DOMAIN channel[x] : n \in channel[x][i].about
    <3>1. PICK x \in Runs : \E i \in DOMAIN channel[x] : n \in channel[x][i].about
      BY <2>1
    <3>2. PICK i \in DOMAIN channel[x] : n \in channel[x][i].about
      BY <3>1
    <3>3. CASE x # r
      BY <1>3, <3>2, <3>3
    <3>4. CASE x = r
      <4>1. i # 1
        BY <1>1, <1>6, <3>2, <3>4
      <4> QED BY <1>3, <1>4, <1>6, <3>2, <3>4, <4>1
    <3> QED BY <3>3, <3>4
  <2> QED BY <1>1, <2>1 DEF KInv, Accounted
<1>9. Once'
  <2>1. settled' \subseteq 1 .. Len(posts')
    BY <1>1, <1>4, <1>6 DEF KInv, Once, IInv, LinesAreSound, Sound
  <2>2. ASSUME NEW i \in DOMAIN pending, NEW n \in pending[i].about
        PROVE  n \notin settled' /\ \A j \in DOMAIN pending : n \in pending[j].about => i = j
    BY <1>1, <1>4, <1>6, <2>2 DEF KInv, Once
  <2>3. ASSUME NEW x \in Runs, NEW i \in DOMAIN channel'[x], NEW n \in channel'[x][i].about
        PROVE  n \notin settled' /\ \A j \in DOMAIN pending : n \notin pending[j].about
    <3>1. CASE x # r /\ i \in DOMAIN channel[x] /\ channel'[x][i] = channel[x][i]
      BY <1>1, <1>4, <1>6, <2>3, <3>1 DEF KInv, Once
    <3>2. CASE /\ i + 1 \in DOMAIN channel[r] /\ i + 1 # 1
               /\ channel'[x][i] = channel[r][i + 1]
      BY <1>1, <1>4, <1>6, <2>3, <3>2 DEF KInv, Once
    <3> QED BY <1>7, <3>1, <3>2
  <2>4. ASSUME NEW x \in Runs, NEW i \in DOMAIN channel'[x], NEW n \in channel'[x][i].about,
               NEW y \in Runs, NEW j \in DOMAIN channel'[y], n \in channel'[y][j].about
        PROVE  x = y /\ i = j
    <3>1. CASE x # r /\ i \in DOMAIN channel[x] /\ channel'[x][i] = channel[x][i]
      BY <1>7, <2>4, <3>1 DEF KInv, Once
    <3>2. CASE /\ x = r /\ i \in DOMAIN rest /\ i + 1 \in DOMAIN channel[r]
               /\ channel'[x][i] = channel[r][i + 1]
      <4>1. CASE y # r /\ j \in DOMAIN channel[y] /\ channel'[y][j] = channel[y][j]
        BY <2>4, <3>2, <4>1 DEF KInv, Once
      <4>2. CASE /\ y = r /\ j \in DOMAIN rest /\ j + 1 \in DOMAIN channel[r]
                 /\ channel'[y][j] = channel[r][j + 1]
        <5>1. i + 1 = j + 1
          BY <2>4, <3>2, <4>2 DEF KInv, Once
        <5> QED BY <1>5, <3>2, <4>2, <5>1
      <4> QED BY <1>7, <4>1, <4>2
    <3> QED BY <1>7, <3>1, <3>2
  <2> QED BY <1>1, <2>1, <2>2, <2>3, <2>4 DEF Once
<1>10. InOrder'
  <2>1. CASE printer = r
    <3>1. printer # None
      BY <2>1, NamesAssumption
    <3>2. /\ \A i, j \in DOMAIN c : i < j => Before(c[i], c[j])
          /\ \A i \in DOMAIN c, j \in DOMAIN pending : Before(c[i], pending[j])
      BY <1>6, <2>1, <3>1 DEF KInv, InOrder
    <3>3. \A i \in DOMAIN rest : rest[i] = c[i + 1]
      BY <1>2
    <3>4. /\ \A i, j \in DOMAIN rest : i < j => Before(rest[i], rest[j])
          /\ \A i \in DOMAIN rest, j \in DOMAIN pending : Before(rest[i], pending[j])
      BY <1>4, <1>5, <3>2, <3>3
    <3>5. \A i, j \in DOMAIN pending : i < j => Before(pending[i], pending[j])
      BY DEF KInv, InOrder
    <3> QED BY <1>1, <1>3, <2>1, <3>4, <3>5 DEF InOrder
  <2>2. CASE printer # r
    <3>1. printer # None => channel'[printer] = channel[printer]
      BY <1>3, <2>2 DEF KInv, IInv, TypeOK
    <3> QED BY <1>1, <3>1 DEF KInv, InOrder
  <2> QED BY <2>1, <2>2
<1>11. NotYetPrinting'
  <2>1. state[r] = "editing"
    BY DEF Show
  <2> QED BY <1>1, <1>3, <2>1 DEF KInv, NotYetPrinting
<1> QED BY <1>8, <1>9, <1>10, <1>11 DEF KInv

LEMMA KInvariance == Spec => []KInv
<1>1. ASSUME Init PROVE KInv
  <2>1. Accounted /\ Once
    BY <1>1, EmptySeq DEF Init, Accounted, Once
  <2>2. InOrder /\ NotYetPrinting
    BY <1>1, NamesAssumption, EmptySeq DEF Init, InOrder, NotYetPrinting
  <2> QED BY <1>1, <2>1, <2>2, InitInv DEF KInv
<1>2. ASSUME KInv, [Next]_vars PROVE KInv'
  <2>1. IInv'
    BY <1>2, StepInv DEF KInv
  <2>2. ASSUME NEW r \in Runs, New(r) \/ Attach(r) \/ Cleanup(r) PROVE KInv'
    BY <1>2, <2>1, <2>2, RunsKeep
  <2>3. ASSUME NEW r \in Runs, Leave(r) \/ Flush(r) \/ Show(r) PROVE KInv'
    BY <1>2, <2>1, <2>3, LeaveKeeps, FlushKeeps, ShowKeeps
  <2>4. ASSUME NEW r \in Runs, Post(r) PROVE KInv'
    BY <1>2, <2>1, <2>4, QueueKeeps DEF Post
  <2>5. CASE AttachBasic
    BY <1>2, <2>1, <2>5, QueueGivenUp DEF AttachBasic
  <2>6. CASE PostStartup
    BY <1>2, <2>1, <2>6, QueueKeeps DEF PostStartup
  <2>7. CASE UNCHANGED vars
    <3>1. UNCHANGED <<pending, channel, settled, posts, printer, state>>
      BY <2>7 DEF vars
    <3>2. NotYetPrinting'
      BY <1>2, <3>1 DEF KInv, NotYetPrinting
    <3> QED BY <1>2, <2>1, <3>1, <3>2, NothingMoved
  <2> QED BY <1>2, <2>2, <2>3, <2>4, <2>5, <2>6, <2>7 DEF Next
<1> QED BY <1>1, <1>2, PTL DEF Spec

\* The places of a notice, as NoticesKept counts them.
LEMMA OnePlace ==
  ASSUME KInv, NEW n \in 1 .. Len(posts)
  PROVE  Cardinality({i \in DOMAIN pending : n \in pending[i].about})
           + Cardinality({at \in Runs \X (1 .. Capacity) :
                            /\ at[2] <= Len(channel[at[1]])
                            /\ n \in channel[at[1]][at[2]].about})
           + (IF n \in settled THEN 1 ELSE 0) = 1
<1> DEFINE Q == {i \in DOMAIN pending : n \in pending[i].about}
           C == {at \in Runs \X (1 .. Capacity) :
                   /\ at[2] <= Len(channel[at[1]]) /\ n \in channel[at[1]][at[2]].about}
<1>1. \A r \in Runs : /\ channel[r] \in Seq(Lines) /\ Len(channel[r]) \in Nat
                      /\ Len(channel[r]) <= Capacity /\ DOMAIN channel[r] = 1 .. Len(channel[r])
  BY DEF KInv, IInv, TypeOK
<1>2. \A at \in C : at[1] \in Runs /\ at[2] \in DOMAIN channel[at[1]] /\ at = <<at[1], at[2]>>
                    /\ n \in channel[at[1]][at[2]].about
  BY <1>1
<1>3. \A r \in Runs : \A i \in DOMAIN channel[r] : n \in channel[r][i].about => <<r, i>> \in C
  BY <1>1, BoundsAssumption
<1>4. n \in settled => Q = {} /\ C = {}
  BY <1>2 DEF KInv, Once
<1>5. n \notin settled => \/ (\E i : Q = {i}) /\ C = {}
                          \/ Q = {} /\ \E at : C = {at}
  <2> SUFFICES ASSUME n \notin settled
               PROVE  \/ (\E i : Q = {i}) /\ C = {}
                      \/ Q = {} /\ \E at : C = {at}
    OBVIOUS
  <2>1. CASE \E i \in DOMAIN pending : n \in pending[i].about
    <3>1. PICK i \in DOMAIN pending : n \in pending[i].about
      BY <2>1
    <3>2. Q = {i}
      BY <3>1 DEF KInv, Once
    <3>3. C = {}
      BY <1>2, <3>1 DEF KInv, Once
    <3> HIDE DEF Q, C
    <3> QED BY <3>2, <3>3
  <2>2. CASE \E r \in Runs : \E i \in DOMAIN channel[r] : n \in channel[r][i].about
    <3>1. PICK r \in Runs : \E i \in DOMAIN channel[r] : n \in channel[r][i].about
      BY <2>2
    <3>2. PICK i \in DOMAIN channel[r] : n \in channel[r][i].about
      BY <3>1
    <3>3. Q = {}
      BY <3>2 DEF KInv, Once
    <3>4. \A at \in C : at[1] = r /\ at[2] = i
      <4> HIDE DEF C
      <4> QED BY <1>2, <3>2 DEF KInv, Once
    <3>5. C = {<<r, i>>}
      <4>1. <<r, i>> \in C
        BY <1>3, <3>2
      <4>2. \A at \in C : at = <<r, i>>
        <5> HIDE DEF C
        <5> QED BY <1>2, <3>4
      <4> HIDE DEF C
      <4> QED BY <4>1, <4>2
    <3> HIDE DEF Q, C
    <3> QED BY <3>3, <3>5
  <2> QED BY <2>1, <2>2 DEF KInv, Accounted
<1> HIDE DEF Q, C
<1>6. Cardinality({}) = 0 /\ \A x : Cardinality({x}) = 1
  BY FS_EmptySet, FS_Singleton
<1>7. Cardinality(Q) + Cardinality(C) + (IF n \in settled THEN 1 ELSE 0) = 1
  <2>1. CASE n \in settled
    BY <1>4, <1>6, <2>1
  <2>2. CASE n \notin settled
    <3>1. CASE (\E i : Q = {i}) /\ C = {}
      <4>1. Cardinality(Q) = 1 /\ Cardinality(C) = 0
        BY <1>6, <3>1, Zenon
      <4> QED BY <2>2, <4>1
    <3>2. CASE Q = {} /\ \E at : C = {at}
      <4>1. Cardinality(Q) = 0 /\ Cardinality(C) = 1
        BY <1>6, <3>2, Zenon
      <4> QED BY <2>2, <4>1
    <3> QED BY <1>5, <2>2, <3>1, <3>2
  <2> QED BY <2>1, <2>2
<1> QED BY <1>7 DEF Q, C

LEMMA QueueInOrder ==
  ASSUME KInv
  PROVE  LET queue == (IF printer = None THEN <<>> ELSE channel[printer]) \o pending
         IN  \A i, j \in DOMAIN queue :
               i < j => \A m \in queue[i].about, n \in queue[j].about : m < n
<1> DEFINE c == IF printer = None THEN <<>> ELSE channel[printer]
           queue == c \o pending
<1>1. c \in Seq(Lines) /\ pending \in Seq(Lines)
  BY NothingWaits DEF KInv, IInv, TypeOK
<1>2. /\ \A i, j \in DOMAIN pending : i < j => Before(pending[i], pending[j])
      /\ \A i, j \in DOMAIN c : i < j => Before(c[i], c[j])
      /\ \A i \in DOMAIN c, j \in DOMAIN pending : Before(c[i], pending[j])
  <2>1. CASE printer = None
    <3>1. DOMAIN c = {}
      BY <2>1, EmptySeq
    <3> QED BY <3>1 DEF KInv, InOrder
  <2>2. CASE printer # None
    BY <2>2 DEF KInv, InOrder
  <2> QED BY <2>1, <2>2
<1> HIDE DEF c
<1>3. /\ DOMAIN c = 1 .. Len(c) /\ DOMAIN pending = 1 .. Len(pending)
      /\ Len(c) \in Nat /\ Len(pending) \in Nat
      /\ DOMAIN queue = 1 .. Len(c) + Len(pending)
      /\ \A i \in 1 .. Len(c) : queue[i] = c[i]
      /\ \A i \in Len(c) + 1 .. Len(c) + Len(pending) :
           queue[i] = pending[i - Len(c)] /\ i - Len(c) \in 1 .. Len(pending)
  BY <1>1
<1> HIDE DEF queue
<1>4. ASSUME NEW i \in DOMAIN queue, NEW j \in DOMAIN queue, i < j
      PROVE  Before(queue[i], queue[j])
  <2>1. CASE i \in 1 .. Len(c) /\ j \in 1 .. Len(c)
    BY <1>2, <1>3, <1>4, <2>1
  <2>2. CASE i \in 1 .. Len(c) /\ j \in Len(c) + 1 .. Len(c) + Len(pending)
    BY <1>2, <1>3, <2>2
  <2>3. CASE /\ i \in Len(c) + 1 .. Len(c) + Len(pending)
             /\ j \in Len(c) + 1 .. Len(c) + Len(pending)
    <3>1. i - Len(c) < j - Len(c)
      BY <1>3, <1>4, <2>3
    <3> QED BY <1>2, <1>3, <2>3, <3>1
  <2>4. \/ i \in 1 .. Len(c) /\ j \in 1 .. Len(c)
        \/ i \in 1 .. Len(c) /\ j \in Len(c) + 1 .. Len(c) + Len(pending)
        \/ /\ i \in Len(c) + 1 .. Len(c) + Len(pending)
           /\ j \in Len(c) + 1 .. Len(c) + Len(pending)
    BY <1>3, <1>4
  <2> QED BY <2>1, <2>2, <2>3, <2>4
<1>5. \A i, j \in DOMAIN queue : i < j => \A m \in queue[i].about, n \in queue[j].about : m < n
  BY <1>4 DEF Before
<1> QED BY <1>5 DEF queue, c

-----------------------------------------------------------------------------

\* Every variable keeps its type, and Notices::post and Notices::flush keep
\* the queue and the channel of each editor within their bounds.
THEOREM TypeCorrectness == Spec => []TypeOK
BY Invariance, PTL DEF IInv

\* Whatever editors are nested, left or replaced by basic input, a session
\* that is not the current one has been cancelled: SessionOwner::new, its drop
\* and attach_basic between them leave none that believes it may publish.
THEOREM OutdatedSessionsKnow == Spec => []OutdatedAreCancelled
BY Invariance, PTL DEF IInv

\* No editor is sent what a session of a run that was already over posted.
\* ReplSession::post_notice accepts what the current session posts, and the
\* drop of a SessionOwner discards the queue, so whatever waits is of a run
\* that is still under way.
THEOREM OldWorkersSilent == Spec => []EarlierRunsSilent
BY Invariance, PTL DEF IInv

\* Whatever part of the queue Notices::flush could send, the number a summary
\* shows is that of the notices it stands for, and Notices::post has a summary
\* to count on.
THEOREM SummariesAreRight == Spec => []SummariesCount
<1>1. IInv => SummariesCount
  BY DEF IInv, QueueIsSound, LinesAreSound, Sound, SummariesCount
<1> QED BY <1>1, Invariance, PTL

\* Whatever editors are nested, replaced or end, and however much of the queue
\* Notices::flush can send, every notice that was accepted is in one line of the
\* queue or of a channel, or settled, and the current editor prints in order.
THEOREM NoNoticeLost == Spec => []NoticesKept
<1>1. ASSUME KInv PROVE NoticesKept
  <2>1. \A n \in 1 .. Len(posts) :
          Cardinality({i \in DOMAIN pending : n \in pending[i].about})
            + Cardinality({at \in Runs \X (1 .. Capacity) :
                             /\ at[2] <= Len(channel[at[1]])
                             /\ n \in channel[at[1]][at[2]].about})
            + (IF n \in settled THEN 1 ELSE 0) = 1
    BY <1>1, OnePlace
  <2>2. LET queue == (IF printer = None THEN <<>> ELSE channel[printer]) \o pending
        IN  \A i, j \in DOMAIN queue :
              i < j => \A m \in queue[i].about, n \in queue[j].about : m < n
    BY <1>1, QueueInOrder
  <2> QED BY <2>1, <2>2, Zenon DEF NoticesKept
<1> QED BY <1>1, KInvariance, PTL

=============================================================================
