------------------------- MODULE SessionState_proofs -------------------------
(***************************************************************************)
(* Proofs about what a session keeps.                                      *)
(*                                                                         *)
(* ContextStore, for any number of REPLs, keys and entries, any choice of  *)
(* persisted kinds, and saves that fail after the rename. All that has to  *)
(* be known about a save is that its process alone holds the lock          *)
(* (OneSaver), that what it read is still what the file holds              *)
(* (ReadIsCurrent), and that what it is about to write was protected when  *)
(* the save began and has not changed since (SavesProtected). A process    *)
(* shares only kinds that it persists (SharesPersisted).                   *)
(*                                                                         *)
(* SessionLines, for any commands and any nesting of lines: the way back,  *)
(* and that recordings are whole, with writes that fail after any event.   *)
(*                                                                         *)
(* Pipeline, for any products, any typed stages and any number of them:    *)
(* that what is said of a result is true of it (OutputFits is the          *)
(* inductive invariant), and that grouping is exact. Most of it is about   *)
(* what the operators return for every result; Picked, FlattenSeq and      *)
(* GroupHeaders are taken step by step (UpTo).                             *)
(***************************************************************************)
EXTENDS ContextStore, SessionLines, Pipeline, FiniteSetTheorems, SequenceTheorems,
        WellFoundedInduction, TLAPS

OneSaver == \A p \in Processes : step[p] = "write" <=> lock = p

ReadIsCurrent == \A p \in Processes : lock = p => current[p] = file

SavesProtected ==
  \A p \in Processes, k \in Keys :
    step[p] \in {"lock", "write"} /\ knows[p] => ~Secret(entries[p][k])

SharesPersisted ==
  \A p \in Processes, k \in Keys : k \notin Persists[p] => saved[p][k] = None

IInv == TypeOK /\ OneSaver /\ ReadIsCurrent /\ SavesProtected /\ SharesPersisted

LEMMA ProtectProperties ==
  ASSUME NEW map \in Map
  PROVE  Protect(map) \in Map /\ \A k \in Keys : ~Secret(Protect(map)[k])
BY ProtectedAssumption DEF Protect, Map, Secret

LEMMA NothingIsMap == Nothing \in Map
BY DEF Nothing, Map

LEMMA StoredIsMap ==
  ASSUME NEW map \in Map, NEW p \in Processes
  PROVE  Stored(p, map) \in Map
BY DEF Stored, Map

LEMMA MergedIsMap == ASSUME TypeOK, NEW p \in Processes PROVE Merged(p) \in Map
BY DEF TypeOK, Merged, Stored, Map

LEMMA InitInv == Init => IInv
BY NobodyAssumption, NothingIsMap
   DEF Init, IInv, TypeOK, OneSaver, ReadIsCurrent, SavesProtected, SharesPersisted, Nothing

LEMMA StartStep == ASSUME IInv, NEW p \in Processes, Start(p) PROVE IInv'
<1> USE DEF IInv, Start
<1>1. \A known \in BOOLEAN : ProtectIf(known, Stored(p, file)) \in Map
  BY StoredIsMap, ProtectProperties DEF ProtectIf, TypeOK
<1>2. TypeOK'
  BY <1>1, StoredIsMap DEF TypeOK
<1>3. OneSaver' /\ ReadIsCurrent' /\ SavesProtected'
  BY DEF TypeOK, OneSaver, ReadIsCurrent, SavesProtected, Secret
<1>4. SharesPersisted'
  BY DEF TypeOK, SharesPersisted, Stored
<1> QED BY <1>2, <1>3, <1>4

LEMMA MemoryStep ==
  ASSUME IInv, NEW p \in Processes, Activate(p) \/ Select(p) \/ Clear(p)
  PROVE  IInv'
<1> USE DEF IInv
<1>1. TypeOK'
  <2>1. CASE Activate(p)
    BY <2>1, ProtectProperties DEF TypeOK, Activate
  <2>2. CASE Select(p)
    BY <2>2 DEF TypeOK, Select, Map
  <2>3. CASE Clear(p)
    <3>1. \A cleared \in SUBSET Keys :
            [k \in Keys |-> IF k \in cleared THEN None ELSE entries[p][k]] \in Map
      BY DEF TypeOK, Map
    <3> QED BY <2>3, <3>1 DEF TypeOK, Clear
  <2> QED BY <2>1, <2>2, <2>3
<1>2. /\ step[p] = "idle"
      /\ UNCHANGED <<file, lock, current, step, saved>>
      /\ \A q \in Processes : q # p => entries'[q] = entries[q] /\ knows'[q] = knows[q]
  BY DEF TypeOK, Activate, Select, Clear
<1>3. OneSaver' /\ ReadIsCurrent' /\ SavesProtected' /\ SharesPersisted'
  BY <1>2 DEF OneSaver, ReadIsCurrent, SavesProtected, SharesPersisted, Secret
<1> QED BY <1>1, <1>3

LEMMA SaveStep ==
  ASSUME IInv, NEW p \in Processes,
         BeginSave(p) \/ Acquire(p) \/ Save(p) \/ Fail(p) \/ Stop(p)
  PROVE  IInv'
<1> USE DEF IInv, End
<1>1. CASE BeginSave(p)
  <2>1. ProtectIf(knows[p], entries[p]) \in Map
    BY ProtectProperties DEF ProtectIf, TypeOK
  <2>2. TypeOK'
    BY <1>1, <2>1 DEF BeginSave, TypeOK
  <2>3. OneSaver' /\ ReadIsCurrent' /\ SharesPersisted'
    BY <1>1 DEF BeginSave, TypeOK, OneSaver, ReadIsCurrent, SharesPersisted
  <2>4. \A k \in Keys : knows[p] => ~Secret(ProtectIf(knows[p], entries[p])[k])
    BY ProtectProperties DEF ProtectIf, TypeOK
  <2>5. SavesProtected'
    BY <1>1, <2>4 DEF BeginSave, TypeOK, SavesProtected, Secret
  <2> QED BY <2>2, <2>3, <2>5
<1>2. CASE Acquire(p)
  BY <1>2, NobodyAssumption
     DEF Acquire, TypeOK, OneSaver, ReadIsCurrent, SavesProtected, SharesPersisted, Secret
<1>3. ASSUME Save(p) \/ Fail(p) \/ Stop(p) PROVE IInv'
  <2>1. Merged(p) \in Map /\ Stored(p, entries[p]) \in Map /\ Nothing \in Map
    BY MergedIsMap, StoredIsMap, NothingIsMap DEF TypeOK
  <2>2. TypeOK'
    BY <1>3, <2>1 DEF Save, Fail, Stop, TypeOK
  <2>3. OneSaver'
    BY <1>3, NobodyAssumption DEF Save, Fail, Stop, TypeOK, OneSaver
  <2>4. \A q \in Processes : q # p => current'[q] = current[q]
    BY <1>3 DEF Save, Fail, Stop, TypeOK
  <2>5. file' # file => lock = p
    BY <1>3 DEF Save, Fail, Stop, OneSaver
  <2>6. lock' = IF lock = p THEN Nobody ELSE lock
    BY <1>3 DEF Save, Fail, Stop
  <2>7. ReadIsCurrent'
    BY <2>4, <2>5, <2>6, NobodyAssumption DEF ReadIsCurrent
  <2>8. SavesProtected'
    BY <1>3 DEF Save, Fail, Stop, TypeOK, SavesProtected, Secret
  <2>9. SharesPersisted'
    BY <1>3 DEF Save, Fail, Stop, TypeOK, SharesPersisted, Stored, Nothing
  <2> QED BY <2>2, <2>3, <2>7, <2>8, <2>9
<1> QED BY <1>1, <1>2, <1>3

\* Every reachable state satisfies the inductive invariant.
THEOREM Invariance == Spec => []IInv
<1>1. Init => IInv
  BY InitInv
<1>2. IInv /\ [Next]_vars => IInv'
  <2>1. ASSUME IInv, UNCHANGED vars PROVE IInv'
    BY <2>1 DEF IInv, vars, TypeOK, OneSaver, ReadIsCurrent, SavesProtected, SharesPersisted, Secret
  <2> QED BY <2>1, StartStep, MemoryStep, SaveStep DEF Next
<1> QED BY <1>1, <1>2, PTL DEF Spec

-----------------------------------------------------------------------------

\* Only a save, successful or not, changes the file, and it writes Merged.
LEMMA OnlySavesWrite ==
  ASSUME IInv, [Next]_vars, file' # file
  PROVE  \E p \in Processes : /\ lock = p /\ step[p] = "write"
                              /\ file' = Merged(p)
                              /\ UNCHANGED entries
BY DEF IInv, OneSaver, Next, vars, Start, Activate, Select, Clear, BeginSave, Acquire, Save,
       Fail, Stop

\* What Merged does to the file that was read.
LEMMA MergedEffect ==
  ASSUME IInv, NEW p \in Processes, lock = p, NEW k \in Keys
  PROVE  Merged(p)[k] = IF Changed(p, k) THEN entries[p][k] ELSE file[k]
<1>1. current[p] = file
  BY DEF IInv, ReadIsCurrent
<1>2. k \notin Persists[p] => Stored(p, entries[p])[k] = None
  BY DEF Stored
<1>3. k \in Persists[p] => Stored(p, entries[p])[k] = entries[p][k]
  BY DEF Stored
<1>4. k \notin Persists[p] => saved[p][k] = None
  BY DEF IInv, SharesPersisted
<1> QED BY <1>1, <1>2, <1>3, <1>4 DEF Merged, Changed

LEMMA PreservedStep == ASSUME IInv, [Next]_vars PROVE [\A k \in Keys :
       file'[k] # file[k] =>
         \E p \in Processes : lock = p /\ Changed(p, k) /\ file'[k] = entries[p][k]]_vars
<1> SUFFICES ASSUME NEW k \in Keys, file'[k] # file[k]
             PROVE  \E p \in Processes : lock = p /\ Changed(p, k) /\ file'[k] = entries[p][k]
  OBVIOUS
<1>1. PICK p \in Processes : lock = p /\ file' = Merged(p)
  BY OnlySavesWrite
<1> QED BY <1>1, MergedEffect

\* A save changes the file only under keys that its process changed.
THEOREM ForeignSelectionsKept == Spec => SelectionsPreserved
BY Invariance, PreservedStep, PTL DEF Spec, SelectionsPreserved

LEMMA EffectStep == ASSUME IInv, [Next]_vars PROVE [\A p \in Processes :
       step[p] = "write" /\ step'[p] = "idle" /\ saved'[p] # saved[p] =>
         \A k \in Keys : Changed(p, k) => file'[k] = entries[p][k]]_vars
<1> SUFFICES ASSUME NEW p \in Processes,
                    step[p] = "write" /\ step'[p] = "idle" /\ saved'[p] # saved[p],
                    NEW k \in Keys, Changed(p, k)
             PROVE  file'[k] = entries[p][k]
  OBVIOUS
<1>1. Save(p)
  BY DEF IInv, TypeOK, OneSaver, Next, vars, Start, Activate, Select, Clear, BeginSave, Acquire,
         Save, Fail, Stop, End
<1> QED BY <1>1, MergedEffect DEF Save, IInv, OneSaver

\* A successful save makes all changes of its process take effect.
THEOREM SavesTakeEffect == Spec => SaveTakesEffect
BY Invariance, EffectStep, PTL DEF Spec, SaveTakesEffect

LEMMA SecretStep == ASSUME IInv, [Next]_vars PROVE [\A p \in Processes, k \in Keys :
       lock = p /\ knows[p] /\ file' # file /\ Secret(file'[k]) =>
         file'[k] = file[k] /\ ~Changed(p, k)]_vars
<1> SUFFICES ASSUME NEW p \in Processes, NEW k \in Keys,
                    lock = p /\ knows[p] /\ file' # file /\ Secret(file'[k])
             PROVE  file'[k] = file[k] /\ ~Changed(p, k)
  OBVIOUS
<1>1. file' = Merged(p) /\ step[p] = "write"
  BY OnlySavesWrite
<1>2. ~Secret(entries[p][k])
  BY <1>1 DEF IInv, SavesProtected
<1> QED BY <1>1, <1>2, MergedEffect DEF Secret

\* A process that knows the secrets never writes one.
THEOREM NoSecretSaved == Spec => SecretsNotWritten
BY Invariance, SecretStep, PTL DEF Spec, SecretsNotWritten

-----------------------------------------------------------------------------
(* The way back. Pages are carried only over the run of the command that a  *)
(* page names (CarriedForOne), a command that has not published yet knows   *)
(* what it will find (ExpectsCarried), and lines that run others publish    *)
(* nothing themselves (RunnersBelow).                                       *)

FrameSet == [line : Lines, from : Seq(Lists), owns : BOOLEAN, stepped : BOOLEAN,
             published : BOOLEAN]

PageTypes ==
  /\ page \in [current : Lists, next : Lists \cup {Nil}] \cup {Nil}
  /\ back \in Seq(Lists) /\ walk \in Seq(Lists)
  /\ carried \in Seq(Lists) \cup {Nil}
  /\ stack \in Seq(FrameSet)

RunnersBelow == \A i \in 1 .. Len(stack) - 1 : stack[i].line \notin Lists

CarriedForOne ==
  carried # Nil =>
    /\ Len(stack) > 1 /\ stack[Len(stack) - 1].stepped
    /\ Innermost.line \in Lists

ExpectsCarried ==
  stack # <<>> /\ Innermost.line \in Lists /\ ~Innermost.published =>
    Innermost.from = IF carried = Nil THEN <<>> ELSE carried

LinesInv == PageTypes /\ WayBack /\ RunnersBelow /\ CarriedForOne /\ ExpectsCarried

\* What becomes of the stack when a frame is added, changed at the top or taken.
LEMMA PushedFrame ==
  ASSUME NEW s \in Seq(FrameSet), NEW f \in FrameSet
  PROVE  /\ Append(s, f) \in Seq(FrameSet) /\ Len(Append(s, f)) = Len(s) + 1
         /\ Append(s, f)[Len(s) + 1] = f
         /\ \A i \in 1 .. Len(s) : Append(s, f)[i] = s[i]
OBVIOUS

LEMMA PoppedFrame ==
  ASSUME stack \in Seq(FrameSet), stack # <<>>
  PROVE  /\ Outer \in Seq(FrameSet) /\ Len(Outer) = Len(stack) - 1
         /\ \A i \in 1 .. Len(Outer) : Outer[i] = stack[i]
<1>1. ASSUME NEW s \in Seq(FrameSet), s # <<>>
      PROVE  /\ SubSeq(s, 1, Len(s) - 1) \in Seq(FrameSet)
             /\ Len(SubSeq(s, 1, Len(s) - 1)) = Len(s) - 1
             /\ \A i \in 1 .. Len(s) - 1 : SubSeq(s, 1, Len(s) - 1)[i] = s[i]
  <2>1. Len(s) \in Nat /\ Len(s) > 0 /\ \A i \in 1 .. Len(s) - 1 : s[i] \in FrameSet
    BY <1>1
  <2> DEFINE n == Len(s) - 1
  <2>2. n \in Nat /\ 1 \in Int /\ n \in Int /\ n - 1 + 1 = n /\ \A i \in 1 .. n : i + 1 - 1 = i
    BY <2>1
  <2>3. \A i \in 1 .. n : s[i] \in FrameSet
    BY <2>1
  <2> HIDE DEF n
  <2>4. /\ SubSeq(s, 1, n) \in Seq(FrameSet)
        /\ Len(SubSeq(s, 1, n)) = IF 1 <= n THEN n - 1 + 1 ELSE 0
        /\ \A i \in 1 .. n - 1 + 1 : SubSeq(s, 1, n)[i] = s[i + 1 - 1]
    BY <2>2, <2>3, SubSeqProperties
  <2>5. Len(SubSeq(s, 1, n)) = n /\ \A i \in 1 .. n : SubSeq(s, 1, n)[i] = s[i]
    BY <2>2, <2>4
  <2> QED BY <2>4, <2>5 DEF n
<1> QED BY <1>1 DEF Outer

LEMMA MarkedFrame ==
  ASSUME NEW f \in FrameSet
  PROVE  /\ [f EXCEPT !.stepped = TRUE] \in FrameSet /\ [f EXCEPT !.stepped = TRUE].stepped
         /\ [f EXCEPT !.stepped = TRUE].line = f.line
         /\ [f EXCEPT !.stepped = TRUE].owns = f.owns
         /\ [f EXCEPT !.published = TRUE] \in FrameSet /\ [f EXCEPT !.published = TRUE].published
         /\ [f EXCEPT !.published = TRUE].line = f.line
         /\ [f EXCEPT !.published = TRUE].owns = f.owns
BY DEF FrameSet

LEMMA ChangedFrame ==
  ASSUME NEW s \in Seq(FrameSet), s # <<>>, NEW f \in FrameSet
  PROVE  /\ [s EXCEPT ![Len(s)] = f] \in Seq(FrameSet)
         /\ Len([s EXCEPT ![Len(s)] = f]) = Len(s)
         /\ [s EXCEPT ![Len(s)] = f][Len(s)] = f
         /\ \A i \in 1 .. Len(s) - 1 : [s EXCEPT ![Len(s)] = f][i] = s[i]
OBVIOUS

LEMMA DispatchStep ==
  ASSUME LinesInv, NEW line \in Lines, Dispatch(line),
         stack = <<>> \/ Innermost.line \in Sources
  PROVE  LinesInv'
<1> DEFINE f == Frame(line, <<>>, Enters)
<1>1. stack \in Seq(FrameSet) /\ f \in FrameSet
  BY DEF LinesInv, PageTypes, Frame, FrameSet, Enters
<1>2. carried = Nil
  <2>1. stack = <<>> => ~(Len(stack) > 1)
    OBVIOUS
  <2>2. Innermost.line \in Sources => Innermost.line \notin Lists
    BY LinesAssumption DEF BuiltIns
  <2> QED BY <2>1, <2>2 DEF LinesInv, CarriedForOne
<1>3. stack' = Append(stack, f) /\ carried' = Nil
  BY <1>2 DEF Dispatch, pageVars
<1>4. /\ f.from = <<>> /\ f.line = line
      /\ \/ page' = page /\ back' = back /\ walk' = walk
         \/ page' = Nil /\ back' = <<>> /\ walk' = <<>>
  BY DEF Dispatch, pageVars, ClearPages, Frame
<1> HIDE DEF f
<1>5. Len(stack') = Len(stack) + 1 /\ stack'[Len(stack) + 1] = f
      /\ stack' \in Seq(FrameSet) /\ \A i \in 1 .. Len(stack) : stack'[i] = stack[i]
  BY <1>1, <1>3, PushedFrame
<1>6. PageTypes' /\ WayBack'
  <2>1. <<>> \in Seq(Lists)
    OBVIOUS
  <2> QED BY <1>3, <1>4, <1>5, <2>1 DEF LinesInv, PageTypes, WayBack
<1>7. RunnersBelow'
  <2> SUFFICES ASSUME NEW i \in 1 .. Len(stack) PROVE stack[i].line \notin Lists
    BY <1>1, <1>5 DEF RunnersBelow
  <2>1. Innermost.line \notin Lists \/ stack = <<>>
    BY LinesAssumption DEF BuiltIns, Sources
  <2> QED BY <1>1, <2>1 DEF LinesInv, RunnersBelow, Innermost
<1>8. CarriedForOne'
  BY <1>3 DEF CarriedForOne
<1>9. ExpectsCarried'
  <2>1. Innermost' = f
    BY <1>1, <1>5 DEF Innermost
  <2> QED BY <1>3, <1>4, <2>1 DEF ExpectsCarried
<1> QED BY <1>6, <1>7, <1>8, <1>9 DEF LinesInv

LEMMA StepPageStep ==
  ASSUME LinesInv, NEW forward \in BOOLEAN, StepPage(forward)
  PROVE  LinesInv'
<1> DEFINE outer == [stack EXCEPT ![Len(stack)].stepped = TRUE]
           from == SubSeq(walk, 1, IF forward THEN Len(walk) ELSE Len(walk) - 2)
           f == Frame(Command(forward), from, FALSE)
<1>1. /\ stack \in Seq(FrameSet) /\ stack # <<>> /\ Len(stack) \in Nat /\ Len(stack) > 0
      /\ back \in Seq(Lists) /\ walk \in Seq(Lists)
      /\ page \in [current : Lists, next : Lists \cup {Nil}]
      /\ walk = Append(back, page.current)
  BY DEF LinesInv, PageTypes, StepPage, CanStep, WayBack
<1>2. /\ stack' = Append(outer, f) /\ carried' = Behind(forward)
      /\ page' = Nil /\ back' = <<>> /\ walk' = <<>>
  BY DEF StepPage, ClearPages
<1>3. Command(forward) \in Lists
  <2>1. CASE forward
    BY <1>1, <2>1 DEF StepPage, CanStep, Command
  <2>2. CASE ~forward
    BY <1>1, <2>2 DEF StepPage, CanStep, Command
  <2> QED BY <2>1, <2>2
<1>4. from = Behind(forward) /\ from \in Seq(Lists)
  <2>1. CASE forward
    BY <1>1, <2>1, SubSeqFull DEF Behind
  <2>2. CASE ~forward
    <3>1. back # <<>> /\ Len(walk) = Len(back) + 1 /\ Len(back) \in Nat /\ Len(back) > 0
      BY <1>1, <2>2 DEF StepPage, CanStep
    <3>2. from = SubSeq(walk, 1, Len(back) - 1)
      BY <2>2, <3>1
    <3>3. SubSeq(walk, 1, Len(back) - 1) = SubSeq(back, 1, Len(back) - 1)
      BY <1>1, <3>1
    <3>4. SubSeq(back, 1, Len(back) - 1) \in Seq(Lists)
      BY <1>1, <3>1, SubSeqProperties
    <3> QED BY <2>2, <3>2, <3>3, <3>4 DEF Behind
  <2> QED BY <2>1, <2>2
<1>5. f \in FrameSet /\ f.line \in Lists /\ f.from = Behind(forward) /\ f.published = FALSE
  <2> HIDE DEF from
  <2> QED BY <1>3, <1>4 DEF Frame, FrameSet, Lines
<1>6. /\ outer \in Seq(FrameSet) /\ Len(outer) = Len(stack)
      /\ outer[Len(stack)].stepped /\ \A i \in 1 .. Len(stack) : outer[i].line = stack[i].line
  <2> DEFINE top == [stack[Len(stack)] EXCEPT !.stepped = TRUE]
  <2>1. outer = [stack EXCEPT ![Len(stack)] = top]
    OBVIOUS
  <2>2. top \in FrameSet /\ top.stepped /\ top.line = stack[Len(stack)].line
    <3>1. stack[Len(stack)] \in FrameSet
      BY <1>1
    <3> QED BY <3>1, MarkedFrame
  <2> HIDE DEF top, outer
  <2> QED BY <1>1, <2>1, <2>2, ChangedFrame
<1> HIDE DEF outer, f, from
<1>7. /\ stack' \in Seq(FrameSet) /\ Len(stack') = Len(stack) + 1
      /\ stack'[Len(stack) + 1] = f /\ \A i \in 1 .. Len(stack) : stack'[i] = outer[i]
  BY <1>2, <1>5, <1>6, PushedFrame
<1>8. Innermost' = f
  BY <1>1, <1>7 DEF Innermost
<1>9. PageTypes' /\ WayBack'
  BY <1>2, <1>4, <1>7 DEF PageTypes, WayBack
<1>10. RunnersBelow'
  <2>1. Innermost.line \notin Lists
    BY LinesAssumption DEF StepPage, BuiltIns
  <2>2. \A i \in 1 .. Len(stack) : stack[i].line \notin Lists
    BY <1>1, <2>1 DEF LinesInv, RunnersBelow, Innermost
  <2>3. \A i \in 1 .. Len(stack) : stack'[i].line = stack[i].line
    BY <1>6, <1>7
  <2>4. Len(stack') - 1 = Len(stack)
    BY <1>1, <1>7
  <2> QED BY <2>2, <2>3, <2>4 DEF RunnersBelow
<1>11. CarriedForOne'
  <2>1. Len(stack') > 1 /\ stack'[Len(stack') - 1].stepped
    BY <1>1, <1>6, <1>7
  <2> QED BY <1>5, <1>8, <2>1 DEF CarriedForOne
<1>12. ExpectsCarried'
  <2>1. carried' # Nil
    BY <1>2, <1>4, LinesAssumption
  <2> QED BY <1>2, <1>5, <1>8, <2>1 DEF ExpectsCarried
<1> QED BY <1>9, <1>10, <1>11, <1>12 DEF LinesInv

LEMMA PublishStep == ASSUME LinesInv, Publish PROVE LinesInv'
<1>1. /\ stack \in Seq(FrameSet) /\ stack # <<>> /\ Len(stack) \in Nat /\ Len(stack) > 0
      /\ Innermost.line \in Lists /\ Innermost \in FrameSet
      /\ carried \in Seq(Lists) \cup {Nil}
  BY DEF LinesInv, PageTypes, Publish, Innermost
<1>2. Innermost.from = IF carried = Nil THEN <<>> ELSE carried
  BY DEF LinesInv, ExpectsCarried, Publish
<1>3. /\ back' = Innermost.from /\ back' \in Seq(Lists) /\ carried' = Nil
      /\ stack' = [stack EXCEPT ![Len(stack)].published = TRUE]
  BY <1>1, <1>2 DEF Publish
<1>4. PICK shown \in Lists, next \in Lists \cup {Nil} :
        page' = [current |-> shown, next |-> next] /\ walk' = Append(Innermost.from, shown)
  BY DEF Publish
<1>5. /\ stack' \in Seq(FrameSet) /\ Len(stack') = Len(stack)
      /\ stack'[Len(stack)].published /\ \A i \in 1 .. Len(stack) : stack'[i].line = stack[i].line
  <2> DEFINE top == [stack[Len(stack)] EXCEPT !.published = TRUE]
  <2>1. stack' = [stack EXCEPT ![Len(stack)] = top]
    BY <1>3
  <2>2. top \in FrameSet /\ top.published /\ top.line = stack[Len(stack)].line
    <3>1. stack[Len(stack)] \in FrameSet
      BY <1>1
    <3> QED BY <3>1, MarkedFrame
  <2> HIDE DEF top
  <2> QED BY <1>1, <2>1, <2>2, ChangedFrame
<1>6. PageTypes' /\ WayBack'
  BY <1>3, <1>4, <1>5 DEF PageTypes, WayBack
<1>7. RunnersBelow' /\ CarriedForOne' /\ ExpectsCarried'
  BY <1>1, <1>3, <1>5 DEF LinesInv, RunnersBelow, CarriedForOne, ExpectsCarried, Innermost
<1> QED BY <1>6, <1>7 DEF LinesInv

LEMMA EndLineStep == ASSUME LinesInv, EndLine PROVE LinesInv'
<1>1. stack \in Seq(FrameSet) /\ stack # <<>> /\ Len(stack) \in Nat /\ Len(stack) > 0
  <2>1. stack \in Seq(FrameSet)
    BY DEF LinesInv, PageTypes
  <2>2. stack # <<>>
    BY DEF EndLine
  <2> QED BY <2>1, <2>2
<1>2. stack' = Outer /\ carried' = Nil
  BY DEF EndLine, LeaveStep, LinesInv, CarriedForOne
<1>3. /\ stack' \in Seq(FrameSet) /\ Len(stack') = Len(stack) - 1
      /\ \A i \in 1 .. Len(stack') : stack'[i] = stack[i]
  BY <1>1, <1>2, PoppedFrame
<1>4. \/ page' = page /\ back' = back /\ walk' = walk
      \/ page' = Nil /\ back' = <<>> /\ walk' = <<>>
  BY DEF EndLine, FailToRender, ClearPages
<1>5. PageTypes' /\ WayBack' /\ CarriedForOne'
  <2>1. <<>> \in Seq(Lists)
    OBVIOUS
  <2>2. WayBack' /\ CarriedForOne'
    BY <1>2, <1>4 DEF LinesInv, WayBack, CarriedForOne
  <2>3. PageTypes'
    BY <1>2, <1>3, <1>4, <2>1 DEF LinesInv, PageTypes
  <2> QED BY <2>2, <2>3
<1>6. RunnersBelow'
  BY <1>1, <1>3 DEF LinesInv, RunnersBelow
<1>7. ExpectsCarried'
  <2> SUFFICES ASSUME stack' # <<>> PROVE Innermost'.line \notin Lists
    BY DEF ExpectsCarried
  <2>1. Len(stack') \in 1 .. Len(stack) - 1
    BY <1>1, <1>3
  <2> QED BY <1>3, <2>1 DEF LinesInv, RunnersBelow, Innermost
<1> QED BY <1>5, <1>6, <1>7 DEF LinesInv

LEMMA LinesInvKept ==
  ASSUME LinesInv, UNCHANGED <<pageVars, stack>>
  PROVE  LinesInv'
BY DEF LinesInv, PageTypes, WayBack, RunnersBelow, CarriedForOne, ExpectsCarried, Innermost,
       pageVars

LEMMA InitLinesInv == LinesInit => LinesInv
BY DEF LinesInit, LinesInv, PageTypes, WayBack, RunnersBelow, CarriedForOne, ExpectsCarried

LEMMA LinesInvStep == ASSUME LinesInv, [LinesNext]_lineVars PROVE LinesInv'
<1>1. CASE Submit
  BY <1>1, DispatchStep DEF Submit
<1>2. CASE RunChild
  BY <1>2, DispatchStep, LinesAssumption DEF RunChild
<1>3. ASSUME NEW forward \in BOOLEAN, StepPage(forward) PROVE LinesInv'
  BY <1>3, StepPageStep
<1>4. CASE Publish
  BY <1>4, PublishStep
<1>5. CASE Emit \/ StartRecording \/ StopRecording
  BY <1>5, LinesInvKept DEF Emit, StartRecording, StopRecording
<1>6. CASE EndLine
  BY <1>6, EndLineStep
<1>7. CASE UNCHANGED lineVars
  BY <1>7, LinesInvKept DEF lineVars
<1> QED BY <1>1, <1>2, <1>3, <1>4, <1>5, <1>6, <1>7 DEF LinesNext

\* The pages behind the one shown are those that led to it, for any commands,
\* any page they publish and any nesting of sourced lines and steps.
THEOREM WayBackIsRight == LinesSpec => []WayBack
<1>1. LinesInv => WayBack
  BY DEF LinesInv
<1> QED BY <1>1, InitLinesInv, LinesInvStep, PTL DEF LinesSpec

-----------------------------------------------------------------------------
(* The recording. The line that was submitted owns all that it runs         *)
(* (OneOwner); what was captured of it is its command and all that was      *)
(* printed so far (CaptureIsWhole), and no file has an event of it yet      *)
(* (NumbersTaken); the file of the recording exists and no write to it has  *)
(* failed (TargetIsGood).                                                   *)

RecordingTypes ==
  /\ lines \in 0 .. MaxBlocks
  /\ printed \in [0 .. MaxBlocks -> Nat]
  /\ target \in Files \cup {Nil}
  /\ taken \in [Files -> Seq(Events) \cup {Nil}]
  /\ cut \subseteq Files

OneOwner ==
  /\ inside = (stack # <<>>)
  /\ \A i \in 1 .. Len(stack) : stack[i].owns = (i = 1)

SilentAhead == \A n \in 0 .. MaxBlocks : n > lines => printed[n] = 0

TargetIsGood ==
  /\ target # Nil => taken[target] # Nil /\ target \notin cut
  /\ \A f \in cut : taken[f] # Nil

CaptureIsWhole ==
  capture # Nil =>
    /\ inside /\ lines > 0
    /\ capture \in Seq(Events) /\ Len(capture) = printed[lines] + 1
    /\ \A i \in 1 .. Len(capture) : capture[i] = <<lines, i - 1>>

NumbersTaken ==
  \A f \in Files : taken[f] # Nil =>
    \A i \in DOMAIN taken[f] :
      taken[f][i][1] <= lines /\ (capture # Nil => taken[f][i][1] # lines)

RecordingInv ==
  /\ RecordingTypes /\ OneOwner /\ SilentAhead /\ TargetIsGood /\ CaptureIsWhole
  /\ NumbersTaken /\ RecordingsAreWhole

LEMMA NilIsNoFile == Nil # <<>> /\ Nil \notin Files /\ Nil \notin Seq(Events)
<1>1. <<>> \in Seq(Lists)
  OBVIOUS
<1> QED BY <1>1, LinesAssumption

\* Lines that are submitted later, and what they print, leave whole what is taken.
LEMMA WholeStays ==
  ASSUME RecordingInv, RecordingTypes', taken' = taken, cut' = cut, lines' >= lines,
         \A n \in 0 .. lines : (capture # Nil => n # lines) => printed'[n] = printed[n]
  PROVE  RecordingsAreWhole'
<1>1. lines \in Nat /\ lines' \in Nat
  BY DEF RecordingInv, RecordingTypes
<1>2. ASSUME NEW f \in Files, taken[f] # Nil PROVE Whole(f)'
  <2>1. Whole(f)
    BY <1>2 DEF RecordingInv, RecordingsAreWhole
  <2>2. ASSUME NEW i \in DOMAIN taken[f]
        PROVE  /\ printed'[taken[f][i][1]] = printed[taken[f][i][1]]
               /\ taken[f][i][1] \in 1 .. lines'
    <3>1. taken[f][i][1] \in 1 .. lines
      BY <2>1 DEF Whole
    <3>2. capture # Nil => taken[f][i][1] # lines
      BY <1>2 DEF RecordingInv, NumbersTaken
    <3>3. taken[f][i][1] \in 0 .. lines /\ taken[f][i][1] \in 1 .. lines'
      BY <1>1, <3>1
    <3> QED BY <3>2, <3>3
  <2> QED BY <2>1, <2>2 DEF Whole
<1> QED BY <1>2 DEF RecordingInv, RecordingsAreWhole

\* A step that ends at most the recording, and what becomes of the stack.
LEMMA RecordingKept ==
  ASSUME RecordingInv, target' = target \/ target' = Nil, OneOwner',
         UNCHANGED <<inside, capture, taken, cut, lines, printed>>
  PROVE  RecordingInv'
<1>1. RecordingTypes'
  BY DEF RecordingInv, RecordingTypes
<1>2. SilentAhead' /\ TargetIsGood' /\ CaptureIsWhole' /\ NumbersTaken'
  BY DEF RecordingInv, SilentAhead, TargetIsGood, CaptureIsWhole, NumbersTaken
<1>3. RecordingsAreWhole'
  BY DEF RecordingInv, RecordingsAreWhole, Whole
<1> QED BY <1>1, <1>2, <1>3 DEF RecordingInv

LEMMA OwnerPushed ==
  ASSUME PageTypes, OneOwner, NEW f \in FrameSet, f.owns = (stack = <<>>),
         NEW s \in Seq(FrameSet), Len(s) = Len(stack),
         \A i \in 1 .. Len(stack) : s[i].owns = stack[i].owns,
         stack' = Append(s, f), inside' = TRUE
  PROVE  OneOwner'
<1>1. Len(stack) \in Nat /\ (stack = <<>> <=> Len(stack) = 0) /\ stack \in Seq(FrameSet)
  BY DEF PageTypes
<1>2. /\ stack' \in Seq(FrameSet) /\ Len(stack') = Len(stack) + 1
      /\ stack'[Len(stack) + 1] = f /\ \A i \in 1 .. Len(stack) : stack'[i] = s[i]
  BY PushedFrame
<1>3. stack' # <<>>
  <2>1. Len(stack') > 0
    BY <1>1, <1>2
  <2> QED BY <2>1
<1>4. ASSUME NEW i \in 1 .. Len(stack) + 1 PROVE stack'[i].owns = (i = 1)
  <2>1. CASE i \in 1 .. Len(stack)
    BY <1>2, <2>1 DEF OneOwner
  <2>2. CASE i = Len(stack) + 1
    BY <1>1, <1>2, <2>2
  <2> QED BY <1>1, <2>1, <2>2
<1> QED BY <1>2, <1>3, <1>4 DEF OneOwner

LEMMA SubmitRecording == ASSUME PageTypes, RecordingInv, Submit PROVE RecordingInv'
<1>1. PICK line \in Lines :
        /\ lines' = IF target = Nil \/ line \in Omitted THEN lines ELSE lines + 1
        /\ lines' <= MaxBlocks
        /\ Dispatch(line)
  BY DEF Submit
<1>2. stack = <<>> /\ ~inside /\ capture = Nil /\ Enters
  BY DEF Submit, RecordingInv, OneOwner, CaptureIsWhole, Enters
<1>3. lines \in Nat /\ lines' \in Nat /\ MaxBlocks \in Nat /\ lines' >= lines
      /\ lines' \in 0 .. MaxBlocks
  BY <1>1, LinesAssumption DEF RecordingInv, RecordingTypes
<1>4. UNCHANGED <<target, taken, cut, printed>> /\ inside' = TRUE
      /\ capture' = IF target # Nil /\ line \notin Omitted THEN <<<<lines', 0>>>> ELSE Nil
  BY <1>1, <1>2 DEF Dispatch, Enter
<1>5. RecordingTypes' /\ TargetIsGood'
  BY <1>3, <1>4 DEF RecordingInv, RecordingTypes, TargetIsGood
<1>6. OneOwner'
  <2>1. stack' = Append(stack, Frame(line, <<>>, TRUE)) /\ Frame(line, <<>>, TRUE) \in FrameSet
        /\ Frame(line, <<>>, TRUE).owns = TRUE
    BY <1>1, <1>2 DEF Dispatch, Frame, FrameSet
  <2> QED BY <1>2, <1>4, <2>1, OwnerPushed DEF RecordingInv, PageTypes
<1>7. SilentAhead'
  BY <1>3, <1>4 DEF RecordingInv, SilentAhead
<1>8. CASE capture' = Nil
  <2>1. CaptureIsWhole'
    BY <1>8 DEF CaptureIsWhole
  <2>2. NumbersTaken'
    <3> SUFFICES ASSUME NEW f \in Files, taken[f] # Nil, NEW i \in DOMAIN taken[f]
                 PROVE  taken[f][i][1] <= lines'
      BY <1>4, <1>8 DEF NumbersTaken
    <3>1. taken[f][i][1] \in 1 .. lines
      BY DEF RecordingInv, RecordingsAreWhole, Whole
    <3> QED BY <1>3, <3>1
  <2> QED BY <1>3, <1>4, <1>5, <1>6, <1>7, <2>1, <2>2, WholeStays DEF RecordingInv
<1>9. CASE capture' # Nil
  <2>1. capture' = <<<<lines', 0>>>> /\ lines' = lines + 1
    BY <1>1, <1>4, <1>9
  <2>2. CaptureIsWhole'
    <3>1. printed[lines'] = 0
      BY <1>3, <2>1 DEF RecordingInv, SilentAhead
    <3>2. /\ <<<<lines', 0>>>> \in Seq(Events) /\ Len(<<<<lines', 0>>>>) = 1
          /\ <<<<lines', 0>>>>[1] = <<lines', 0>>
      BY <1>3 DEF Events
    <3>3. \A i \in 1 .. 1 : capture'[i] = <<lines', i - 1>>
      BY <2>1, <3>2
    <3> QED BY <1>3, <1>4, <2>1, <3>1, <3>2, <3>3 DEF CaptureIsWhole
  <2>3. NumbersTaken'
    <3> SUFFICES ASSUME NEW f \in Files, taken[f] # Nil, NEW i \in DOMAIN taken[f]
                 PROVE  taken[f][i][1] <= lines' /\ taken[f][i][1] # lines'
      BY <1>4 DEF NumbersTaken
    <3>1. taken[f][i][1] \in 1 .. lines
      BY DEF RecordingInv, RecordingsAreWhole, Whole
    <3> QED BY <1>3, <2>1, <3>1
  <2> QED BY <1>3, <1>4, <1>5, <1>6, <1>7, <2>2, <2>3, WholeStays DEF RecordingInv
<1> QED BY <1>8, <1>9

\* A line that another runs changes nothing of the recording.
LEMMA NestedRecording ==
  ASSUME PageTypes, RecordingInv, NEW s \in Seq(FrameSet), NEW f \in FrameSet,
         stack # <<>>, f.owns = FALSE, Len(s) = Len(stack),
         \A i \in 1 .. Len(stack) : s[i].owns = stack[i].owns,
         stack' = Append(s, f), UNCHANGED recordingVars
  PROVE  RecordingInv'
<1>1. inside' = TRUE
  BY DEF RecordingInv, OneOwner, recordingVars
<1>2. OneOwner'
  BY <1>1, OwnerPushed DEF RecordingInv
<1> QED BY <1>2, RecordingKept DEF recordingVars

LEMMA EmitRecording == ASSUME PageTypes, RecordingInv, Emit PROVE RecordingInv'
<1>1. lines \in 0 .. MaxBlocks /\ lines \in Nat /\ lines > 0 /\ printed[lines] \in Nat
      /\ printed \in [0 .. MaxBlocks -> Nat]
  BY LinesAssumption DEF Emit, RecordingInv, RecordingTypes, CaptureIsWhole
<1>2. /\ printed' = [printed EXCEPT ![lines] = @ + 1]
      /\ capture' = Append(capture, <<lines, printed[lines] + 1>>) /\ capture # Nil
      /\ UNCHANGED <<stack, inside, target, taken, cut, lines>>
  BY DEF Emit
<1>3. /\ printed' \in [0 .. MaxBlocks -> Nat] /\ printed'[lines] = printed[lines] + 1
      /\ \A n \in 0 .. MaxBlocks : n # lines => printed'[n] = printed[n]
  BY <1>1, <1>2
<1>4. RecordingTypes' /\ OneOwner' /\ TargetIsGood' /\ NumbersTaken'
  BY <1>2, <1>3 DEF RecordingInv, RecordingTypes, OneOwner, TargetIsGood, NumbersTaken
<1>5. SilentAhead'
  BY <1>1, <1>2, <1>3 DEF RecordingInv, SilentAhead
<1>6. CaptureIsWhole'
  <2>1. capture \in Seq(Events) /\ Len(capture) = printed[lines] + 1 /\ inside
        /\ \A i \in 1 .. Len(capture) : capture[i] = <<lines, i - 1>>
    BY <1>2 DEF RecordingInv, CaptureIsWhole
  <2> DEFINE e == <<lines, printed[lines] + 1>>
  <2>2. e \in Events
    BY <1>1 DEF Events
  <2> HIDE DEF e
  <2>3. /\ capture' \in Seq(Events) /\ Len(capture') = Len(capture) + 1
        /\ capture'[Len(capture) + 1] = e
        /\ \A i \in 1 .. Len(capture) : capture'[i] = capture[i]
    BY <1>2, <2>1, <2>2 DEF e
  <2>4. ASSUME NEW i \in 1 .. Len(capture) + 1 PROVE capture'[i] = <<lines, i - 1>>
    <3>1. CASE i \in 1 .. Len(capture)
      BY <2>1, <2>3, <3>1
    <3>2. CASE i = Len(capture) + 1
      BY <1>1, <2>1, <2>3, <3>2 DEF e
    <3> QED BY <2>1, <3>1, <3>2
  <2> QED BY <1>1, <1>2, <1>3, <2>1, <2>3, <2>4 DEF CaptureIsWhole
<1>7. RecordingsAreWhole'
  <2>1. lines' >= lines
    BY <1>1, <1>2
  <2>2. \A n \in 0 .. lines : (capture # Nil => n # lines) => printed'[n] = printed[n]
    BY <1>1, <1>2, <1>3, LinesAssumption
  <2> QED BY <1>2, <1>4, <2>1, <2>2, WholeStays
<1> QED BY <1>4, <1>5, <1>6, <1>7 DEF RecordingInv

LEMMA SwitchRecording ==
  ASSUME PageTypes, RecordingInv, StartRecording \/ StopRecording
  PROVE  RecordingInv'
<1>1. CASE StartRecording
  <2>1. PICK f \in Files : taken[f] = Nil /\ target' = f /\ taken' = [taken EXCEPT ![f] = <<>>]
    BY <1>1 DEF StartRecording
  <2>2. UNCHANGED <<stack, inside, capture, cut, lines, printed>>
    BY <1>1 DEF StartRecording
  <2>3. /\ taken' \in [Files -> Seq(Events) \cup {Nil}] /\ taken'[f] = <<>>
        /\ \A g \in Files : g # f => taken'[g] = taken[g]
    <3>1. <<>> \in Seq(Events)
      OBVIOUS
    <3> QED BY <2>1, <3>1 DEF RecordingInv, RecordingTypes
  <2>4. RecordingTypes' /\ OneOwner' /\ SilentAhead' /\ CaptureIsWhole'
    BY <2>1, <2>2, <2>3
       DEF RecordingInv, RecordingTypes, OneOwner, SilentAhead, CaptureIsWhole
  <2>5. TargetIsGood'
    BY <2>1, <2>2, <2>3, NilIsNoFile DEF RecordingInv, RecordingTypes, TargetIsGood
  <2>6. DOMAIN <<>> = {}
    OBVIOUS
  <2>7. NumbersTaken'
    BY <2>1, <2>2, <2>3, <2>6 DEF RecordingInv, NumbersTaken
  <2>8. RecordingsAreWhole'
    <3>1. ASSUME NEW g \in Files, taken'[g] # Nil PROVE Whole(g)'
      <4>1. CASE g = f
        BY <2>3, <2>6, <4>1 DEF Whole
      <4>2. CASE g # f
        <5>1. taken'[g] = taken[g] /\ Whole(g)
          BY <2>3, <3>1, <4>2 DEF RecordingInv, RecordingsAreWhole
        <5> QED BY <2>2, <5>1 DEF Whole
      <4> QED BY <4>1, <4>2
    <3>2. ASSUME NEW g \in Files, NEW h \in Files, taken'[g] # Nil, taken'[h] # Nil, g # h,
                 NEW i \in DOMAIN taken'[g], NEW k \in DOMAIN taken'[h]
          PROVE  taken'[g][i][1] # taken'[h][k][1]
      <4>1. g # f /\ h # f
        BY <2>3, <2>6, <3>2
      <4> QED BY <2>3, <3>2, <4>1 DEF RecordingInv, RecordingsAreWhole
    <3> QED BY <3>1, <3>2 DEF RecordingsAreWhole
  <2> QED BY <2>4, <2>5, <2>7, <2>8 DEF RecordingInv
<1>2. CASE StopRecording
  <2>1. target' = Nil /\ UNCHANGED <<stack, inside, capture, taken, cut, lines, printed>>
    BY <1>2 DEF StopRecording
  <2>2. OneOwner'
    BY <2>1 DEF RecordingInv, OneOwner
  <2> QED BY <2>1, <2>2, RecordingKept
<1> QED BY <1>1, <1>2

\* What a file holds after the first n events of the capture were written to it.
LEMMA BlockWritten ==
  ASSUME RecordingInv, capture # Nil, target # Nil, NEW n \in 0 .. Len(capture),
         NEW new, new = taken[target] \o SubSeq(capture, 1, n)
  PROVE  /\ taken[target] \in Seq(Events) /\ Len(taken[target]) \in Nat
         /\ new \in Seq(Events) /\ Len(new) = Len(taken[target]) + n
         /\ \A i \in 1 .. Len(taken[target]) : new[i] = taken[target][i]
         /\ \A i \in Len(taken[target]) + 1 .. Len(taken[target]) + n :
              new[i] = <<lines, i - Len(taken[target]) - 1>>
<1> DEFINE old == taken[target]
           block == SubSeq(capture, 1, n)
<1>1. old \in Seq(Events) /\ Len(old) \in Nat
  BY DEF RecordingInv, RecordingTypes, TargetIsGood
<1>2. capture \in Seq(Events) /\ Len(capture) \in Nat
      /\ \A i \in 1 .. Len(capture) : capture[i] = <<lines, i - 1>>
  BY DEF RecordingInv, CaptureIsWhole
<1>3. n \in Nat
  BY <1>2
<1>4. block \in Seq(Events) /\ Len(block) = n /\ \A i \in 1 .. n : block[i] = capture[i]
  BY <1>2, <1>3
<1>5. \A i \in 1 .. n : block[i] = <<lines, i - 1>>
  BY <1>2, <1>3, <1>4
<1> HIDE DEF old, block
<1>6. /\ old \o block \in Seq(Events) /\ Len(old \o block) = Len(old) + Len(block)
      /\ \A i \in 1 .. Len(old) : (old \o block)[i] = old[i]
      /\ \A i \in Len(old) + 1 .. Len(old) + Len(block) :
           (old \o block)[i] = block[i - Len(old)]
  BY <1>1, <1>4, SMTT(30)
<1>7. \A i \in Len(old) + 1 .. Len(old) + n : (old \o block)[i] = <<lines, i - Len(old) - 1>>
  <2> TAKE i \in Len(old) + 1 .. Len(old) + n
  <2>1. i - Len(old) \in 1 .. n
    BY <1>1, <1>3
  <2> QED BY <1>4, <1>5, <1>6, <2>1
<1> QED BY <1>1, <1>4, <1>6, <1>7 DEF old, block

\* What Whole says of one event of a sequence.
WholeAt(seq, i, bound, said, open) ==
  LET event == seq[i]
      ends  == event[2] = said[event[1]]
      fresh == \A k \in 1 .. i - 1 : seq[k][1] < event[1]
  IN  /\ event[1] \in 1 .. bound
      /\ event[2] = 0 => fresh
      /\ event[2] > 0 => i > 1 /\ seq[i - 1] = <<event[1], event[2] - 1>>
      /\ i = Len(seq) /\ open => ends
      /\ i < Len(seq) /\ ~ends => seq[i + 1] = <<event[1], event[2] + 1>>

LEMMA WholeIsWholeAt ==
  ASSUME NEW f \in Files
  PROVE  Whole(f) <=>
           \A i \in DOMAIN taken[f] : WholeAt(taken[f], i, lines, printed, f \notin cut)
BY DEF Whole, WholeAt

\* A block of a new line after whole ones, all of it or cut off by the end.
LEMMA BlockFollows ==
  ASSUME NEW bound \in Nat, bound > 0, NEW said, NEW all \in Nat, said[bound] = all,
         NEW open \in BOOLEAN, NEW n \in 0 .. all + 1, open => n = all + 1,
         NEW old \in Seq(Events), NEW new \in Seq(Events), Len(new) = Len(old) + n,
         \A i \in 1 .. Len(old) : new[i] = old[i],
         \A i \in Len(old) + 1 .. Len(old) + n : new[i] = <<bound, i - Len(old) - 1>>,
         \A i \in 1 .. Len(old) : WholeAt(old, i, bound, said, TRUE) /\ old[i][1] # bound
  PROVE  \A i \in 1 .. Len(new) : WholeAt(new, i, bound, said, open)
<1>1. Len(old) \in Nat /\ n \in Nat
  OBVIOUS
<1>2. ASSUME NEW i \in 1 .. Len(old) PROVE WholeAt(new, i, bound, said, open)
  <2>1. /\ old[i][1] \in 1 .. bound /\ old[i][1] # bound
        /\ old[i][2] = 0 => \A k \in 1 .. i - 1 : old[k][1] < old[i][1]
        /\ old[i][2] > 0 => i > 1 /\ old[i - 1] = <<old[i][1], old[i][2] - 1>>
        /\ i = Len(old) => old[i][2] = said[old[i][1]]
        /\ i < Len(old) /\ ~(old[i][2] = said[old[i][1]]) =>
             old[i + 1] = <<old[i][1], old[i][2] + 1>>
    <3>1. WholeAt(old, i, bound, said, TRUE)
      OBVIOUS
    <3> QED BY <3>1 DEF WholeAt
  <2>2. new[i] = old[i] /\ \A k \in 1 .. i - 1 : new[k] = old[k]
    BY <1>1
  <2>3. old[i][2] > 0 => i > 1 /\ new[i - 1] = <<old[i][1], old[i][2] - 1>>
    <3>1. i > 1 => i - 1 \in 1 .. i - 1
      BY <1>1
    <3> QED BY <2>1, <2>2, <3>1
  <2>4. i = Len(new) => old[i][2] = said[old[i][1]]
    <3>1. i = Len(new) => i = Len(old)
      BY <1>1
    <3> QED BY <2>1, <3>1
  <2>5. i < Len(new) /\ ~(old[i][2] = said[old[i][1]]) =>
          new[i + 1] = <<old[i][1], old[i][2] + 1>>
    <3>1. i < Len(old) => i + 1 \in 1 .. Len(old)
      BY <1>1
    <3>2. i < Len(old) \/ i = Len(old)
      BY <1>1
    <3> QED BY <2>1, <3>1, <3>2
  <2> QED BY <2>1, <2>2, <2>3, <2>4, <2>5 DEF WholeAt
<1>3. \A k \in 1 .. Len(old) : new[k][1] < bound
  <2> TAKE k \in 1 .. Len(old)
  <2>1. old[k][1] \in 1 .. bound /\ old[k][1] # bound /\ new[k] = old[k]
    BY DEF WholeAt
  <2> QED BY <2>1
<1>4. ASSUME NEW i \in Len(old) + 1 .. Len(old) + n PROVE WholeAt(new, i, bound, said, open)
  <2> DEFINE j == i - Len(old) - 1
  <2>1. j \in Nat /\ j < n /\ i = Len(old) + j + 1
    BY <1>1
  <2>2. new[i] = <<bound, j>>
    OBVIOUS
  <2>3. j > 0 => i > 1 /\ new[i - 1] = <<bound, j - 1>>
    <3>1. j > 0 => i - 1 \in Len(old) + 1 .. Len(old) + n /\ i - 1 - Len(old) - 1 = j - 1
      BY <1>1
    <3>2. j > 0 => i > 1
      BY <1>1
    <3> HIDE DEF j
    <3> QED BY <3>1, <3>2
  <2>4. i < Len(new) => new[i + 1] = <<bound, j + 1>>
    <3>1. i < Len(new) =>
            i + 1 \in Len(old) + 1 .. Len(old) + n /\ i + 1 - Len(old) - 1 = j + 1
      BY <1>1
    <3> HIDE DEF j
    <3> QED BY <3>1
  <2>5. i = Len(new) /\ open => j = said[bound]
    BY <1>1, <2>1
  <2>6. j = 0 => \A k \in 1 .. i - 1 : new[k][1] < bound
    BY <1>1, <1>3, <2>1
  <2>7. new[i][1] = bound /\ new[i][2] = j /\ bound \in 1 .. bound
    <3> HIDE DEF j
    <3> QED BY <2>2
  <2> HIDE DEF j
  <2> QED BY <2>3, <2>4, <2>5, <2>6, <2>7 DEF WholeAt
<1>5. \A i \in 1 .. Len(new) : i \in 1 .. Len(old) \/ i \in Len(old) + 1 .. Len(old) + n
  BY <1>1
<1> QED BY <1>2, <1>4, <1>5

LEMMA WholeWithBlock ==
  ASSUME RecordingInv, capture # Nil, NEW f \in Files, f = target, NEW n \in 0 .. Len(capture),
         UNCHANGED <<lines, printed>>,
         taken'[f] = taken[f] \o SubSeq(capture, 1, n),
         f \in cut' \/ n = Len(capture)
  PROVE  Whole(f)'
<1>1. target # Nil
  BY NilIsNoFile
<1> DEFINE old == taken[f]
           new == taken[f] \o SubSeq(capture, 1, n)
<1>2. /\ old \in Seq(Events) /\ new \in Seq(Events) /\ Len(new) = Len(old) + n
      /\ \A i \in 1 .. Len(old) : new[i] = old[i]
      /\ \A i \in Len(old) + 1 .. Len(old) + n : new[i] = <<lines, i - Len(old) - 1>>
  BY <1>1, BlockWritten
<1>3. lines \in 0 .. MaxBlocks /\ printed \in [0 .. MaxBlocks -> Nat]
  BY DEF RecordingInv, RecordingTypes
<1>4. lines > 0 /\ Len(capture) = printed[lines] + 1
  BY DEF RecordingInv, CaptureIsWhole
<1>5. lines \in Nat /\ printed[lines] \in Nat /\ n \in 0 .. printed[lines] + 1
  BY <1>3, <1>4
<1>6. f \notin cut /\ old # Nil /\ Whole(f)
  BY <1>1 DEF RecordingInv, TargetIsGood, RecordingsAreWhole
<1>7. \A i \in DOMAIN old : WholeAt(old, i, lines, printed, TRUE) /\ old[i][1] # lines
  BY <1>6, WholeIsWholeAt DEF RecordingInv, NumbersTaken
<1>8. DOMAIN old = 1 .. Len(old) /\ DOMAIN new = 1 .. Len(new)
  BY <1>2
<1>9. (f \notin cut') \in BOOLEAN /\ (f \notin cut' => n = printed[lines] + 1)
  BY <1>4
<1> HIDE DEF old, new
<1>10. \A i \in 1 .. Len(new) : WholeAt(new, i, lines, printed, f \notin cut')
  BY <1>2, <1>4, <1>5, <1>7, <1>8, <1>9, BlockFollows, ZenonT(40)
<1>11. taken'[f] = new /\ lines' = lines /\ printed' = printed
  BY DEF new
<1>12. \A i \in DOMAIN taken'[f] : WholeAt(taken'[f], i, lines', printed', f \notin cut')
  BY <1>8, <1>10, <1>11
<1> QED BY <1>12 DEF Whole, WholeAt

\* The end of a line that is recorded: its events follow those in the file, all
\* of them or, when the write fails, the first of them.
LEMMA WrittenRecording ==
  ASSUME RecordingInv, capture # Nil, target # Nil, NEW n \in 0 .. Len(capture),
         taken' = [taken EXCEPT ![target] = @ \o SubSeq(capture, 1, n)],
         \/ n = Len(capture) /\ UNCHANGED <<target, cut>>
         \/ target' = Nil /\ cut' = cut \cup {target},
         capture' = Nil, UNCHANGED <<lines, printed>>
  PROVE  /\ RecordingTypes' /\ SilentAhead' /\ TargetIsGood' /\ CaptureIsWhole'
         /\ NumbersTaken' /\ RecordingsAreWhole'
<1> DEFINE old == taken[target]
           new == taken[target] \o SubSeq(capture, 1, n)
<1>1. target \in Files /\ taken \in [Files -> Seq(Events) \cup {Nil}] /\ cut \subseteq Files
      /\ old # Nil
  BY DEF RecordingInv, RecordingTypes, TargetIsGood
<1>2. taken'[target] = new /\ \A f \in Files : f # target => taken'[f] = taken[f]
  BY <1>1
<1>3. /\ old \in Seq(Events) /\ Len(old) \in Nat
      /\ new \in Seq(Events) /\ Len(new) = Len(old) + n
      /\ \A i \in 1 .. Len(old) : new[i] = old[i]
      /\ \A i \in Len(old) + 1 .. Len(old) + n : new[i] = <<lines, i - Len(old) - 1>>
  BY BlockWritten
<1>4. \A f \in Files : f = target => Whole(f)'
  BY <1>2, WholeWithBlock
<1>5. n \in Nat /\ lines \in Nat
  BY DEF RecordingInv, RecordingTypes, CaptureIsWhole
<1> HIDE DEF old, new
<1>6. \A i \in DOMAIN new : (i \in 1 .. Len(old) /\ new[i] = old[i]) \/ new[i][1] = lines
  BY <1>3, <1>5
<1>7. RecordingTypes'
  BY <1>1, <1>2, <1>3 DEF RecordingInv, RecordingTypes, new
<1>8. SilentAhead' /\ CaptureIsWhole'
  BY DEF RecordingInv, SilentAhead, CaptureIsWhole
<1>9. TargetIsGood'
  <2>1. taken'[target] # Nil
    BY <1>2, <1>3, NilIsNoFile
  <2> QED BY <1>1, <1>2, <2>1 DEF RecordingInv, TargetIsGood
<1>10. DOMAIN old = 1 .. Len(old)
  BY <1>3
<1>11. ASSUME NEW f \in Files, taken'[f] # Nil, NEW i \in DOMAIN taken'[f]
       PROVE  \/ f = target /\ taken'[f][i][1] = lines
              \/ /\ taken[f] # Nil /\ i \in DOMAIN taken[f]
                 /\ taken'[f][i][1] = taken[f][i][1]
  <2>1. CASE f = target
    BY <1>1, <1>2, <1>6, <1>10, <1>11, <2>1 DEF old
  <2>2. CASE f # target
    BY <1>2, <1>11, <2>2
  <2> QED BY <2>1, <2>2
<1>12. \A f \in Files : taken[f] # Nil =>
         \A i \in DOMAIN taken[f] : taken[f][i][1] <= lines /\ taken[f][i][1] # lines
  BY DEF RecordingInv, NumbersTaken
<1>13. NumbersTaken'
  <2> SUFFICES ASSUME NEW f \in Files, taken'[f] # Nil, NEW i \in DOMAIN taken'[f]
               PROVE  taken'[f][i][1] <= lines
    BY DEF NumbersTaken
  <2>1. \/ taken'[f][i][1] = lines
        \/ taken[f] # Nil /\ i \in DOMAIN taken[f] /\ taken'[f][i][1] = taken[f][i][1]
    BY <1>11
  <2>2. lines <= lines
    BY <1>5
  <2> QED BY <1>12, <2>1, <2>2
<1>14. RecordingsAreWhole'
  <2>1. ASSUME NEW f \in Files, taken'[f] # Nil PROVE Whole(f)'
    <3>1. CASE f = target
      BY <1>4, <3>1
    <3>2. CASE f # target
      <4>1. taken'[f] = taken[f] /\ Whole(f) /\ (f \in cut' <=> f \in cut)
        BY <1>2, <2>1, <3>2 DEF RecordingInv, RecordingsAreWhole
      <4> QED BY <4>1 DEF Whole
    <3> QED BY <3>1, <3>2
  <2>2. ASSUME NEW f \in Files, NEW g \in Files, taken'[f] # Nil, taken'[g] # Nil, f # g,
               NEW i \in DOMAIN taken'[f], NEW k \in DOMAIN taken'[g]
        PROVE  taken'[f][i][1] # taken'[g][k][1]
    <3>1. \/ f = target /\ taken'[f][i][1] = lines
          \/ taken[f] # Nil /\ i \in DOMAIN taken[f] /\ taken'[f][i][1] = taken[f][i][1]
      BY <1>11, <2>2
    <3>2. \/ g = target /\ taken'[g][k][1] = lines
          \/ taken[g] # Nil /\ k \in DOMAIN taken[g] /\ taken'[g][k][1] = taken[g][k][1]
      BY <1>11, <2>2
    <3> QED BY <1>12, <2>2, <3>1, <3>2 DEF RecordingInv, RecordingsAreWhole
  <2> QED BY <2>1, <2>2 DEF RecordingsAreWhole
<1> QED BY <1>7, <1>8, <1>9, <1>13, <1>14

LEMMA EndRecording == ASSUME PageTypes, RecordingInv, EndLine PROVE RecordingInv'
<1>1. stack \in Seq(FrameSet) /\ stack # <<>> /\ Len(stack) \in Nat /\ Len(stack) > 0
  <2>1. stack \in Seq(FrameSet) /\ stack # <<>>
    BY DEF EndLine, PageTypes
  <2> QED BY <2>1
<1>2. /\ stack' \in Seq(FrameSet) /\ Len(stack') = Len(stack) - 1
      /\ \A i \in 1 .. Len(stack') : stack'[i] = stack[i]
  BY <1>1, PoppedFrame DEF EndLine
<1>3. inside = TRUE /\ \A i \in 1 .. Len(stack) : stack[i].owns = (i = 1)
  BY <1>1 DEF RecordingInv, OneOwner
<1>4. Innermost.owns = (Len(stack) = 1)
  <2>1. Len(stack) \in 1 .. Len(stack)
    BY <1>1
  <2> QED BY <1>3, <2>1, Zenon DEF Innermost
<1>5. \A i \in 1 .. Len(stack') : stack'[i].owns = (i = 1)
  BY <1>1, <1>2, <1>3
<1>6. (stack' = <<>>) <=> (Len(stack) = 1)
  BY <1>1, <1>2
<1>7. CASE Len(stack) = 1
  <2>1. FinishRecording
    BY <1>4, <1>7 DEF EndLine
  <2>2. OneOwner'
    BY <1>5, <1>6, <1>7, <2>1 DEF OneOwner, FinishRecording
  <2>3. CASE capture = Nil \/ target = Nil
    <3>1. capture' = Nil /\ UNCHANGED <<target, taken, cut, lines, printed>>
      BY <2>1, <2>3 DEF FinishRecording
    <3>2. RecordingTypes' /\ SilentAhead' /\ TargetIsGood' /\ CaptureIsWhole' /\ NumbersTaken'
      BY <3>1 DEF RecordingInv, RecordingTypes, SilentAhead, TargetIsGood, CaptureIsWhole,
         NumbersTaken
    <3>3. RecordingsAreWhole'
      BY <3>1 DEF RecordingInv, RecordingsAreWhole, Whole
    <3> QED BY <2>2, <3>2, <3>3 DEF RecordingInv
  <2>4. CASE capture # Nil /\ target # Nil
    <3>1. capture \in Seq(Events) /\ Len(capture) \in Nat
      BY <2>4 DEF RecordingInv, CaptureIsWhole
    <3>2. capture = SubSeq(capture, 1, Len(capture))
      BY <3>1, SubSeqFull
    <3>3. capture' = Nil /\ UNCHANGED <<lines, printed>>
      BY <2>1 DEF FinishRecording
    <3>4. CASE /\ taken' = [taken EXCEPT ![target] = @ \o capture]
               /\ UNCHANGED <<target, cut>>
      <4>1. taken' = [taken EXCEPT ![target] = @ \o SubSeq(capture, 1, Len(capture))]
        BY <3>2, <3>4
      <4>2. Len(capture) \in 0 .. Len(capture)
        BY <3>1
      <4>3. /\ RecordingTypes' /\ SilentAhead' /\ TargetIsGood' /\ CaptureIsWhole'
            /\ NumbersTaken' /\ RecordingsAreWhole'
        BY <2>4, <3>3, <3>4, <4>1, <4>2, WrittenRecording
      <4> QED BY <2>2, <4>3 DEF RecordingInv
    <3>5. CASE \E n \in 0 .. Len(capture) - 1 :
                 /\ taken' = [taken EXCEPT ![target] = @ \o SubSeq(capture, 1, n)]
                 /\ target' = Nil
                 /\ cut' = cut \cup {target}
      <4>1. PICK n \in 0 .. Len(capture) - 1 :
                 /\ taken' = [taken EXCEPT ![target] = @ \o SubSeq(capture, 1, n)]
                 /\ target' = Nil
                 /\ cut' = cut \cup {target}
        BY <3>5
      <4>2. n \in 0 .. Len(capture)
        BY <3>1
      <4>3. /\ RecordingTypes' /\ SilentAhead' /\ TargetIsGood' /\ CaptureIsWhole'
            /\ NumbersTaken' /\ RecordingsAreWhole'
        BY <2>4, <3>3, <4>1, <4>2, WrittenRecording
      <4> QED BY <2>2, <4>3 DEF RecordingInv
    <3> QED BY <2>1, <2>4, <3>4, <3>5 DEF FinishRecording
  <2> QED BY <2>3, <2>4
<1>8. CASE Len(stack) # 1
  <2>1. UNCHANGED recordingVars
    BY <1>4, <1>8 DEF EndLine
  <2>2. OneOwner'
    BY <1>3, <1>5, <1>6, <1>8, <2>1 DEF OneOwner, recordingVars
  <2> QED BY <2>1, <2>2, RecordingKept DEF recordingVars
<1> QED BY <1>7, <1>8

\* A step to a page marks the line that steps and adds one that it owns.
LEMMA StepPageFrames ==
  ASSUME LinesInv, NEW forward \in BOOLEAN, StepPage(forward)
  PROVE  \E f \in FrameSet, s \in Seq(FrameSet) :
           /\ stack' = Append(s, f) /\ f.owns = FALSE /\ Len(s) = Len(stack)
           /\ \A i \in 1 .. Len(stack) : s[i].owns = stack[i].owns
<1> DEFINE outer == [stack EXCEPT ![Len(stack)].stepped = TRUE]
           from == SubSeq(walk, 1, IF forward THEN Len(walk) ELSE Len(walk) - 2)
           f == Frame(Command(forward), from, FALSE)
           top == [stack[Len(stack)] EXCEPT !.stepped = TRUE]
<1>1. stack \in Seq(FrameSet) /\ stack # <<>> /\ Len(stack) \in Nat /\ Len(stack) > 0
  BY DEF LinesInv, PageTypes, StepPage
<1>2. top \in FrameSet /\ top.owns = stack[Len(stack)].owns
  <2>1. stack[Len(stack)] \in FrameSet
    BY <1>1
  <2> QED BY <2>1, MarkedFrame
<1>3. outer = [stack EXCEPT ![Len(stack)] = top]
  OBVIOUS
<1> HIDE DEF top
<1>4. /\ outer \in Seq(FrameSet) /\ Len(outer) = Len(stack)
      /\ \A i \in 1 .. Len(stack) : outer[i].owns = stack[i].owns
  <2> HIDE DEF outer
  <2> QED BY <1>1, <1>2, <1>3, ChangedFrame
<1>5. stack' = Append(outer, f)
  BY DEF StepPage
<1>6. f.owns = FALSE
  BY DEF Frame
<1>7. stack' \in Seq(FrameSet)
  BY StepPageStep DEF LinesInv, PageTypes
<1>8. f \in FrameSet
  <2>1. Len(outer) + 1 \in 1 .. Len(stack') /\ stack'[Len(outer) + 1] = f
    <3>1. \A x : \A s \in Seq(FrameSet) :
            Append(s, x)[Len(s) + 1] = x /\ Len(s) + 1 \in 1 .. Len(Append(s, x))
      OBVIOUS
    <3> HIDE DEF outer, f
    <3> QED BY <1>4, <1>5, <3>1, Zenon
  <2> HIDE DEF outer, f
  <2> QED BY <1>7, <2>1
<1> QED BY <1>4, <1>5, <1>6, <1>8

LEMMA PublishFrames == ASSUME LinesInv, OneOwner, Publish PROVE OneOwner'
<1> DEFINE top == [stack[Len(stack)] EXCEPT !.published = TRUE]
<1>1. /\ stack \in Seq(FrameSet) /\ stack # <<>> /\ Len(stack) \in Nat /\ Len(stack) > 0
      /\ inside' = inside
  BY DEF LinesInv, PageTypes, Publish, recordingVars
<1>2. top \in FrameSet /\ top.owns = stack[Len(stack)].owns
  <2>1. stack[Len(stack)] \in FrameSet
    BY <1>1
  <2> QED BY <2>1, MarkedFrame
<1>3. stack' = [stack EXCEPT ![Len(stack)] = top]
  BY DEF Publish
<1> HIDE DEF top
<1>4. /\ stack' \in Seq(FrameSet) /\ Len(stack') = Len(stack)
      /\ \A i \in 1 .. Len(stack) : stack'[i].owns = stack[i].owns
  <2>1. /\ stack' \in Seq(FrameSet) /\ Len(stack') = Len(stack)
        /\ stack'[Len(stack)] = top /\ \A i \in 1 .. Len(stack) - 1 : stack'[i] = stack[i]
    BY <1>1, <1>2, <1>3, ChangedFrame
  <2>2. \A i \in 1 .. Len(stack) : i = Len(stack) \/ i \in 1 .. Len(stack) - 1
    BY <1>1
  <2> QED BY <1>2, <2>1, <2>2
<1>5. stack' # <<>>
  BY <1>1, <1>4
<1> QED BY <1>1, <1>4, <1>5 DEF OneOwner

\* Recordings are sequences of whole lines, for any commands, any nesting of
\* lines, any number of recordings and writes that fail after any event.
THEOREM RecordingsWhole == LinesSpec => []RecordingsAreWhole
<1>1. LinesInit => LinesInv /\ RecordingInv
  <2>1. LinesInit => LinesInv
    BY InitLinesInv
  <2>2. ASSUME LinesInit PROVE RecordingInv
    <3>1. RecordingTypes
      BY <2>2, LinesAssumption DEF LinesInit, RecordingTypes
    <3>2. OneOwner
      <4>1. stack = <<>> /\ inside = FALSE
        BY <2>2 DEF LinesInit
      <4>2. (<<>> # <<>>) = FALSE /\ 1 .. Len(<<>>) = {}
        OBVIOUS
      <4> QED BY <4>1, <4>2, Zenon DEF OneOwner
    <3>3. SilentAhead /\ TargetIsGood /\ CaptureIsWhole
      BY <2>2 DEF LinesInit, SilentAhead, TargetIsGood, CaptureIsWhole
    <3>4. NumbersTaken /\ RecordingsAreWhole
      BY <2>2 DEF LinesInit, NumbersTaken, RecordingsAreWhole
    <3> QED BY <3>1, <3>2, <3>3, <3>4 DEF RecordingInv
  <2> QED BY <2>1, <2>2
<1>2. ASSUME LinesInv, RecordingInv, [LinesNext]_lineVars PROVE LinesInv' /\ RecordingInv'
  <2>1. LinesInv' /\ PageTypes
    BY <1>2, LinesInvStep DEF LinesInv
  <2>2. CASE Submit
    BY <1>2, <2>1, <2>2, SubmitRecording
  <2>3. CASE RunChild
    <3>1. PICK line \in Children : Dispatch(line)
      BY <2>3 DEF RunChild
    <3> DEFINE f == Frame(line, <<>>, FALSE)
    <3>2. ~Enters /\ stack # <<>> /\ stack \in Seq(FrameSet)
      BY <1>2, <2>1, <2>3 DEF RunChild, RecordingInv, OneOwner, Enters, PageTypes
    <3>3. stack' = Append(stack, f) /\ f \in FrameSet /\ f.owns = FALSE
      <4>1. Enters = FALSE /\ line \in Lines /\ <<>> \in Seq(Lists)
        BY <3>2, LinesAssumption DEF Enters
      <4>2. stack' = Append(stack, f)
        BY <3>1, <4>1 DEF Dispatch
      <4>3. f \in FrameSet /\ f.owns = FALSE
        BY <4>1 DEF Frame, FrameSet
      <4> QED BY <4>2, <4>3
    <3>4. UNCHANGED recordingVars
      BY <1>2, <2>3, <3>1, <3>2
         DEF RunChild, Dispatch, Enter, Enters, recordingVars, RecordingInv, OneOwner
    <3> HIDE DEF f
    <3> QED BY <1>2, <2>1, <3>2, <3>3, <3>4, NestedRecording
  <2>4. ASSUME NEW forward \in BOOLEAN, StepPage(forward) PROVE RecordingInv'
    <3>1. PICK f \in FrameSet, s \in Seq(FrameSet) :
            /\ stack' = Append(s, f) /\ f.owns = FALSE /\ Len(s) = Len(stack)
            /\ \A i \in 1 .. Len(stack) : s[i].owns = stack[i].owns
      BY <1>2, <2>4, StepPageFrames
    <3> QED BY <1>2, <2>1, <2>4, <3>1, NestedRecording DEF StepPage
  <2>5. CASE Publish
    <3>1. OneOwner'
      BY <1>2, <2>5, PublishFrames DEF RecordingInv
    <3>2. target' = target /\ UNCHANGED <<inside, capture, taken, cut, lines, printed>>
      BY <2>5 DEF Publish, recordingVars
    <3> QED BY <1>2, <2>1, <3>1, <3>2, RecordingKept
  <2>6. CASE Emit
    BY <1>2, <2>1, <2>6, EmitRecording
  <2>7. CASE StartRecording \/ StopRecording
    BY <1>2, <2>1, <2>7, SwitchRecording
  <2>8. CASE EndLine
    BY <1>2, <2>1, <2>8, EndRecording
  <2>9. CASE UNCHANGED lineVars
    <3>1. OneOwner'
      <4>1. UNCHANGED <<stack, inside>>
        BY <2>9 DEF lineVars, recordingVars
      <4> QED BY <1>2, <4>1 DEF RecordingInv, OneOwner
    <3>2. target' = target /\ UNCHANGED <<inside, capture, taken, cut, lines, printed>>
      BY <2>9 DEF lineVars, recordingVars
    <3> QED BY <1>2, <2>1, <3>1, <3>2, RecordingKept
  <2> QED BY <1>2, <2>1, <2>2, <2>3, <2>4, <2>5, <2>6, <2>7, <2>8, <2>9 DEF LinesNext
<1>3. RecordingInv => RecordingsAreWhole
  BY DEF RecordingInv
<1> QED BY <1>1, <1>2, <1>3, PTL DEF LinesSpec

-----------------------------------------------------------------------------
(* The output pipeline *)

(* Recursion and induction up to a number. *)

\* Induction up to a bound, from the least number that it is false of.
LEMMA LeastNumber ==
  ASSUME NEW S \in SUBSET Nat, S # {}
  PROVE  \E n \in S : \A m \in S : ~ (m < n)
<1>1. \E n \in S : \A m \in S : ~ (<<m, n>> \in OpToRel(<, Nat))
  BY NatLessThanWellFounded, WFMin
<1> QED BY <1>1 DEF OpToRel

\* What holds of zero, and of every number that follows one it holds of, holds
\* up to any number.
LEMMA UpTo ==
  ASSUME NEW N \in Nat, NEW True, 0 \in True, \A n \in 1 .. N : n - 1 \in True => n \in True
  PROVE  N \in True /\ \A n \in 0 .. N : n \in True
<1> DEFINE Bad == {n \in 0 .. N : n \notin True}
<1> SUFFICES ASSUME Bad # {} PROVE FALSE
  OBVIOUS
<1>1. PICK n \in Bad : \A m \in Bad : ~ (m < n)
  <2>1. Bad \in SUBSET Nat
    OBVIOUS
  <2> HIDE DEF Bad
  <2> QED BY <2>1, LeastNumber
<1>2. n \in 1 .. N /\ n - 1 \in 0 .. N
  OBVIOUS
<1>3. n - 1 \notin Bad
  BY <1>1, <1>2
<1> QED BY <1>2, <1>3

\* A rule that gives each value from the one before it has a solution.
Iterable(X, N, base, change) ==
  \E f \in [0 .. N -> X] : f[0] = base /\ \A n \in 1 .. N : f[n] = change[n][f[n - 1]]

\* A value, and how each number up to N makes a value of another one, define a
\* sequence of values.
LEMMA Recursion ==
  ASSUME NEW X, NEW N \in Nat, NEW base \in X, NEW change \in [1 .. N -> [X -> X]]
  PROVE  Iterable(X, N, base, change)
<1> DEFINE Right(f, m) == f[0] = base /\ \A n \in 1 .. m : f[n] = change[n][f[n - 1]]
           True == {m \in 0 .. N : \E f \in [0 .. m -> X] : Right(f, m)}
<1>1. 0 \in True
  <2> DEFINE f == [n \in 0 .. 0 |-> base]
  <2>1. f \in [0 .. 0 -> X] /\ f[0] = base /\ 1 .. 0 = {}
    OBVIOUS
  <2> HIDE DEF f
  <2> QED BY <2>1
<1>2. ASSUME NEW m \in 1 .. N, m - 1 \in True PROVE m \in True
  <2>1. PICK f \in [0 .. m - 1 -> X] : Right(f, m - 1)
    BY <1>2
  <2> DEFINE g == [n \in 0 .. m |-> IF n = m THEN change[m][f[m - 1]] ELSE f[n]]
  <2>2. change[m][f[m - 1]] \in X
    OBVIOUS
  <2>3. g \in [0 .. m -> X] /\ g[0] = base
    BY <2>1, <2>2
  <2>4. ASSUME NEW n \in 1 .. m PROVE g[n] = change[n][g[n - 1]]
    <3>1. CASE n = m
      BY <3>1
    <3>2. CASE n # m
      <4>1. n \in 1 .. m - 1 /\ n - 1 \in 0 .. m - 1
        BY <3>2
      <4>2. g[n] = f[n] /\ g[n - 1] = f[n - 1]
        BY <4>1
      <4> QED BY <2>1, <4>1, <4>2
    <3> QED BY <3>1, <3>2
  <2> HIDE DEF g
  <2>5. Right(g, m)
    BY <2>3, <2>4
  <2> QED BY <2>3, <2>5
<1> HIDE DEF True
<1>3. N \in True
  BY <1>1, <1>2, UpTo
<1> QED BY <1>3 DEF True, Iterable

(* Sequences. *)

\* A sequence over a set is one over a larger set.
LEMMA SequenceOver ==
  ASSUME NEW S, NEW T, S \subseteq T, NEW seq \in Seq(S)
  PROVE  seq \in Seq(T)
OBVIOUS

\* What Picked adds at each position.
LEMMA PickedByStep ==
  ASSUME NEW S, NEW seq \in Seq(S), NEW at
  PROVE  \E f \in [0 .. Len(seq) -> Seq(S)] :
           /\ Picked(seq, at) = f[Len(seq)] /\ f[0] = <<>>
           /\ \A n \in 1 .. Len(seq) : f[n] = IF n \in at THEN Append(f[n - 1], seq[n]) ELSE f[n - 1]
<1> DEFINE N == Len(seq)
           Rule(f) == f = [n \in 0 .. N |-> IF n = 0 THEN <<>>
                             ELSE IF n \in at THEN Append(f[n - 1], seq[n]) ELSE f[n - 1]]
           X == Seq(S)
           nothing == <<>>
           change == [n \in 1 .. N |-> [x \in X |-> IF n \in at THEN Append(x, seq[n]) ELSE x]]
<1>1. N \in Nat /\ nothing \in X /\ \A n \in 1 .. N : seq[n] \in S
  OBVIOUS
<1>2. change \in [1 .. N -> [X -> X]]
  BY <1>1
<1>3. \A n \in 1 .. N, x \in X : change[n][x] = IF n \in at THEN Append(x, seq[n]) ELSE x
  OBVIOUS
<1> HIDE DEF change, N, X, nothing
<1>4. PICK f \in [0 .. N -> X] : f[0] = nothing /\ \A n \in 1 .. N : f[n] = change[n][f[n - 1]]
  <2>1. Iterable(X, N, nothing, change)
    BY <1>1, <1>2, Recursion
  <2> QED BY <2>1 DEF Iterable
<1>5. \A n \in 1 .. N : n - 1 \in 0 .. N
  BY <1>1
<1>6. \A n \in 1 .. N : f[n] = IF n \in at THEN Append(f[n - 1], seq[n]) ELSE f[n - 1]
  BY <1>3, <1>4, <1>5
<1>7. Rule(f)
  <2>1. \A n \in 0 .. N : n = 0 \/ n \in 1 .. N
    BY <1>1
  <2> QED BY <1>4, <1>6, <2>1 DEF nothing
<1> DEFINE g == CHOOSE f_1 : Rule(f_1)
<1>8. Rule(g) /\ Picked(seq, at) = g[N]
  BY <1>7 DEF Picked, N
<1> HIDE DEF g
<1>9. \A n \in 0 .. N : g[n] = f[n]
  <2> DEFINE True == {n \in 0 .. N : g[n] = f[n]}
  <2>1. 0 \in True
    BY <1>1, <1>4, <1>8 DEF nothing
  <2>2. ASSUME NEW n \in 1 .. N, n - 1 \in True PROVE n \in True
    <3>1. g[n] = IF n \in at THEN Append(g[n - 1], seq[n]) ELSE g[n - 1]
      <4>1. n \in 0 .. N /\ n # 0
        BY <1>1
      <4> QED BY <4>1, <1>8
    <3> QED BY <1>6, <2>2, <3>1
  <2> HIDE DEF True
  <2>3. \A n \in 0 .. N : n \in True
    BY <1>1, <2>1, <2>2, UpTo
  <2> QED BY <2>3 DEF True
<1>10. Picked(seq, at) = f[N]
  BY <1>1, <1>8, <1>9
<1> QED BY <1>4, <1>6, <1>10 DEF N, X, nothing

\* It holds what the sequence holds there, and nothing else.
LEMMA PickedTyped ==
  ASSUME NEW S, NEW seq \in Seq(S), NEW at
  PROVE  /\ Picked(seq, at) \in Seq({seq[i] : i \in at \cap DOMAIN seq})
         /\ Picked(seq, at) \in Seq(S)
<1>1. PICK f \in [0 .. Len(seq) -> Seq(S)] :
        /\ Picked(seq, at) = f[Len(seq)] /\ f[0] = <<>>
        /\ \A n \in 1 .. Len(seq) : f[n] = IF n \in at THEN Append(f[n - 1], seq[n]) ELSE f[n - 1]
  BY PickedByStep
<1> DEFINE Here == {seq[i] : i \in at \cap DOMAIN seq}
           True == {n \in 0 .. Len(seq) : f[n] \in Seq(Here)}
<1>2. 0 \in True
  BY <1>1
<1>3. ASSUME NEW n \in 1 .. Len(seq), n - 1 \in True PROVE n \in True
  <2>1. n \in at => seq[n] \in Here
    OBVIOUS
  <2>2. f[n] = IF n \in at THEN Append(f[n - 1], seq[n]) ELSE f[n - 1]
    BY <1>1
  <2>3. f[n - 1] \in Seq(Here) /\ n \in 0 .. Len(seq)
    BY <1>3
  <2> HIDE DEF Here
  <2>4. f[n] \in Seq(Here)
    BY <2>1, <2>2, <2>3
  <2> QED BY <2>3, <2>4
<1> HIDE DEF True
<1>4. Len(seq) \in True
  BY <1>2, <1>3, UpTo
<1>5. Picked(seq, at) \in Seq(Here)
  BY <1>1, <1>4 DEF True
<1>6. Picked(seq, at) \in Seq(S)
  <2>1. Here \subseteq S
    OBVIOUS
  <2> HIDE DEF Here
  <2> QED BY <1>5, <2>1
<1> QED BY <1>5, <1>6

\* Where it holds all, it is the sequence.
LEMMA PickedAll ==
  ASSUME NEW S, NEW seq \in Seq(S), NEW at, DOMAIN seq \subseteq at
  PROVE  Picked(seq, at) = seq
<1>1. PICK f \in [0 .. Len(seq) -> Seq(S)] :
        /\ Picked(seq, at) = f[Len(seq)] /\ f[0] = <<>>
        /\ \A n \in 1 .. Len(seq) : f[n] = IF n \in at THEN Append(f[n - 1], seq[n]) ELSE f[n - 1]
  BY PickedByStep
<1> DEFINE True == {n \in 0 .. Len(seq) : Len(f[n]) = n /\ \A i \in 1 .. n : f[n][i] = seq[i]}
<1>2. 0 \in True
  BY <1>1
<1>3. ASSUME NEW n \in 1 .. Len(seq), n - 1 \in True PROVE n \in True
  <2>0. n - 1 \in 0 .. Len(seq) /\ n \in 0 .. Len(seq) /\ n \in DOMAIN seq
    OBVIOUS
  <2>1. f[n] = Append(f[n - 1], seq[n]) /\ f[n - 1] \in Seq(S) /\ seq[n] \in S
    <3>1. f[n - 1] \in Seq(S) /\ seq[n] \in S
      BY <2>0
    <3>2. f[n] = IF n \in at THEN Append(f[n - 1], seq[n]) ELSE f[n - 1]
      BY <1>1
    <3> QED BY <2>0, <3>1, <3>2
  <2>2. Len(f[n - 1]) = n - 1 /\ \A i \in 1 .. n - 1 : f[n - 1][i] = seq[i]
    BY <1>3
  <2>3. Len(f[n]) = n /\ f[n][n] = seq[n] /\ \A i \in 1 .. n - 1 : f[n][i] = f[n - 1][i]
    BY <2>1, <2>2
  <2>4. \A i \in 1 .. n : i = n \/ i \in 1 .. n - 1
    OBVIOUS
  <2>5. \A i \in 1 .. n : f[n][i] = seq[i]
    BY <2>2, <2>3, <2>4
  <2> QED BY <2>0, <2>3, <2>5
<1> HIDE DEF True
<1>4. Len(seq) \in True
  BY <1>2, <1>3, UpTo
<1>5. Len(f[Len(seq)]) = Len(seq) /\ \A i \in 1 .. Len(seq) : f[Len(seq)][i] = seq[i]
  BY <1>4 DEF True
<1> QED BY <1>1, <1>5

\* A sequence of sequences, one behind another.
LEMMA FlattenByStep ==
  ASSUME NEW S, NEW seqs \in Seq(Seq(S))
  PROVE  \E f \in [0 .. Len(seqs) -> Seq(S)] :
           /\ FlattenSeq(seqs) = f[Len(seqs)] /\ f[0] = <<>>
           /\ \A n \in 1 .. Len(seqs) : f[n] = f[n - 1] \o seqs[n]
<1> DEFINE N == Len(seqs)
           Rule(f) == f = [i \in 1 .. N |-> IF i = 1 THEN seqs[i] ELSE f[i - 1] \o seqs[i]]
           X == Seq(S)
           nothing == <<>>
           change == [n \in 1 .. N |-> [x \in X |-> x \o seqs[n]]]
<1>1. N \in Nat /\ nothing \in X /\ \A n \in 1 .. N : seqs[n] \in X
  OBVIOUS
<1>2. change \in [1 .. N -> [X -> X]]
  BY <1>1
<1>3. \A n \in 1 .. N, x \in X : change[n][x] = x \o seqs[n]
  OBVIOUS
<1>4. \A x \in X : nothing \o x = x
  OBVIOUS
<1> HIDE DEF change, N, X
<1>5. PICK h \in [0 .. N -> X] : h[0] = nothing /\ \A n \in 1 .. N : h[n] = change[n][h[n - 1]]
  <2>1. Iterable(X, N, nothing, change)
    BY <1>1, <1>2, Recursion
  <2> QED BY <2>1 DEF Iterable
<1>6. \A n \in 1 .. N : n - 1 \in 0 .. N /\ (n # 1 => n - 1 \in 1 .. N)
  BY <1>1
<1>7. \A n \in 1 .. N : h[n] = h[n - 1] \o seqs[n]
  BY <1>3, <1>5, <1>6
<1>8. \A n \in 1 .. N : h[n] = IF n = 1 THEN seqs[n] ELSE h[n - 1] \o seqs[n]
  <2> TAKE n \in 1 .. N
  <2>1. CASE n = 1
    <3>1. h[n - 1] = nothing /\ seqs[n] \in X
      BY <1>1, <1>5, <2>1
    <3> QED BY <1>4, <1>7, <2>1, <3>1
  <2>2. CASE n # 1
    BY <1>7, <2>2
  <2> QED BY <2>1, <2>2
<1>9. FlattenSeq(seqs) = h[N]
  <2>1. CASE N = 0
    <3>1. seqs = <<>>
      BY <2>1 DEF N
    <3> QED BY <1>5, <2>1, <3>1 DEF FlattenSeq
  <2>2. CASE N # 0
    <3> DEFINE f == [n \in 1 .. N |-> h[n]]
               g == CHOOSE f_1 : Rule(f_1)
    <3>1. Rule(f)
      BY <1>6, <1>8
    <3>2. Rule(g) /\ FlattenSeq(seqs) = g[N]
      <4>1. \E f_1 : Rule(f_1)
        BY <3>1
      <4>2. FlattenSeq(seqs) = g[N]
        BY <2>2 DEF FlattenSeq, N
      <4> QED BY <4>1, <4>2
    <3> HIDE DEF g, f
    <3> DEFINE True == {n \in 0 .. N : n # 0 => g[n] = h[n]}
    <3>3. 0 \in True
      BY <1>1
    <3>4. ASSUME NEW n \in 1 .. N, n - 1 \in True PROVE n \in True
      <4>1. g[n] = IF n = 1 THEN seqs[n] ELSE g[n - 1] \o seqs[n]
        BY <3>2
      <4>2. n \in 0 .. N /\ (n # 1 => g[n - 1] = h[n - 1])
        BY <1>1, <3>4
      <4> QED BY <1>8, <4>1, <4>2
    <3> HIDE DEF True
    <3>5. N \in True
      BY <1>1, <3>3, <3>4, UpTo
    <3> QED BY <2>2, <3>2, <3>5 DEF True
  <2> QED BY <2>1, <2>2
<1> QED BY <1>5, <1>7, <1>9 DEF N, X

\* Sequences one behind another make a sequence.
LEMMA FlattenTyped ==
  ASSUME NEW S, NEW seqs \in Seq(Seq(S))
  PROVE  FlattenSeq(seqs) \in Seq(S)
<1>1. PICK f \in [0 .. Len(seqs) -> Seq(S)] :
        /\ FlattenSeq(seqs) = f[Len(seqs)] /\ f[0] = <<>>
        /\ \A n \in 1 .. Len(seqs) : f[n] = f[n - 1] \o seqs[n]
  BY FlattenByStep
<1>2. Len(seqs) \in 0 .. Len(seqs)
  OBVIOUS
<1> QED BY <1>1, <1>2

LEMMA FlattenOne ==
  ASSUME NEW S, NEW seq \in Seq(S)
  PROVE  FlattenSeq(<<seq>>) = seq
<1> DEFINE seqs == <<seq>>
           Rule(f) == f = [i \in 1 .. 1 |-> IF i = 1 THEN seqs[i] ELSE f[i - 1] \o seqs[i]]
           f == [i \in 1 .. 1 |-> seq]
           g == CHOOSE f_1 : Rule(f_1)
<1>1. Len(seqs) = 1 /\ seqs[1] = seq
  OBVIOUS
<1>2. FlattenSeq(seqs) = g[1]
  BY <1>1 DEF FlattenSeq
<1>3. Rule(f)
  OBVIOUS
<1> HIDE DEF f
<1>4. Rule(g)
  BY <1>3
<1> HIDE DEF g
<1>5. g[1] = seqs[1]
  BY <1>4
<1> QED BY <1>1, <1>2, <1>5

(* What a result is made of. *)

\* All names are strings. The provers do not know of a literal that it is one.
Names == STRING \cup {"count", "value", Made, Asked}
Held  == [is : [many : BOOLEAN, items : Seq(Scalars)], from : Names]

\* Cells that agree with their producer in what they hold under the names F.
Fitting(F) ==
  {cells \in UNION {[names -> Held] : names \in SUBSET Names} :
     \A k \in DOMAIN cells \cap F : cells[k].from \in {k, Asked}}

\* Rows, parts and sets of rows, of cells that are in C.
RowsOf(C) == [of : Nat, cells : C]
PartsOf(C, R) == [groups : C, aggregates : C, rows : Seq(R)]
SetsOf(C, R) == [grouped : BOOLEAN, parts : Seq(PartsOf(C, R))]
Results(F) == SetsOf(Fitting(F), RowsOf(Fitting(F)))

\* What fits, and what can be made of it that still fits.
LEMMA Fits ==
  ASSUME NEW F, NEW cells \in Fitting(F)
  PROVE  /\ DOMAIN cells \subseteq Names
         /\ cells = [k \in DOMAIN cells |-> cells[k]]
         /\ \A k \in DOMAIN cells :
              /\ cells[k] \in Held
              /\ k \in F => cells[k].from \in {k, Asked}
BY DEF Fitting

LEMMA MakesFit ==
  ASSUME NEW F, NEW names \in SUBSET Names, NEW cells \in [names -> Held],
         \A k \in names : k \in F => cells[k].from \in {k, Asked}
  PROVE  cells \in Fitting(F)
BY DEF Fitting

LEMMA FitsLess ==
  ASSUME NEW F, NEW G, G \subseteq F
  PROVE  Fitting(F) \subseteq Fitting(G)
BY DEF Fitting

LEMMA NoCellsFit == ASSUME NEW F PROVE NoCells \in Fitting(F)
<1>1. NoCells \in [{} -> Held]
  BY DEF NoCells
<1> QED BY <1>1, MakesFit

LEMMA OnlyFits ==
  ASSUME NEW F, NEW key \in Names, NEW cell \in Held,
         key \in F => cell.from \in {key, Asked}
  PROVE  Only(key, cell) \in Fitting(F)
<1>1. Only(key, cell) \in [{key} -> Held] /\ \A k \in {key} : k = key /\ Only(key, cell)[k] = cell
  BY DEF Only
<1> QED BY <1>1, MakesFit

LEMMA OverFits ==
  ASSUME NEW F, NEW front \in Fitting(F), NEW rear \in Fitting(F)
  PROVE  Over(front, rear) \in Fitting(F)
<1> DEFINE names == DOMAIN front \cup DOMAIN rear
           cells == Over(front, rear)
<1>1. names \in SUBSET Names
  BY Fits
<1>2. cells = [k \in names |-> IF k \in DOMAIN front THEN front[k] ELSE rear[k]]
  BY DEF Over
<1>3. ASSUME NEW k \in names
      PROVE  cells[k] \in Held /\ (k \in F => cells[k].from \in {k, Asked})
  <2>1. CASE k \in DOMAIN front
    BY <1>2, <2>1, Fits
  <2>2. CASE k \notin DOMAIN front
    BY <1>2, <2>2, Fits
  <2> QED BY <2>1, <2>2
<1>4. cells \in [names -> Held]
  BY <1>2, <1>3
<1> HIDE DEF cells, names
<1>5. cells \in Fitting(F)
  BY <1>1, <1>3, <1>4, MakesFit
<1> QED BY <1>5 DEF cells

\* Some of the fields.
LEMMA SomeFit ==
  ASSUME NEW F, NEW cells \in Fitting(F), NEW names \in SUBSET DOMAIN cells
  PROVE  [k \in names |-> cells[k]] \in Fitting(F)
<1> DEFINE some == [k \in names |-> cells[k]]
<1>1. names \in SUBSET Names
  BY Fits
<1>2. some \in [names -> Held] /\ \A k \in names : k \in F => some[k].from \in {k, Asked}
  BY Fits
<1> HIDE DEF some
<1>3. some \in Fitting(F)
  BY <1>1, <1>2, MakesFit
<1> QED BY <1>3 DEF some

LEMMA ElementsTyped ==
  ASSUME NEW F, NEW cells \in Fitting(F), NEW key
  PROVE  Elements(cells, key) \in Seq(Scalars)
BY Fits DEF Elements, Held

LEMMA HeaderFits ==
  ASSUME NEW F, NEW R, NEW part \in PartsOf(Fitting(F), R)
  PROVE  Header(part) \in Fitting(F)
BY OverFits DEF Header, PartsOf

LEMMA ScalarCell ==
  ASSUME NEW x \in Scalars, NEW from \in Names
  PROVE  Cell(Scalar(x), from) \in Held /\ Cell(Scalar(x), from).from = from
BY DEF Cell, Scalar, Held

(* Sets of rows. *)

\* The parts of a set of rows, and sets with other parts or other rows.
LEMMA SameRows ==
  ASSUME NEW C, NEW R, NEW set \in SetsOf(C, R)
  PROVE  /\ set.grouped \in BOOLEAN /\ set.parts \in Seq(PartsOf(C, R))
         /\ \A i \in DOMAIN set.parts :
              /\ set.parts[i] \in PartsOf(C, R)
              /\ set.parts[i].groups \in C /\ set.parts[i].aggregates \in C
              /\ set.parts[i].rows \in Seq(R)
<1>1. set.grouped \in BOOLEAN /\ set.parts \in Seq(PartsOf(C, R))
  BY DEF SetsOf
<1>2. \A i \in DOMAIN set.parts : set.parts[i] \in PartsOf(C, R)
  BY <1>1
<1> QED BY <1>1, <1>2 DEF PartsOf

LEMMA OtherParts ==
  ASSUME NEW C, NEW R, NEW set \in SetsOf(C, R), NEW D, NEW S, NEW parts \in Seq(PartsOf(D, S))
  PROVE  [set EXCEPT !.parts = parts] \in SetsOf(D, S)
BY DEF SetsOf

LEMMA OtherRows ==
  ASSUME NEW C, NEW R, NEW part \in PartsOf(C, R), NEW S, NEW rows \in Seq(S)
  PROVE  [part EXCEPT !.rows = rows] \in PartsOf(C, S)
BY DEF PartsOf

LEMMA AllRowsTyped ==
  ASSUME NEW C, NEW R, NEW set \in SetsOf(C, R)
  PROVE  AllRows(set) \in Seq(R)
<1> DEFINE rows == [i \in DOMAIN set.parts |-> set.parts[i].rows]
<1>1. rows \in Seq(Seq(R))
  BY SameRows DEF SetsOf
<1> QED BY <1>1, FlattenTyped DEF AllRows

LEMMA FlatTyped ==
  ASSUME NEW C, NoCells \in C, NEW R, NEW rows \in Seq(R)
  PROVE  Flat(rows) \in SetsOf(C, R)
BY DEF Flat, SetsOf, PartsOf

LEMMA FlatRows ==
  ASSUME NEW R, NEW rows \in Seq(R)
  PROVE  AllRows(Flat(rows)) = rows
<1>1. [i \in DOMAIN Flat(rows).parts |-> Flat(rows).parts[i].rows] = <<rows>>
  BY DEF Flat
<1> QED BY <1>1, FlattenOne DEF AllRows

\* What changes the rows of each part, on its own.
LEMMA RowsChanged ==
  ASSUME NEW C, NEW R, NEW set \in SetsOf(C, R), NEW S, NEW rows \in [DOMAIN set.parts -> Seq(S)]
  PROVE  [set EXCEPT !.parts = [i \in DOMAIN set.parts |-> [set.parts[i] EXCEPT !.rows = rows[i]]]]
           \in SetsOf(C, S)
<1> DEFINE parts == [i \in DOMAIN set.parts |-> [set.parts[i] EXCEPT !.rows = rows[i]]]
<1>1. \A i \in DOMAIN set.parts : [set.parts[i] EXCEPT !.rows = rows[i]] \in PartsOf(C, S)
  BY SameRows, OtherRows
<1>2. parts \in Seq(PartsOf(C, S))
  <2>1. set.parts \in Seq(PartsOf(C, R))
    BY SameRows
  <2>2. Len(set.parts) \in Nat /\ DOMAIN set.parts = 1 .. Len(set.parts)
    BY <2>1
  <2> QED BY <1>1, <2>2
<1> HIDE DEF parts
<1>3. [set EXCEPT !.parts = parts] \in SetsOf(C, S)
  BY <1>2, OtherParts
<1> QED BY <1>3 DEF parts

\* What makes rows of a row.
LEMMA RowsOfRows ==
  ASSUME NEW R, NEW S, NEW rows \in Seq(R), NEW each \in [DOMAIN rows -> Seq(S)]
  PROVE  FlattenSeq(each) \in Seq(S)
<1>1. each \in Seq(Seq(S))
  OBVIOUS
<1> QED BY <1>1, FlattenTyped

(* The stages that keep rows as they are. *)

LEMMA FlatChanged ==
  ASSUME NEW rows, NEW left, NEW each, DOMAIN each = {1}, each[1] = left
  PROVE  [Flat(rows) EXCEPT !.parts = [i \in DOMAIN Flat(rows).parts |->
            [Flat(rows).parts[i] EXCEPT !.rows = each[i]]]] = Flat(left)
<1> DEFINE before == [groups |-> NoCells, aggregates |-> NoCells, rows |-> rows]
           after  == [groups |-> NoCells, aggregates |-> NoCells, rows |-> left]
           parts  == [i \in DOMAIN Flat(rows).parts |-> [Flat(rows).parts[i] EXCEPT !.rows = each[i]]]
<1>1. Flat(rows) = [grouped |-> FALSE, parts |-> <<before>>]
  BY DEF Flat
<1>2. DOMAIN Flat(rows).parts = {1} /\ Flat(rows).parts[1] = before
  BY <1>1
<1>3. [before EXCEPT !.rows = left] = after
  OBVIOUS
<1>4. parts = <<after>>
  BY <1>2, <1>3
<1> HIDE DEF before, parts
<1>5. [Flat(rows) EXCEPT !.parts = parts] = [grouped |-> FALSE, parts |-> parts]
  <2> DEFINE one == <<before>>
  <2>1. Flat(rows) = [grouped |-> FALSE, parts |-> one]
    BY <1>1
  <2> HIDE DEF one
  <2>2. \A g, p, q : [[grouped |-> g, parts |-> p] EXCEPT !.parts = q] = [grouped |-> g, parts |-> q]
    OBVIOUS
  <2>3. [[grouped |-> FALSE, parts |-> one] EXCEPT !.parts = parts] = [grouped |-> FALSE, parts |-> parts]
    BY <2>2, Zenon
  <2> QED BY <2>1, <2>3, Zenon
<1>6. [Flat(rows) EXCEPT !.parts = parts] = Flat(left)
  BY <1>4, <1>5 DEF Flat
<1> QED BY <1>6 DEF parts

\* Filtering picks among the rows that are there.
LEMMA FilteredTyped ==
  ASSUME NEW C, NEW R, NEW set \in SetsOf(C, R), NEW stage
  PROVE  Filtered(set, stage) \in SetsOf(C, R)
<1> DEFINE Decides(part) == set.grouped /\ stage.key \in DOMAIN Header(part)
           Rest(part)    ==
             Picked(part.rows, {i \in DOMAIN part.rows : Passes(part.rows[i].cells, stage)})
           Stays(part)   == IF Decides(part) THEN Passes(Header(part), stage)
                            ELSE ~set.grouped \/ Rest(part) # <<>>
           kept  == Picked(set.parts, {i \in DOMAIN set.parts : Stays(set.parts[i])})
           After(part) == IF Decides(part) THEN part ELSE [part EXCEPT !.rows = Rest(part)]
           parts == [i \in DOMAIN kept |-> After(kept[i])]
<1>1. Filtered(set, stage) = [set EXCEPT !.parts = parts]
  BY DEF Filtered
<1>2. kept \in Seq(PartsOf(C, R))
  BY SameRows, PickedTyped
<1>3. ASSUME NEW part \in PartsOf(C, R) PROVE After(part) \in PartsOf(C, R)
  <2>1. part.rows \in Seq(R)
    BY DEF PartsOf
  <2>2. Rest(part) \in Seq(R)
    BY <2>1, PickedTyped
  <2> HIDE DEF Rest, Decides
  <2> QED BY <2>2, OtherRows
<1> HIDE DEF After, kept
<1>4. parts \in Seq(PartsOf(C, R))
  BY <1>2, <1>3
<1> HIDE DEF parts
<1> QED BY <1>1, <1>4, OtherParts

LEMMA FilteredFlat ==
  ASSUME NEW R, NEW rows \in Seq(R), NEW stage
  PROVE  \E left \in Seq(R) : Filtered(Flat(rows), stage) = Flat(left)
<1> DEFINE set == Flat(rows)
           Decides(part) == set.grouped /\ stage.key \in DOMAIN Header(part)
           Rest(part)    ==
             Picked(part.rows, {i \in DOMAIN part.rows : Passes(part.rows[i].cells, stage)})
           Stays(part)   == IF Decides(part) THEN Passes(Header(part), stage)
                            ELSE ~set.grouped \/ Rest(part) # <<>>
           kept  == Picked(set.parts, {i \in DOMAIN set.parts : Stays(set.parts[i])})
           After(part) == IF Decides(part) THEN part ELSE [part EXCEPT !.rows = Rest(part)]
           left == Picked(rows, {i \in DOMAIN rows : Passes(rows[i].cells, stage)})
<1>1. Filtered(set, stage) = [set EXCEPT !.parts = [i \in DOMAIN kept |-> After(kept[i])]]
  BY DEF Filtered
<1>2. set.grouped = FALSE /\ set.parts \in Seq({set.parts[1]}) /\ DOMAIN set.parts = {1}
        /\ set.parts[1].rows = rows
  BY DEF Flat
<1>3. \A part : Stays(part)
  BY <1>2
<1>4. kept = set.parts
  BY <1>2, <1>3, PickedAll
<1>5. After(set.parts[1]) = [set.parts[1] EXCEPT !.rows = left]
  BY <1>2
<1>6. left \in Seq(R)
  BY PickedTyped
<1> HIDE DEF left, kept, After
<1>7. Filtered(set, stage) = Flat(left)
  <2> DEFINE each == [i \in {1} |-> left]
  <2>1. [i \in DOMAIN kept |-> After(kept[i])]
          = [i \in DOMAIN set.parts |-> [set.parts[i] EXCEPT !.rows = each[i]]]
    BY <1>2, <1>4, <1>5
  <2>2. DOMAIN each = {1} /\ each[1] = left
    OBVIOUS
  <2> HIDE DEF each
  <2> QED BY <1>1, <2>1, <2>2, FlatChanged
<1> QED BY <1>6, <1>7

\* A search that narrows no part leaves whole rows.
LEMMA QuickTyped ==
  ASSUME NEW C, NEW R, NEW set \in SetsOf(C, R), NEW stage,
         \A i \in DOMAIN set.parts : ~NarrowsPart(set.parts[i], stage)
  PROVE  Quick(set, stage) \in SetsOf(C, R)
<1> DEFINE Found1(part) ==
             Picked(part.rows, {i \in DOMAIN part.rows : QuickPasses(part.rows[i].cells, stage)})
           rows == [i \in DOMAIN set.parts |-> Found1(set.parts[i])]
<1>1. Quick(set, stage)
        = [set EXCEPT !.parts = [i \in DOMAIN set.parts |-> [set.parts[i] EXCEPT !.rows = rows[i]]]]
  BY DEF Quick
<1>2. \A i \in DOMAIN set.parts : Found1(set.parts[i]) \in Seq(R)
  BY SameRows, PickedTyped
<1>3. rows \in [DOMAIN set.parts -> Seq(R)]
  BY <1>2
<1> HIDE DEF rows
<1> QED BY <1>1, <1>3, RowsChanged

LEMMA QuickFlat ==
  ASSUME NEW R, NEW rows \in Seq(R), NEW stage, Len(rows) # 1 \/ stage.exists
  PROVE  \E left \in Seq(R) : Quick(Flat(rows), stage) = Flat(left)
<1> DEFINE left == Picked(rows, {i \in DOMAIN rows : QuickPasses(rows[i].cells, stage)})
<1>1. left \in Seq(R)
  BY PickedTyped
<1> DEFINE set == Flat(rows)
           Rest(part) ==
             IF NarrowsPart(part, stage) THEN Narrowed(part.rows[1], stage)
             ELSE Picked(part.rows, {i \in DOMAIN part.rows : QuickPasses(part.rows[i].cells, stage)})
           each == [i \in DOMAIN set.parts |-> Rest(set.parts[i])]
<1>2. Quick(set, stage) =
        [set EXCEPT !.parts = [i \in DOMAIN set.parts |-> [set.parts[i] EXCEPT !.rows = each[i]]]]
  BY DEF Quick
<1>3. DOMAIN set.parts = {1} /\ set.parts[1].rows = rows
  BY DEF Flat
<1>4. ~NarrowsPart(set.parts[1], stage)
  BY <1>3 DEF NarrowsPart
<1>5. DOMAIN each = {1} /\ each[1] = left
  BY <1>3, <1>4
<1> HIDE DEF each, left
<1>6. Quick(set, stage) = Flat(left)
  BY <1>2, <1>5, FlatChanged
<1> QED BY <1>1, <1>6

(* Order. *)

\* Each place in the order is the place of one of the units.
LEMMA PlaceTaken ==
  ASSUME NEW N \in Nat, NEW weight \in [1 .. N -> Int], NEW n \in 1 .. N
  PROVE  \E j \in 1 .. N :
           Cardinality({i \in 1 .. N : weight[i] < weight[j] \/ (weight[i] = weight[j] /\ i < j)}) = n - 1
<1> DEFINE Before(i, j) == weight[i] < weight[j] \/ (weight[i] = weight[j] /\ i < j)
           All == 1 .. N
           Earlier(j) == {i \in All : Before(i, j)}
           place == [j \in All |-> Cardinality(Earlier(j))]
           places == 0 .. N - 1
<1>1. IsFiniteSet(All) /\ Cardinality(All) = N /\ IsFiniteSet(places) /\ Cardinality(places) = N
  BY FS_Interval
<1>2. ASSUME NEW i \in All, NEW j \in All, NEW k \in All
      PROVE  /\ ~Before(i, i) /\ (i # j => Before(i, j) \/ Before(j, i))
             /\ Before(i, j) /\ Before(j, k) => Before(i, k)
  OBVIOUS
<1> HIDE DEF Before
<1>3. \A j \in All : IsFiniteSet(Earlier(j)) /\ Cardinality(Earlier(j)) \in Nat
  <2> TAKE j \in All
  <2>1. Earlier(j) \in SUBSET All
    OBVIOUS
  <2> HIDE DEF Earlier, All
  <2> QED BY <1>1, <2>1, FS_Subset, FS_CardinalityType
<1>4. \A j \in All : place[j] \in places
  <2> TAKE j \in All
  <2>1. Earlier(j) \in SUBSET (All \ {j})
    BY <1>2
  <2>2. place[j] = Cardinality(Earlier(j)) /\ j \in All
    OBVIOUS
  <2> HIDE DEF Earlier, All, place
  <2>3. IsFiniteSet(All \ {j}) /\ Cardinality(All \ {j}) = N - 1
    BY <1>1, FS_RemoveElement
  <2>4. Cardinality(Earlier(j)) <= N - 1
    BY <2>1, <2>3, FS_Subset
  <2> QED BY <1>3, <2>2, <2>4
<1>5. \A i, j \in All : Before(i, j) => place[i] # place[j]
  <2> SUFFICES ASSUME NEW i \in All, NEW j \in All, Before(i, j) PROVE place[i] # place[j]
    OBVIOUS
  <2>1. Earlier(i) \cup {i} \in SUBSET Earlier(j) /\ i \notin Earlier(i)
    BY <1>2
  <2>2. place[i] = Cardinality(Earlier(i)) /\ place[j] = Cardinality(Earlier(j))
    OBVIOUS
  <2> HIDE DEF Earlier, All, place
  <2>3. Cardinality(Earlier(i) \cup {i}) = Cardinality(Earlier(i)) + 1
    BY <1>3, <2>1, FS_AddElement
  <2>4. Cardinality(Earlier(i) \cup {i}) <= Cardinality(Earlier(j))
    BY <1>3, <2>1, FS_Subset
  <2> QED BY <1>3, <2>2, <2>3, <2>4
<1>6. place \in [All -> places]
  BY <1>4
<1> HIDE DEF place, places, All
<1>7. place \in Injection(All, places)
  <2>1. \A i, j \in All : place[i] = place[j] => i = j
    BY <1>2, <1>5
  <2> QED BY <1>6, <2>1 DEF Injection, IsInjective
<1>8. place \in Surjection(All, places)
  BY <1>1, <1>7, FS_Injection
<1>9. n - 1 \in places
  BY DEF places
<1>10. PICK j \in All : place[j] = n - 1
  BY <1>8, <1>9 DEF Surjection
<1> QED BY <1>10 DEF All, place, Before

\* S and L put some of the units that are there in a sequence.
LEMMA SortedTyped ==
  ASSUME NEW U, NEW units \in Seq(U), NEW stage, \A unit \in U : Weight(unit, stage) \in Int
  PROVE  Sorted(units, stage) \in Seq(U)
<1> DEFINE N == Len(units)
           weight == [i \in DOMAIN units |-> Weight(units[i], stage)]
           Before(i, j) == weight[i] < weight[j] \/ (weight[i] = weight[j] /\ i < j)
           Fills(j, n) == Cardinality({i \in DOMAIN units : Before(i, j)}) = n - 1
           At(n) == CHOOSE j \in DOMAIN units : Fills(j, n)
<1>1. N \in Nat /\ DOMAIN units = 1 .. N /\ \A i \in 1 .. N : units[i] \in U
  OBVIOUS
<1>2. weight \in [1 .. N -> Int]
  BY <1>1
<1>3. ASSUME NEW n \in 1 .. N PROVE \E j \in DOMAIN units : Fills(j, n)
  <2> HIDE DEF weight, N
  <2>1. \E j \in 1 .. N : Cardinality({i \in 1 .. N : Before(i, j)}) = n - 1
    BY <1>1, <1>2, PlaceTaken
  <2> QED BY <1>1, <2>1
<1> HIDE DEF Fills
<1>4. \A n \in 1 .. N : At(n) \in 1 .. N
  BY <1>1, <1>3
<1>5. Sorted(units, stage) = [n \in 1 .. N |-> units[At(n)]]
  BY <1>1 DEF Sorted, Fills
<1> HIDE DEF At, N
<1> QED BY <1>1, <1>4, <1>5

LEMMA LimitedTyped ==
  ASSUME NEW U, NEW units \in Seq(U), NEW stage, stage.count \in Int, stage.offset \in Int
  PROVE  Limited(units, stage) \in Seq(U)
<1> DEFINE length == Len(units)
           start  == IF stage.offset >= 0 THEN stage.offset
                     ELSE IF length + stage.offset < 0 THEN 0 ELSE length + stage.offset
           stop   == start + stage.count
           tail   == length + stage.count
           from   == IF stage.count >= 0 THEN start + 1 ELSE (IF tail < start THEN start ELSE tail) + 1
           to     == IF stage.count >= 0 THEN (IF stop > length THEN length ELSE stop) ELSE length
<1>1. length \in Nat /\ start \in Nat
  OBVIOUS
<1>2. from \in Nat /\ from >= 1 /\ to \in Nat /\ to <= length
  <2> HIDE DEF length, start
  <2>1. stop \in Int /\ tail \in Int
    BY <1>1
  <2>2. CASE stage.count >= 0
    BY <1>1, <2>2
  <2>3. CASE ~(stage.count >= 0)
    <3>1. from \in Nat /\ from >= 1
      BY <1>1, <2>1, <2>3
    <3> QED BY <1>1, <2>3, <3>1
  <2> QED BY <2>2, <2>3
<1>3. Limited(units, stage) = SubSeq(units, from, to)
  BY DEF Limited
<1> HIDE DEF from, to
<1>4. \A i \in from .. to : i \in 1 .. Len(units)
  BY <1>2
<1>5. SubSeq(units, from, to) \in Seq(U)
  BY <1>2, <1>4
<1> QED BY <1>3, <1>5

\* Rows, with a role or without, that hold cells that fit.
HoldCells(R, F) == \A row \in R : "cells" \in DOMAIN row /\ row.cells \in Fitting(F)

LEMMA WeightTyped ==
  ASSUME NEW F, NEW cells \in Fitting(F), NEW stage, NEW unit,
         cells = IF "cells" \in DOMAIN unit THEN unit.cells ELSE Over(unit.groups, unit.aggregates)
  PROVE  Weight(unit, stage) \in Int
<1> DEFINE all   == Elements(cells, stage.key)
           value == IF all[1] = Null THEN AfterNumbers ELSE all[1]
<1>1. Weight(unit, stage)
        = IF all = <<>> THEN AfterNumbers + 1 ELSE IF stage.descending THEN -value ELSE value
  BY DEF Weight
<1>2. all \in Seq(Scalars)
  BY ElementsTyped
<1>3. all # <<>> => value \in Int
  <2> HIDE DEF all
  <2>1. all # <<>> => all[1] \in Scalars
    BY <1>2
  <2> QED BY <2>1 DEF Scalars, AfterNumbers
<1> HIDE DEF value, all
<1> QED BY <1>1, <1>3 DEF AfterNumbers

LEMMA RowWeight ==
  ASSUME NEW F, NEW R, HoldCells(R, F), NEW row \in R, NEW stage
  PROVE  Weight(row, stage) \in Int
<1>1. "cells" \in DOMAIN row /\ row.cells \in Fitting(F)
  BY DEF HoldCells
<1> QED BY <1>1, WeightTyped

LEMMA PartWeight ==
  ASSUME NEW F, NEW R, NEW part \in PartsOf(Fitting(F), R), NEW stage
  PROVE  Weight(part, stage) \in Int
<1>1. part.groups \in Fitting(F) /\ part.aggregates \in Fitting(F) /\ "cells" \notin DOMAIN part
  BY DEF PartsOf
<1>2. Over(part.groups, part.aggregates) \in Fitting(F)
  BY <1>1, OverFits
<1> QED BY <1>1, <1>2, WeightTyped

LEMMA SortTyped ==
  ASSUME NEW F, NEW R, HoldCells(R, F), NEW set \in SetsOf(Fitting(F), R), NEW stage, stage.verb = "S"
  PROVE  Apply(set, stage) \in SetsOf(Fitting(F), R)
<1> DEFINE C == Fitting(F)
           after == Sorted(set.parts, stage)
           rows == [i \in DOMAIN set.parts |-> Sorted(set.parts[i].rows, stage)]
<1>1. Apply(set, stage) =
        IF set.grouped THEN [set EXCEPT !.parts = after]
        ELSE [set EXCEPT !.parts = [i \in DOMAIN set.parts |-> [set.parts[i] EXCEPT !.rows = rows[i]]]]
  BY DEF Apply, Arranged, MapRows
<1>2. after \in Seq(PartsOf(C, R))
  <2>1. set.parts \in Seq(PartsOf(C, R)) /\ \A unit \in PartsOf(C, R) : Weight(unit, stage) \in Int
    BY SameRows, PartWeight
  <2> QED BY <2>1, SortedTyped
<1>3. rows \in [DOMAIN set.parts -> Seq(R)]
  <2>1. \A i \in DOMAIN set.parts : Sorted(set.parts[i].rows, stage) \in Seq(R)
    BY SameRows, RowWeight, SortedTyped
  <2> QED BY <2>1
<1> HIDE DEF rows, after
<1>4. [set EXCEPT !.parts = after] \in SetsOf(C, R)
  BY <1>2, OtherParts
<1>5. [set EXCEPT !.parts = [i \in DOMAIN set.parts |-> [set.parts[i] EXCEPT !.rows = rows[i]]]]
        \in SetsOf(C, R)
  BY <1>3, RowsChanged
<1> QED BY <1>1, <1>4, <1>5

LEMMA LimitTyped ==
  ASSUME NEW C, NEW R, NEW set \in SetsOf(C, R), NEW stage, stage.verb = "L", stage.count \in Int, stage.offset \in Int
  PROVE  Apply(set, stage) \in SetsOf(C, R)
<1> DEFINE after == Limited(set.parts, stage)
           rows == [i \in DOMAIN set.parts |-> Limited(set.parts[i].rows, stage)]
<1>1. Apply(set, stage) =
        IF set.grouped THEN [set EXCEPT !.parts = after]
        ELSE [set EXCEPT !.parts = [i \in DOMAIN set.parts |-> [set.parts[i] EXCEPT !.rows = rows[i]]]]
  BY DEF Apply, Arranged, MapRows
<1>2. after \in Seq(PartsOf(C, R))
  BY SameRows, LimitedTyped
<1>3. rows \in [DOMAIN set.parts -> Seq(R)]
  <2>1. \A i \in DOMAIN set.parts : Limited(set.parts[i].rows, stage) \in Seq(R)
    BY SameRows, LimitedTyped
  <2> QED BY <2>1
<1> HIDE DEF rows, after
<1>4. [set EXCEPT !.parts = after] \in SetsOf(C, R)
  BY <1>2, OtherParts
<1>5. [set EXCEPT !.parts = [i \in DOMAIN set.parts |-> [set.parts[i] EXCEPT !.rows = rows[i]]]]
        \in SetsOf(C, R)
  BY <1>3, RowsChanged
<1> QED BY <1>1, <1>4, <1>5

\* What is said about the stage that a user has typed.
LEMMA StageTyped ==
  ASSUME NEW stage \in Stages
  PROVE  /\ stage.verb \in Verbs
         /\ stage.verb = "L" => stage.count \in Int /\ stage.offset \in Int
         /\ stage.verb = "G" =>
              /\ stage.plans \in Seq(Plans)
              /\ \A i, j \in DOMAIN stage.plans : stage.plans[i].header = stage.plans[j].header => i = j
         /\ stage.verb = "A" => stage.alias \in Names /\ stage.function \in {"count", "sum", "max"}
         /\ stage.verb = "VALUE" => stage.keys \in Seq(Names)
<1>1. STRING \subseteq Names
  BY DEF Names
<1>2. /\ stage.verb \in Verbs
      /\ stage.verb = "L" => stage.count \in Int /\ stage.offset \in Int
      /\ stage.verb = "G" =>
           /\ stage.plans \in Seq(Plans)
           /\ \A i, j \in DOMAIN stage.plans : stage.plans[i].header = stage.plans[j].header => i = j
      /\ stage.verb = "A" => stage.alias \in STRING /\ stage.function \in {"count", "sum", "max"}
      /\ stage.verb = "VALUE" => stage.keys \in Seq(STRING)
  BY StagesAssumption
<1>3. ASSUME NEW seq \in Seq(STRING) PROVE seq \in Seq(Names)
  BY <1>1, SequenceOver, Zenon
<1> QED BY <1>1, <1>2, <1>3

\* A stage that keeps rows leaves some of those there were.
LEMMA KeepsTyped ==
  ASSUME NEW F, NEW R, HoldCells(R, F), NEW set \in SetsOf(Fitting(F), R), NEW stage \in Stages,
         Keeps(set, stage)
  PROVE  Apply(set, stage) \in SetsOf(Fitting(F), R)
<1>1. CASE stage.verb = "F"
  <2>1. Apply(set, stage) = Filtered(set, stage)
    BY <1>1 DEF Apply
  <2> QED BY <2>1, FilteredTyped
<1>2. CASE stage.verb = "quick"
  <2>1. Apply(set, stage) = Quick(set, stage)
    BY <1>2 DEF Apply
  <2>2. \A i \in DOMAIN set.parts : ~NarrowsPart(set.parts[i], stage)
    BY <1>2 DEF Keeps, Narrows
  <2> QED BY <2>1, <2>2, QuickTyped
<1>3. CASE stage.verb = "S"
  BY <1>3, SortTyped
<1>4. CASE stage.verb = "L"
  BY <1>4, StageTyped, LimitTyped
<1>5. CASE stage.verb = "Y"
  BY <1>5 DEF Apply
<1> QED BY <1>1, <1>2, <1>3, <1>4, <1>5 DEF Keeps

\* One partition stays one.
LEMMA KeepsFlat ==
  ASSUME NEW F, NEW R, HoldCells(R, F), NEW rows \in Seq(R), NEW stage \in Stages,
         Keeps(Flat(rows), stage)
  PROVE  \E left \in Seq(R) : Apply(Flat(rows), stage) = Flat(left)
<1> DEFINE set == Flat(rows)
<1>0. set.grouped = FALSE /\ DOMAIN set.parts = {1} /\ set.parts[1].rows = rows
  BY DEF Flat
<1>1. CASE stage.verb = "F"
  <2>1. Apply(set, stage) = Filtered(set, stage)
    BY <1>1 DEF Apply
  <2> QED BY <2>1, FilteredFlat
<1>2. CASE stage.verb = "quick"
  <2>1. Apply(set, stage) = Quick(set, stage)
    BY <1>2 DEF Apply
  <2>2. Len(rows) # 1 \/ stage.exists
    BY <1>0, <1>2 DEF Keeps, Narrows, NarrowsPart
  <2> QED BY <2>1, <2>2, QuickFlat
<1>3. CASE stage.verb = "S"
  <2> DEFINE left == Sorted(rows, stage)
             each == [i \in DOMAIN set.parts |-> Sorted(set.parts[i].rows, stage)]
  <2>1. Apply(set, stage)
          = [set EXCEPT !.parts = [i \in DOMAIN set.parts |-> [set.parts[i] EXCEPT !.rows = each[i]]]]
    BY <1>0, <1>3 DEF Apply, Arranged, MapRows
  <2>2. left \in Seq(R)
    BY RowWeight, SortedTyped
  <2>3. DOMAIN each = {1} /\ each[1] = left
    BY <1>0
  <2> HIDE DEF left, each
  <2>4. Apply(set, stage) = Flat(left)
    BY <2>1, <2>3, FlatChanged
  <2> QED BY <2>2, <2>4
<1>4. CASE stage.verb = "L"
  <2> DEFINE left == Limited(rows, stage)
             each == [i \in DOMAIN set.parts |-> Limited(set.parts[i].rows, stage)]
  <2>1. Apply(set, stage)
          = [set EXCEPT !.parts = [i \in DOMAIN set.parts |-> [set.parts[i] EXCEPT !.rows = each[i]]]]
    BY <1>0, <1>4 DEF Apply, Arranged, MapRows
  <2>2. left \in Seq(R)
    BY <1>4, StageTyped, LimitedTyped
  <2>3. DOMAIN each = {1} /\ each[1] = left
    BY <1>0
  <2> HIDE DEF left, each
  <2>4. Apply(set, stage) = Flat(left)
    BY <2>1, <2>3, FlatChanged
  <2> QED BY <2>2, <2>4
<1>5. CASE stage.verb = "Y"
  BY <1>5 DEF Apply
<1> QED BY <1>1, <1>2, <1>3, <1>4, <1>5 DEF Keeps

(* The stages that change what they find. *)

LEMMA ResultsLess ==
  ASSUME NEW F, NEW G, G \subseteq F
  PROVE  Results(F) \subseteq Results(G)
<1>1. Fitting(F) \subseteq Fitting(G)
  BY FitsLess
<1>2. RowsOf(Fitting(F)) \subseteq RowsOf(Fitting(G))
  BY <1>1 DEF RowsOf
<1>3. PartsOf(Fitting(F), RowsOf(Fitting(F))) \subseteq PartsOf(Fitting(G), RowsOf(Fitting(G)))
  BY <1>1, <1>2 DEF PartsOf
<1> QED BY <1>3 DEF Results, SetsOf

\* Rows of cells that fit, and what is made of one row.
LEMMA RowTyped ==
  ASSUME NEW F, NEW of \in Nat, NEW cells \in Fitting(F)
  PROVE  Row(of, cells) \in RowsOf(Fitting(F))
BY DEF Row, RowsOf

LEMMA RowIs ==
  ASSUME NEW F, NEW row \in RowsOf(Fitting(F))
  PROVE  row.of \in Nat /\ row.cells \in Fitting(F)
BY DEF RowsOf

LEMMA ResultRows ==
  ASSUME NEW F
  PROVE  HoldCells(RowsOf(Fitting(F)), F)
BY DEF HoldCells, RowsOf

LEMMA KeptTyped ==
  ASSUME NEW F, NEW cells \in Fitting(F), NEW fields \in SUBSET DOMAIN cells
  PROVE  Kept(cells, fields) \in Seq(Fitting(F))
<1> DEFINE some == [k \in fields |-> cells[k]]
<1>1. some \in Fitting(F)
  BY SomeFit
<1>2. Kept(cells, fields) = IF fields = {} THEN <<>> ELSE <<some>>
  BY DEF Kept
<1> HIDE DEF some
<1> QED BY <1>1, <1>2

\* What is left of a row, as rows.
LEMMA RowsLeft ==
  ASSUME NEW F, NEW of \in Nat, NEW left \in Seq(Fitting(F))
  PROVE  [i \in DOMAIN left |-> Row(of, left[i])] \in Seq(RowsOf(Fitting(F)))
<1>1. \A i \in DOMAIN left : Row(of, left[i]) \in RowsOf(Fitting(F))
  BY RowTyped
<1> QED BY <1>1

LEMMA CleanRowTyped ==
  ASSUME NEW F, NEW row \in RowsOf(Fitting(F))
  PROVE  CleanRow(row) \in Seq(RowsOf(Fitting(F)))
<1> DEFINE fields == {k \in DOMAIN row.cells : ~Empty(row.cells[k].is)}
<1>1. Kept(row.cells, fields) \in Seq(Fitting(F)) /\ row.of \in Nat
  BY RowIs, KeptTyped
<1>2. CleanRow(row) =
        [i \in DOMAIN Kept(row.cells, fields) |-> Row(row.of, Kept(row.cells, fields)[i])]
  BY DEF CleanRow
<1> HIDE DEF fields
<1> QED BY <1>1, <1>2, RowsLeft

LEMMA ProjectRowTyped ==
  ASSUME NEW F, NEW row \in RowsOf(Fitting(F)), NEW stage
  PROVE  ProjectRow(row, stage) \in Seq(RowsOf(Fitting(F)))
<1> DEFINE fields == (IF stage.keep = {} THEN DOMAIN row.cells ELSE stage.keep \cap DOMAIN row.cells)
                       \ stage.drop
           left == Kept(row.cells, fields)
<1>1. fields \in SUBSET DOMAIN row.cells
  OBVIOUS
<1>2. ProjectRow(row, stage) =
        IF left = <<>> /\ stage.keep = {} THEN <<Row(row.of, NoCells)>>
        ELSE [i \in DOMAIN left |-> Row(row.of, left[i])]
  BY DEF ProjectRow
<1> HIDE DEF fields
<1>3. left \in Seq(Fitting(F)) /\ row.of \in Nat
  BY <1>1, RowIs, KeptTyped
<1> HIDE DEF left
<1>4. [i \in DOMAIN left |-> Row(row.of, left[i])] \in Seq(RowsOf(Fitting(F)))
  BY <1>3, RowsLeft
<1>5. Row(row.of, NoCells) \in RowsOf(Fitting(F))
  BY <1>3, NoCellsFit, RowTyped
<1> QED BY <1>2, <1>4, <1>5

LEMMA UnrollRowTyped ==
  ASSUME NEW F, NEW row \in RowsOf(Fitting(F)), NEW stage
  PROVE  UnrollRow(row, stage) \in Seq(RowsOf(Fitting(F)))
<1> DEFINE key == stage.key
           cells == row.cells
           Unrolls == key \in DOMAIN cells /\ cells[key].is.many
           all == cells[key].is.items
           items == Picked(all, {i \in DOMAIN all : all[i] # Null})
           One(x) == [cells EXCEPT ![key].is = Scalar(x)]
<1>1. cells \in Fitting(F) /\ row.of \in Nat
  BY RowIs
<1>2. UnrollRow(row, stage) =
        IF Unrolls THEN [i \in DOMAIN items |-> Row(row.of, One(items[i]))] ELSE <<row>>
  BY DEF UnrollRow
<1>3. ASSUME Unrolls PROVE items \in Seq(Scalars)
  <2>1. all \in Seq(Scalars)
    BY <1>1, <1>3, Fits DEF Held
  <2> HIDE DEF all
  <2> QED BY <2>1, PickedTyped
<1>4. ASSUME NEW x \in Scalars, Unrolls PROVE One(x) \in Fitting(F)
  <2>1. DOMAIN cells \in SUBSET Names /\ cells \in [DOMAIN cells -> Held]
    BY <1>1, Fits
  <2>2. Scalar(x) \in [many : BOOLEAN, items : Seq(Scalars)]
    BY DEF Scalar
  <2> DEFINE made == [cells[key] EXCEPT !.is = Scalar(x)]
  <2>3. made \in Held /\ made.from = cells[key].from
    BY <1>4, <2>1, <2>2 DEF Held
  <2>4. One(x) = [cells EXCEPT ![key] = made]
    OBVIOUS
  <2> HIDE DEF made
  <2>5. One(x) \in [DOMAIN cells -> Held]
    BY <2>1, <2>3, <2>4
  <2>6. \A k \in DOMAIN cells : One(x)[k].from = cells[k].from
    BY <1>4, <2>1, <2>3, <2>4
  <2> HIDE DEF One
  <2>7. \A k \in DOMAIN cells : k \in F => One(x)[k].from \in {k, Asked}
    BY <1>1, <2>6, Fits
  <2> QED BY <2>1, <2>5, <2>7, MakesFit
<1> HIDE DEF items, One
<1>5. CASE Unrolls
  <2>1. \A i \in DOMAIN items : items[i] \in Scalars
    BY <1>3, <1>5
  <2>2. \A i \in DOMAIN items : Row(row.of, One(items[i])) \in RowsOf(Fitting(F))
    BY <1>1, <1>4, <1>5, <2>1, RowTyped
  <2> QED BY <1>2, <1>3, <1>5, <2>2
<1>6. CASE ~Unrolls
  BY <1>2, <1>6
<1> QED BY <1>5, <1>6

LEMMA NarrowedTyped ==
  ASSUME NEW F, NEW row \in RowsOf(Fitting(F)), NEW stage
  PROVE  Narrowed(row, stage) \in Seq(RowsOf(Fitting(F)))
<1> DEFINE named == {stage.key} \cap DOMAIN row.cells
           Selected(k, x) == k \in named \/ ((named = {} \/ stage.negated) /\ x = stage.value)
           Items(k) == row.cells[k].is.items
           Left(k) ==
             Picked(Items(k), {i \in DOMAIN Items(k) : Selected(k, Items(k)[i]) # stage.negated})
           fields == {k \in DOMAIN row.cells : IF Items(k) = <<>>
                                               THEN (k \in named) # stage.negated ELSE Left(k) # <<>>}
           cells == [k \in fields |-> [row.cells[k] EXCEPT !.is.items = Left(k)]]
<1>1. Narrowed(row, stage) = IF fields = {} THEN <<>> ELSE <<Row(row.of, cells)>>
  BY DEF Narrowed
<1>2. row.of \in Nat /\ row.cells \in Fitting(F)
  BY RowIs
<1>3. fields \in SUBSET DOMAIN row.cells /\ fields \in SUBSET Names
  BY <1>2, Fits
<1>4. \A k \in DOMAIN row.cells : Left(k) \in Seq(Scalars)
  <2> TAKE k \in DOMAIN row.cells
  <2>1. Items(k) \in Seq(Scalars)
    BY <1>2, Fits DEF Held
  <2> HIDE DEF Items
  <2> QED BY <2>1, PickedTyped
<1> HIDE DEF Left, fields
<1>5. ASSUME NEW k \in fields
      PROVE  cells[k] \in Held /\ cells[k].from = row.cells[k].from
  <2>1. k \in DOMAIN row.cells /\ row.cells[k] \in Held /\ Left(k) \in Seq(Scalars)
    BY <1>2, <1>3, <1>4, Fits
  <2> DEFINE left == Left(k)
             cell == row.cells[k]
  <2>2. cells[k] = [cell EXCEPT !.is.items = left]
    OBVIOUS
  <2> HIDE DEF left, cell, cells
  <2>3. cell \in Held /\ left \in Seq(Scalars)
    BY <2>1 DEF cell, left
  <2>4. [cell EXCEPT !.is.items = left] = [cell EXCEPT !.is = [cell.is EXCEPT !.items = left]]
    BY <2>3 DEF Held
  <2>5. [cell.is EXCEPT !.items = left] \in [many : BOOLEAN, items : Seq(Scalars)]
    BY <2>3 DEF Held
  <2> QED BY <2>2, <2>3, <2>4, <2>5 DEF Held, cell
<1>6. cells \in [fields -> Held]
  BY <1>5
<1>7. \A k \in fields : k \in F => cells[k].from \in {k, Asked}
  BY <1>2, <1>3, <1>5, Fits
<1> HIDE DEF cells
<1>8. cells \in Fitting(F)
  BY <1>3, <1>6, <1>7, MakesFit
<1> QED BY <1>1, <1>2, <1>8, RowTyped

\* A quick search, narrowing or not, and the stages that work on each row.
LEMMA SearchTyped ==
  ASSUME NEW F, NEW set \in Results(F), NEW stage, stage.verb = "quick"
  PROVE  Apply(set, stage) \in Results(F)
<1> DEFINE R == RowsOf(Fitting(F))
           Rest(part) ==
             IF NarrowsPart(part, stage) THEN Narrowed(part.rows[1], stage)
             ELSE Picked(part.rows, {i \in DOMAIN part.rows : QuickPasses(part.rows[i].cells, stage)})
           rows == [i \in DOMAIN set.parts |-> Rest(set.parts[i])]
<1>0. set \in SetsOf(Fitting(F), R)
  BY DEF Results
<1>1. Apply(set, stage)
        = [set EXCEPT !.parts = [i \in DOMAIN set.parts |-> [set.parts[i] EXCEPT !.rows = rows[i]]]]
  BY DEF Apply, Quick
<1>2. ASSUME NEW part, part.rows \in Seq(R) PROVE Rest(part) \in Seq(R)
  <2>1. CASE NarrowsPart(part, stage)
    <3>1. part.rows[1] \in R
      BY <1>2, <2>1 DEF NarrowsPart
    <3> QED BY <2>1, <3>1, NarrowedTyped
  <2>2. CASE ~NarrowsPart(part, stage)
    BY <1>2, <2>2, PickedTyped
  <2> QED BY <2>1, <2>2
<1>3. \A i \in DOMAIN set.parts : set.parts[i].rows \in Seq(R)
  BY <1>0, SameRows
<1> HIDE DEF Rest
<1>4. rows \in [DOMAIN set.parts -> Seq(R)]
  BY <1>2, <1>3
<1> HIDE DEF rows
<1> QED BY <1>0, <1>1, <1>4, RowsChanged DEF Results

\* What each row becomes, on its own, makes the rows of its part.
LEMMA EachRowTyped ==
  ASSUME NEW F, NEW set \in Results(F),
         NEW each, DOMAIN each = DOMAIN set.parts,
         \A i \in DOMAIN set.parts : each[i] \in [DOMAIN set.parts[i].rows -> Seq(RowsOf(Fitting(F)))]
  PROVE  [set EXCEPT !.parts = [i \in DOMAIN set.parts |->
            [set.parts[i] EXCEPT !.rows = FlattenSeq(each[i])]]] \in Results(F)
<1> DEFINE R == RowsOf(Fitting(F))
           rows == [i \in DOMAIN set.parts |-> FlattenSeq(each[i])]
<1>1. set \in SetsOf(Fitting(F), R)
  BY DEF Results
<1>2. \A i \in DOMAIN set.parts : FlattenSeq(each[i]) \in Seq(R)
  BY <1>1, SameRows, RowsOfRows
<1>3. rows \in [DOMAIN set.parts -> Seq(R)]
  BY <1>2
<1>4. [set EXCEPT !.parts = [i \in DOMAIN set.parts |-> [set.parts[i] EXCEPT !.rows = FlattenSeq(each[i])]]]
        = [set EXCEPT !.parts = [i \in DOMAIN set.parts |-> [set.parts[i] EXCEPT !.rows = rows[i]]]]
  OBVIOUS
<1> HIDE DEF rows
<1> QED BY <1>1, <1>3, <1>4, RowsChanged DEF Results

LEMMA CleanTyped ==
  ASSUME NEW F, NEW set \in Results(F), NEW stage, stage.verb = "?"
  PROVE  Apply(set, stage) \in Results(F)
<1> DEFINE R == RowsOf(Fitting(F))
           Each(i) == [j \in DOMAIN set.parts[i].rows |-> CleanRow(set.parts[i].rows[j])]
           each == [i \in DOMAIN set.parts |-> Each(i)]
<1>1. Apply(set, stage)
        = [set EXCEPT !.parts = [i \in DOMAIN set.parts |->
             [set.parts[i] EXCEPT !.rows = FlattenSeq(each[i])]]]
  BY DEF Apply, EachRow, MapRows
<1>2. \A i \in DOMAIN set.parts : set.parts[i].rows \in Seq(R)
  BY SameRows DEF Results
<1>3. \A i \in DOMAIN set.parts : Each(i) \in [DOMAIN set.parts[i].rows -> Seq(R)]
  BY <1>2, CleanRowTyped
<1>4. DOMAIN each = DOMAIN set.parts /\ \A i \in DOMAIN set.parts : each[i] = Each(i)
  OBVIOUS
<1> HIDE DEF each, Each
<1> QED BY <1>1, <1>3, <1>4, EachRowTyped

LEMMA ProjectTyped ==
  ASSUME NEW F, NEW set \in Results(F), NEW stage, stage.verb = "P"
  PROVE  Apply(set, stage) \in Results(F)
<1> DEFINE R == RowsOf(Fitting(F))
           Each(i) == [j \in DOMAIN set.parts[i].rows |-> ProjectRow(set.parts[i].rows[j], stage)]
           each == [i \in DOMAIN set.parts |-> Each(i)]
<1>1. Apply(set, stage)
        = [set EXCEPT !.parts = [i \in DOMAIN set.parts |->
             [set.parts[i] EXCEPT !.rows = FlattenSeq(each[i])]]]
  BY DEF Apply, EachRow, MapRows
<1>2. \A i \in DOMAIN set.parts : set.parts[i].rows \in Seq(R)
  BY SameRows DEF Results
<1>3. \A i \in DOMAIN set.parts : Each(i) \in [DOMAIN set.parts[i].rows -> Seq(R)]
  BY <1>2, ProjectRowTyped
<1>4. DOMAIN each = DOMAIN set.parts /\ \A i \in DOMAIN set.parts : each[i] = Each(i)
  OBVIOUS
<1> HIDE DEF each, Each
<1> QED BY <1>1, <1>3, <1>4, EachRowTyped

LEMMA UnrollTyped ==
  ASSUME NEW F, NEW set \in Results(F), NEW stage, stage.verb = "U"
  PROVE  Apply(set, stage) \in Results(F)
<1> DEFINE R == RowsOf(Fitting(F))
           Each(i) == [j \in DOMAIN set.parts[i].rows |-> UnrollRow(set.parts[i].rows[j], stage)]
           each == [i \in DOMAIN set.parts |-> Each(i)]
<1>1. Apply(set, stage)
        = [set EXCEPT !.parts = [i \in DOMAIN set.parts |->
             [set.parts[i] EXCEPT !.rows = FlattenSeq(each[i])]]]
  BY DEF Apply, EachRow, MapRows
<1>2. \A i \in DOMAIN set.parts : set.parts[i].rows \in Seq(R)
  BY SameRows DEF Results
<1>3. \A i \in DOMAIN set.parts : Each(i) \in [DOMAIN set.parts[i].rows -> Seq(R)]
  BY <1>2, UnrollRowTyped
<1>4. DOMAIN each = DOMAIN set.parts /\ \A i \in DOMAIN set.parts : each[i] = Each(i)
  OBVIOUS
<1> HIDE DEF each, Each
<1> QED BY <1>1, <1>3, <1>4, EachRowTyped

\* A partition of rows that a stage has made.
LEMMA NewRows ==
  ASSUME NEW F, NEW rows \in Seq(RowsOf(Fitting(F)))
  PROVE  Flat(rows) \in Results(F)
BY NoCellsFit, FlatTyped DEF Results

LEMMA PartIs ==
  ASSUME NEW F, NEW set \in Results(F), NEW i \in DOMAIN set.parts
  PROVE  /\ set.parts[i] \in PartsOf(Fitting(F), RowsOf(Fitting(F)))
         /\ set.parts[i].groups \in Fitting(F) /\ set.parts[i].aggregates \in Fitting(F)
         /\ set.parts[i].rows \in Seq(RowsOf(Fitting(F)))
BY SameRows DEF Results

LEMMA MadeTyped == Made \in Names
BY DEF Names

\* Z, C, VALUE and A: what they fill a field with is in none that is said anything of.
LEMMA CollapsedTyped ==
  ASSUME NEW F, NEW set \in Results(F)
  PROVE  Collapsed(set) \in Results(F)
<1> DEFINE rows == [i \in DOMAIN set.parts |-> Row(0, Header(set.parts[i]))]
<1>1. \A i \in DOMAIN set.parts : Row(0, Header(set.parts[i])) \in RowsOf(Fitting(F))
  BY PartIs, HeaderFits, RowTyped
<1>2. Len(set.parts) \in Nat /\ DOMAIN set.parts = 1 .. Len(set.parts)
  BY DEF Results, SetsOf
<1>3. rows \in Seq(RowsOf(Fitting(F)))
  BY <1>1, <1>2
<1>4. Collapsed(set) = Flat(rows)
  BY DEF Collapsed
<1> HIDE DEF rows
<1> QED BY <1>3, <1>4, NewRows

LEMMA CountedTyped ==
  ASSUME NEW F, NEW set \in Results(F), NEW G, G \subseteq F, "count" \notin G
  PROVE  Counted(set) \in Results(G)
<1> DEFINE Count(rows) == Only("count", Cell(Scalar(Len(rows)), Made))
           each == [i \in DOMAIN set.parts |-> Row(0, Over(Count(set.parts[i].rows), set.parts[i].groups))]
           R == RowsOf(Fitting(G))
<1>0. set \in Results(G)
  BY ResultsLess
<1>1. ASSUME NEW S, NEW rows \in Seq(S) PROVE Count(rows) \in Fitting(G)
  <2>1. Len(rows) \in Scalars /\ "count" \in Names
    <3>1. Len(rows) \in Int
      OBVIOUS
    <3>2. "count" \in Names
      BY DEF Names
    <3> QED BY <3>1, <3>2 DEF Scalars
  <2>2. Cell(Scalar(Len(rows)), Made) \in Held
    BY <2>1, MadeTyped, ScalarCell
  <2> QED BY <2>1, <2>2, OnlyFits
<1> HIDE DEF Count
<1>2. Row(0, Count(<<>>)) \in R
  <2>1. <<>> \in Seq(R)
    OBVIOUS
  <2>2. Count(<<>>) \in Fitting(G)
    BY <1>1, <2>1
  <2> QED BY <2>2, RowTyped
<1>3. \A i \in DOMAIN set.parts : Row(0, Over(Count(set.parts[i].rows), set.parts[i].groups)) \in R
  BY <1>0, <1>1, PartIs, OverFits, RowTyped
<1>4. Len(set.parts) \in Nat /\ DOMAIN set.parts = 1 .. Len(set.parts)
  BY DEF Results, SetsOf
<1>5. each \in Seq(R) /\ <<Row(0, Count(<<>>))>> \in Seq(R)
  BY <1>2, <1>3, <1>4
<1>6. Counted(set) = IF set.parts = <<>> THEN Flat(<<Row(0, Count(<<>>))>>) ELSE Flat(each)
  BY DEF Counted, Count
<1> HIDE DEF each
<1> QED BY <1>5, <1>6, NewRows

LEMMA ValuesTyped ==
  ASSUME NEW F, NEW rows \in Seq(RowsOf(Fitting(F))), NEW stage, stage.keys \in Seq(Names),
         NEW G, "value" \notin G
  PROVE  Values(rows, stage) \in Seq(RowsOf(Fitting(G)))
<1> DEFINE R == RowsOf(Fitting(G))
           OfRow(key, row) ==
             LET all == Elements(row.cells, key)
             IN  [i \in DOMAIN all |-> Row(0, Only("value", Cell(Scalar(all[i]), Made)))]
           Each(key) == [i \in DOMAIN rows |-> OfRow(key, rows[i])]
           OfKey(key) == FlattenSeq(Each(key))
           all == [n \in DOMAIN stage.keys |-> OfKey(stage.keys[n])]
<1>1. Values(rows, stage) = FlattenSeq(all)
  BY DEF Values
<1>2. ASSUME NEW key, NEW row \in RowsOf(Fitting(F)) PROVE OfRow(key, row) \in Seq(R)
  <2> DEFINE items == Elements(row.cells, key)
  <2>1. items \in Seq(Scalars)
    BY RowIs, ElementsTyped
  <2>2. OfRow(key, row) = [i \in DOMAIN items |-> Row(0, Only("value", Cell(Scalar(items[i]), Made)))]
    OBVIOUS
  <2> HIDE DEF items, OfRow
  <2>3. ASSUME NEW x \in Scalars PROVE Row(0, Only("value", Cell(Scalar(x), Made))) \in R
    <3>1. Cell(Scalar(x), Made) \in Held
      BY MadeTyped, ScalarCell
    <3>2. Only("value", Cell(Scalar(x), Made)) \in Fitting(G)
      <4>1. "value" \in Names
        BY DEF Names
      <4> QED BY <3>1, <4>1, OnlyFits
    <3> QED BY <3>2, RowTyped
  <2>4. \A i \in DOMAIN items : items[i] \in Scalars
    BY <2>1
  <2>5. Len(items) \in Nat /\ DOMAIN items = 1 .. Len(items)
    BY <2>1
  <2>6. \A i \in DOMAIN items : Row(0, Only("value", Cell(Scalar(items[i]), Made))) \in R
    BY <2>3, <2>4
  <2> HIDE DEF R
  <2> QED BY <2>2, <2>5, <2>6
<1> HIDE DEF OfRow
<1>3. ASSUME NEW key PROVE OfKey(key) \in Seq(R)
  <2>1. Each(key) \in [DOMAIN rows -> Seq(R)]
    BY <1>2
  <2> HIDE DEF Each
  <2> QED BY <2>1, RowsOfRows
<1> HIDE DEF OfKey
<1>4. all \in [DOMAIN stage.keys -> Seq(R)]
  BY <1>3
<1> HIDE DEF all
<1> QED BY <1>1, <1>4, RowsOfRows

LEMMA ValueStageTyped ==
  ASSUME NEW F, NEW set \in Results(F), NEW stage, stage.verb = "VALUE", stage.keys \in Seq(Names),
         NEW G, G \subseteq F, "value" \notin G
  PROVE  Apply(set, stage) \in Results(G)
<1> DEFINE rows == [i \in DOMAIN set.parts |-> Values(set.parts[i].rows, stage)]
<1>1. Apply(set, stage)
        = [set EXCEPT !.parts = [i \in DOMAIN set.parts |-> [set.parts[i] EXCEPT !.rows = rows[i]]]]
  BY DEF Apply, MapRows
<1>2. set \in Results(G)
  BY ResultsLess
<1>3. \A i \in DOMAIN set.parts : Values(set.parts[i].rows, stage) \in Seq(RowsOf(Fitting(G)))
  BY PartIs, ValuesTyped
<1>4. rows \in [DOMAIN set.parts -> Seq(RowsOf(Fitting(G)))]
  BY <1>3
<1> HIDE DEF rows
<1> QED BY <1>1, <1>2, <1>4, RowsChanged DEF Results

\* The sum of numbers is one, and one of them is the greatest.
LEMMA GreatestExists ==
  ASSUME NEW numbers \in Seq(Int), numbers # <<>>
  PROVE  \E x \in ToSet(numbers) : \A y \in ToSet(numbers) : y <= x
<1> DEFINE N == Len(numbers)
           Best(n) == \E i \in 1 .. n : \A j \in 1 .. n : numbers[j] <= numbers[i]
           True == {n \in 0 .. N : n # 0 => Best(n)}
<1>1. N \in Nat /\ N # 0 /\ \A i \in 1 .. N : numbers[i] \in Int
  OBVIOUS
<1>2. 0 \in True
  BY <1>1
<1>3. ASSUME NEW n \in 1 .. N, n - 1 \in True PROVE n \in True
  <2>1. CASE n = 1
    <3>1. numbers[1] <= numbers[1] /\ 1 \in 1 .. 1 /\ \A j \in 1 .. 1 : j = 1
      BY <1>1, <2>1
    <3>2. Best(1)
      BY <3>1
    <3> QED BY <2>1, <3>2
  <2>2. CASE n # 1
    <3>1. PICK i \in 1 .. n - 1 : \A j \in 1 .. n - 1 : numbers[j] <= numbers[i]
      BY <1>3, <2>2
    <3>2. numbers[n] \in Int /\ numbers[i] \in Int /\ i \in 1 .. n /\ n \in 1 .. n
      BY <1>1
    <3>3. \A j \in 1 .. n : j = n \/ j \in 1 .. n - 1
      OBVIOUS
    <3>4. \A j \in 1 .. n : numbers[j] \in Int
      BY <1>1
    <3>5. CASE numbers[n] <= numbers[i]
      <4>1. \A j \in 1 .. n : numbers[j] <= numbers[i]
        BY <3>1, <3>3, <3>5
      <4> QED BY <3>2, <4>1
    <3>6. CASE ~(numbers[n] <= numbers[i])
      <4>1. \A j \in 1 .. n : numbers[j] <= numbers[n]
        BY <3>1, <3>2, <3>3, <3>4, <3>6
      <4> QED BY <3>2, <4>1
    <3> QED BY <3>5, <3>6
  <2> QED BY <2>1, <2>2
<1> HIDE DEF True, Best
<1>4. N \in True
  BY <1>1, <1>2, <1>3, UpTo
<1>5. PICK i \in 1 .. N : \A j \in 1 .. N : numbers[j] <= numbers[i]
  BY <1>1, <1>4 DEF True, Best
<1> QED BY <1>5 DEF ToSet

LEMMA AggregateTyped ==
  ASSUME NEW F, NEW rows \in Seq(RowsOf(Fitting(F))), NEW stage,
         stage.function \in {"count", "sum", "max"}
  PROVE  Aggregate(rows, stage) \in Scalars
<1> DEFINE each == [i \in DOMAIN rows |-> Elements(rows[i].cells, stage.column)]
           values == IF stage.column = "" THEN [i \in DOMAIN rows |-> 1] ELSE FlattenSeq(each)
           numbers == Picked(values, {i \in DOMAIN values : values[i] # Null})
           N == Len(numbers)
           Rule(f) == f = [n \in 0 .. N |-> IF n = 0 THEN 0 ELSE f[n - 1] + numbers[n]]
           sum == CHOOSE f : Rule(f)
           Greatest(x) == \A y \in ToSet(numbers) : y <= x
           most == CHOOSE x \in ToSet(numbers) : Greatest(x)
<1>1. values \in Seq(Scalars)
  <2>1. CASE stage.column = ""
    <3>1. 1 \in Scalars
      BY DEF Scalars
    <3>2. [i \in DOMAIN rows |-> 1] \in Seq(Scalars)
      BY <3>1
    <3> QED BY <2>1, <3>2
  <2>2. CASE stage.column # ""
    <3>1. each \in [DOMAIN rows -> Seq(Scalars)]
      BY RowIs, ElementsTyped
    <3> HIDE DEF each
    <3> QED BY <2>2, <3>1, RowsOfRows
  <2> QED BY <2>1, <2>2
<1>2. Aggregate(rows, stage) =
        CASE stage.function = "count" -> Len(numbers)
          [] stage.function = "sum"   -> sum[Len(numbers)]
          [] stage.function = "max"   -> IF numbers = <<>> THEN Null ELSE most
  BY DEF Aggregate
<1>3. numbers \in Seq(Int)
  <2> HIDE DEF values
  <2> DEFINE at == {i \in DOMAIN values : values[i] # Null}
             Left == {values[i] : i \in at \cap DOMAIN values}
  <2>1. Picked(values, at) \in Seq(Left)
    BY <1>1, PickedTyped
  <2>2. Left \subseteq Int
    BY <1>1 DEF Scalars
  <2> HIDE DEF Left
  <2>3. Picked(values, at) \in Seq(Int)
    BY <2>1, <2>2, SequenceOver
  <2> QED BY <2>3
<1> HIDE DEF numbers, values
<1>4. N \in Nat /\ \A n \in 1 .. N : numbers[n] \in Int
  BY <1>3
<1>5. sum[N] \in Int
  <2> DEFINE zero == 0
             change == [n \in 1 .. N |-> [x \in Int |-> x + numbers[n]]]
  <2>1. change \in [1 .. N -> [Int -> Int]] /\ zero \in Int
    BY <1>4
  <2>2. \A n \in 1 .. N, x \in Int : change[n][x] = x + numbers[n]
    OBVIOUS
  <2> HIDE DEF change, zero, N
  <2>3. Iterable(Int, N, zero, change)
    BY <1>4, <2>1, Recursion
  <2>4. PICK f \in [0 .. N -> Int] : f[0] = zero /\ \A n \in 1 .. N : f[n] = change[n][f[n - 1]]
    BY <2>3 DEF Iterable
  <2>5. \A n \in 1 .. N : f[n] = f[n - 1] + numbers[n]
    <3>1. \A n \in 1 .. N : n - 1 \in 0 .. N
      BY <1>4
    <3> QED BY <2>2, <2>4, <3>1
  <2>6. Rule(f)
    <3>1. \A n \in 0 .. N : n = 0 \/ n \in 1 .. N
      BY <1>4
    <3> QED BY <2>4, <2>5, <3>1 DEF zero
  <2>7. Rule(sum)
    BY <2>6
  <2> HIDE DEF sum
  <2> DEFINE True == {n \in 0 .. N : sum[n] \in Int}
  <2>8. 0 \in True
    BY <1>4, <2>7
  <2>9. ASSUME NEW n \in 1 .. N, n - 1 \in True PROVE n \in True
    <3>1. n \in 0 .. N /\ n # 0
      BY <1>4
    <3>2. sum[n] = sum[n - 1] + numbers[n]
      BY <2>7, <3>1
    <3>3. sum[n] \in Int
      BY <1>4, <2>9, <3>2
    <3> QED BY <3>1, <3>3
  <2> HIDE DEF True
  <2>10. N \in True
    BY <1>4, <2>8, <2>9, UpTo
  <2> QED BY <2>10 DEF True
<1>6. numbers # <<>> => most \in Int
  <2> SUFFICES ASSUME numbers # <<>> PROVE most \in Int
    OBVIOUS
  <2>1. \E x \in ToSet(numbers) : Greatest(x)
    BY <1>3, GreatestExists
  <2>2. ToSet(numbers) \subseteq Int
    BY <1>3 DEF ToSet
  <2> HIDE DEF Greatest
  <2> QED BY <2>1, <2>2
<1> HIDE DEF sum, most
<1>7. CASE stage.function = "count"
  BY <1>2, <1>4, <1>7 DEF Scalars
<1>8. CASE stage.function = "sum"
  BY <1>2, <1>5, <1>8 DEF Scalars
<1>9. CASE stage.function = "max"
  BY <1>2, <1>6, <1>9 DEF Scalars
<1> QED BY <1>7, <1>8, <1>9

LEMMA AggregatedTyped ==
  ASSUME NEW F, NEW set \in Results(F), NEW stage, stage.alias \in Names,
         stage.function \in {"count", "sum", "max"}, NEW G, G \subseteq F, stage.alias \notin G
  PROVE  Aggregated(set, stage) \in Results(G)
<1> DEFINE Value(rows) == Only(stage.alias, Cell(Scalar(Aggregate(rows, stage)), Made))
           R == RowsOf(Fitting(G))
           Part(i) == [set.parts[i] EXCEPT !.aggregates = Over(Value(set.parts[i].rows), @)]
           parts == [i \in DOMAIN set.parts |-> Part(i)]
           rows == [i \in DOMAIN set.parts |-> <<Row(0, Value(set.parts[i].rows))>>]
<1>0. set \in Results(G)
  BY ResultsLess
<1>1. Aggregated(set, stage) =
        IF set.parts = <<>> THEN Flat(<<Row(0, Value(<<>>))>>)
        ELSE IF set.grouped THEN [set EXCEPT !.parts = parts]
        ELSE [set EXCEPT !.parts = [i \in DOMAIN set.parts |-> [set.parts[i] EXCEPT !.rows = rows[i]]]]
  BY DEF Aggregated, MapRows
<1>2. ASSUME NEW some \in Seq(R) PROVE Value(some) \in Fitting(G)
  <2>1. Aggregate(some, stage) \in Scalars
    BY AggregateTyped
  <2>2. Cell(Scalar(Aggregate(some, stage)), Made) \in Held
    BY <2>1, MadeTyped, ScalarCell
  <2> QED BY <2>2, OnlyFits
<1> HIDE DEF Value
<1>3. <<Row(0, Value(<<>>))>> \in Seq(R)
  <2>1. <<>> \in Seq(R)
    OBVIOUS
  <2>2. Value(<<>>) \in Fitting(G)
    BY <1>2, <2>1
  <2>3. Row(0, Value(<<>>)) \in R
    BY <2>2, RowTyped
  <2> HIDE DEF R
  <2> QED BY <2>3
<1>4. \A i \in DOMAIN set.parts : Value(set.parts[i].rows) \in Fitting(G)
  BY <1>0, <1>2, PartIs
<1>5. ASSUME NEW i \in DOMAIN set.parts PROVE Part(i) \in PartsOf(Fitting(G), R)
  <2> DEFINE part == set.parts[i]
             all == Over(Value(part.rows), part.aggregates)
  <2>1. part \in PartsOf(Fitting(G), R)
    BY <1>0, PartIs
  <2>2. all \in Fitting(G)
    BY <1>0, <1>4, PartIs, OverFits
  <2>3. Part(i) = [part EXCEPT !.aggregates = all]
    OBVIOUS
  <2> HIDE DEF part, all, Part
  <2> QED BY <2>1, <2>2, <2>3 DEF PartsOf
<1>6. Len(set.parts) \in Nat /\ DOMAIN set.parts = 1 .. Len(set.parts)
  BY DEF Results, SetsOf
<1>7. parts \in Seq(PartsOf(Fitting(G), R))
  <2> HIDE DEF Part
  <2> QED BY <1>5, <1>6
<1>8. rows \in [DOMAIN set.parts -> Seq(R)]
  <2>1. \A i \in DOMAIN set.parts : Row(0, Value(set.parts[i].rows)) \in R
    BY <1>4, RowTyped
  <2> HIDE DEF R
  <2> QED BY <2>1
<1> HIDE DEF parts, rows
<1>9. set \in SetsOf(Fitting(G), R)
  BY <1>0 DEF Results
<1>10. [set EXCEPT !.parts = parts] \in Results(G)
  BY <1>7, <1>9, OtherParts DEF Results
<1>11. [set EXCEPT !.parts = [i \in DOMAIN set.parts |-> [set.parts[i] EXCEPT !.rows = rows[i]]]] \in Results(G)
  BY <1>8, <1>9, RowsChanged DEF Results
<1>12. Flat(<<Row(0, Value(<<>>))>>) \in Results(G)
  BY <1>3, NewRows
<1> QED BY <1>1, <1>10, <1>11, <1>12

\* What is at a picked position is not lost.
LEMMA PickedSome ==
  ASSUME NEW S, NEW seq \in Seq(S), NEW at, NEW i \in DOMAIN seq, i \in at
  PROVE  Picked(seq, at) # <<>>
<1>1. PICK f \in [0 .. Len(seq) -> Seq(S)] :
        /\ Picked(seq, at) = f[Len(seq)] /\ f[0] = <<>>
        /\ \A n \in 1 .. Len(seq) : f[n] = IF n \in at THEN Append(f[n - 1], seq[n]) ELSE f[n - 1]
  BY PickedByStep
<1> DEFINE True == {n \in 0 .. Len(seq) : n >= i => f[n] # <<>>}
<1>2. 0 \in True
  OBVIOUS
<1>3. ASSUME NEW n \in 1 .. Len(seq), n - 1 \in True PROVE n \in True
  <2>1. f[n] = IF n \in at THEN Append(f[n - 1], seq[n]) ELSE f[n - 1]
    BY <1>1
  <2>2. f[n - 1] \in Seq(S) /\ seq[n] \in S /\ n \in 0 .. Len(seq)
    <3>1. n - 1 \in 0 .. Len(seq)
      OBVIOUS
    <3> QED BY <3>1
  <2>3. CASE n \in at
    <3>1. Append(f[n - 1], seq[n]) # <<>>
      <4>1. Len(Append(f[n - 1], seq[n])) = Len(f[n - 1]) + 1 /\ Len(f[n - 1]) \in Nat
        BY <2>2
      <4>2. Len(<<>>) = 0
        OBVIOUS
      <4>3. ASSUME Append(f[n - 1], seq[n]) = <<>> PROVE FALSE
        BY <4>1, <4>2, <4>3
      <4> QED BY <4>3
    <3> QED BY <2>1, <2>2, <2>3, <3>1
  <2>4. CASE n \notin at
    <3>1. n >= i => n - 1 >= i
      BY <2>4
    <3> QED BY <1>3, <2>1, <2>2, <2>4, <3>1
  <2> QED BY <2>3, <2>4
<1> HIDE DEF True
<1>4. Len(seq) \in True
  BY <1>2, <1>3, UpTo
<1> QED BY <1>1, <1>4 DEF True

\* The cells that fit under a header.
HeaderCells(F, header) == {cell \in Held : header \in F => cell.from \in {header, Asked}}

\* The headers of a row fit if those under a new name are said nothing of.
LEMMA GroupValuesTyped ==
  ASSUME NEW F, NEW cells \in Fitting(F), NEW plan \in Plans,
         NEW G, G \subseteq F, plan.header \in G => plan.header = plan.key
  PROVE  GroupValues(cells, plan) \in Seq(HeaderCells(G, plan.header))
<1> DEFINE C == HeaderCells(G, plan.header)
           all == Elements(cells, plan.key)
           yes == \E x \in ToSet(all) : x \notin {Null, 0}
           each == Distinct(IF all = <<>> THEN <<Null>> ELSE all)
           from == IF plan.key \in DOMAIN cells THEN cells[plan.key].from ELSE plan.key
           asked == Cell(Scalar(IF yes THEN 1 ELSE 0), Asked)
<1>1. GroupValues(cells, plan) =
        IF plan.exists THEN <<asked>> ELSE [i \in DOMAIN each |-> Cell(Scalar(each[i]), from)]
  BY DEF GroupValues
<1>2. asked \in C
  <2>1. (IF yes THEN 1 ELSE 0) \in Scalars
    BY DEF Scalars
  <2>2. Asked \in Names
    BY DEF Names
  <2> HIDE DEF yes
  <2> QED BY <2>1, <2>2, ScalarCell DEF HeaderCells
<1>3. each \in Seq(Scalars)
  <2> DEFINE found == IF all = <<>> THEN <<Null>> ELSE all
  <2>1. Null \in Scalars
    BY DEF Scalars
  <2>2. all \in Seq(Scalars)
    BY ElementsTyped
  <2> HIDE DEF all
  <2>3. found \in Seq(Scalars)
    BY <2>1, <2>2
  <2> HIDE DEF found
  <2>4. Distinct(found) \in Seq(Scalars)
    BY <2>3, PickedTyped DEF Distinct
  <2> QED BY <2>4 DEF found
<1>4. from \in Names /\ (plan.header \in G => from \in {plan.header, Asked})
  <2>1. plan.key \in Names
    BY DEF Plans, Names
  <2>2. CASE plan.key \in DOMAIN cells
    BY <2>2, Fits DEF Held
  <2>3. CASE plan.key \notin DOMAIN cells
    BY <2>1, <2>3
  <2> QED BY <2>2, <2>3
<1> HIDE DEF each, from, asked
<1>5. \A i \in DOMAIN each : Cell(Scalar(each[i]), from) \in C
  <2> TAKE i \in DOMAIN each
  <2>1. each[i] \in Scalars
    BY <1>3
  <2> QED BY <1>4, <2>1, ScalarCell DEF HeaderCells
<1> HIDE DEF C
<1>6. Len(each) \in Nat /\ DOMAIN each = 1 .. Len(each)
  BY <1>3
<1>7. [i \in DOMAIN each |-> Cell(Scalar(each[i]), from)] \in Seq(C)
  BY <1>5, <1>6
<1>8. <<asked>> \in Seq(C)
  BY <1>2
<1>9. GroupValues(cells, plan) \in Seq(C)
  BY <1>1, <1>7, <1>8
<1> QED BY <1>9 DEF C

LEMMA CombinedTyped ==
  ASSUME NEW G, NEW combinations \in Seq(Fitting(G)), NEW header \in Names,
         NEW values \in Seq(HeaderCells(G, header))
  PROVE  Combined(combinations, header, values) \in Seq(Fitting(G))
<1> DEFINE With(i) == [j \in DOMAIN values |-> Over(combinations[i], Only(header, values[j]))]
           each == [i \in DOMAIN combinations |-> With(i)]
<1>1. ASSUME NEW i \in DOMAIN combinations, NEW j \in DOMAIN values
      PROVE  Over(combinations[i], Only(header, values[j])) \in Fitting(G)
  <2>1. values[j] \in HeaderCells(G, header) /\ combinations[i] \in Fitting(G)
    OBVIOUS
  <2>2. Only(header, values[j]) \in Fitting(G)
    BY <2>1, OnlyFits DEF HeaderCells
  <2> QED BY <2>1, <2>2, OverFits
<1>2. Len(values) \in Nat /\ DOMAIN values = 1 .. Len(values)
  OBVIOUS
<1>3. ASSUME NEW i \in DOMAIN combinations PROVE With(i) \in Seq(Fitting(G))
  BY <1>1, <1>2
<1> HIDE DEF With
<1>4. each \in [DOMAIN combinations -> Seq(Fitting(G))]
  BY <1>3
<1>5. Combined(combinations, header, values) = FlattenSeq(each)
  BY DEF Combined, With
<1> HIDE DEF each
<1> QED BY <1>4, <1>5, RowsOfRows

\* What each plan makes of the headers of those before it.
HeadersByStep(cells, plans, C) ==
  \E f \in [0 .. Len(plans) -> Seq(C)] :
    /\ GroupHeaders(cells, plans) = f[Len(plans)] /\ f[0] = <<NoCells>>
    /\ \A n \in 1 .. Len(plans) :
         f[n] = Combined(f[n - 1], plans[n].header, GroupValues(cells, plans[n]))

LEMMA GroupHeadersByStep ==
  ASSUME NEW F, NEW cells \in Fitting(F), NEW plans \in Seq(Plans),
         NEW G, G \subseteq F, \A i \in DOMAIN plans : plans[i].header \in G => plans[i].header = plans[i].key
  PROVE  HeadersByStep(cells, plans, Fitting(G))
<1> DEFINE N == Len(plans)
           X == Seq(Fitting(G))
           After(n, x) == Combined(x, plans[n].header, GroupValues(cells, plans[n]))
           Rule(f) == f = [n \in 0 .. N |-> IF n = 0 THEN <<NoCells>> ELSE
                             Combined(f[n - 1], plans[n].header, GroupValues(cells, plans[n]))]
           start == <<NoCells>>
           change == [n \in 1 .. N |-> [x \in X |-> After(n, x)]]
           headers == CHOOSE f : Rule(f)
<1>1. N \in Nat /\ \A n \in 1 .. N : plans[n] \in Plans /\ n \in DOMAIN plans
  OBVIOUS
<1>2. GroupHeaders(cells, plans) = headers[N]
  BY DEF GroupHeaders
<1>3. start \in X
  BY NoCellsFit
<1>4. ASSUME NEW n \in 1 .. N, NEW x \in X PROVE After(n, x) \in X
  <2>1. plans[n] \in Plans /\ (plans[n].header \in G => plans[n].header = plans[n].key)
    BY <1>1
  <2>2. plans[n].header \in Names
    BY <2>1 DEF Plans, Names
  <2>3. GroupValues(cells, plans[n]) \in Seq(HeaderCells(G, plans[n].header))
    BY <2>1, GroupValuesTyped
  <2> QED BY <2>2, <2>3, CombinedTyped
<1>5. change \in [1 .. N -> [X -> X]]
  <2> HIDE DEF After, X, N
  <2> QED BY <1>4
<1>6. \A n \in 1 .. N, x \in X : change[n][x] = After(n, x)
  OBVIOUS
<1>7. \A n \in 1 .. N : n - 1 \in 0 .. N /\ n \in 0 .. N /\ n # 0
  BY <1>1
<1>8. Rule(headers)
  <2> HIDE DEF change, start, N, X, After
  <2>1. Iterable(X, N, start, change)
    BY <1>1, <1>3, <1>5, Recursion
  <2>2. PICK f \in [0 .. N -> X] : f[0] = start /\ \A n \in 1 .. N : f[n] = change[n][f[n - 1]]
    BY <2>1 DEF Iterable
  <2>3. \A n \in 1 .. N : f[n] = After(n, f[n - 1])
    BY <1>6, <1>7, <2>2
  <2>4. Rule(f)
    <3>1. \A n \in 0 .. N : n = 0 \/ n \in 1 .. N
      BY <1>1
    <3>2. \A n \in 0 .. N : f[n] = IF n = 0 THEN <<NoCells>> ELSE
             Combined(f[n - 1], plans[n].header, GroupValues(cells, plans[n]))
      BY <2>2, <2>3, <3>1 DEF After, start
    <3> QED BY <2>2, <3>2
  <2> QED BY <2>4
<1> HIDE DEF headers
<1> DEFINE True == {n \in 0 .. N : headers[n] \in X}
<1>9. 0 \in True
  BY <1>1, <1>3, <1>8
<1>10. ASSUME NEW n \in 1 .. N, n - 1 \in True PROVE n \in True
  <2>1. headers[n] = After(n, headers[n - 1])
    BY <1>7, <1>8
  <2>2. headers[n - 1] \in X
    BY <1>10
  <2> HIDE DEF After
  <2>3. headers[n] \in X
    BY <1>4, <2>1, <2>2
  <2> QED BY <1>7, <2>3
<1> HIDE DEF True
<1>11. \A n \in 0 .. N : n \in True
  BY <1>1, <1>9, <1>10, UpTo
<1>12. \A n \in 0 .. N : headers[n] \in X
  BY <1>11 DEF True
<1>13. \A n \in 1 .. N : headers[n] = After(n, headers[n - 1])
  BY <1>7, <1>8
<1>14. headers \in [0 .. N -> X] /\ headers[0] = start
  BY <1>1, <1>8, <1>12
<1> HIDE DEF X
<1>15. \E f \in [0 .. N -> X] : GroupHeaders(cells, plans) = f[N] /\ f[0] = start /\ \A n \in 1 .. N : f[n] = After(n, f[n - 1])
  BY <1>2, <1>13, <1>14
<1> QED BY <1>15 DEF HeadersByStep, X

LEMMA GroupHeadersTyped ==
  ASSUME NEW F, NEW cells \in Fitting(F), NEW plans \in Seq(Plans),
         NEW G, G \subseteq F, \A i \in DOMAIN plans : plans[i].header \in G => plans[i].header = plans[i].key
  PROVE  GroupHeaders(cells, plans) \in Seq(Fitting(G))
<1>1. HeadersByStep(cells, plans, Fitting(G))
  BY GroupHeadersByStep
<1>2. Len(plans) \in 0 .. Len(plans)
  OBVIOUS
<1> QED BY <1>1, <1>2 DEF HeadersByStep

\* What joins a group: a row, with the header that it has there.
Arrivals(C, R) == [groups : C, aggregates : C, row : R]

LEMMA JoiningAllTyped ==
  ASSUME NEW F, NEW part \in PartsOf(Fitting(F), RowsOf(Fitting(F))), NEW plans \in Seq(Plans),
         NEW G, G \subseteq F, \A i \in DOMAIN plans : plans[i].header \in G => plans[i].header = plans[i].key
  PROVE  JoiningAll(part, plans) \in Seq(Arrivals(Fitting(G), RowsOf(Fitting(G))))
<1> DEFINE E == Arrivals(Fitting(G), RowsOf(Fitting(G)))
           Headers(row) == GroupHeaders(row.cells, plans)
           Join(row) == Joining(part, row, Headers(row))
           each == [i \in DOMAIN part.rows |-> Join(part.rows[i])]
<1>1. /\ part.groups \in Fitting(G) /\ part.aggregates \in Fitting(G)
      /\ part.rows \in Seq(RowsOf(Fitting(F)))
  BY FitsLess DEF PartsOf
<1>2. ASSUME NEW row \in RowsOf(Fitting(F)) PROVE Join(row) \in Seq(E)
  <2> DEFINE headers == Headers(row)
             Entry(i) == [groups |-> Over(headers[i], part.groups),
                          aggregates |-> part.aggregates, row |-> row]
  <2>1. headers \in Seq(Fitting(G))
    BY RowIs, GroupHeadersTyped
  <2>2. row \in RowsOf(Fitting(G))
    BY FitsLess DEF RowsOf
  <2>3. Join(row) = [i \in DOMAIN headers |-> Entry(i)]
    BY DEF Joining
  <2> HIDE DEF headers, Join
  <2>4. \A i \in DOMAIN headers : Entry(i) \in E
    <3> TAKE i \in DOMAIN headers
    <3>1. headers[i] \in Fitting(G)
      BY <2>1
    <3>2. Over(headers[i], part.groups) \in Fitting(G)
      BY <1>1, <3>1, OverFits
    <3> QED BY <1>1, <2>2, <3>2 DEF Arrivals
  <2>5. Len(headers) \in Nat /\ DOMAIN headers = 1 .. Len(headers)
    BY <2>1
  <2> HIDE DEF Entry, E
  <2> QED BY <2>3, <2>4, <2>5
<1> HIDE DEF Join, E
<1>3. each \in [DOMAIN part.rows -> Seq(E)]
  BY <1>1, <1>2
<1>4. JoiningAll(part, plans) = FlattenSeq(each)
  BY DEF JoiningAll, Join
<1> HIDE DEF each
<1>5. JoiningAll(part, plans) \in Seq(E)
  BY <1>1, <1>3, <1>4, RowsOfRows
<1> QED BY <1>5 DEF E

LEMMA BucketTyped ==
  ASSUME NEW C, NEW R, NEW joined \in Seq(Arrivals(C, R)), joined # <<>>
  PROVE  Bucket(joined) \in PartsOf(C, R)
<1> DEFINE rows == [i \in DOMAIN joined |-> joined[i].row]
<1>1. \A i \in 1 .. Len(joined) : joined[i] \in Arrivals(C, R)
  OBVIOUS
<1>2. \A i \in 1 .. Len(joined) : joined[i].row \in R /\ joined[i].groups \in C /\ joined[i].aggregates \in C
  BY <1>1 DEF Arrivals
<1>3. Len(joined) \in Nat /\ DOMAIN joined = 1 .. Len(joined) /\ 1 \in 1 .. Len(joined)
  OBVIOUS
<1>4. rows \in Seq(R)
  BY <1>2, <1>3
<1>5. Bucket(joined) = [groups |-> joined[1].groups, aggregates |-> joined[1].aggregates, rows |-> rows]
  BY DEF Bucket
<1> HIDE DEF rows
<1> QED BY <1>2, <1>3, <1>4, <1>5 DEF PartsOf

LEMMA BucketedTyped ==
  ASSUME NEW C, NEW R, NEW met \in Seq(Arrivals(C, R))
  PROVE  Bucketed(met) \in Seq(PartsOf(C, R))
<1> DEFINE said == [i \in DOMAIN met |-> Says(met[i].groups)]
           Met == {said[i] : i \in DOMAIN met}
           keys == Distinct(said)
           At(key) == {i \in DOMAIN met : said[i] = key}
           Joined(key) == Picked(met, At(key))
<1>1. Len(met) \in Nat /\ DOMAIN met = 1 .. Len(met)
  OBVIOUS
<1>2. said \in Seq(Met)
  BY <1>1
<1>3. Bucketed(met) = [n \in DOMAIN keys |-> Bucket(Joined(keys[n]))]
  BY DEF Bucketed
<1> HIDE DEF Met, said
<1>4. keys \in Seq(Met)
  BY <1>2, PickedTyped DEF Distinct
<1>5. ASSUME NEW key \in Met PROVE Bucket(Joined(key)) \in PartsOf(C, R)
  <2>1. PICK i \in DOMAIN met : said[i] = key
    BY DEF Met
  <2>2. i \in At(key)
    BY <2>1
  <2> HIDE DEF At
  <2>3. Joined(key) # <<>> /\ Joined(key) \in Seq(Arrivals(C, R))
    BY <2>1, <2>2, PickedSome, PickedTyped
  <2> HIDE DEF Joined
  <2> QED BY <2>3, BucketTyped
<1> HIDE DEF keys, Joined
<1>6. Len(keys) \in Nat /\ DOMAIN keys = 1 .. Len(keys)
  BY <1>4
<1>7. \A n \in DOMAIN keys : Bucket(Joined(keys[n])) \in PartsOf(C, R)
  BY <1>4, <1>5
<1> QED BY <1>3, <1>6, <1>7

LEMMA GroupedTyped ==
  ASSUME NEW F, NEW set \in Results(F), NEW plans \in Seq(Plans),
         NEW G, G \subseteq F, \A i \in DOMAIN plans : plans[i].header \in G => plans[i].header = plans[i].key
  PROVE  Grouped(set, plans) \in Results(G)
<1> DEFINE C == Fitting(G)
           R == RowsOf(Fitting(G))
           each == [i \in DOMAIN set.parts |-> JoiningAll(set.parts[i], plans)]
           met == FlattenSeq(each)
<1>1. \A i \in DOMAIN set.parts : JoiningAll(set.parts[i], plans) \in Seq(Arrivals(C, R))
  BY PartIs, JoiningAllTyped
<1>2. set.parts \in Seq(PartsOf(Fitting(F), RowsOf(Fitting(F))))
  BY SameRows DEF Results
<1>3. each \in [DOMAIN set.parts -> Seq(Arrivals(C, R))]
  BY <1>1
<1> HIDE DEF each
<1>4. met \in Seq(Arrivals(C, R))
  BY <1>2, <1>3, RowsOfRows
<1>5. Grouped(set, plans) = [grouped |-> TRUE, parts |-> Bucketed(met)]
  BY DEF Grouped, each
<1> HIDE DEF met
<1>6. Bucketed(met) \in Seq(PartsOf(C, R))
  BY <1>4, BucketedTyped
<1> QED BY <1>5, <1>6 DEF Results, SetsOf

\* Whatever the stage, no field that it has made passes for one of the producer.
LEMMA ApplyTyped ==
  ASSUME NEW F, NEW set \in Results(F), NEW stage \in Stages,
         NEW G, G \subseteq F, G \cap Created(stage) = {}
  PROVE  Apply(set, stage) \in Results(G)
<1>0. set \in Results(G) /\ stage.verb \in Verbs
  BY ResultsLess, StageTyped
<1>1. CASE stage.verb \in {"F", "S", "L", "Y"}
  <2>1. Keeps(set, stage)
    BY <1>1 DEF Keeps, Narrows
  <2> QED BY <1>0, <2>1, ResultRows, KeepsTyped DEF Results
<1>2. CASE stage.verb = "quick"
  BY <1>0, <1>2, SearchTyped
<1>3. CASE stage.verb = "?"
  BY <1>0, <1>3, CleanTyped
<1>4. CASE stage.verb = "G"
  <2>1. stage.plans \in Seq(Plans)
    BY <1>4, StageTyped
  <2>2. ASSUME NEW i \in DOMAIN stage.plans, stage.plans[i].header \in G
        PROVE  stage.plans[i].header = stage.plans[i].key
    <3>1. stage.plans[i].header # stage.plans[i].key => stage.plans[i].header \in Created(stage)
      BY <1>4 DEF Created, Renamed, ToSet
    <3> QED BY <2>2, <3>1
  <2>3. Apply(set, stage) = Grouped(set, stage.plans)
    BY <1>4 DEF Apply
  <2> QED BY <2>1, <2>2, <2>3, GroupedTyped
<1>5. CASE stage.verb = "A"
  <2>1. stage.alias \in Created(stage)
    BY <1>5 DEF Created, Reduced
  <2>2. Apply(set, stage) = Aggregated(set, stage)
    BY <1>5 DEF Apply
  <2>3. stage.alias \in Names /\ stage.function \in {"count", "sum", "max"}
    BY <1>5, StageTyped
  <2> QED BY <2>1, <2>2, <2>3, AggregatedTyped
<1>6. CASE stage.verb = "C"
  <2>1. "count" \in Created(stage)
    BY <1>6 DEF Created, Reduced
  <2>2. Apply(set, stage) = Counted(set)
    BY <1>6 DEF Apply
  <2> QED BY <2>1, <2>2, CountedTyped
<1>7. CASE stage.verb = "Z"
  <2>1. Apply(set, stage) = Collapsed(set)
    BY <1>7 DEF Apply
  <2> QED BY <1>0, <2>1, CollapsedTyped
<1>8. CASE stage.verb = "U"
  BY <1>0, <1>8, UnrollTyped
<1>9. CASE stage.verb = "P"
  BY <1>0, <1>9, ProjectTyped
<1>10. CASE stage.verb = "VALUE"
  <2>1. "value" \in Created(stage)
    BY <1>10 DEF Created, Reduced
  <2>2. stage.keys \in Seq(Names)
    BY <1>10, StageTyped
  <2> QED BY <1>10, <2>1, <2>2, ValueStageTyped
<1> QED BY <1>0, <1>1, <1>2, <1>3, <1>4, <1>5, <1>6, <1>7, <1>8, <1>9, <1>10 DEF Verbs

(* What is said of a result fits it. *)

\* The fields that something is said of.
Said(out) == (UNION out.formatted) \cup ({out.title} \ {""})

\* The rows that what is said of rows may be said of.
Given(p, out) ==
  {row \in RowsOf(Fitting(Said(out))) :
     /\ out.view => row.of \in DOMAIN p.rows /\ row.cells = p.rows[row.of]
     /\ out.document => row.of \in DOMAIN p.roles}

\* Roles are those of the rows of the document.
RolesFit(p, out, rows) == out.document => out.roles = [i \in DOMAIN rows |-> p.roles[rows[i].of]]

\* The inductive invariant: cells under a name that something is said of are the
\* producer's, and what has roles or a view is rows as the producer gave them.
OutputFits(p, out) ==
  /\ out.set \in Results(Said(out))
  /\ out.view \/ out.document =>
       \E rows \in Seq(Given(p, out)) : out.set = Flat(rows) /\ RolesFit(p, out, rows)

\* Rows as they were given, and with less said of them.
LEMMA GivenIs ==
  ASSUME NEW p, NEW out, NEW row \in Given(p, out)
  PROVE  /\ row \in RowsOf(Fitting(Said(out)))
         /\ row.of \in Nat /\ row.cells \in Fitting(Said(out)) /\ row = Row(row.of, row.cells)
         /\ out.view => row.of \in DOMAIN p.rows /\ row.cells = p.rows[row.of]
         /\ out.document => row.of \in DOMAIN p.roles
BY DEF Given, RowsOf, Row

LEMMA GivenStays ==
  ASSUME NEW p, NEW out, NEW new, Said(new) \subseteq Said(out),
         new.view => out.view, new.document => out.document
  PROVE  Given(p, out) \subseteq Given(p, new)
<1> SUFFICES ASSUME NEW row \in Given(p, out) PROVE row \in Given(p, new)
  OBVIOUS
<1>1. row \in RowsOf(Fitting(Said(new)))
  BY GivenIs, FitsLess DEF RowsOf
<1> QED BY <1>1, GivenIs DEF Given

LEMMA UnstagedFits ==
  ASSUME NEW p \in Products
  PROVE  OutputFits(p, Unstaged(p))
<1> DEFINE out == Unstaged(p)
           rows == [i \in DOMAIN p.rows |-> Row(i, p.rows[i])]
<1>1. /\ out.set = Flat(rows) /\ out.roles = p.roles
      /\ (out.document => p.roles # <<>>)
  BY DEF Unstaged
<1>2. /\ p.rows \in Seq(ToSet(p.rows)) /\ \A cells \in ToSet(p.rows) : ProducedRow(cells)
      /\ p.roles \in Seq(STRING) /\ (p.roles = <<>> \/ Len(p.roles) = Len(p.rows))
  BY StagesAssumption
<1>3. Len(p.rows) \in Nat /\ DOMAIN p.rows = 1 .. Len(p.rows)
  BY <1>2
<1>4. ASSUME NEW i \in DOMAIN p.rows PROVE p.rows[i] \in Fitting(Said(out))
  <2> DEFINE cells == p.rows[i]
             names == DOMAIN cells
  <2>1. ProducedRow(cells)
    BY <1>2 DEF ToSet
  <2>2. CellType \subseteq Held
    BY DEF CellType, Held, Names
  <2> HIDE DEF cells
  <2>3. names \in SUBSET Names /\ cells \in [names -> Held] /\ \A k \in names : cells[k].from = k
    <3>1. STRING \subseteq Names
      BY DEF Names
    <3> QED BY <2>1, <2>2, <3>1 DEF ProducedRow
  <2> HIDE DEF names
  <2>4. cells \in Fitting(Said(out))
    BY <2>3, MakesFit
  <2> QED BY <2>4 DEF cells
<1>5. ASSUME NEW i \in DOMAIN p.rows PROVE Row(i, p.rows[i]) \in Given(p, out)
  <2>1. i \in Nat
    BY <1>3
  <2>2. Row(i, p.rows[i]) \in RowsOf(Fitting(Said(out)))
    BY <1>4, <2>1, RowTyped
  <2>3. Row(i, p.rows[i]).of = i /\ Row(i, p.rows[i]).cells = p.rows[i]
    BY DEF Row
  <2>4. out.document => i \in DOMAIN p.roles
    BY <1>1, <1>2, <1>3
  <2> QED BY <2>2, <2>3, <2>4 DEF Given
<1>6. rows \in Seq(Given(p, out))
  <2> HIDE DEF out
  <2> QED BY <1>3, <1>5
<1>7. RolesFit(p, out, rows)
  <2> SUFFICES ASSUME out.document PROVE out.roles = [i \in DOMAIN rows |-> p.roles[rows[i].of]]
    BY DEF RolesFit
  <2>1. DOMAIN rows = DOMAIN p.roles
    BY <1>1, <1>2, <1>3
  <2>2. \A i \in DOMAIN rows : rows[i].of = i
    BY DEF Row
  <2>3. p.roles = [i \in DOMAIN p.roles |-> p.roles[i]]
    BY <1>2
  <2> HIDE DEF rows
  <2> QED BY <1>1, <2>1, <2>2, <2>3
<1> HIDE DEF out, rows
<1>8. rows \in Seq(RowsOf(Fitting(Said(out))))
  <2>1. Given(p, out) \subseteq RowsOf(Fitting(Said(out)))
    BY GivenIs
  <2> QED BY <1>6, <2>1, SequenceOver
<1>9. out.set \in Results(Said(out))
  BY <1>1, <1>8, NewRows
<1>10. OutputFits(p, out)
  BY <1>1, <1>6, <1>7, <1>9 DEF OutputFits
<1> QED BY <1>10 DEF out

\* What Advance makes of what was said, and of the document.
LEMMA AdvanceSays ==
  ASSUME NEW out, NEW stage
  PROVE  /\ Said(Advance(out, stage)) \subseteq Said(out)
         /\ Said(Advance(out, stage)) \cap Created(stage) = {}
         /\ Advance(out, stage).view => out.view /\ Keeps(out.set, stage)
         /\ Advance(out, stage).document <=> out.document /\ Keeps(out.set, stage)
<1> DEFINE new == Advance(out, stage)
<1>1. /\ new.formatted = {rule \in out.formatted : rule \cap Created(stage) = {}}
      /\ new.title = "" \/ (new.title = out.title /\ out.title \notin Created(stage))
      /\ new.view => out.view /\ Keeps(out.set, stage)
      /\ new.document <=> out.document /\ Keeps(out.set, stage)
  BY DEF Advance
<1> HIDE DEF new
<1>2. ASSUME NEW field \in Said(new)
      PROVE  field \in Said(out) /\ field \notin Created(stage)
  <2>1. CASE field \in UNION new.formatted
    <3>1. PICK rule \in out.formatted : field \in rule /\ rule \cap Created(stage) = {}
      BY <1>1, <2>1
    <3> QED BY <3>1 DEF Said
  <2>2. CASE field = new.title /\ new.title # ""
    BY <1>1, <2>2 DEF Said
  <2>3. field \in UNION new.formatted \/ (field = new.title /\ new.title # "")
    BY DEF Said
  <2> QED BY <2>1, <2>2, <2>3
<1> QED BY <1>1, <1>2 DEF new

\* Rows with their roles, and what is left of them.
WithTheirs(p, out) ==
  {[of |-> row.of, cells |-> row.cells, role |-> p.roles[row.of]] : row \in Given(p, out)}

\* The rows of a document take their roles with them, and bring them back.
LEMMA RolesTaken ==
  ASSUME NEW p, NEW out, out.document, NEW rows \in Seq(Given(p, out)), RolesFit(p, out, rows)
  PROVE  /\ WithRoles(rows, out.roles) \in Seq(WithTheirs(p, out))
         /\ Len(WithRoles(rows, out.roles)) = Len(rows)
<1> DEFINE theirs == [i \in DOMAIN rows |->
                       [of |-> rows[i].of, cells |-> rows[i].cells, role |-> out.roles[i]]]
<1>1. \A i \in DOMAIN rows : out.roles[i] = p.roles[rows[i].of]
  BY DEF RolesFit
<1>2. \A i \in DOMAIN rows : theirs[i] \in WithTheirs(p, out)
  BY <1>1 DEF WithTheirs
<1>3. Len(rows) \in Nat /\ DOMAIN rows = 1 .. Len(rows) /\ DOMAIN theirs = DOMAIN rows
  OBVIOUS
<1>4. theirs = [i \in 1 .. Len(rows) |-> theirs[i]]
  BY <1>3
<1> HIDE DEF theirs
<1>5. theirs \in Seq(WithTheirs(p, out)) /\ Len(theirs) = Len(rows)
  BY <1>2, <1>3, <1>4
<1> QED BY <1>5 DEF WithRoles, theirs

LEMMA TheirsIs ==
  ASSUME NEW p, NEW out, NEW row \in WithTheirs(p, out)
  PROVE  /\ "cells" \in DOMAIN row /\ row.cells \in Fitting(Said(out))
         /\ Row(row.of, row.cells) \in Given(p, out) /\ row.role = p.roles[row.of]
<1>1. PICK given \in Given(p, out) :
        row = [of |-> given.of, cells |-> given.cells, role |-> p.roles[given.of]]
  BY DEF WithTheirs
<1>2. row.of = given.of /\ row.cells = given.cells /\ row.role = p.roles[given.of]
        /\ "cells" \in DOMAIN row
  BY <1>1
<1> QED BY <1>2, GivenIs

LEMMA DocumentAdvances ==
  ASSUME NEW p, NEW out, OutputFits(p, out), NEW stage \in Stages,
         out.document, Keeps(out.set, stage)
  PROVE  OutputFits(p, Advance(out, stage))
<1> DEFINE new == Advance(out, stage)
<1>1. PICK rows \in Seq(Given(p, out)) : out.set = Flat(rows) /\ RolesFit(p, out, rows)
  BY DEF OutputFits
<1> DEFINE theirs == WithRoles(rows, out.roles)
           R == WithTheirs(p, out)
<1>2. AllRows(out.set) = rows
  BY <1>1, FlatRows
<1>3. theirs \in Seq(R) /\ Len(theirs) = Len(rows)
  BY <1>1, RolesTaken
<1>4. HoldCells(R, Said(out))
  BY TheirsIs DEF HoldCells
<1> HIDE DEF theirs, R
<1>5. Keeps(Flat(theirs), stage)
  <2>1. /\ DOMAIN Flat(rows).parts = {1} /\ Flat(rows).parts[1].rows = rows
        /\ DOMAIN Flat(theirs).parts = {1} /\ Flat(theirs).parts[1].rows = theirs
    BY DEF Flat
  <2>2. Narrows(Flat(theirs), stage) => Narrows(Flat(rows), stage)
    BY <1>3, <2>1 DEF Narrows, NarrowsPart
  <2> QED BY <1>1, <2>2 DEF Keeps
<1>6. PICK left \in Seq(R) : Apply(Flat(theirs), stage) = Flat(left)
  BY <1>3, <1>4, <1>5, KeepsFlat
<1> DEFINE whole == [i \in DOMAIN left |-> Row(left[i].of, left[i].cells)]
<1>7. /\ new.set = MapRows(Flat(left), WithoutRole)
      /\ new.roles = Roles(AllRows(Flat(left)))
  BY <1>2, <1>6 DEF Advance, theirs
<1>8. new.set = Flat(whole)
  <2> DEFINE set == Flat(left)
             each == [i \in DOMAIN set.parts |-> WithoutRole(set.parts[i].rows)]
  <2>1. MapRows(set, WithoutRole)
          = [set EXCEPT !.parts = [i \in DOMAIN set.parts |-> [set.parts[i] EXCEPT !.rows = each[i]]]]
    BY DEF MapRows
  <2>2. DOMAIN set.parts = {1} /\ set.parts[1].rows = left
    BY DEF Flat
  <2>3. DOMAIN each = {1} /\ each[1] = whole
    BY <2>2 DEF WithoutRole
  <2> HIDE DEF each, whole
  <2> QED BY <1>7, <2>1, <2>3, FlatChanged
<1>9. new.roles = [i \in DOMAIN left |-> left[i].role]
  BY <1>7, FlatRows DEF Roles
<1>10. \A i \in DOMAIN left : left[i] \in WithTheirs(p, out)
  BY DEF R
<1>11. Given(p, out) \subseteq Given(p, new)
  BY AdvanceSays, GivenStays
<1>12. \A i \in DOMAIN left : Row(left[i].of, left[i].cells) \in Given(p, new)
  BY <1>10, <1>11, TheirsIs
<1>13. Len(left) \in Nat /\ DOMAIN left = 1 .. Len(left)
  OBVIOUS
<1>14. whole \in Seq(Given(p, new))
  <2> HIDE DEF new
  <2> QED BY <1>12, <1>13
<1>15. RolesFit(p, new, whole)
  <2>1. \A i \in DOMAIN left : left[i].role = p.roles[whole[i].of]
    BY <1>10, TheirsIs DEF Row
  <2>2. DOMAIN whole = DOMAIN left
    OBVIOUS
  <2> HIDE DEF whole, new
  <2> QED BY <1>9, <2>1, <2>2 DEF RolesFit
<1> HIDE DEF whole, new
<1>16. whole \in Seq(RowsOf(Fitting(Said(new))))
  <2>1. Given(p, new) \subseteq RowsOf(Fitting(Said(new)))
    BY GivenIs
  <2> QED BY <1>14, <2>1, SequenceOver
<1>17. new.set \in Results(Said(new))
  BY <1>8, <1>16, NewRows
<1>18. OutputFits(p, new)
  BY <1>8, <1>14, <1>15, <1>17 DEF OutputFits
<1> QED BY <1>18 DEF new

\* Any other stage drops roles, and the view if it changes the rows.
LEMMA OtherAdvances ==
  ASSUME NEW p, NEW out, OutputFits(p, out), NEW stage \in Stages,
         ~(out.document /\ Keeps(out.set, stage))
  PROVE  OutputFits(p, Advance(out, stage))
<1> DEFINE new == Advance(out, stage)
<1>1. new.set = Apply(out.set, stage) /\ ~new.document
  BY AdvanceSays DEF Advance
<1>2. /\ Said(new) \subseteq Said(out) /\ Said(new) \cap Created(stage) = {}
      /\ new.view => out.view /\ Keeps(out.set, stage)
  BY AdvanceSays
<1> HIDE DEF new
<1>3. new.set \in Results(Said(new))
  BY <1>1, <1>2, ApplyTyped DEF OutputFits
<1>4. ASSUME new.view PROVE \E rows \in Seq(Given(p, new)) : new.set = Flat(rows)
  <2>1. PICK rows \in Seq(Given(p, out)) : out.set = Flat(rows)
    BY <1>2, <1>4 DEF OutputFits
  <2>2. HoldCells(Given(p, out), Said(out))
    BY GivenIs DEF HoldCells, Given, RowsOf
  <2>3. PICK left \in Seq(Given(p, out)) : Apply(Flat(rows), stage) = Flat(left)
    BY <1>2, <1>4, <2>1, <2>2, KeepsFlat
  <2>4. Given(p, out) \subseteq Given(p, new)
    BY <1>1, <1>2, GivenStays
  <2>5. left \in Seq(Given(p, new))
    BY <2>4, SequenceOver
  <2> QED BY <1>1, <2>1, <2>3, <2>5
<1>5. OutputFits(p, new)
  BY <1>1, <1>3, <1>4 DEF OutputFits, RolesFit
<1> QED BY <1>5 DEF new

\* What is said is true if it fits.
LEMMA FitsPresentation ==
  ASSUME product \in Products, OutputFits(product, output)
  PROVE  PresentationFits
<1> DEFINE F == Said(output)
           rows == AllRows(output.set)
<1>1. FormattedFields = F
  BY DEF FormattedFields, Said
<1>2. \A cells \in Fitting(F) : FromProducer(cells)
  BY <1>1, Fits DEF FromProducer
<1>3. output.set \in Results(F)
  BY DEF OutputFits
<1>4. rows \in Seq(RowsOf(Fitting(F)))
  BY <1>3, AllRowsTyped DEF Results
<1>5. \A i \in DOMAIN rows : FromProducer(rows[i].cells)
  <2> TAKE i \in DOMAIN rows
  <2> HIDE DEF rows
  <2>1. rows[i] \in RowsOf(Fitting(F))
    BY <1>4
  <2> QED BY <1>2, <2>1, RowIs
<1>6. \A i \in DOMAIN output.set.parts : FromProducer(Header(output.set.parts[i]))
  BY <1>2, <1>3, PartIs, HeaderFits
<1>7. ASSUME output.view \/ output.document
      PROVE  rows \in Seq(Given(product, output)) /\ RolesFit(product, output, rows)
  <2>1. PICK given \in Seq(Given(product, output)) :
          output.set = Flat(given) /\ RolesFit(product, output, given)
    BY <1>7 DEF OutputFits
  <2>2. rows = given
    BY <2>1, FlatRows
  <2> QED BY <2>1, <2>2
<1>8. output.document => output.roles = [i \in DOMAIN rows |-> product.roles[rows[i].of]]
  BY <1>7 DEF RolesFit
<1>9. ASSUME output.view, NEW i \in DOMAIN rows
      PROVE  rows[i].of > 0 /\ rows[i].cells = product.rows[rows[i].of]
  <2>1. rows[i] \in Given(product, output)
    BY <1>7, <1>9
  <2> HIDE DEF rows
  <2>2. rows[i].of \in DOMAIN product.rows /\ rows[i].cells = product.rows[rows[i].of]
    BY <1>9, <2>1, GivenIs
  <2>3. product.rows \in Seq(ToSet(product.rows))
    BY StagesAssumption
  <2>4. DOMAIN product.rows = 1 .. Len(product.rows)
    BY <2>3
  <2> QED BY <2>2, <2>4
<1> HIDE DEF rows
<1> QED BY <1>5, <1>6, <1>8, <1>9 DEF PresentationFits, rows

\* The invariant of the output, at all times.
PipelineInv == product \in Products /\ OutputFits(product, output)

LEMMA OutputFitsAlways == OutputSpec => []PipelineInv
<1>1. OutputInit => PipelineInv
  BY UnstagedFits DEF OutputInit, PipelineInv
<1>2. PipelineInv /\ [OutputNext]_outputVars => PipelineInv'
  <2> SUFFICES ASSUME PipelineInv, [OutputNext]_outputVars PROVE PipelineInv'
    OBVIOUS
  <2>1. CASE Produce
    <3>1. PICK p \in Products : product' = p /\ output' = Unstaged(p)
      BY <2>1 DEF Produce, Produces
    <3>2. OutputFits(p, Unstaged(p))
      BY UnstagedFits
    <3>3. product' \in Products /\ OutputFits(product', output')
      BY <3>1, <3>2
    <3> QED BY <3>3 DEF PipelineInv
  <2>2. ASSUME NEW stage \in Stages, RunStage(stage) PROVE PipelineInv'
    <3>1. product' = product /\ (output' = output \/ output' = Advance(output, stage))
      BY <2>2 DEF RunStage
    <3>2. OutputFits(product, Advance(output, stage))
      BY DocumentAdvances, OtherAdvances DEF PipelineInv
    <3>3. product' \in Products /\ OutputFits(product', output')
      BY <3>1, <3>2 DEF PipelineInv
    <3> QED BY <3>3 DEF PipelineInv
  <2>3. ASSUME NEW stage \in Stages, RefuseStage(stage) PROVE PipelineInv'
    BY <2>3 DEF RefuseStage, PipelineInv
  <2>4. CASE UNCHANGED outputVars
    BY <2>4 DEF outputVars, PipelineInv
  <2> QED BY <2>1, <2>2, <2>3, <2>4 DEF OutputNext
<1> QED BY <1>1, <1>2, PTL DEF OutputSpec

\* Whatever a command produces and whatever stages follow, in any number: each
\* formatting rule and the title that are still kept are about a field of the
\* producer, each role is at the row that it was given to, and columns, notes and
\* the way to render are kept only for whole rows of the producer (run_compiled
\* with synthesized_fields, StageBehavior).
THEOREM SaysWhatIsTrue == OutputSpec => []PresentationFits
<1>1. PipelineInv => PresentationFits
  BY FitsPresentation DEF PipelineInv
<1> QED BY <1>1, OutputFitsAlways, PTL

(* What is in a sequence of sequences, and once. *)

\* Where a sequence with another behind it holds what they hold.
Placed(s, t, whole, at) ==
  /\ \A a \in DOMAIN s : a \in DOMAIN whole /\ whole[a] = s[a]
  /\ \A b \in DOMAIN t : at[b] \in DOMAIN whole /\ whole[at[b]] = t[b]
  /\ \A a \in DOMAIN whole : a \in DOMAIN s \/ \E b \in DOMAIN t : a = at[b]

\* One sequence behind another, without arithmetic.
LEMMA PlacedBehind ==
  ASSUME NEW S, NEW s \in Seq(S), NEW t \in Seq(S)
  PROVE  \E at : Placed(s, t, s \o t, at)
<1> DEFINE m == Len(s)
           k == Len(t)
           whole == s \o t
           at == [b \in DOMAIN t |-> m + b]
<1>1. m \in Nat /\ DOMAIN s = 1 .. m /\ k \in Nat /\ DOMAIN t = 1 .. k
  OBVIOUS
<1>2. /\ DOMAIN whole = 1 .. m + k
      /\ \A a \in 1 .. m + k : whole[a] = IF a <= m THEN s[a] ELSE t[a - m]
  <2>1. /\ whole \in Seq(S) /\ Len(whole) = m + k
        /\ \A a \in 1 .. m + k : whole[a] = IF a <= m THEN s[a] ELSE t[a - m]
    BY ConcatProperties
  <2> HIDE DEF whole
  <2> QED BY <2>1
<1>3. \A b \in 1 .. k : at[b] = m + b
  BY <1>1
<1> HIDE DEF m, k, whole, at
<1>4. \A a \in 1 .. m : a \in 1 .. m + k /\ a <= m
  BY <1>1
<1>5. \A b \in 1 .. k : m + b \in 1 .. m + k /\ ~ (m + b <= m) /\ (m + b) - m = b
  BY <1>1
<1>6. ASSUME NEW a \in 1 .. m + k PROVE a \in 1 .. m \/ \E b \in 1 .. k : a = m + b
  <2>1. CASE a <= m
    BY <1>1, <2>1
  <2>2. CASE ~ (a <= m)
    <3>1. a - m \in 1 .. k /\ a = m + (a - m)
      BY <1>1, <2>2
    <3> QED BY <3>1
  <2> QED BY <2>1, <2>2
<1>7. Placed(s, t, whole, at)
  <2>1. \A a \in DOMAIN s : a \in DOMAIN whole /\ whole[a] = s[a]
    BY <1>1, <1>2, <1>4
  <2>2. \A b \in DOMAIN t : at[b] \in DOMAIN whole /\ whole[at[b]] = t[b]
    <3> TAKE b \in DOMAIN t
    <3>1. b \in 1 .. k
      BY <1>1
    <3>2. whole[m + b] = t[(m + b) - m]
      BY <1>2, <1>5, <3>1
    <3> QED BY <1>2, <1>3, <1>5, <3>1, <3>2
  <2>3. \A a \in DOMAIN whole : a \in DOMAIN s \/ \E b \in DOMAIN t : a = at[b]
    <3> TAKE a \in DOMAIN whole
    <3>1. a \in 1 .. m \/ \E b \in 1 .. k : a = m + b
      BY <1>2, <1>6
    <3>2. \A b \in 1 .. k : a = m + b => b \in DOMAIN t /\ a = at[b]
      BY <1>1, <1>3
    <3> QED BY <1>1, <3>1, <3>2
  <2> QED BY <2>1, <2>2, <2>3 DEF Placed
<1> QED BY <1>7 DEF whole

LEMMA PlacedIn ==
  ASSUME NEW s, NEW t, NEW whole, NEW at, Placed(s, t, whole, at), NEW X,
         \A a \in DOMAIN s : s[a] \in X, \A b \in DOMAIN t : t[b] \in X
  PROVE  \A a \in DOMAIN whole : whole[a] \in X
<1> TAKE a \in DOMAIN whole
<1>1. CASE a \in DOMAIN s
  BY <1>1 DEF Placed
<1>2. ASSUME NEW b \in DOMAIN t, a = at[b] PROVE whole[a] \in X
  <2>1. whole[at[b]] = t[b]
    BY DEF Placed
  <2> QED BY <2>1, <1>2
<1> QED BY <1>1, <1>2 DEF Placed

\* What the first n of them hold.
FirstOf(seqs, n) == UNION {{seqs[i][j] : j \in DOMAIN seqs[i]} : i \in 1 .. n}

\* What one is behind another is what is in one of them.
LEMMA FlattenHas ==
  ASSUME NEW S, NEW seqs \in Seq(Seq(S))
  PROVE  /\ \A a \in DOMAIN FlattenSeq(seqs) : \E i \in DOMAIN seqs : \E j \in DOMAIN seqs[i] :
              FlattenSeq(seqs)[a] = seqs[i][j]
         /\ \A i \in DOMAIN seqs : \A j \in DOMAIN seqs[i] :
              \E a \in DOMAIN FlattenSeq(seqs) : FlattenSeq(seqs)[a] = seqs[i][j]
<1>1. PICK f \in [0 .. Len(seqs) -> Seq(S)] :
        /\ FlattenSeq(seqs) = f[Len(seqs)] /\ f[0] = <<>>
        /\ \A n \in 1 .. Len(seqs) : f[n] = f[n - 1] \o seqs[n]
  BY FlattenByStep
<1>0. \A n \in 1 .. Len(seqs) : /\ n \in DOMAIN seqs /\ seqs[n] \in Seq(S)
                               /\ n \in 0 .. Len(seqs) /\ n - 1 \in 0 .. Len(seqs) /\ f[n - 1] \in Seq(S)
  <2>1. \A n \in 1 .. Len(seqs) : n \in DOMAIN seqs /\ seqs[n] \in Seq(S)
    OBVIOUS
  <2>2. \A n \in 1 .. Len(seqs) : n \in 0 .. Len(seqs) /\ n - 1 \in 0 .. Len(seqs)
    OBVIOUS
  <2> QED BY <2>1, <2>2
<1> DEFINE From(n) == \A a \in DOMAIN f[n] : f[n][a] \in FirstOf(seqs, n)
           Into(n) == \A x \in FirstOf(seqs, n) : \E a \in DOMAIN f[n] : f[n][a] = x
           True == {n \in 0 .. Len(seqs) : From(n) /\ Into(n)}
<1>2. 0 \in True
  BY <1>1 DEF FirstOf
<1> HIDE DEF True
<1>3. ASSUME NEW n \in 1 .. Len(seqs), n - 1 \in True PROVE n \in True
  <2> DEFINE s == f[n - 1]
             whole == f[n]
             t == seqs[n]
  <2>1. PICK at : Placed(s, t, whole, at)
    BY <1>0, <1>1, PlacedBehind
  <2>2. From(n - 1) /\ Into(n - 1)
    BY <1>3 DEF True
  <2>3. FirstOf(seqs, n) = FirstOf(seqs, n - 1) \cup {t[b] : b \in DOMAIN t}
    <3>1. \A i \in 1 .. n : i = n \/ i \in 1 .. n - 1
      OBVIOUS
    <3>2. (\A i \in 1 .. n - 1 : i \in 1 .. n) /\ n \in 1 .. n
      OBVIOUS
    <3> DEFINE Has(i) == {seqs[i][j] : j \in DOMAIN seqs[i]}
    <3>3. /\ FirstOf(seqs, n) = UNION {Has(i) : i \in 1 .. n}
          /\ FirstOf(seqs, n - 1) = UNION {Has(i) : i \in 1 .. n - 1}
          /\ {t[b] : b \in DOMAIN t} = Has(n)
      BY DEF FirstOf
    <3> HIDE DEF Has, t
    <3> QED BY <3>1, <3>2, <3>3
  <2>4. /\ \A a \in DOMAIN s : s[a] \in FirstOf(seqs, n - 1)
        /\ \A x \in FirstOf(seqs, n - 1) : \E a \in DOMAIN s : s[a] = x
    BY <2>2
  <2> HIDE DEF s, t, whole
  <2>5. \A a \in DOMAIN whole : whole[a] \in FirstOf(seqs, n)
    <3>1. \A a \in DOMAIN s : s[a] \in FirstOf(seqs, n)
      BY <2>3, <2>4
    <3>2. \A b \in DOMAIN t : t[b] \in FirstOf(seqs, n)
      BY <2>3
    <3> QED BY <2>1, <3>1, <3>2, PlacedIn
  <2>6. ASSUME NEW x \in FirstOf(seqs, n) PROVE \E a \in DOMAIN whole : whole[a] = x
    <3>1. CASE x \in FirstOf(seqs, n - 1)
      <4>1. PICK a \in DOMAIN s : s[a] = x
        BY <2>4, <3>1
      <4> QED BY <2>1, <4>1 DEF Placed
    <3>2. ASSUME NEW b \in DOMAIN t, x = t[b] PROVE \E a \in DOMAIN whole : whole[a] = x
      <4>1. at[b] \in DOMAIN whole /\ whole[at[b]] = t[b]
        BY <2>1 DEF Placed
      <4> QED BY <3>2, <4>1
    <3> QED BY <2>3, <3>1, <3>2
  <2> QED BY <1>0, <2>5, <2>6 DEF True, whole
<1>4. Len(seqs) \in True
  BY <1>2, <1>3, UpTo
<1>5. From(Len(seqs)) /\ Into(Len(seqs))
  BY <1>4 DEF True
<1>6. DOMAIN seqs = 1 .. Len(seqs)
  OBVIOUS
<1>7. \A a \in DOMAIN FlattenSeq(seqs) : \E i \in DOMAIN seqs : \E j \in DOMAIN seqs[i] :
        FlattenSeq(seqs)[a] = seqs[i][j]
  BY <1>1, <1>5, <1>6 DEF FirstOf
<1>8. ASSUME NEW i \in DOMAIN seqs, NEW j \in DOMAIN seqs[i]
      PROVE  \E a \in DOMAIN FlattenSeq(seqs) : FlattenSeq(seqs)[a] = seqs[i][j]
  <2>1. seqs[i][j] \in FirstOf(seqs, Len(seqs))
    BY <1>6 DEF FirstOf
  <2> QED BY <1>1, <1>5, <2>1
<1> QED BY <1>7, <1>8

\* No two places in the sequences hold what has the same key.
Once(seqs, key) ==
  \A i, k \in DOMAIN seqs : \A j \in DOMAIN seqs[i], l \in DOMAIN seqs[k] :
    key[seqs[i][j]] = key[seqs[k][l]] => i = k /\ j = l

\* If no two of them have the same key, nor have two places of the whole.
LEMMA FlattenOnce ==
  ASSUME NEW S, NEW seqs \in Seq(Seq(S)), NEW key, Once(seqs, key)
  PROVE  \A a, b \in DOMAIN FlattenSeq(seqs) : key[FlattenSeq(seqs)[a]] = key[FlattenSeq(seqs)[b]] => a = b
<1>1. PICK f \in [0 .. Len(seqs) -> Seq(S)] :
        /\ FlattenSeq(seqs) = f[Len(seqs)] /\ f[0] = <<>>
        /\ \A n \in 1 .. Len(seqs) : f[n] = f[n - 1] \o seqs[n]
  BY FlattenByStep
<1>0. \A n \in 1 .. Len(seqs) : /\ n \in DOMAIN seqs /\ seqs[n] \in Seq(S)
                               /\ n \in 0 .. Len(seqs) /\ n - 1 \in 0 .. Len(seqs) /\ f[n - 1] \in Seq(S)
  <2>1. \A n \in 1 .. Len(seqs) : n \in DOMAIN seqs /\ seqs[n] \in Seq(S)
    OBVIOUS
  <2>2. \A n \in 1 .. Len(seqs) : n \in 0 .. Len(seqs) /\ n - 1 \in 0 .. Len(seqs)
    OBVIOUS
  <2> QED BY <2>1, <2>2
<1> DEFINE From(n) == \A a \in DOMAIN f[n] : f[n][a] \in FirstOf(seqs, n)
           Apart(n) == \A a, b \in DOMAIN f[n] : key[f[n][a]] = key[f[n][b]] => a = b
           True == {n \in 0 .. Len(seqs) : From(n) /\ Apart(n)}
<1>2. 0 \in True
  BY <1>1
<1> HIDE DEF True
<1>3. ASSUME NEW n \in 1 .. Len(seqs), n - 1 \in True PROVE n \in True
  <2> DEFINE s == f[n - 1]
             whole == f[n]
             t == seqs[n]
  <2>1. PICK at : Placed(s, t, whole, at)
    BY <1>0, <1>1, PlacedBehind
  <2>2. From(n - 1) /\ Apart(n - 1)
    BY <1>3 DEF True
  <2>3. FirstOf(seqs, n - 1) \cup {t[b] : b \in DOMAIN t} \subseteq FirstOf(seqs, n)
    <3>1. (\A i \in 1 .. n - 1 : i \in 1 .. n) /\ n \in 1 .. n
      OBVIOUS
    <3> QED BY <3>1 DEF FirstOf
  <2>4. /\ \A a \in DOMAIN s : s[a] \in FirstOf(seqs, n - 1)
        /\ \A a, b \in DOMAIN s : key[s[a]] = key[s[b]] => a = b
    BY <2>2
  <2>5. /\ \A x \in FirstOf(seqs, n - 1) : \A b \in DOMAIN t : key[x] # key[t[b]]
        /\ \A b, c \in DOMAIN t : key[t[b]] = key[t[c]] => b = c
    <3>1. (\A i \in 1 .. n - 1 : i \in DOMAIN seqs /\ i # n) /\ n \in DOMAIN seqs
      OBVIOUS
    <3> QED BY <3>1 DEF FirstOf, Once
  <2> HIDE DEF s, t, whole
  <2>6. \A a \in DOMAIN whole : whole[a] \in FirstOf(seqs, n)
    <3>1. \A a \in DOMAIN s : s[a] \in FirstOf(seqs, n)
      BY <2>3, <2>4
    <3>2. \A b \in DOMAIN t : t[b] \in FirstOf(seqs, n)
      BY <2>3
    <3> QED BY <2>1, <3>1, <3>2, PlacedIn
  <2>7. \A a, b \in DOMAIN whole : key[whole[a]] = key[whole[b]] => a = b
    <3> SUFFICES ASSUME NEW a \in DOMAIN whole, NEW b \in DOMAIN whole, key[whole[a]] = key[whole[b]]
                 PROVE  a = b
      OBVIOUS
    <3>1. \A c \in DOMAIN s : whole[c] = s[c]
      BY <2>1 DEF Placed
    <3>2. \A c \in DOMAIN t : whole[at[c]] = t[c]
      BY <2>1 DEF Placed
    <3>3. \A c \in DOMAIN s, d \in DOMAIN t : key[s[c]] # key[t[d]]
      BY <2>4, <2>5
    <3>4. CASE a \in DOMAIN s /\ b \in DOMAIN s
      BY <2>4, <3>1, <3>4
    <3>5. ASSUME NEW c \in DOMAIN t, b = at[c], a \in DOMAIN s PROVE FALSE
      BY <3>1, <3>2, <3>3, <3>5
    <3>6. ASSUME NEW c \in DOMAIN t, a = at[c], b \in DOMAIN s PROVE FALSE
      BY <3>1, <3>2, <3>3, <3>6
    <3>7. ASSUME NEW c \in DOMAIN t, NEW d \in DOMAIN t, a = at[c], b = at[d] PROVE a = b
      BY <2>5, <3>2, <3>7
    <3>8. (a \in DOMAIN s \/ \E c \in DOMAIN t : a = at[c]) /\ (b \in DOMAIN s \/ \E c \in DOMAIN t : b = at[c])
      BY <2>1 DEF Placed
    <3> QED BY <3>4, <3>5, <3>6, <3>7, <3>8
  <2> QED BY <1>0, <2>6, <2>7 DEF True, whole
<1>4. Len(seqs) \in True
  BY <1>2, <1>3, UpTo
<1>5. Apart(Len(seqs))
  BY <1>4 DEF True
<1> QED BY <1>1, <1>5

\* Distinct has what the sequence has, once.
LEMMA DistinctIs ==
  ASSUME NEW S, NEW seq \in Seq(S)
  PROVE  /\ Distinct(seq) \in Seq(S)
         /\ \A a, b \in DOMAIN Distinct(seq) : Distinct(seq)[a] = Distinct(seq)[b] => a = b
         /\ \A a \in DOMAIN Distinct(seq) : \E i \in DOMAIN seq : Distinct(seq)[a] = seq[i]
         /\ \A i \in DOMAIN seq : \E a \in DOMAIN Distinct(seq) : Distinct(seq)[a] = seq[i]
<1> DEFINE at == {i \in DOMAIN seq : \A j \in 1 .. i - 1 : seq[j] # seq[i]}
<1>0. Distinct(seq) = Picked(seq, at) /\ Picked(seq, at) \in Seq(S)
  BY PickedTyped DEF Distinct
<1>1. PICK f \in [0 .. Len(seq) -> Seq(S)] :
        /\ Picked(seq, at) = f[Len(seq)] /\ f[0] = <<>>
        /\ \A n \in 1 .. Len(seq) : f[n] = IF n \in at THEN Append(f[n - 1], seq[n]) ELSE f[n - 1]
  <2> HIDE DEF at
  <2> QED BY PickedByStep
<1> DEFINE From(n) == \A a \in DOMAIN f[n] : \E i \in 1 .. n : f[n][a] = seq[i]
           Into(n) == \A i \in 1 .. n : \E a \in DOMAIN f[n] : f[n][a] = seq[i]
           Single(n) == \A a, b \in DOMAIN f[n] : f[n][a] = f[n][b] => a = b
           True == {n \in 0 .. Len(seq) : From(n) /\ Into(n) /\ Single(n)}
<1>2. 0 \in True
  BY <1>1
<1>3. ASSUME NEW n \in 1 .. Len(seq), n - 1 \in True PROVE n \in True
  <2>1. f[n] = IF n \in at THEN Append(f[n - 1], seq[n]) ELSE f[n - 1]
    BY <1>1
  <2>2. f[n - 1] \in Seq(S) /\ seq[n] \in S /\ n \in 0 .. Len(seq) /\ n \in DOMAIN seq
    <3>1. n - 1 \in 0 .. Len(seq)
      OBVIOUS
    <3> QED BY <3>1
  <2>3. From(n - 1) /\ Into(n - 1) /\ Single(n - 1)
    BY <1>3
  <2>4. (\A i \in 1 .. n : i = n \/ i \in 1 .. n - 1) /\ (\A i \in 1 .. n - 1 : i \in 1 .. n) /\ n \in 1 .. n
    OBVIOUS
  <2>5. n \in at <=> \A j \in 1 .. n - 1 : seq[j] # seq[n]
    BY <2>2
  <2> HIDE DEF at
  <2>6. CASE n \in at
    <3> DEFINE m == Len(f[n - 1])
    <3>1. f[n] = Append(f[n - 1], seq[n])
      BY <2>1, <2>6
    <3>2. /\ m \in Nat /\ DOMAIN f[n] = 1 .. m + 1 /\ DOMAIN f[n - 1] = 1 .. m
          /\ f[n][m + 1] = seq[n] /\ \A a \in 1 .. m : f[n][a] = f[n - 1][a]
      BY <2>2, <3>1
    <3> HIDE DEF m
    <3>3. (\A a \in 1 .. m + 1 : a = m + 1 \/ a \in 1 .. m) /\ m + 1 \in 1 .. m + 1
            /\ \A a \in 1 .. m : a \in 1 .. m + 1
      BY <3>2
    <3>4. \A a \in 1 .. m : f[n][a] # seq[n]
      <4> TAKE a \in 1 .. m
      <4>1. PICK i \in 1 .. n - 1 : f[n - 1][a] = seq[i]
        BY <2>3, <3>2
      <4>2. f[n][a] = seq[i] /\ seq[i] # seq[n]
        BY <2>5, <2>6, <3>2, <4>1
      <4> QED BY <4>2
    <3>5. From(n)
      <4> SUFFICES ASSUME NEW a \in 1 .. m + 1 PROVE \E i \in 1 .. n : f[n][a] = seq[i]
        BY <3>2
      <4>1. CASE a \in 1 .. m
        BY <2>3, <2>4, <3>2, <4>1
      <4>2. CASE a = m + 1
        BY <2>4, <3>2, <4>2
      <4> QED BY <3>3, <4>1, <4>2
    <3>6. Into(n)
      <4> SUFFICES ASSUME NEW i \in 1 .. n PROVE \E a \in 1 .. m + 1 : f[n][a] = seq[i]
        BY <3>2
      <4>1. CASE i \in 1 .. n - 1
        <5>1. PICK a \in 1 .. m : f[n - 1][a] = seq[i]
          BY <2>3, <3>2, <4>1
        <5> QED BY <3>2, <3>3, <5>1
      <4>2. CASE i = n
        BY <3>2, <3>3, <4>2
      <4> QED BY <2>4, <4>1, <4>2
    <3>7. Single(n)
      BY <2>3, <3>2, <3>3, <3>4
    <3> QED BY <2>2, <3>5, <3>6, <3>7
  <2>7. CASE n \notin at
    <3>1. f[n] = f[n - 1]
      BY <2>1, <2>7
    <3>2. From(n)
      BY <2>3, <2>4, <3>1
    <3>3. PICK j \in 1 .. n - 1 : seq[j] = seq[n]
      BY <2>5, <2>7
    <3>4. Into(n)
      BY <2>3, <2>4, <3>1, <3>3
    <3>5. Single(n)
      BY <2>3, <3>1
    <3> QED BY <2>2, <3>2, <3>4, <3>5
  <2> QED BY <2>6, <2>7
<1> HIDE DEF True
<1>4. Len(seq) \in True
  BY <1>2, <1>3, UpTo
<1>5. From(Len(seq)) /\ Into(Len(seq)) /\ Single(Len(seq))
  BY <1>4 DEF True
<1>6. DOMAIN seq = 1 .. Len(seq)
  OBVIOUS
<1>7. Distinct(seq) = f[Len(seq)] /\ Distinct(seq) \in Seq(S)
  BY <1>0, <1>1
<1> HIDE DEF at
<1> QED BY <1>5, <1>6, <1>7

(* What is picked. *)

\* Sequences of one length with the same elements are the same.
LEMMA SameSequence ==
  ASSUME NEW S, NEW s \in Seq(S), NEW t \in Seq(S), Len(s) = Len(t), \A i \in 1 .. Len(s) : s[i] = t[i]
  PROVE  s = t
OBVIOUS

\* Each position adds what it holds, or nothing.
LEMMA PickedFlat ==
  ASSUME NEW S, NEW seq \in Seq(S), NEW at
  PROVE  Picked(seq, at) = FlattenSeq([i \in DOMAIN seq |-> IF i \in at THEN <<seq[i]>> ELSE <<>>])
<1> DEFINE N == Len(seq)
           each == [i \in DOMAIN seq |-> IF i \in at THEN <<seq[i]>> ELSE <<>>]
<1>1. N \in Nat /\ DOMAIN seq = 1 .. N /\ \A n \in 1 .. N : seq[n] \in S
  OBVIOUS
<1>2. \A n \in DOMAIN seq : (IF n \in at THEN <<seq[n]>> ELSE <<>>) \in Seq(S)
  BY <1>1
<1>3. /\ each \in Seq(Seq(S)) /\ Len(each) = N
      /\ \A n \in 1 .. N : each[n] = IF n \in at THEN <<seq[n]>> ELSE <<>>
  BY <1>1, <1>2
<1>4. PICK f \in [0 .. N -> Seq(S)] :
        /\ Picked(seq, at) = f[N] /\ f[0] = <<>>
        /\ \A n \in 1 .. N : f[n] = IF n \in at THEN Append(f[n - 1], seq[n]) ELSE f[n - 1]
  BY PickedByStep
<1> HIDE DEF each, N
<1>5. PICK g \in [0 .. N -> Seq(S)] :
        /\ FlattenSeq(each) = g[N] /\ g[0] = <<>>
        /\ \A n \in 1 .. N : g[n] = g[n - 1] \o each[n]
  <2>1. \E g \in [0 .. Len(each) -> Seq(S)] :
          /\ FlattenSeq(each) = g[Len(each)] /\ g[0] = <<>>
          /\ \A n \in 1 .. Len(each) : g[n] = g[n - 1] \o each[n]
    <3>1. each \in Seq(Seq(S))
      BY <1>3
    <3> QED BY <3>1, FlattenByStep
  <2> QED BY <1>3, <2>1
<1> DEFINE True == {n \in 0 .. N : f[n] = g[n]}
<1>6. 0 \in True
  BY <1>1, <1>4, <1>5
<1>7. ASSUME NEW n \in 1 .. N, n - 1 \in True PROVE n \in True
  <2>1. n \in 0 .. N /\ n - 1 \in 0 .. N
    BY <1>1
  <2>2. f[n - 1] = g[n - 1] /\ f[n - 1] \in Seq(S) /\ seq[n] \in S
    BY <1>1, <1>7, <2>1
  <2>3. f[n] = g[n]
    <3>1. CASE n \in at
      <4>1. f[n] = Append(f[n - 1], seq[n]) /\ g[n] = f[n - 1] \o <<seq[n]>>
        BY <1>3, <1>4, <1>5, <2>2, <3>1
      <4> QED BY <2>2, <4>1, AppendIsConcat
    <3>2. CASE n \notin at
      <4> DEFINE nothing == <<>>
      <4>1. f[n] = f[n - 1] /\ g[n] = f[n - 1] \o nothing
        BY <1>3, <1>4, <1>5, <2>2, <3>2
      <4> QED BY <2>2, <4>1, ConcatEmptySeq
    <3> QED BY <3>1, <3>2
  <2> QED BY <2>1, <2>3
<1> HIDE DEF True
<1>8. N \in True
  BY <1>1, <1>6, <1>7, UpTo
<1>9. Picked(seq, at) = FlattenSeq(each)
  BY <1>4, <1>5, <1>8 DEF True
<1> QED BY <1>9 DEF each

\* To append behind is to append to what is behind.
AppendsBehind(S, s, t, x) ==
  s \in Seq(S) /\ t \in Seq(S) /\ x \in S => Append(s \o t, x) = s \o Append(t, x)

LEMMA AppendBehind == ASSUME NEW S, NEW s, NEW t, NEW x PROVE AppendsBehind(S, s, t, x)
BY DEF AppendsBehind

\* Nothing is picked at no position, one element at one.
LEMMA PickedNone ==
  ASSUME NEW S, NEW seq \in Seq(S), NEW at, \A i \in DOMAIN seq : i \notin at
  PROVE  Picked(seq, at) = <<>>
<1>1. PICK f \in [0 .. Len(seq) -> Seq(S)] :
        /\ Picked(seq, at) = f[Len(seq)] /\ f[0] = <<>>
        /\ \A n \in 1 .. Len(seq) : f[n] = IF n \in at THEN Append(f[n - 1], seq[n]) ELSE f[n - 1]
  BY PickedByStep
<1> DEFINE True == {n \in 0 .. Len(seq) : f[n] = f[0]}
<1>2. 0 \in True
  OBVIOUS
<1>3. ASSUME NEW n \in 1 .. Len(seq), n - 1 \in True PROVE n \in True
  <2>1. n \in DOMAIN seq /\ n \in 0 .. Len(seq)
    OBVIOUS
  <2> QED BY <1>1, <1>3, <2>1
<1> HIDE DEF True
<1>4. Len(seq) \in True
  BY <1>2, <1>3, UpTo
<1> QED BY <1>1, <1>4 DEF True

LEMMA PickedLone ==
  ASSUME NEW S, NEW seq \in Seq(S), NEW at, NEW i \in DOMAIN seq, \A j \in DOMAIN seq : j \in at <=> j = i
  PROVE  Picked(seq, at) = <<seq[i]>>
<1>1. PICK f \in [0 .. Len(seq) -> Seq(S)] :
        /\ Picked(seq, at) = f[Len(seq)] /\ f[0] = <<>>
        /\ \A n \in 1 .. Len(seq) : f[n] = IF n \in at THEN Append(f[n - 1], seq[n]) ELSE f[n - 1]
  BY PickedByStep
<1> DEFINE none == <<>>
           lone == <<seq[i]>>
           True == {n \in 0 .. Len(seq) : f[n] = IF n < i THEN none ELSE lone}
<1>2. 0 \in True
  BY <1>1
<1>3. ASSUME NEW n \in 1 .. Len(seq), n - 1 \in True PROVE n \in True
  <2>1. n \in DOMAIN seq /\ n \in 0 .. Len(seq) /\ i \in 1 .. Len(seq)
    OBVIOUS
  <2>2. f[n] = IF n \in at THEN Append(f[n - 1], seq[n]) ELSE f[n - 1]
    BY <1>1
  <2>3. f[n - 1] = IF n - 1 < i THEN none ELSE lone
    BY <1>3
  <2>4. Append(none, seq[i]) = lone
    OBVIOUS
  <2> HIDE DEF none, lone
  <2>5. CASE n = i
    <3>1. n - 1 < i /\ ~ (n < i) /\ n \in at
      BY <2>1, <2>5
    <3> QED BY <2>1, <2>2, <2>3, <2>4, <2>5, <3>1
  <2>6. CASE n # i
    <3>1. n \notin at /\ (n < i <=> n - 1 < i)
      BY <2>1, <2>6
    <3> QED BY <2>1, <2>2, <2>3, <3>1
  <2> QED BY <2>5, <2>6
<1>4. ~ (Len(seq) < i)
  OBVIOUS
<1> HIDE DEF True, none, lone
<1>5. Len(seq) \in True
  BY <1>2, <1>3, UpTo
<1> QED BY <1>1, <1>4, <1>5 DEF True, lone

\* PickedByStep, as an operator.
SomeSteps(S, seq, at) ==
  \E f \in [0 .. Len(seq) -> Seq(S)] :
    /\ Picked(seq, at) = f[Len(seq)] /\ f[0] = <<>>
    /\ \A n \in 1 .. Len(seq) : f[n] = IF n \in at THEN Append(f[n - 1], seq[n]) ELSE f[n - 1]

LEMMA PickedSteps ==
  ASSUME NEW S, NEW seq \in Seq(S), NEW at
  PROVE  SomeSteps(S, seq, at)
BY PickedByStep DEF SomeSteps

\* What is in a set, of one sequence behind another.
Members(seq, set) == Picked(seq, {i \in DOMAIN seq : seq[i] \in set})

\* What is picked of two sequences is what is picked of each.
LEMMA MembersBehind ==
  ASSUME NEW S, NEW s \in Seq(S), NEW t \in Seq(S), NEW set
  PROVE  Members(s \o t, set) = Members(s, set) \o Members(t, set)
<1> DEFINE m == Len(s)
           k == Len(t)
           whole == s \o t
           In(seq) == {i \in DOMAIN seq : seq[i] \in set}
<1>1. m \in Nat /\ DOMAIN s = 1 .. m /\ k \in Nat /\ DOMAIN t = 1 .. k
  OBVIOUS
<1>2. /\ whole \in Seq(S) /\ Len(whole) = m + k
      /\ \A a \in 1 .. m + k : whole[a] = IF a <= m THEN s[a] ELSE t[a - m]
  BY ConcatProperties
<1> HIDE DEF whole, In, m, k
<1>3. DOMAIN whole = 1 .. m + k
  BY <1>2
<1>4. PICK f \in [0 .. m + k -> Seq(S)] :
        /\ Picked(whole, In(whole)) = f[m + k] /\ f[0] = <<>>
        /\ \A n \in 1 .. m + k : f[n] = IF n \in In(whole) THEN Append(f[n - 1], whole[n]) ELSE f[n - 1]
  <2>1. SomeSteps(S, whole, In(whole))
    BY <1>2, PickedSteps
  <2> QED BY <1>2, <2>1 DEF SomeSteps
<1>5. PICK g \in [0 .. m -> Seq(S)] :
        /\ Picked(s, In(s)) = g[m] /\ g[0] = <<>>
        /\ \A n \in 1 .. m : g[n] = IF n \in In(s) THEN Append(g[n - 1], s[n]) ELSE g[n - 1]
  <2>1. SomeSteps(S, s, In(s))
    BY PickedSteps
  <2> QED BY <2>1 DEF SomeSteps, m
<1>6. PICK h \in [0 .. k -> Seq(S)] :
        /\ Picked(t, In(t)) = h[k] /\ h[0] = <<>>
        /\ \A n \in 1 .. k : h[n] = IF n \in In(t) THEN Append(h[n - 1], t[n]) ELSE h[n - 1]
  <2>1. SomeSteps(S, t, In(t))
    BY PickedSteps
  <2> QED BY <2>1 DEF SomeSteps, k
<1>7. \A n \in 1 .. m : n \in 1 .. m + k /\ n <= m /\ n \in 0 .. m /\ n - 1 \in 0 .. m /\ n \in DOMAIN s /\ n \in DOMAIN whole
  BY <1>1, <1>3
<1>8. \A n \in 1 .. k : /\ m + n \in 1 .. m + k /\ ~ (m + n <= m) /\ (m + n) - m = n /\ (m + n) - 1 = m + (n - 1)
                        /\ n \in 0 .. k /\ n - 1 \in 0 .. k /\ n \in DOMAIN t /\ m + n \in DOMAIN whole
  BY <1>1, <1>3
<1>9. \A n \in 1 .. m : whole[n] = s[n] /\ (n \in In(whole) <=> n \in In(s))
  BY <1>2, <1>7 DEF In
<1>10. \A n \in 1 .. k : whole[m + n] = t[n] /\ (m + n \in In(whole) <=> n \in In(t))
  <2> TAKE n \in 1 .. k
  <2>1. whole[m + n] = t[(m + n) - m]
    BY <1>2, <1>8
  <2>2. whole[m + n] = t[n]
    BY <1>8, <2>1
  <2> QED BY <1>8, <2>2 DEF In
<1>11. 0 \in 0 .. m /\ m \in 0 .. m /\ k \in 0 .. k /\ 0 \in 0 .. k /\ m + 0 = m
  BY <1>1
<1>12. f[m] = g[m]
  <2> DEFINE True == {n \in 0 .. m : f[n] = g[n]}
  <2>1. 0 \in True
    BY <1>4, <1>5, <1>11
  <2>2. ASSUME NEW n \in 1 .. m, n - 1 \in True PROVE n \in True
    <3>1. /\ f[n] = IF n \in In(whole) THEN Append(f[n - 1], whole[n]) ELSE f[n - 1]
          /\ g[n] = IF n \in In(s) THEN Append(g[n - 1], s[n]) ELSE g[n - 1]
      BY <1>4, <1>5, <1>7
    <3>2. f[n - 1] = g[n - 1] /\ n \in 0 .. m
      BY <1>7, <2>2
    <3>3. whole[n] = s[n] /\ (n \in In(whole) <=> n \in In(s))
      BY <1>9
    <3> QED BY <3>1, <3>2, <3>3
  <2> HIDE DEF True
  <2>3. m \in True
    BY <1>1, <2>1, <2>2, UpTo
  <2> QED BY <2>3 DEF True
<1>13. f[m + k] = g[m] \o h[k]
  <2> DEFINE True == {n \in 0 .. k : f[m + n] = g[m] \o h[n]}
  <2>0. g[m] \in Seq(S)
    BY <1>11
  <2>1. 0 \in True
    <3> DEFINE nothing == <<>>
    <3>1. h[0] = nothing /\ g[m] \o nothing = g[m]
      BY <1>6, <2>0
    <3> QED BY <1>11, <1>12, <3>1
  <2>2. ASSUME NEW n \in 1 .. k, n - 1 \in True PROVE n \in True
    <3>1. f[m + n] = IF m + n \in In(whole) THEN Append(f[m + (n - 1)], whole[m + n]) ELSE f[m + (n - 1)]
      <4>1. f[m + n] = IF m + n \in In(whole) THEN Append(f[(m + n) - 1], whole[m + n]) ELSE f[(m + n) - 1]
        BY <1>4, <1>8
      <4>2. (m + n) - 1 = m + (n - 1)
        BY <1>8
      <4> QED BY <4>1, <4>2
    <3>2. h[n] = IF n \in In(t) THEN Append(h[n - 1], t[n]) ELSE h[n - 1]
      BY <1>6
    <3>3. f[m + (n - 1)] = g[m] \o h[n - 1] /\ n \in 0 .. k
      BY <1>8, <2>2
    <3>4. whole[m + n] = t[n] /\ (m + n \in In(whole) <=> n \in In(t))
      BY <1>10
    <3>5. h[n - 1] \in Seq(S) /\ t[n] \in S
      <4>1. n - 1 \in 0 .. k /\ n \in DOMAIN t
        BY <1>8
      <4> QED BY <4>1
    <3>6. Append(g[m] \o h[n - 1], t[n]) = g[m] \o Append(h[n - 1], t[n])
      <4> DEFINE x == g[m]
                 y == h[n - 1]
                 z == t[n]
      <4>1. x \in Seq(S) /\ y \in Seq(S) /\ z \in S
        BY <2>0, <3>5
      <4> HIDE DEF x, y, z
      <4>2. Append(x \o y, z) = x \o Append(y, z)
        <5>1. AppendsBehind(S, x, y, z)
          BY AppendBehind
        <5> QED BY <4>1, <5>1 DEF AppendsBehind
      <4> QED BY <4>2 DEF x, y, z
    <3>7. f[m + n] = g[m] \o h[n]
      BY <3>1, <3>2, <3>3, <3>4, <3>6
    <3> QED BY <3>3, <3>7
  <2> HIDE DEF True
  <2>3. k \in True
    BY <1>1, <2>1, <2>2, UpTo
  <2> QED BY <2>3 DEF True
<1> QED BY <1>4, <1>5, <1>6, <1>13 DEF Members, In, whole

\* What works on one sequence behind another works on any number of them.
Maps(map, S, T) ==
  /\ map \in [Seq(S) -> Seq(T)] /\ map[<<>>] = <<>>
  /\ \A s, t \in Seq(S) : map[s \o t] = map[s] \o map[t]

\* Maps of each of a sequence of sequences.
Mapped(map, seqs) == [i \in DOMAIN seqs |-> map[seqs[i]]]

LEMMA FlattenMapped ==
  ASSUME NEW S, NEW T, NEW seqs \in Seq(Seq(S)), NEW map, Maps(map, S, T)
  PROVE  map[FlattenSeq(seqs)] = FlattenSeq(Mapped(map, seqs))
<1> DEFINE N == Len(seqs)
           each == [i \in DOMAIN seqs |-> map[seqs[i]]]
<1>0. /\ map \in [Seq(S) -> Seq(T)] /\ map[<<>>] = <<>>
      /\ \A s, t \in Seq(S) : map[s \o t] = map[s] \o map[t]
  BY DEF Maps
<1>1. N \in Nat /\ DOMAIN seqs = 1 .. N /\ \A n \in 1 .. N : seqs[n] \in Seq(S)
  OBVIOUS
<1>2. \A n \in DOMAIN seqs : map[seqs[n]] \in Seq(T)
  BY <1>0, <1>1
<1>3. each \in Seq(Seq(T)) /\ Len(each) = N /\ \A n \in 1 .. N : each[n] = map[seqs[n]]
  BY <1>1, <1>2
<1>4. PICK f \in [0 .. N -> Seq(S)] :
        /\ FlattenSeq(seqs) = f[N] /\ f[0] = <<>>
        /\ \A n \in 1 .. N : f[n] = f[n - 1] \o seqs[n]
  BY FlattenByStep
<1> HIDE DEF each, N
<1>5. PICK g \in [0 .. N -> Seq(T)] :
        /\ FlattenSeq(each) = g[N] /\ g[0] = <<>>
        /\ \A n \in 1 .. N : g[n] = g[n - 1] \o each[n]
  <2>1. \E g \in [0 .. Len(each) -> Seq(T)] :
          /\ FlattenSeq(each) = g[Len(each)] /\ g[0] = <<>>
          /\ \A n \in 1 .. Len(each) : g[n] = g[n - 1] \o each[n]
    <3>1. each \in Seq(Seq(T))
      BY <1>3
    <3> QED BY <3>1, FlattenByStep
  <2> QED BY <1>3, <2>1
<1>6. \A n \in 1 .. N : n \in 0 .. N /\ n - 1 \in 0 .. N
  BY <1>1
<1> DEFINE True == {n \in 0 .. N : map[f[n]] = g[n]}
<1>7. 0 \in True
  BY <1>0, <1>1, <1>4, <1>5
<1>8. ASSUME NEW n \in 1 .. N, n - 1 \in True PROVE n \in True
  <2>1. f[n - 1] \in Seq(S) /\ seqs[n] \in Seq(S)
    BY <1>1, <1>6
  <2>2. map[f[n]] = map[f[n - 1]] \o map[seqs[n]]
    BY <1>0, <1>4, <2>1
  <2>3. map[f[n - 1]] = g[n - 1]
    BY <1>8
  <2>4. g[n] = g[n - 1] \o map[seqs[n]]
    BY <1>3, <1>5
  <2> QED BY <1>6, <2>2, <2>3, <2>4
<1> HIDE DEF True
<1>9. N \in True
  BY <1>1, <1>7, <1>8, UpTo
<1>10. map[FlattenSeq(seqs)] = FlattenSeq(each)
  BY <1>4, <1>5, <1>9 DEF True
<1> QED BY <1>10 DEF each, Mapped

(* The headers of a row. *)

\* Cells that anything may be said of.
Cells == Fitting({})

\* The headers of a plan are scalars, of `?field` a truth value.
Heads(cell, plan) == \E x \in Scalars : cell.is = Scalar(x) /\ (plan.exists => x \in {0, 1})

\* What Admits asks of the value of a header.
Answers(x, cells, plan) ==
  LET all == ToSet(Elements(cells, plan.key))
  IN  IF plan.exists THEN (x = 1) = (all \ {Null, 0} # {}) ELSE x \in all \/ (all = {} /\ x = Null)

\* The values of a plan: all its answers, each once.
ValuesAre(cells, plan, values) ==
  /\ values \in Seq(Held) /\ DOMAIN values # {}
  /\ \A j \in DOMAIN values :
       \E x \in Scalars : /\ values[j].is = Scalar(x) /\ (plan.exists => x \in {0, 1})
                          /\ Answers(x, cells, plan)
  /\ \A j, l \in DOMAIN values : values[j].is = values[l].is => j = l
  /\ \A x \in Scalars : (plan.exists => x \in {0, 1}) /\ Answers(x, cells, plan) =>
       \E j \in DOMAIN values : values[j].is = Scalar(x)

LEMMA SameScalar ==
  ASSUME NEW x, NEW y, Scalar(x) = Scalar(y)
  PROVE  x = y
<1>1. Scalar(x).items[1] = x /\ Scalar(y).items[1] = y
  BY DEF Scalar
<1> QED BY <1>1

\* `?field` has one, whether there is a true element; a field has its elements.
LEMMA AskedValues ==
  ASSUME NEW cells \in Cells, NEW plan \in Plans, plan.exists
  PROVE  ValuesAre(cells, plan, GroupValues(cells, plan))
<1> DEFINE all == Elements(cells, plan.key)
           yes == \E x \in ToSet(all) : x \notin {Null, 0}
           truth == IF yes THEN 1 ELSE 0
           values == GroupValues(cells, plan)
<1>1. values = <<Cell(Scalar(truth), Asked)>>
  BY DEF GroupValues
<1>2. \A x \in {0, 1} : Answers(x, cells, plan) <=> x = truth
  <2>1. (ToSet(all) \ {Null, 0} # {}) <=> yes
    OBVIOUS
  <2>2. \A x : Answers(x, cells, plan) <=> (x = 1 <=> yes)
    <3> TAKE x
    <3> DEFINE A == x = 1
               B == ToSet(all) \ {Null, 0} # {}
    <3>1. Answers(x, cells, plan) <=> (A = B)
      BY DEF Answers
    <3>2. A \in BOOLEAN /\ B \in BOOLEAN
      OBVIOUS
    <3>3. B <=> yes
      BY <2>1
    <3> HIDE DEF A, B
    <3>4. (A = B) <=> (A <=> B)
      BY <3>2
    <3>5. Answers(x, cells, plan) <=> (A <=> yes)
      BY <3>1, <3>3, <3>4
    <3> QED BY <3>5 DEF A
  <2> HIDE DEF yes
  <2> QED BY <2>2
<1>3. truth \in {0, 1} /\ truth \in Scalars
  BY DEF Scalars
<1>4. Asked \in Names
  BY DEF Names
<1> HIDE DEF truth
<1>5. Cell(Scalar(truth), Asked) \in Held /\ Cell(Scalar(truth), Asked).is = Scalar(truth)
  BY <1>3, <1>4, ScalarCell DEF Cell
<1> HIDE DEF values
<1>6. values \in Seq(Held) /\ DOMAIN values = {1} /\ values[1].is = Scalar(truth)
  BY <1>1, <1>5
<1>7. ASSUME NEW j \in DOMAIN values
      PROVE  \E x \in Scalars : /\ values[j].is = Scalar(x) /\ (plan.exists => x \in {0, 1})
                                /\ Answers(x, cells, plan)
  BY <1>2, <1>3, <1>6
<1>8. ASSUME NEW x \in Scalars, plan.exists => x \in {0, 1}, Answers(x, cells, plan)
      PROVE  \E j \in DOMAIN values : values[j].is = Scalar(x)
  BY <1>2, <1>6, <1>8
<1>9. \A j, l \in DOMAIN values : values[j].is = values[l].is => j = l
  BY <1>6
<1>10. ValuesAre(cells, plan, values)
  BY <1>6, <1>7, <1>8, <1>9 DEF ValuesAre
<1> QED BY <1>10 DEF values

LEMMA ListedValues ==
  ASSUME NEW cells \in Cells, NEW plan \in Plans, ~plan.exists
  PROVE  ValuesAre(cells, plan, GroupValues(cells, plan))
<1> DEFINE all == Elements(cells, plan.key)
           found == IF all = <<>> THEN <<Null>> ELSE all
           each == Distinct(found)
           from == IF plan.key \in DOMAIN cells THEN cells[plan.key].from ELSE plan.key
           values == GroupValues(cells, plan)
<1>1. values = [i \in DOMAIN each |-> Cell(Scalar(each[i]), from)]
  BY DEF GroupValues
<1>2. found \in Seq(Scalars) /\ all \in Seq(Scalars)
  <2>1. Null \in Scalars
    BY DEF Scalars
  <2>2. all \in Seq(Scalars)
    BY ElementsTyped DEF Cells
  <2> HIDE DEF all
  <2> QED BY <2>1, <2>2
<1>3. \A x : Answers(x, cells, plan) <=> \E i \in DOMAIN found : found[i] = x
  <2> TAKE x
  <2>1. Answers(x, cells, plan) <=> x \in ToSet(all) \/ (ToSet(all) = {} /\ x = Null)
    BY DEF Answers
  <2>2. CASE all = <<>>
    <3>1. ToSet(all) = {} /\ found = <<Null>>
      BY <2>2 DEF ToSet
    <3> HIDE DEF all, found
    <3> QED BY <2>1, <3>1
  <2>3. CASE all # <<>>
    <3>1. found = all
      BY <2>3
    <3> HIDE DEF found, all
    <3>2. 1 \in DOMAIN all
      BY <1>2, <2>3
    <3>3. ToSet(all) # {} /\ (x \in ToSet(all) <=> \E i \in DOMAIN all : all[i] = x)
      BY <3>2 DEF ToSet
    <3> QED BY <2>1, <3>1, <3>3
  <2> QED BY <2>2, <2>3
<1>14. found # <<>>
  OBVIOUS
<1> HIDE DEF found, all
<1>4. /\ each \in Seq(Scalars)
      /\ \A a, b \in DOMAIN each : each[a] = each[b] => a = b
      /\ \A a \in DOMAIN each : \E i \in DOMAIN found : each[a] = found[i]
      /\ \A i \in DOMAIN found : \E a \in DOMAIN each : each[a] = found[i]
  BY <1>2, DistinctIs
<1>5. from \in Names
  <2>1. plan.key \in Names
    BY DEF Plans, Names
  <2>2. CASE plan.key \in DOMAIN cells
    BY <2>2, Fits DEF Held, Cells
  <2>3. CASE plan.key \notin DOMAIN cells
    BY <2>1, <2>3
  <2> QED BY <2>2, <2>3
<1> HIDE DEF each, from, values
<1>6. Len(each) \in Nat /\ DOMAIN each = 1 .. Len(each) /\ \A j \in DOMAIN each : each[j] \in Scalars
  BY <1>4
<1>7. \A j \in DOMAIN each : Cell(Scalar(each[j]), from) \in Held /\ Cell(Scalar(each[j]), from).is = Scalar(each[j])
  BY <1>5, <1>6, ScalarCell DEF Cell
<1>8. values \in Seq(Held) /\ DOMAIN values = DOMAIN each /\ \A j \in DOMAIN each : values[j].is = Scalar(each[j])
  BY <1>1, <1>6, <1>7
<1>9. ASSUME NEW j \in DOMAIN values
      PROVE  \E x \in Scalars : /\ values[j].is = Scalar(x) /\ (plan.exists => x \in {0, 1})
                                /\ Answers(x, cells, plan)
  <2>1. Answers(each[j], cells, plan)
    BY <1>3, <1>4, <1>8
  <2> QED BY <1>6, <1>8, <2>1
<1>10. ASSUME NEW j \in DOMAIN values, NEW l \in DOMAIN values, values[j].is = values[l].is PROVE j = l
  <2>1. each[j] = each[l]
    BY <1>8, <1>10, SameScalar
  <2> QED BY <1>4, <1>8, <2>1
<1>11. ASSUME NEW x \in Scalars, Answers(x, cells, plan)
       PROVE  \E j \in DOMAIN values : values[j].is = Scalar(x)
  <2>1. PICK i \in DOMAIN found : found[i] = x
    BY <1>3, <1>11
  <2>2. PICK a \in DOMAIN each : each[a] = x
    BY <1>4, <2>1
  <2> QED BY <1>8, <2>2
<1>13. DOMAIN values # {}
  <2>1. 1 \in DOMAIN found
    BY <1>2, <1>14
  <2> QED BY <1>4, <1>8, <2>1
<1>12. ValuesAre(cells, plan, values)
  BY <1>8, <1>9, <1>10, <1>11, <1>13 DEF ValuesAre
<1> QED BY <1>12 DEF values

\* The headers of the first n plans.
HeaderOf(plans, n) == {plans[m].header : m \in 1 .. n}

\* One of the values of each of the first n plans.
Chosen(cells, plans, n, choice) ==
  /\ choice \in Cells /\ DOMAIN choice = HeaderOf(plans, n)
  /\ \A m \in 1 .. n : \E j \in DOMAIN GroupValues(cells, plans[m]) :
       choice[plans[m].header] = GroupValues(cells, plans[m])[j]

\* Each choice is made once, and is told from the others by its values.
ChoicesAre(cells, plans, n, choices) ==
  /\ choices \in Seq(Cells) /\ DOMAIN choices # {}
  /\ \A a \in DOMAIN choices : Chosen(cells, plans, n, choices[a])
  /\ \A a, b \in DOMAIN choices : Says(choices[a]) = Says(choices[b]) => a = b
  /\ \A choice \in Cells :
       Chosen(cells, plans, n, choice) => \E a \in DOMAIN choices : choices[a] = choice

LEMMA ValuesOf ==
  ASSUME NEW cells \in Cells, NEW plan \in Plans
  PROVE  ValuesAre(cells, plan, GroupValues(cells, plan))
BY AskedValues, ListedValues

\* Cells over others, one cell, and cells that are the same.
LEMMA OverIs ==
  ASSUME NEW front \in Cells, NEW rear \in Cells
  PROVE  /\ Over(front, rear) \in Cells
         /\ DOMAIN Over(front, rear) = DOMAIN front \cup DOMAIN rear
         /\ \A k \in DOMAIN front : Over(front, rear)[k] = front[k]
         /\ \A k \in DOMAIN rear \ DOMAIN front : Over(front, rear)[k] = rear[k]
<1>1. Over(front, rear) \in Cells
  BY OverFits DEF Cells
<1> QED BY <1>1 DEF Over

LEMMA OnlyIs ==
  ASSUME NEW key \in Names, NEW cell \in Held
  PROVE  Only(key, cell) \in Cells /\ DOMAIN Only(key, cell) = {key} /\ Only(key, cell)[key] = cell
<1>1. Only(key, cell) \in Cells
  BY OnlyFits DEF Cells
<1> QED BY <1>1 DEF Only

\* What is said is said of each field.
LEMMA SaysIs ==
  ASSUME NEW cells
  PROVE  DOMAIN Says(cells) = DOMAIN cells /\ \A k \in DOMAIN cells : Says(cells)[k] = cells[k].is
BY DEF Says

LEMMA SameCells ==
  ASSUME NEW front \in Cells, NEW rear \in Cells, DOMAIN front = DOMAIN rear,
         \A k \in DOMAIN front : front[k] = rear[k]
  PROVE  front = rear
<1>1. front = [k \in DOMAIN front |-> front[k]] /\ rear = [k \in DOMAIN rear |-> rear[k]]
  BY Fits DEF Cells
<1> QED BY <1>1

\* One more plan.
LEMMA OneMore ==
  ASSUME NEW cells \in Cells, NEW plans \in Seq(Plans),
         \A i, j \in DOMAIN plans : plans[i].header = plans[j].header => i = j,
         NEW n \in 1 .. Len(plans), NEW choices, ChoicesAre(cells, plans, n - 1, choices)
  PROVE  ChoicesAre(cells, plans, n, Combined(choices, plans[n].header, GroupValues(cells, plans[n])))
<1> DEFINE header == plans[n].header
           values == GroupValues(cells, plans[n])
           Both(a, j) == Over(choices[a], Only(header, values[j]))
           each == [a \in DOMAIN choices |-> [j \in DOMAIN values |-> Both(a, j)]]
           more == FlattenSeq(each)
           key == [choice \in Cells |-> Says(choice)]
           before == HeaderOf(plans, n - 1)
<1>1. plans[n] \in Plans /\ header \in Names
  <2>1. plans[n] \in Plans
    OBVIOUS
  <2> QED BY <2>1 DEF Plans, Names
<1>2. ValuesAre(cells, plans[n], values)
  BY <1>1, ValuesOf
<1>3. values \in Seq(Held) /\ \A j, l \in DOMAIN values : values[j].is = values[l].is => j = l
  BY <1>2 DEF ValuesAre
<1>4. /\ choices \in Seq(Cells)
      /\ \A a \in DOMAIN choices : Chosen(cells, plans, n - 1, choices[a])
      /\ \A a, b \in DOMAIN choices : Says(choices[a]) = Says(choices[b]) => a = b
      /\ \A choice \in Cells : Chosen(cells, plans, n - 1, choice) => \E a \in DOMAIN choices : choices[a] = choice
  BY DEF ChoicesAre
<1>5. header \notin before /\ HeaderOf(plans, n) = before \cup {header}
  <2>1. \A m \in 1 .. n - 1 : m \in DOMAIN plans /\ m # n /\ m \in 1 .. n
    OBVIOUS
  <2>2. n \in DOMAIN plans /\ n \in 1 .. n /\ \A m \in 1 .. n : m = n \/ m \in 1 .. n - 1
    OBVIOUS
  <2>3. header \notin before
    BY <2>1, <2>2 DEF HeaderOf
  <2>4. HeaderOf(plans, n) = before \cup {header}
    BY <2>1, <2>2 DEF HeaderOf
  <2> QED BY <2>3, <2>4
<1>6. Combined(choices, header, values) = more
  BY DEF Combined
<1> HIDE DEF values, header, before
<1>7. \A j \in DOMAIN values : values[j] \in Held
  BY <1>3
<1>8. \A a \in DOMAIN choices : choices[a] \in Cells /\ DOMAIN choices[a] = before
  BY <1>4 DEF Chosen, before
<1>9. ASSUME NEW a \in DOMAIN choices, NEW j \in DOMAIN values
      PROVE  /\ Both(a, j) \in Cells /\ DOMAIN Both(a, j) = before \cup {header}
             /\ Both(a, j)[header] = values[j] /\ \A k \in before : Both(a, j)[k] = choices[a][k]
  <2>1. Only(header, values[j]) \in Cells /\ DOMAIN Only(header, values[j]) = {header}
          /\ Only(header, values[j])[header] = values[j]
    BY <1>1, <1>7, OnlyIs
  <2> DEFINE one == Only(header, values[j])
  <2> HIDE DEF one
  <2>2. one \in Cells /\ DOMAIN one = {header} /\ one[header] = values[j]
    BY <2>1 DEF one
  <2>3. /\ Over(choices[a], one) \in Cells
        /\ DOMAIN Over(choices[a], one) = DOMAIN choices[a] \cup DOMAIN one
        /\ \A k \in DOMAIN choices[a] : Over(choices[a], one)[k] = choices[a][k]
        /\ \A k \in DOMAIN one \ DOMAIN choices[a] : Over(choices[a], one)[k] = one[k]
    <3>1. choices[a] \in Cells /\ one \in Cells
      BY <1>8, <2>2
    <3> QED BY <3>1, OverIs
  <2> QED BY <1>5, <1>8, <2>2, <2>3 DEF one
<1> HIDE DEF Both
<1>10. \A a \in DOMAIN choices : each[a] \in Seq(Cells) /\ DOMAIN each[a] = DOMAIN values
                                /\ \A j \in DOMAIN values : each[a][j] = Both(a, j)
  <2> TAKE a \in DOMAIN choices
  <2>1. Len(values) \in Nat /\ DOMAIN values = 1 .. Len(values)
    BY <1>3
  <2>2. \A j \in 1 .. Len(values) : Both(a, j) \in Cells
    BY <1>9, <2>1
  <2> QED BY <2>1, <2>2
<1>11. DOMAIN each = DOMAIN choices
  OBVIOUS
<1>12. each \in Seq(Seq(Cells))
  <2>1. Len(choices) \in Nat /\ DOMAIN choices = 1 .. Len(choices)
    BY <1>4
  <2>2. each = [a \in 1 .. Len(choices) |-> each[a]]
    BY <2>1
  <2> HIDE DEF each
  <2> QED BY <1>10, <2>1, <2>2
<1> HIDE DEF each, more
<1>13. more \in Seq(Cells)
  BY <1>12, FlattenTyped DEF more
<1>14. /\ \A a \in DOMAIN more : \E i \in DOMAIN choices : \E j \in DOMAIN values : more[a] = Both(i, j)
       /\ \A i \in DOMAIN choices : \A j \in DOMAIN values : \E a \in DOMAIN more : more[a] = Both(i, j)
  <2>1. /\ \A a \in DOMAIN more : \E i \in DOMAIN each : \E j \in DOMAIN each[i] : more[a] = each[i][j]
        /\ \A i \in DOMAIN each : \A j \in DOMAIN each[i] : \E a \in DOMAIN more : more[a] = each[i][j]
    BY <1>12, FlattenHas DEF more
  <2>2. \A a \in DOMAIN more : \E i \in DOMAIN choices : \E j \in DOMAIN values : more[a] = Both(i, j)
    BY <1>10, <1>11, <2>1
  <2>3. ASSUME NEW i \in DOMAIN choices, NEW j \in DOMAIN values PROVE \E a \in DOMAIN more : more[a] = Both(i, j)
    BY <1>10, <1>11, <2>1
  <2> QED BY <2>2, <2>3
<1>15. Once(each, key)
  <2> SUFFICES ASSUME NEW a \in DOMAIN choices, NEW b \in DOMAIN choices,
                      NEW j \in DOMAIN values, NEW l \in DOMAIN values, key[each[a][j]] = key[each[b][l]]
               PROVE  a = b /\ j = l
    BY <1>10, <1>11 DEF Once
  <2>1. Both(a, j) \in Cells /\ Both(b, l) \in Cells
    BY <1>9
  <2>2. Says(Both(a, j)) = Says(Both(b, l))
    BY <1>10, <2>1
  <2>3. \A k \in before \cup {header} : Both(a, j)[k].is = Both(b, l)[k].is
    <3>1. DOMAIN Both(a, j) = before \cup {header} /\ DOMAIN Both(b, l) = before \cup {header}
      BY <1>9
    <3> QED BY <2>2, <3>1, SaysIs
  <2>4. j = l
    <3>1. Both(a, j)[header].is = values[j].is /\ Both(b, l)[header].is = values[l].is
      BY <1>9
    <3>2. values[j].is = values[l].is
      BY <2>3, <3>1
    <3> QED BY <1>3, <3>2
  <2>5. Says(choices[a]) = Says(choices[b])
    <3>1. \A k \in before : choices[a][k].is = choices[b][k].is
      <4> TAKE k \in before
      <4>1. Both(a, j)[k] = choices[a][k] /\ Both(b, l)[k] = choices[b][k]
        BY <1>9
      <4> QED BY <2>3, <4>1
    <3> QED BY <1>8, <3>1 DEF Says
  <2> QED BY <1>4, <2>4, <2>5
<1>16. \A a, b \in DOMAIN more : Says(more[a]) = Says(more[b]) => a = b
  <2>1. \A a, b \in DOMAIN more : key[more[a]] = key[more[b]] => a = b
    <3> HIDE DEF key
    <3> QED BY <1>12, <1>15, FlattenOnce DEF more
  <2>2. \A a \in DOMAIN more : key[more[a]] = Says(more[a])
    BY <1>13
  <2> HIDE DEF key
  <2> QED BY <2>1, <2>2
<1>17. ASSUME NEW a \in DOMAIN more PROVE Chosen(cells, plans, n, more[a])
  <2>1. PICK i \in DOMAIN choices : \E j \in DOMAIN values : more[a] = Both(i, j)
    BY <1>14
  <2>2. PICK j \in DOMAIN values : more[a] = Both(i, j)
    BY <2>1
  <2>3. /\ more[a] \in Cells /\ DOMAIN more[a] = HeaderOf(plans, n)
        /\ more[a][header] = values[j] /\ \A k \in before : more[a][k] = choices[i][k]
    <3>1. /\ Both(i, j) \in Cells /\ DOMAIN Both(i, j) = HeaderOf(plans, n)
          /\ Both(i, j)[header] = values[j] /\ \A k \in before : Both(i, j)[k] = choices[i][k]
      BY <1>5, <1>9
    <3> QED BY <2>2, <3>1
  <2>4. ASSUME NEW m \in 1 .. n
        PROVE  \E l \in DOMAIN GroupValues(cells, plans[m]) :
                 more[a][plans[m].header] = GroupValues(cells, plans[m])[l]
    <3>1. CASE m = n
      BY <2>3, <3>1 DEF values, header
    <3>2. CASE m # n
      <4>1. m \in 1 .. n - 1
        BY <3>2
      <4>2. plans[m].header \in before
        BY <4>1 DEF before, HeaderOf
      <4>3. \E l \in DOMAIN GroupValues(cells, plans[m]) :
              choices[i][plans[m].header] = GroupValues(cells, plans[m])[l]
        <5>1. Chosen(cells, plans, n - 1, choices[i])
          BY <1>4
        <5> QED BY <4>1, <5>1 DEF Chosen
      <4> QED BY <2>3, <4>2, <4>3
    <3> QED BY <3>1, <3>2
  <2> QED BY <2>3, <2>4 DEF Chosen
<1>18. ASSUME NEW choice \in Cells, Chosen(cells, plans, n, choice)
       PROVE  \E a \in DOMAIN more : more[a] = choice
  <2> DEFINE less == [k \in before |-> choice[k]]
  <2>1. DOMAIN choice = before \cup {header}
    BY <1>5, <1>18 DEF Chosen
  <2>2. less \in Cells /\ DOMAIN less = before
    BY <2>1, SomeFit DEF Cells
  <2>3. \A k \in before : less[k] = choice[k]
    OBVIOUS
  <2> HIDE DEF less
  <2>4. Chosen(cells, plans, n - 1, less)
    <3>1. ASSUME NEW m \in 1 .. n - 1
          PROVE  \E j \in DOMAIN GroupValues(cells, plans[m]) :
                   less[plans[m].header] = GroupValues(cells, plans[m])[j]
      <4>1. m \in 1 .. n /\ plans[m].header \in before
        BY DEF before, HeaderOf
      <4>2. \E j \in DOMAIN GroupValues(cells, plans[m]) :
              choice[plans[m].header] = GroupValues(cells, plans[m])[j]
        BY <1>18, <4>1 DEF Chosen
      <4> QED BY <2>3, <4>1, <4>2
    <3> QED BY <2>2, <3>1 DEF Chosen, before
  <2>5. PICK a \in DOMAIN choices : choices[a] = less
    BY <1>4, <2>2, <2>4
  <2>6. PICK j \in DOMAIN values : choice[header] = values[j]
    <3>1. n \in 1 .. n
      OBVIOUS
    <3> QED BY <1>18, <3>1 DEF Chosen, values, header
  <2>7. Both(a, j) = choice
    <3>1. \A k \in before \cup {header} : Both(a, j)[k] = choice[k]
      BY <1>9, <2>3, <2>5, <2>6
    <3> QED BY <1>9, <2>1, <3>1, SameCells
  <2> QED BY <1>14, <2>7
<1>20. DOMAIN more # {}
  <2>1. PICK i \in DOMAIN choices : TRUE
    BY DEF ChoicesAre
  <2>2. PICK j \in DOMAIN values : TRUE
    BY <1>2 DEF ValuesAre
  <2> QED BY <1>14, <2>1, <2>2
<1>19. ChoicesAre(cells, plans, n, more)
  BY <1>13, <1>16, <1>20, <1>17, <1>18 DEF ChoicesAre
<1> QED BY <1>6, <1>19 DEF header, values

\* The headers of a row are the choices of a value for each plan.
LEMMA HeadersAre ==
  ASSUME NEW cells \in Cells, NEW plans \in Seq(Plans),
         \A i, j \in DOMAIN plans : plans[i].header = plans[j].header => i = j
  PROVE  ChoicesAre(cells, plans, Len(plans), GroupHeaders(cells, plans))
<1> DEFINE N == Len(plans)
<1>1. HeadersByStep(cells, plans, Cells)
  <2>1. HeadersByStep(cells, plans, Fitting({}))
    BY GroupHeadersByStep DEF Cells
  <2> QED BY <2>1 DEF Cells
<1>2. PICK f \in [0 .. N -> Seq(Cells)] :
        /\ GroupHeaders(cells, plans) = f[N] /\ f[0] = <<NoCells>>
        /\ \A n \in 1 .. N : f[n] = Combined(f[n - 1], plans[n].header, GroupValues(cells, plans[n]))
  BY <1>1 DEF HeadersByStep
<1> DEFINE True == {n \in 0 .. N : ChoicesAre(cells, plans, n, f[n])}
<1>3. 0 \in True
  <2> DEFINE start == <<NoCells>>
  <2>1. NoCells \in Cells /\ DOMAIN NoCells = {}
    BY NoCellsFit DEF Cells, NoCells
  <2>2. HeaderOf(plans, 0) = {} /\ 1 .. 0 = {}
    BY DEF HeaderOf
  <2>3. start \in Seq(Cells) /\ DOMAIN start = {1} /\ start[1] = NoCells
    BY <2>1
  <2> HIDE DEF start
  <2>4. Chosen(cells, plans, 0, NoCells)
    BY <2>1, <2>2 DEF Chosen
  <2>5. ASSUME NEW choice \in Cells, Chosen(cells, plans, 0, choice) PROVE choice = NoCells
    <3>1. DOMAIN choice = {}
      BY <2>2, <2>5 DEF Chosen
    <3> QED BY <2>1, <3>1, SameCells
  <2>6. ChoicesAre(cells, plans, 0, start)
    BY <2>3, <2>4, <2>5 DEF ChoicesAre
  <2>7. 0 \in 0 .. N
    OBVIOUS
  <2> QED BY <1>2, <2>6, <2>7 DEF start
<1>4. ASSUME NEW n \in 1 .. N, n - 1 \in True PROVE n \in True
  <2>1. ChoicesAre(cells, plans, n - 1, f[n - 1])
    BY <1>4
  <2>2. ChoicesAre(cells, plans, n, f[n])
    BY <1>2, <2>1, OneMore
  <2>3. n \in 0 .. N
    OBVIOUS
  <2> QED BY <2>2, <2>3
<1> HIDE DEF True
<1>5. N \in True
  BY <1>3, <1>4, UpTo
<1> QED BY <1>2, <1>5 DEF True

(* The row joins the group that says what it answers. *)

\* What groups say of other fields than those.
Rest(groups, named) == Says([k \in DOMAIN groups \ named |-> groups[k]])

\* A header over groups says the same as another if the two agree on its fields
\* and the groups on the rest.
LEMMA SaysOver ==
  ASSUME NEW choice \in Cells, NEW groups \in Cells, NEW header \in Cells, DOMAIN choice \subseteq DOMAIN header
  PROVE  /\ Says(Over(choice, groups)) = Says(header) =>
              /\ Rest(header, DOMAIN choice) = Rest(groups, DOMAIN choice)
              /\ \A k \in DOMAIN choice : choice[k].is = header[k].is
         /\ /\ Rest(header, DOMAIN choice) = Rest(groups, DOMAIN choice)
            /\ \A k \in DOMAIN choice : choice[k].is = header[k].is
            => Says(Over(choice, groups)) = Says(header)
<1> DEFINE named == DOMAIN choice
           both == Over(choice, groups)
<1>1. /\ DOMAIN both = named \cup DOMAIN groups
      /\ \A k \in named : both[k] = choice[k]
      /\ \A k \in DOMAIN groups \ named : both[k] = groups[k]
  BY OverIs
<1> DEFINE ofHeader == Rest(header, named)
           ofGroups == Rest(groups, named)
<1>0. /\ DOMAIN ofHeader = DOMAIN header \ named /\ DOMAIN ofGroups = DOMAIN groups \ named
      /\ \A k \in DOMAIN header \ named : ofHeader[k] = header[k].is
      /\ \A k \in DOMAIN groups \ named : ofGroups[k] = groups[k].is
      /\ ofHeader = [k \in DOMAIN header \ named |-> header[k].is]
      /\ ofGroups = [k \in DOMAIN groups \ named |-> groups[k].is]
  BY DEF Rest, Says
<1> HIDE DEF both, ofHeader, ofGroups
<1>2. ASSUME Says(both) = Says(header)
      PROVE  /\ ofHeader = ofGroups
             /\ \A k \in named : choice[k].is = header[k].is
  <2>1. DOMAIN both = DOMAIN header /\ \A k \in DOMAIN both : both[k].is = header[k].is
    BY <1>2, SaysIs
  <2>2. \A k \in named : choice[k].is = header[k].is
    BY <1>1, <2>1
  <2>3. DOMAIN header \ named = DOMAIN groups \ named
    BY <1>1, <2>1
  <2>4. \A k \in DOMAIN groups \ named : groups[k].is = header[k].is
    BY <1>1, <2>1
  <2>5. [k \in DOMAIN header \ named |-> header[k].is] = [k \in DOMAIN groups \ named |-> groups[k].is]
    BY <2>3, <2>4
  <2> QED BY <1>0, <2>2, <2>5
<1>3. ASSUME ofHeader = ofGroups,
             \A k \in named : choice[k].is = header[k].is
      PROVE  Says(both) = Says(header)
  <2>1. DOMAIN header \ named = DOMAIN groups \ named
    BY <1>0, <1>3
  <2>2. \A k \in DOMAIN groups \ named : groups[k].is = header[k].is
    BY <1>0, <1>3, <2>1
  <2>3. DOMAIN both = DOMAIN header
    BY <1>1, <2>1
  <2>4. \A k \in DOMAIN both : both[k].is = header[k].is
    BY <1>1, <1>3, <2>2
  <2> QED BY <2>3, <2>4 DEF Says
<1> QED BY <1>2, <1>3 DEF both, ofHeader, ofGroups

\* A header of the plans: each field of theirs says a scalar.
Heading(header, plans) ==
  \A m \in DOMAIN plans : plans[m].header \in DOMAIN header /\ Heads(header[plans[m].header], plans[m])

\* What Admits asks of a header it asks of its scalar.
LEMMA AdmitsIs ==
  ASSUME NEW header, NEW cells, NEW plan, NEW x, header[plan.header].is = Scalar(x)
  PROVE  /\ Admits(header, cells, plan) => Answers(x, cells, plan)
         /\ Answers(x, cells, plan) => Admits(header, cells, plan)
<1>1. header[plan.header].is.items[1] = x
  BY DEF Scalar
<1> QED BY <1>1 DEF Admits, Answers

\* The values of a choice are admitted ...
LEMMA ChosenAdmits ==
  ASSUME NEW cells \in Cells, NEW plans \in Seq(Plans), NEW header \in Cells,
         NEW choice, Chosen(cells, plans, Len(plans), choice),
         \A k \in DOMAIN choice : choice[k].is = header[k].is,
         NEW m \in DOMAIN plans
  PROVE  Admits(header, cells, plans[m])
<1>1. m \in 1 .. Len(plans) /\ plans[m] \in Plans
  OBVIOUS
<1>2. plans[m].header \in DOMAIN choice
  BY <1>1 DEF Chosen, HeaderOf
<1>3. PICK j \in DOMAIN GroupValues(cells, plans[m]) :
        choice[plans[m].header] = GroupValues(cells, plans[m])[j]
  BY <1>1 DEF Chosen
<1>4. PICK x \in Scalars : GroupValues(cells, plans[m])[j].is = Scalar(x) /\ Answers(x, cells, plans[m])
  <2>1. ValuesAre(cells, plans[m], GroupValues(cells, plans[m]))
    BY <1>1, ValuesOf
  <2> QED BY <2>1 DEF ValuesAre
<1>5. header[plans[m].header].is = Scalar(x)
  BY <1>2, <1>3, <1>4
<1> QED BY <1>4, <1>5, AdmitsIs

\* ... and what is admitted is the values of a choice.
LEMMA AdmittedChosen ==
  ASSUME NEW cells \in Cells, NEW plans \in Seq(Plans), NEW header \in Cells, Heading(header, plans),
         \A i, j \in DOMAIN plans : plans[i].header = plans[j].header => i = j,
         \A m \in DOMAIN plans : Admits(header, cells, plans[m])
  PROVE  \E choice \in Cells : /\ Chosen(cells, plans, Len(plans), choice)
                               /\ \A k \in DOMAIN choice : choice[k].is = header[k].is
<1> DEFINE N == Len(plans)
           named == HeaderOf(plans, N)
           Fine(k, cell) == /\ cell.is = header[k].is
                            /\ \A m \in 1 .. N : plans[m].header = k =>
                                 \E j \in DOMAIN GroupValues(cells, plans[m]) :
                                   cell = GroupValues(cells, plans[m])[j]
           choice == [k \in named |-> CHOOSE cell \in Held : Fine(k, cell)]
<1>1. DOMAIN plans = 1 .. N /\ \A m \in 1 .. N : plans[m] \in Plans
  OBVIOUS
<1>2. ASSUME NEW k \in named PROVE k \in Names /\ \E cell \in Held : Fine(k, cell)
  <2>1. PICK m \in 1 .. N : k = plans[m].header
    BY DEF HeaderOf
  <2> DEFINE values == GroupValues(cells, plans[m])
  <2>2. plans[m] \in Plans /\ k \in Names
    <3>1. plans[m] \in Plans
      BY <1>1
    <3> QED BY <2>1, <3>1 DEF Plans, Names
  <2>3. ValuesAre(cells, plans[m], values)
    BY <2>2, ValuesOf
  <2>4. PICK x \in Scalars : header[k].is = Scalar(x) /\ (plans[m].exists => x \in {0, 1})
    BY <1>1, <2>1 DEF Heading, Heads
  <2>5. Answers(x, cells, plans[m])
    BY <1>1, <2>1, <2>4, AdmitsIs
  <2> HIDE DEF values
  <2>6. PICK j \in DOMAIN values : values[j].is = Scalar(x)
    BY <2>3, <2>4, <2>5 DEF ValuesAre
  <2>7. values[j] \in Held
    BY <2>3 DEF ValuesAre
  <2>8. \A i \in 1 .. N : plans[i].header = k => i = m
    BY <1>1, <2>1
  <2>9. Fine(k, values[j])
    BY <2>4, <2>6, <2>8 DEF values
  <2> QED BY <2>2, <2>7, <2>9
<1> HIDE DEF Fine
<1>3. \A k \in named : choice[k] \in Held /\ Fine(k, choice[k])
  <2> TAKE k \in named
  <2>1. \E cell \in Held : Fine(k, cell)
    BY <1>2
  <2> QED BY <2>1
<1>4. DOMAIN choice = named
  OBVIOUS
<1>5. choice \in Cells
  <2>1. choice \in [named -> Held]
    <3>1. choice = [k \in named |-> choice[k]]
      OBVIOUS
    <3> HIDE DEF choice, named
    <3> QED BY <1>3, <3>1
  <2>2. named \in SUBSET Names
    BY <1>2
  <2> HIDE DEF choice, named
  <2>3. choice \in Fitting({})
    BY <2>1, <2>2, MakesFit
  <2> QED BY <2>3 DEF Cells
<1> HIDE DEF choice, named
<1>6. ASSUME NEW m \in 1 .. N
      PROVE  \E j \in DOMAIN GroupValues(cells, plans[m]) :
               choice[plans[m].header] = GroupValues(cells, plans[m])[j]
  <2>1. plans[m].header \in named
    BY DEF named, HeaderOf
  <2> QED BY <1>3, <2>1 DEF Fine
<1>7. Chosen(cells, plans, N, choice)
  BY <1>4, <1>5, <1>6 DEF Chosen, named
<1>8. \A k \in DOMAIN choice : choice[k].is = header[k].is
  BY <1>3, <1>4 DEF Fine
<1> QED BY <1>5, <1>7, <1>8

\* No two plans have the same header.
Unlike(plans) == \A i, j \in DOMAIN plans : plans[i].header = plans[j].header => i = j

\* The rows of a group that a header is true of.
Belongs(header, groups, cells, plans) ==
  /\ Rest(header, HeaderOf(plans, Len(plans))) = Rest(groups, HeaderOf(plans, Len(plans)))
  /\ \A m \in DOMAIN plans : Admits(header, cells, plans[m])

\* Of the headers of a row one says the same as another header, or none does.
LEMMA JoinsWhereItBelongs ==
  ASSUME NEW cells \in Cells, NEW groups \in Cells, NEW plans \in Seq(Plans), Unlike(plans),
         NEW header \in Cells, Heading(header, plans)
  PROVE  /\ \A a \in DOMAIN GroupHeaders(cells, plans) :
              Says(Over(GroupHeaders(cells, plans)[a], groups)) = Says(header) =>
                Belongs(header, groups, cells, plans)
         /\ Belongs(header, groups, cells, plans) =>
              \E a \in DOMAIN GroupHeaders(cells, plans) :
                Says(Over(GroupHeaders(cells, plans)[a], groups)) = Says(header)
         /\ \A a, b \in DOMAIN GroupHeaders(cells, plans) :
              /\ Says(Over(GroupHeaders(cells, plans)[a], groups)) = Says(header)
              /\ Says(Over(GroupHeaders(cells, plans)[b], groups)) = Says(header)
              => a = b
<1> DEFINE headers == GroupHeaders(cells, plans)
           named == HeaderOf(plans, Len(plans))
           Same(choice) == Says(Over(choice, groups)) = Says(header)
           Agrees(choice) == \A k \in DOMAIN choice : choice[k].is = header[k].is
<1>1. /\ headers \in Seq(Cells)
      /\ \A a \in DOMAIN headers : Chosen(cells, plans, Len(plans), headers[a])
      /\ \A a, b \in DOMAIN headers : Says(headers[a]) = Says(headers[b]) => a = b
      /\ \A choice \in Cells :
           Chosen(cells, plans, Len(plans), choice) => \E a \in DOMAIN headers : headers[a] = choice
  BY HeadersAre DEF ChoicesAre, Unlike
<1>2. named \subseteq DOMAIN header
  BY DEF HeaderOf, Heading
<1> HIDE DEF headers
<1>3. ASSUME NEW choice \in Cells, DOMAIN choice = named
      PROVE  /\ Same(choice) => Rest(header, named) = Rest(groups, named) /\ Agrees(choice)
             /\ Rest(header, named) = Rest(groups, named) /\ Agrees(choice) => Same(choice)
  <2> HIDE DEF named
  <2> QED BY <1>2, <1>3, SaysOver
<1>4. \A a \in DOMAIN headers : headers[a] \in Cells /\ DOMAIN headers[a] = named
  BY <1>1 DEF Chosen
<1> HIDE DEF named, Same, Agrees
<1>5. ASSUME NEW a \in DOMAIN headers, Same(headers[a]) PROVE Belongs(header, groups, cells, plans)
  <2> DEFINE choice == headers[a]
  <2>1. choice \in Cells /\ DOMAIN choice = named /\ Chosen(cells, plans, Len(plans), choice)
    BY <1>1, <1>4
  <2>2. Rest(header, named) = Rest(groups, named) /\ Agrees(choice)
    BY <1>3, <1>5, <2>1
  <2> HIDE DEF choice
  <2>3. \A m \in DOMAIN plans : Admits(header, cells, plans[m])
    <3>1. \A k \in DOMAIN choice : choice[k].is = header[k].is
      BY <2>2 DEF Agrees
    <3> QED BY <2>1, <3>1, ChosenAdmits
  <2> QED BY <2>2, <2>3 DEF Belongs, named
<1>6. ASSUME Belongs(header, groups, cells, plans) PROVE \E a \in DOMAIN headers : Same(headers[a])
  <2>1. /\ Rest(header, named) = Rest(groups, named)
        /\ \A m \in DOMAIN plans : Admits(header, cells, plans[m])
    BY <1>6 DEF Belongs, named
  <2>2. PICK choice \in Cells : /\ Chosen(cells, plans, Len(plans), choice)
                                /\ \A k \in DOMAIN choice : choice[k].is = header[k].is
    BY <2>1, AdmittedChosen DEF Unlike
  <2>3. PICK a \in DOMAIN headers : headers[a] = choice
    BY <1>1, <2>2
  <2>4. Same(choice)
    <3>1. DOMAIN choice = named /\ Agrees(choice)
      BY <2>2 DEF Chosen, named, Agrees
    <3> QED BY <1>3, <2>1, <3>1
  <2> QED BY <2>3, <2>4
<1>7. ASSUME NEW a \in DOMAIN headers, NEW b \in DOMAIN headers, Same(headers[a]), Same(headers[b])
      PROVE  a = b
  <2>1. Agrees(headers[a]) /\ Agrees(headers[b])
    BY <1>3, <1>4, <1>7
  <2>2. \A k \in named : headers[a][k].is = headers[b][k].is
    <3> TAKE k \in named
    <3>1. headers[a][k].is = header[k].is
      BY <1>4, <2>1 DEF Agrees
    <3>2. headers[b][k].is = header[k].is
      BY <1>4, <2>1 DEF Agrees
    <3> QED BY <3>1, <3>2
  <2>3. Says(headers[a]) = Says(headers[b])
    BY <1>4, <2>2 DEF Says
  <2> QED BY <1>1, <2>3
<1> QED BY <1>5, <1>6, <1>7 DEF headers, Same

(* The rows of a group. *)

\* The rows of what joins.
RowsFrom(met) == [i \in DOMAIN met |-> met[i].row]

LEMMA RowsFromTyped ==
  ASSUME NEW C, NEW R, NEW met \in Seq(Arrivals(C, R))
  PROVE  RowsFrom(met) \in Seq(R) /\ Len(RowsFrom(met)) = Len(met)
<1>1. Len(met) \in Nat /\ DOMAIN met = 1 .. Len(met)
  OBVIOUS
<1>2. \A i \in DOMAIN met : met[i].row \in R
  <2>1. \A i \in DOMAIN met : met[i] \in Arrivals(C, R)
    OBVIOUS
  <2> QED BY <2>1 DEF Arrivals
<1> QED BY <1>1, <1>2 DEF RowsFrom

LEMMA RowsFromBehind ==
  ASSUME NEW C, NEW R, NEW s \in Seq(Arrivals(C, R)), NEW t \in Seq(Arrivals(C, R))
  PROVE  RowsFrom(s \o t) = RowsFrom(s) \o RowsFrom(t)
<1> DEFINE m == Len(s)
           k == Len(t)
           whole == s \o t
           rows == RowsFrom(s) \o RowsFrom(t)
<1>1. m \in Nat /\ DOMAIN s = 1 .. m /\ k \in Nat /\ DOMAIN t = 1 .. k
  OBVIOUS
<1>2. /\ whole \in Seq(Arrivals(C, R)) /\ Len(whole) = m + k
      /\ \A a \in 1 .. m + k : whole[a] = IF a <= m THEN s[a] ELSE t[a - m]
  OBVIOUS
<1>3. RowsFrom(s) \in Seq(R) /\ Len(RowsFrom(s)) = m /\ RowsFrom(t) \in Seq(R) /\ Len(RowsFrom(t)) = k
        /\ RowsFrom(whole) \in Seq(R) /\ Len(RowsFrom(whole)) = m + k
  BY <1>2, RowsFromTyped
<1>4. (\A a \in 1 .. m : RowsFrom(s)[a] = s[a].row) /\ (\A a \in 1 .. k : RowsFrom(t)[a] = t[a].row)
        /\ (\A a \in 1 .. m + k : RowsFrom(whole)[a] = whole[a].row)
  <2>1. DOMAIN whole = 1 .. m + k
    BY <1>2
  <2> HIDE DEF m, k, whole
  <2> QED BY <1>1, <2>1 DEF RowsFrom
<1> DEFINE front == RowsFrom(s)
           rear == RowsFrom(t)
<1> HIDE DEF front, rear, m, k, whole
<1>5. /\ rows \in Seq(R) /\ Len(rows) = m + k
      /\ \A a \in 1 .. m + k : rows[a] = IF a <= m THEN front[a] ELSE rear[a - m]
  <2>1. front \in Seq(R) /\ rear \in Seq(R) /\ Len(front) = m /\ Len(rear) = k
    BY <1>3 DEF front, rear
  <2>2. rows = front \o rear
    BY DEF front, rear
  <2>3. rows \in Seq(R)
    BY <2>1, <2>2, ConcatProperties
  <2>4. Len(rows) = m + k
    BY <2>1, <2>2, ConcatProperties
  <2>5. ASSUME NEW a \in 1 .. m + k PROVE rows[a] = IF a <= m THEN front[a] ELSE rear[a - m]
    <3>1. \A i \in 1 .. Len(front) + Len(rear) :
            (front \o rear)[i] = IF i <= Len(front) THEN front[i] ELSE rear[i - Len(front)]
      BY <2>1, ConcatProperties
    <3>2. rows[a] = IF a <= Len(front) THEN front[a] ELSE rear[a - Len(front)]
      BY <2>1, <2>2, <3>1
    <3> QED BY <2>1, <3>2
  <2> QED BY <2>3, <2>4, <2>5
<1> HIDE DEF rows
<1>6. ASSUME NEW a \in 1 .. m + k PROVE rows[a] = RowsFrom(whole)[a]
  <2>1. CASE a <= m
    <3>1. a \in 1 .. m
      BY <1>1, <2>1
    <3>2. rows[a] = front[a] /\ whole[a] = s[a]
      BY <1>2, <1>5, <2>1
    <3> QED BY <1>4, <3>1, <3>2 DEF front
  <2>2. CASE ~ (a <= m)
    <3>1. a - m \in 1 .. k
      BY <1>1, <2>2
    <3>2. rows[a] = rear[a - m] /\ whole[a] = t[a - m]
      BY <1>2, <1>5, <2>2
    <3> QED BY <1>4, <3>1, <3>2 DEF rear
  <2> QED BY <2>1, <2>2
<1>7. rows = RowsFrom(whole)
  BY <1>3, <1>5, <1>6, SameSequence
<1> QED BY <1>7 DEF rows, whole

\* The rows of those that say the same.
Saying(C, R, said) == {met \in Arrivals(C, R) : Says(met.groups) = said}
\* The rows of those that say the same, as a function of what joins.
RowsSaying(C, R, said) == [met \in Seq(Arrivals(C, R)) |-> RowsFrom(Members(met, Saying(C, R, said)))]

LEMMA MembersTyped ==
  ASSUME NEW S, NEW seq \in Seq(S), NEW set
  PROVE  Members(seq, set) \in Seq(S)
BY PickedTyped DEF Members

LEMMA RowsSayingMaps ==
  ASSUME NEW C, NEW R, NEW said
  PROVE  Maps(RowsSaying(C, R, said), Arrivals(C, R), R)
<1> DEFINE E == Arrivals(C, R)
           T == Saying(C, R, said)
           map == RowsSaying(C, R, said)
<1>1. \A met \in Seq(E) : map[met] = RowsFrom(Members(met, T)) /\ Members(met, T) \in Seq(E)
  BY MembersTyped DEF RowsSaying
<1>2. \A met \in Seq(E) : RowsFrom(Members(met, T)) \in Seq(R)
  BY <1>1, RowsFromTyped
<1>3. map \in [Seq(E) -> Seq(R)]
  <2>1. map = [met \in Seq(E) |-> map[met]]
    BY DEF RowsSaying
  <2> HIDE DEF map, E, T
  <2> QED BY <1>1, <1>2, <2>1
<1> HIDE DEF map, T
<1>4. map[<<>>] = <<>>
  <2> DEFINE nothing == <<>>
  <2>1. nothing \in Seq(E) /\ DOMAIN nothing = {}
    OBVIOUS
  <2>2. Members(nothing, T) = <<>>
    <3>1. \A i \in DOMAIN nothing : i \notin {j \in DOMAIN nothing : nothing[j] \in T}
      BY <2>1
    <3> HIDE DEF nothing, E
    <3> QED BY <2>1, <3>1, PickedNone DEF Members
  <2>3. RowsFrom(<<>>) = <<>>
    BY DEF RowsFrom
  <2> QED BY <1>1, <2>1, <2>2, <2>3
<1>5. ASSUME NEW s \in Seq(E), NEW t \in Seq(E) PROVE map[s \o t] = map[s] \o map[t]
  <2>1. s \o t \in Seq(E)
    OBVIOUS
  <2>2. Members(s \o t, T) = Members(s, T) \o Members(t, T)
    BY MembersBehind
  <2>3. RowsFrom(Members(s, T) \o Members(t, T)) = RowsFrom(Members(s, T)) \o RowsFrom(Members(t, T))
    <3> DEFINE x == Members(s, T)
               y == Members(t, T)
    <3>1. x \in Seq(E) /\ y \in Seq(E)
      BY <1>1
    <3> HIDE DEF x, y
    <3>2. RowsFrom(x \o y) = RowsFrom(x) \o RowsFrom(y)
      BY <3>1, RowsFromBehind
    <3> QED BY <3>2 DEF x, y
  <2> QED BY <1>1, <2>1, <2>2, <2>3
<1> QED BY <1>3, <1>4, <1>5 DEF map, Maps

\* Rows, parts and arrivals of any cells.
CellRows == RowsOf(Cells)
CellParts == PartsOf(Cells, CellRows)
CellArrivals == Arrivals(Cells, CellRows)

\* What joins is a row, once for each of its headers.
LEMMA JoiningIs ==
  ASSUME NEW part \in CellParts, NEW row \in CellRows, NEW headers \in Seq(Cells)
  PROVE  /\ Joining(part, row, headers) \in Seq(CellArrivals)
         /\ DOMAIN Joining(part, row, headers) = DOMAIN headers
         /\ \A a \in DOMAIN headers :
              /\ Joining(part, row, headers)[a].row = row
              /\ Joining(part, row, headers)[a].groups = Over(headers[a], part.groups)
              /\ Joining(part, row, headers)[a] \in CellArrivals
<1> DEFINE Entry(a) == [groups |-> Over(headers[a], part.groups),
                        aggregates |-> part.aggregates, row |-> row]
<1>1. Len(headers) \in Nat /\ DOMAIN headers = 1 .. Len(headers)
  OBVIOUS
<1>2. \A a \in DOMAIN headers : Entry(a) \in CellArrivals
  <2> TAKE a \in DOMAIN headers
  <2>1. headers[a] \in Cells /\ part.groups \in Cells /\ part.aggregates \in Cells
    BY DEF CellParts, PartsOf
  <2>2. Over(headers[a], part.groups) \in Cells
    BY <2>1, OverIs
  <2> QED BY <2>1, <2>2 DEF CellArrivals, Arrivals
<1>3. Joining(part, row, headers) = [a \in DOMAIN headers |-> Entry(a)]
  BY DEF Joining
<1>4. \A a \in DOMAIN headers : Entry(a).row = row /\ Entry(a).groups = Over(headers[a], part.groups)
  OBVIOUS
<1> HIDE DEF Entry
<1> QED BY <1>1, <1>2, <1>3, <1>4

\* The rows that join the group of a header.
RowsOfHeader(header) == RowsSaying(Cells, CellRows, Says(header))

\* A row is in the group of a header that is true of it, once.
LEMMA JoiningRows ==
  ASSUME NEW part \in CellParts, NEW row \in CellRows, NEW plans \in Seq(Plans), Unlike(plans),
         NEW header \in Cells, Heading(header, plans)
  PROVE  RowsOfHeader(header)[Joining(part, row, GroupHeaders(row.cells, plans))] =
           IF Belongs(header, part.groups, row.cells, plans) THEN <<row>> ELSE <<>>
<1> DEFINE headers == GroupHeaders(row.cells, plans)
           met == Joining(part, row, headers)
           T == Saying(Cells, CellRows, Says(header))
           at == {a \in DOMAIN met : met[a] \in T}
           Same(a) == Says(Over(headers[a], part.groups)) = Says(header)
           IsTrue == Belongs(header, part.groups, row.cells, plans)
<1>1. row.cells \in Cells /\ part.groups \in Cells
  BY DEF CellRows, RowsOf, CellParts, PartsOf
<1>2. /\ \A a \in DOMAIN headers : Same(a) => IsTrue
      /\ IsTrue => \E a \in DOMAIN headers : Same(a)
      /\ \A a, b \in DOMAIN headers : Same(a) /\ Same(b) => a = b
  BY <1>1, JoinsWhereItBelongs
<1>3. headers \in Seq(Cells)
  BY <1>1, HeadersAre DEF ChoicesAre, Unlike
<1> HIDE DEF headers, Same, IsTrue
<1>4. /\ met \in Seq(CellArrivals) /\ DOMAIN met = DOMAIN headers
      /\ \A a \in DOMAIN headers : /\ met[a].row = row /\ met[a].groups = Over(headers[a], part.groups)
                                   /\ met[a] \in CellArrivals
  BY <1>3, JoiningIs
<1> HIDE DEF met
<1>5. \A a \in DOMAIN met : (a \in at => Same(a)) /\ (Same(a) => a \in at)
  BY <1>4 DEF Saying, CellArrivals, Same
<1>6. RowsOfHeader(header)[met] = RowsFrom(Picked(met, at))
  BY <1>4 DEF RowsOfHeader, RowsSaying, Members, CellArrivals
<1> HIDE DEF at
<1>7. CASE IsTrue
  <2>1. PICK a \in DOMAIN headers : Same(a)
    BY <1>2, <1>7
  <2>2. Picked(met, at) = <<met[a]>>
    <3>1. \A b \in DOMAIN met : b \in at <=> b = a
      BY <1>2, <1>4, <1>5, <2>1
    <3> QED BY <1>4, <2>1, <3>1, PickedLone
  <2>3. RowsFrom(<<met[a]>>) = <<row>>
    <3> DEFINE x == met[a]
    <3>1. x.row = row
      BY <1>4
    <3> HIDE DEF x
    <3>2. RowsFrom(<<x>>) = <<row>>
      BY <3>1 DEF RowsFrom
    <3> QED BY <3>2 DEF x
  <2> QED BY <1>6, <1>7, <2>2, <2>3 DEF met, IsTrue, headers
<1>8. CASE ~ IsTrue
  <2>1. \A b \in DOMAIN met : b \notin at
    BY <1>2, <1>4, <1>5, <1>8
  <2>2. Picked(met, at) = <<>>
    BY <1>4, <2>1, PickedNone
  <2>3. RowsFrom(<<>>) = <<>>
    BY DEF RowsFrom
  <2> QED BY <1>6, <1>8, <2>2, <2>3 DEF met, IsTrue, headers
<1> QED BY <1>7, <1>8

\* The rows of a part that a header is true of.
TrueOf(header, part, plans) ==
  Picked(part.rows, {j \in DOMAIN part.rows : Belongs(header, part.groups, part.rows[j].cells, plans)})

\* The rows of a header are those of each sequence of arrivals, one behind another.
LEMMA HeaderMaps ==
  ASSUME NEW header, NEW seqs \in Seq(Seq(CellArrivals))
  PROVE  RowsOfHeader(header)[FlattenSeq(seqs)]
           = FlattenSeq([i \in DOMAIN seqs |-> RowsOfHeader(header)[seqs[i]]])
<1> DEFINE said == Says(header)
           E == Arrivals(Cells, CellRows)
           map == RowsSaying(Cells, CellRows, said)
<1> HIDE DEF said
<1>1. Maps(map, E, CellRows)
  BY RowsSayingMaps
<1>2. seqs \in Seq(Seq(E))
  BY DEF CellArrivals
<1> HIDE DEF map, E
<1>3. map[FlattenSeq(seqs)] = FlattenSeq(Mapped(map, seqs))
  BY <1>1, <1>2, FlattenMapped
<1> QED BY <1>3 DEF map, said, RowsOfHeader, Mapped

LEMMA JoiningTyped ==
  ASSUME NEW part \in CellParts, NEW plans \in Seq(Plans), Unlike(plans), NEW i \in DOMAIN part.rows
  PROVE  /\ Joining(part, part.rows[i], GroupHeaders(part.rows[i].cells, plans)) \in Seq(CellArrivals)
         /\ part.rows[i] \in CellRows
<1>1. part.rows[i] \in CellRows
  <2>1. part.rows \in Seq(CellRows)
    BY DEF CellParts, PartsOf
  <2> QED BY <2>1
<1> DEFINE row == part.rows[i]
<1> HIDE DEF row
<1>2. row \in CellRows
  BY <1>1 DEF row
<1>3. GroupHeaders(row.cells, plans) \in Seq(Cells)
  <2>1. row.cells \in Cells
    BY <1>2 DEF CellRows, RowsOf
  <2> QED BY <2>1, HeadersAre DEF ChoicesAre, Unlike
<1>4. Joining(part, row, GroupHeaders(row.cells, plans)) \in Seq(CellArrivals)
  BY <1>2, <1>3, JoiningIs
<1> QED BY <1>1, <1>4 DEF row

\* Of a part they are the rows that the header is true of ...
LEMMA PartRows ==
  ASSUME NEW part \in CellParts, NEW plans \in Seq(Plans), Unlike(plans),
         NEW header \in Cells, Heading(header, plans)
  PROVE  /\ JoiningAll(part, plans) \in Seq(CellArrivals)
         /\ RowsOfHeader(header)[JoiningAll(part, plans)] = TrueOf(header, part, plans)
<1> DEFINE each == [i \in DOMAIN part.rows |->
                     Joining(part, part.rows[i], GroupHeaders(part.rows[i].cells, plans))]
           at == {j \in DOMAIN part.rows : Belongs(header, part.groups, part.rows[j].cells, plans)}
           map == RowsOfHeader(header)
           Lone(i) == IF i \in at THEN <<part.rows[i]>> ELSE <<>>
<1>1. part.rows \in Seq(CellRows) /\ Len(part.rows) \in Nat /\ DOMAIN part.rows = 1 .. Len(part.rows)
  BY DEF CellParts, PartsOf
<1>2. ASSUME NEW i \in DOMAIN part.rows PROVE each[i] \in Seq(CellArrivals) /\ map[each[i]] = Lone(i)
  <2>1. each[i] = Joining(part, part.rows[i], GroupHeaders(part.rows[i].cells, plans))
    OBVIOUS
  <2>2. part.rows[i] \in CellRows /\ each[i] \in Seq(CellArrivals)
    BY <2>1, JoiningTyped
  <2>3. i \in at <=> Belongs(header, part.groups, part.rows[i].cells, plans)
    OBVIOUS
  <2> HIDE DEF at, map, each
  <2>4. map[each[i]] = IF Belongs(header, part.groups, part.rows[i].cells, plans)
                       THEN <<part.rows[i]>> ELSE <<>>
    <3> DEFINE row == part.rows[i]
    <3> HIDE DEF row
    <3>1. row \in CellRows
      BY <2>2 DEF row
    <3>2. map[Joining(part, row, GroupHeaders(row.cells, plans))]
            = IF Belongs(header, part.groups, row.cells, plans) THEN <<row>> ELSE <<>>
      BY <3>1, JoiningRows DEF map
    <3> QED BY <2>1, <3>2 DEF row
  <2> QED BY <2>2, <2>3, <2>4
<1>3. DOMAIN each = DOMAIN part.rows
  OBVIOUS
<1>4. JoiningAll(part, plans) = FlattenSeq(each)
  BY DEF JoiningAll
<1>5. TrueOf(header, part, plans) = Picked(part.rows, at)
  BY DEF TrueOf
<1>6. Picked(part.rows, at) = FlattenSeq([i \in DOMAIN part.rows |-> Lone(i)])
  <2> DEFINE rows == part.rows
  <2> HIDE DEF rows, at
  <2>1. Picked(rows, at) = FlattenSeq([i \in DOMAIN rows |-> IF i \in at THEN <<rows[i]>> ELSE <<>>])
    BY <1>1, PickedFlat DEF rows
  <2> QED BY <2>1 DEF rows
<1> HIDE DEF each, at, map, Lone
<1>7. each \in Seq(Seq(CellArrivals))
  <2> DEFINE N == Len(part.rows)
  <2>1. each = [i \in 1 .. N |-> each[i]] /\ N \in Nat
    BY <1>1, <1>3 DEF each
  <2>2. \A i \in 1 .. N : each[i] \in Seq(CellArrivals)
    BY <1>1, <1>2
  <2> HIDE DEF N
  <2> QED BY <2>1, <2>2
<1>8. map[FlattenSeq(each)] = FlattenSeq([i \in DOMAIN each |-> map[each[i]]])
  BY <1>7, HeaderMaps DEF map
<1>9. [i \in DOMAIN each |-> map[each[i]]] = [i \in DOMAIN part.rows |-> Lone(i)]
  BY <1>2, <1>3
<1>10. JoiningAll(part, plans) \in Seq(CellArrivals)
  BY <1>4, <1>7, FlattenTyped
<1> QED BY <1>4, <1>5, <1>6, <1>8, <1>9, <1>10 DEF map

\* The rows of all that joins the groups and says the same as a header.

LEMMA GroupRows ==
  ASSUME NEW parts \in Seq(CellParts), NEW plans \in Seq(Plans), Unlike(plans),
         NEW header \in Cells, Heading(header, plans)
  PROVE  /\ FlattenSeq([i \in DOMAIN parts |-> JoiningAll(parts[i], plans)]) \in Seq(CellArrivals)
         /\ RowsOfHeader(header)[FlattenSeq([i \in DOMAIN parts |-> JoiningAll(parts[i], plans)])]
              = FlattenSeq([i \in DOMAIN parts |-> TrueOf(header, parts[i], plans)])
<1> DEFINE each == [i \in DOMAIN parts |-> JoiningAll(parts[i], plans)]
           map == RowsOfHeader(header)
<1>1. Len(parts) \in Nat /\ DOMAIN parts = 1 .. Len(parts) /\ \A i \in DOMAIN parts : parts[i] \in CellParts
  OBVIOUS
<1>2. \A i \in DOMAIN parts : /\ JoiningAll(parts[i], plans) \in Seq(CellArrivals)
                              /\ map[JoiningAll(parts[i], plans)] = TrueOf(header, parts[i], plans)
  <2> TAKE i \in DOMAIN parts
  <2> DEFINE part == parts[i]
  <2>1. part \in CellParts
    BY <1>1
  <2> HIDE DEF part
  <2>2. /\ JoiningAll(part, plans) \in Seq(CellArrivals)
        /\ map[JoiningAll(part, plans)] = TrueOf(header, part, plans)
    BY <2>1, PartRows
  <2> QED BY <2>2 DEF part
<1>3. DOMAIN each = DOMAIN parts /\ \A i \in DOMAIN parts : each[i] = JoiningAll(parts[i], plans)
  OBVIOUS
<1> HIDE DEF each, map
<1>4. each \in Seq(Seq(CellArrivals))
  <2>1. each = [i \in 1 .. Len(parts) |-> each[i]]
    BY <1>1, <1>3 DEF each
  <2> QED BY <1>1, <1>2, <1>3, <2>1
<1>5. map[FlattenSeq(each)] = FlattenSeq([i \in DOMAIN each |-> map[each[i]]])
  BY <1>4, HeaderMaps DEF map
<1>6. [i \in DOMAIN each |-> map[each[i]]] = [i \in DOMAIN parts |-> TrueOf(header, parts[i], plans)]
  BY <1>2, <1>3
<1>7. FlattenSeq(each) \in Seq(CellArrivals)
  BY <1>4, FlattenTyped
<1> QED BY <1>5, <1>6, <1>7 DEF each, map

\* What is at a picked position is picked.
LEMMA PickedHas ==
  ASSUME NEW S, NEW seq \in Seq(S), NEW at, NEW i \in DOMAIN seq, i \in at
  PROVE  \E b \in DOMAIN Picked(seq, at) : Picked(seq, at)[b] = seq[i]
<1> DEFINE each == [n \in DOMAIN seq |-> IF n \in at THEN <<seq[n]>> ELSE <<>>]
<1>1. Picked(seq, at) = FlattenSeq(each)
  BY PickedFlat
<1>2. \A n \in DOMAIN seq : (IF n \in at THEN <<seq[n]>> ELSE <<>>) \in Seq(S)
  OBVIOUS
<1>3. Len(seq) \in Nat /\ DOMAIN seq = 1 .. Len(seq)
  OBVIOUS
<1>4. each \in Seq(Seq(S))
  BY <1>2, <1>3
<1>5. each[i] = <<seq[i]>> /\ i \in DOMAIN each
  OBVIOUS
<1> DEFINE x == seq[i]
<1> HIDE DEF each, x
<1>6. each[i] = <<x>>
  BY <1>5 DEF x
<1>7. 1 \in DOMAIN each[i] /\ each[i][1] = x
  BY <1>6
<1>8. \E b \in DOMAIN FlattenSeq(each) : FlattenSeq(each)[b] = each[i][1]
  BY <1>4, <1>5, <1>7, FlattenHas
<1> QED BY <1>1, <1>7, <1>8 DEF x

\* A bucket has the groups of one that joins and the rows of all that say the same;
\* no two buckets say the same, and each that joins is in one.
LEMMA BucketedIs ==
  ASSUME NEW C, NEW R, NEW met \in Seq(Arrivals(C, R))
  PROVE  /\ \A n \in DOMAIN Bucketed(met) : \E i \in DOMAIN met :
              /\ Bucketed(met)[n].groups = met[i].groups
              /\ Bucketed(met)[n].rows = RowsSaying(C, R, Says(met[i].groups))[met]
         /\ \A n, m \in DOMAIN Bucketed(met) :
              Says(Bucketed(met)[n].groups) = Says(Bucketed(met)[m].groups) => n = m
         /\ \A i \in DOMAIN met : \E n \in DOMAIN Bucketed(met) :
              \E b \in DOMAIN Bucketed(met)[n].rows : Bucketed(met)[n].rows[b] = met[i].row
<1> DEFINE said == [i \in DOMAIN met |-> Says(met[i].groups)]
           AllSaid == {said[i] : i \in DOMAIN met}
           keys == Distinct(said)
           At(key) == {i \in DOMAIN met : said[i] = key}
           Joined(key) == Picked(met, At(key))
           after == Bucketed(met)
<1>1. Len(met) \in Nat /\ DOMAIN met = 1 .. Len(met) /\ \A i \in DOMAIN met : met[i] \in Arrivals(C, R)
  OBVIOUS
<1>2. said \in Seq(AllSaid) /\ DOMAIN said = DOMAIN met
  BY <1>1
<1>3. after = [n \in DOMAIN keys |-> Bucket(Joined(keys[n]))]
  BY DEF Bucketed
<1>4. \A i \in DOMAIN met : said[i] = Says(met[i].groups)
  OBVIOUS
<1> HIDE DEF AllSaid, said, after
<1>5. /\ \A a, b \in DOMAIN keys : keys[a] = keys[b] => a = b
      /\ \A a \in DOMAIN keys : \E i \in DOMAIN met : keys[a] = said[i]
      /\ \A i \in DOMAIN met : \E a \in DOMAIN keys : keys[a] = said[i]
  BY <1>2, DistinctIs
<1> HIDE DEF keys
<1>6. ASSUME NEW n \in DOMAIN keys
      PROVE  \E i \in DOMAIN met :
               /\ keys[n] = Says(met[i].groups) /\ after[n].groups = met[i].groups
               /\ after[n].rows = RowsFrom(Joined(keys[n]))
  <2> DEFINE joined == Joined(keys[n])
  <2>1. PICK k \in DOMAIN met : keys[n] = said[k]
    BY <1>5
  <2>2. joined # <<>> /\ joined \in Seq({met[i] : i \in At(keys[n]) \cap DOMAIN met})
    <3>1. k \in At(keys[n])
      BY <2>1
    <3> HIDE DEF At
    <3> QED BY <3>1, PickedSome, PickedTyped
  <2> HIDE DEF Joined
  <2>3. joined[1] \in {met[i] : i \in At(keys[n]) \cap DOMAIN met}
    BY <2>2
  <2>4. PICK i \in DOMAIN met : joined[1] = met[i] /\ said[i] = keys[n]
    BY <2>3
  <2>5. after[n] = Bucket(joined)
    BY <1>3
  <2> HIDE DEF joined, At
  <2>6. after[n].groups = joined[1].groups /\ after[n].rows = RowsFrom(joined)
    BY <2>5 DEF Bucket, RowsFrom
  <2> QED BY <1>4, <2>4, <2>6 DEF joined
<1>7. DOMAIN after = DOMAIN keys
  BY <1>3
<1>8. ASSUME NEW n \in DOMAIN keys
      PROVE  \E i \in DOMAIN met :
               /\ after[n].groups = met[i].groups
               /\ after[n].rows = RowsSaying(C, R, Says(met[i].groups))[met]
  <2>1. PICK i \in DOMAIN met :
          /\ keys[n] = Says(met[i].groups) /\ after[n].groups = met[i].groups
          /\ after[n].rows = RowsFrom(Joined(keys[n]))
    BY <1>6
  <2>2. At(keys[n]) = {k \in DOMAIN met : met[k] \in Saying(C, R, keys[n])}
    BY <1>1, <1>4 DEF Saying
  <2>3. RowsSaying(C, R, keys[n])[met] = RowsFrom(Joined(keys[n]))
    BY <2>2 DEF RowsSaying, Members
  <2> QED BY <2>1, <2>3
<1>9. ASSUME NEW n \in DOMAIN keys, NEW m \in DOMAIN keys, Says(after[n].groups) = Says(after[m].groups)
      PROVE  n = m
  <2>1. keys[n] = keys[m]
    <3> HIDE DEF Joined
    <3>1. Says(after[n].groups) = keys[n] /\ Says(after[m].groups) = keys[m]
      BY <1>6
    <3> QED BY <1>9, <3>1
  <2> QED BY <1>5, <2>1
<1>10. ASSUME NEW i \in DOMAIN met
       PROVE  \E n \in DOMAIN keys : \E b \in DOMAIN after[n].rows : after[n].rows[b] = met[i].row
  <2>1. PICK n \in DOMAIN keys : keys[n] = said[i]
    BY <1>5
  <2> DEFINE joined == Joined(keys[n])
  <2>2. \E b \in DOMAIN joined : joined[b] = met[i]
    <3>1. i \in At(keys[n])
      BY <2>1
    <3> HIDE DEF At
    <3> QED BY <3>1, PickedHas
  <2>3. after[n].rows = RowsFrom(joined)
    BY <1>6
  <2> HIDE DEF joined
  <2>4. PICK b \in DOMAIN joined : joined[b] = met[i]
    BY <2>2
  <2>5. b \in DOMAIN RowsFrom(joined) /\ RowsFrom(joined)[b] = met[i].row
    BY <2>4 DEF RowsFrom
  <2> QED BY <2>3, <2>5
<1> QED BY <1>7, <1>8, <1>9, <1>10 DEF after

\* What joins has a header of the plans.
LEMMA ChosenHeads ==
  ASSUME NEW cells \in Cells, NEW plans \in Seq(Plans), NEW groups \in Cells,
         NEW choice, Chosen(cells, plans, Len(plans), choice)
  PROVE  Over(choice, groups) \in Cells /\ Heading(Over(choice, groups), plans)
<1> DEFINE both == Over(choice, groups)
<1>1. choice \in Cells /\ DOMAIN choice = HeaderOf(plans, Len(plans))
  BY DEF Chosen
<1>2. both \in Cells /\ DOMAIN both = DOMAIN choice \cup DOMAIN groups
        /\ \A k \in DOMAIN choice : both[k] = choice[k]
  BY <1>1, OverIs
<1> HIDE DEF both
<1>3. ASSUME NEW m \in DOMAIN plans
      PROVE  plans[m].header \in DOMAIN both /\ Heads(both[plans[m].header], plans[m])
  <2>1. m \in 1 .. Len(plans) /\ plans[m] \in Plans
    OBVIOUS
  <2>2. plans[m].header \in DOMAIN choice
    BY <1>1, <2>1 DEF HeaderOf
  <2>3. PICK j \in DOMAIN GroupValues(cells, plans[m]) :
          choice[plans[m].header] = GroupValues(cells, plans[m])[j]
    BY <2>1 DEF Chosen
  <2>4. ValuesAre(cells, plans[m], GroupValues(cells, plans[m]))
    BY <2>1, ValuesOf
  <2>5. Heads(GroupValues(cells, plans[m])[j], plans[m])
    BY <2>4 DEF ValuesAre, Heads
  <2> QED BY <1>2, <2>2, <2>3, <2>5
<1>4. Heading(both, plans)
  BY <1>3 DEF Heading
<1> QED BY <1>2, <1>4 DEF both

\* Every row joins a group at least, and what it joins has a header of the plans.
LEMMA PartJoins ==
  ASSUME NEW part \in CellParts, NEW plans \in Seq(Plans), Unlike(plans)
  PROVE  /\ JoiningAll(part, plans) \in Seq(CellArrivals)
         /\ \A a \in DOMAIN JoiningAll(part, plans) :
              /\ JoiningAll(part, plans)[a].groups \in Cells
              /\ Heading(JoiningAll(part, plans)[a].groups, plans)
         /\ \A i \in DOMAIN part.rows : \E a \in DOMAIN JoiningAll(part, plans) :
              JoiningAll(part, plans)[a].row = part.rows[i]
<1> DEFINE Headers(i) == GroupHeaders(part.rows[i].cells, plans)
           each == [i \in DOMAIN part.rows |-> Joining(part, part.rows[i], Headers(i))]
           all == JoiningAll(part, plans)
<1>1. part.rows \in Seq(CellRows) /\ Len(part.rows) \in Nat /\ DOMAIN part.rows = 1 .. Len(part.rows)
  BY DEF CellParts, PartsOf
<1>2. DOMAIN each = DOMAIN part.rows
  OBVIOUS
<1>3. all = FlattenSeq(each)
  BY DEF JoiningAll
<1>4. ASSUME NEW i \in DOMAIN part.rows
      PROVE  /\ each[i] \in Seq(CellArrivals) /\ DOMAIN each[i] # {}
             /\ \A b \in DOMAIN each[i] : /\ each[i][b].groups \in Cells /\ Heading(each[i][b].groups, plans)
                                          /\ each[i][b].row = part.rows[i]
  <2> DEFINE row == part.rows[i]
             headers == GroupHeaders(row.cells, plans)
             met == Joining(part, row, headers)
  <2>1. row \in CellRows
    BY JoiningTyped
  <2>2. each[i] = met
    OBVIOUS
  <2> HIDE DEF row, each
  <2>3. row.cells \in Cells /\ part.groups \in Cells
    BY <2>1 DEF CellRows, RowsOf, CellParts, PartsOf
  <2>4. /\ headers \in Seq(Cells) /\ DOMAIN headers # {}
        /\ \A a \in DOMAIN headers : Chosen(row.cells, plans, Len(plans), headers[a])
    BY <2>3, HeadersAre DEF ChoicesAre, Unlike
  <2> HIDE DEF headers
  <2>5. /\ met \in Seq(CellArrivals) /\ DOMAIN met = DOMAIN headers
        /\ \A a \in DOMAIN headers : met[a].row = row /\ met[a].groups = Over(headers[a], part.groups)
    BY <2>1, <2>4, JoiningIs
  <2> HIDE DEF met
  <2>6. \A a \in DOMAIN headers : met[a].groups \in Cells /\ Heading(met[a].groups, plans)
    BY <2>3, <2>4, <2>5, ChosenHeads
  <2> QED BY <2>2, <2>4, <2>5, <2>6 DEF row
<1> HIDE DEF each, all
<1>5. each \in Seq(Seq(CellArrivals))
  <2> DEFINE N == Len(part.rows)
  <2>1. each = [i \in 1 .. N |-> each[i]] /\ N \in Nat
    BY <1>1, <1>2 DEF each
  <2>2. \A i \in 1 .. N : each[i] \in Seq(CellArrivals)
    BY <1>1, <1>4
  <2> HIDE DEF N
  <2> QED BY <2>1, <2>2
<1>6. /\ \A a \in DOMAIN all : \E i \in DOMAIN each : \E j \in DOMAIN each[i] : all[a] = each[i][j]
      /\ \A i \in DOMAIN each : \A j \in DOMAIN each[i] : \E a \in DOMAIN all : all[a] = each[i][j]
  BY <1>3, <1>5, FlattenHas
<1>7. \A a \in DOMAIN all : all[a].groups \in Cells /\ Heading(all[a].groups, plans)
  BY <1>2, <1>4, <1>6
<1>8. ASSUME NEW i \in DOMAIN part.rows PROVE \E a \in DOMAIN all : all[a].row = part.rows[i]
  <2>1. PICK b \in DOMAIN each[i] : TRUE
    BY <1>4
  <2>2. PICK a \in DOMAIN all : all[a] = each[i][b]
    BY <1>2, <1>6
  <2> QED BY <1>4, <2>2
<1>9. all \in Seq(CellArrivals)
  BY <1>3, <1>5, FlattenTyped
<1> QED BY <1>7, <1>8, <1>9 DEF all

\* All that joins the groups.
Meeting(parts, plans) == FlattenSeq([i \in DOMAIN parts |-> JoiningAll(parts[i], plans)])

\* All have such headers, and every row is among them.
JoinAll(parts, plans, met) ==
  /\ met \in Seq(CellArrivals)
  /\ \A a \in DOMAIN met : met[a].groups \in Cells /\ Heading(met[a].groups, plans)
  /\ \A i \in DOMAIN parts : \A j \in DOMAIN parts[i].rows :
       \E a \in DOMAIN met : met[a].row = parts[i].rows[j]

LEMMA AllJoin ==
  ASSUME NEW parts \in Seq(CellParts), NEW plans \in Seq(Plans), Unlike(plans)
  PROVE  JoinAll(parts, plans, Meeting(parts, plans))
<1> DEFINE met == Meeting(parts, plans)
           each == [i \in DOMAIN parts |-> JoiningAll(parts[i], plans)]
           N == Len(parts)
<1>1. N \in Nat /\ DOMAIN parts = 1 .. N
  OBVIOUS
<1>2. DOMAIN each = DOMAIN parts /\ met = FlattenSeq(each)
  BY DEF Meeting
<1>3. \A i \in DOMAIN parts :
        /\ each[i] \in Seq(CellArrivals)
        /\ \A b \in DOMAIN each[i] : each[i][b].groups \in Cells /\ Heading(each[i][b].groups, plans)
        /\ \A j \in DOMAIN parts[i].rows : \E b \in DOMAIN each[i] : each[i][b].row = parts[i].rows[j]
  <2> TAKE i \in DOMAIN parts
  <2> DEFINE part == parts[i]
             all == JoiningAll(part, plans)
  <2>1. part \in CellParts
    OBVIOUS
  <2>2. each[i] = all
    OBVIOUS
  <2> HIDE DEF part, each
  <2>3. /\ all \in Seq(CellArrivals)
        /\ \A a \in DOMAIN all : all[a].groups \in Cells /\ Heading(all[a].groups, plans)
        /\ \A j \in DOMAIN part.rows : \E a \in DOMAIN all : all[a].row = part.rows[j]
    BY <2>1, PartJoins
  <2> HIDE DEF all
  <2> QED BY <2>2, <2>3 DEF part
<1> HIDE DEF each, N, met
<1>4. each \in Seq(Seq(CellArrivals))
  <2>1. each = [i \in 1 .. N |-> each[i]] /\ N \in Nat
    BY <1>1, <1>2 DEF each
  <2>2. \A i \in 1 .. N : each[i] \in Seq(CellArrivals)
    BY <1>1, <1>3
  <2> QED BY <2>1, <2>2
<1>5. /\ \A a \in DOMAIN met : \E i \in DOMAIN each : \E j \in DOMAIN each[i] : met[a] = each[i][j]
      /\ \A i \in DOMAIN each : \A j \in DOMAIN each[i] : \E a \in DOMAIN met : met[a] = each[i][j]
  BY <1>2, <1>4, FlattenHas
<1>6. \A a \in DOMAIN met : met[a].groups \in Cells /\ Heading(met[a].groups, plans)
  BY <1>2, <1>3, <1>5
<1>7. ASSUME NEW i \in DOMAIN parts, NEW j \in DOMAIN parts[i].rows
      PROVE  \E a \in DOMAIN met : met[a].row = parts[i].rows[j]
  <2>1. PICK b \in DOMAIN each[i] : each[i][b].row = parts[i].rows[j]
    BY <1>3
  <2>2. PICK a \in DOMAIN met : met[a] = each[i][b]
    BY <1>2, <1>5
  <2> QED BY <2>1, <2>2
<1>8. met \in Seq(CellArrivals)
  BY <1>2, <1>4, FlattenTyped
<1> QED BY <1>6, <1>7, <1>8 DEF JoinAll, met

\* What G makes of a result, row by row.
ExactGroups(set, plans, after) ==
  /\ \A i, j \in DOMAIN after : Says(after[i].groups) = Says(after[j].groups) => i = j
  /\ \A i \in DOMAIN after :
       after[i].rows = FlattenSeq([k \in DOMAIN set.parts |-> TrueOf(after[i].groups, set.parts[k], plans)])
  /\ \A i \in DOMAIN AllRows(set) : \E j \in DOMAIN after : AllRows(set)[i] \in ToSet(after[j].rows)

\* Grouping is exact, whatever the rows, the groups before and the plans.
LEMMA GroupedExact ==
  ASSUME NEW set \in Results({}), NEW plans \in Seq(Plans), Unlike(plans)
  PROVE  ExactGroups(set, plans, Grouped(set, plans).parts)
<1> DEFINE parts == set.parts
           met == Meeting(parts, plans)
           after == Bucketed(met)
           rows == AllRows(set)
<1>1. parts \in Seq(CellParts)
  BY SameRows DEF Results, CellParts, CellRows, Cells
<1>2. Grouped(set, plans).parts = after
  BY DEF Grouped, Meeting
<1>3. rows = FlattenSeq([i \in DOMAIN parts |-> parts[i].rows])
  BY DEF AllRows
<1> HIDE DEF parts
<1>4. JoinAll(parts, plans, met)
  BY <1>1, AllJoin
<1>5. ASSUME NEW header \in Cells, Heading(header, plans)
      PROVE  RowsOfHeader(header)[met] = FlattenSeq([k \in DOMAIN parts |-> TrueOf(header, parts[k], plans)])
  BY <1>1, <1>5, GroupRows DEF Meeting
<1> HIDE DEF met, after, rows
<1>6. /\ met \in Seq(CellArrivals)
      /\ \A a \in DOMAIN met : met[a].groups \in Cells /\ Heading(met[a].groups, plans)
      /\ \A i \in DOMAIN parts : \A j \in DOMAIN parts[i].rows :
           \E a \in DOMAIN met : met[a].row = parts[i].rows[j]
  BY <1>4 DEF JoinAll
<1>7. /\ \A n \in DOMAIN after : \E i \in DOMAIN met :
           /\ after[n].groups = met[i].groups
           /\ after[n].rows = RowsSaying(Cells, CellRows, Says(met[i].groups))[met]
      /\ \A n, m \in DOMAIN after : Says(after[n].groups) = Says(after[m].groups) => n = m
      /\ \A i \in DOMAIN met : \E n \in DOMAIN after :
           \E b \in DOMAIN after[n].rows : after[n].rows[b] = met[i].row
  BY <1>6, BucketedIs DEF after, CellArrivals
<1>8. ASSUME NEW n \in DOMAIN after
      PROVE  after[n].rows = FlattenSeq([k \in DOMAIN parts |-> TrueOf(after[n].groups, parts[k], plans)])
  <2>1. PICK i \in DOMAIN met :
          /\ after[n].groups = met[i].groups
          /\ after[n].rows = RowsSaying(Cells, CellRows, Says(met[i].groups))[met]
    BY <1>7
  <2> DEFINE header == met[i].groups
  <2>2. header \in Cells /\ Heading(header, plans)
    BY <1>6
  <2>3. after[n].rows = RowsOfHeader(header)[met] /\ after[n].groups = header
    BY <2>1 DEF RowsOfHeader
  <2> HIDE DEF header
  <2>4. RowsOfHeader(header)[met] = FlattenSeq([k \in DOMAIN parts |-> TrueOf(header, parts[k], plans)])
    BY <1>5, <2>2
  <2> QED BY <2>3, <2>4
<1>9. ASSUME NEW i \in DOMAIN rows PROVE \E j \in DOMAIN after : rows[i] \in ToSet(after[j].rows)
  <2> DEFINE each == [k \in DOMAIN parts |-> parts[k].rows]
  <2>1. each \in Seq(Seq(CellRows)) /\ DOMAIN each = DOMAIN parts /\ \A k \in DOMAIN parts : each[k] = parts[k].rows
    <3> DEFINE N == Len(parts)
    <3>1. N \in Nat /\ DOMAIN parts = 1 .. N /\ \A k \in DOMAIN parts : parts[k] \in CellParts
      BY <1>1
    <3>2. \A k \in DOMAIN parts : parts[k].rows \in Seq(CellRows)
      BY <3>1 DEF CellParts, PartsOf
    <3> HIDE DEF N
    <3>3. each \in Seq(Seq(CellRows))
      BY <3>1, <3>2
    <3> QED BY <3>3
  <2>2. rows = FlattenSeq(each)
    BY <1>3
  <2> HIDE DEF each
  <2>3. PICK k \in DOMAIN parts : \E j \in DOMAIN each[k] : rows[i] = each[k][j]
    BY <2>1, <2>2, FlattenHas
  <2>4. PICK j \in DOMAIN parts[k].rows : rows[i] = parts[k].rows[j]
    BY <2>1, <2>3
  <2>5. PICK a \in DOMAIN met : met[a].row = rows[i]
    BY <1>6, <2>4
  <2>6. PICK n \in DOMAIN after : \E b \in DOMAIN after[n].rows : after[n].rows[b] = met[a].row
    BY <1>7
  <2>7. rows[i] \in ToSet(after[n].rows)
    BY <2>5, <2>6 DEF ToSet
  <2> QED BY <2>7
<1>10. ExactGroups(set, plans, after)
  BY <1>7, <1>8, <1>9 DEF ExactGroups, parts, rows
<1> QED BY <1>2, <1>10

\* As GroupingIsExact states it.
LEMMA ExactGrouping ==
  ASSUME last.set \in Results({}), last.plans \in Seq(Plans), Unlike(last.plans),
         output.set = Grouped(last.set, last.plans)
  PROVE  GroupingIsExact
<1> DEFINE before == last.set.parts
           after == output.set.parts
           plans == last.plans
           named == {p.header : p \in ToSet(plans)}
           Others(groups) == Says([k \in DOMAIN groups \ named |-> groups[k]])
           At(part, i) == {j \in DOMAIN before[i].rows :
             /\ Others(part.groups) = Others(before[i].groups)
             /\ \A n \in DOMAIN plans : Admits(part.groups, before[i].rows[j].cells, plans[n])}
<1>1. ExactGroups(last.set, plans, after)
  BY GroupedExact
<1>2. named = HeaderOf(plans, Len(plans))
  <2>1. DOMAIN plans = 1 .. Len(plans)
    OBVIOUS
  <2> QED BY <2>1 DEF HeaderOf, ToSet
<1>3. \A groups : Others(groups) = Rest(groups, HeaderOf(plans, Len(plans)))
  BY <1>2 DEF Rest
<1> HIDE DEF Others, named
<1>4. \A part, i : TrueOf(part.groups, before[i], plans) = Picked(before[i].rows, At(part, i))
  <2> TAKE part, i
  <2>1. At(part, i) = {j \in DOMAIN before[i].rows :
                         Belongs(part.groups, before[i].groups, before[i].rows[j].cells, plans)}
    BY <1>3 DEF Belongs
  <2> QED BY <2>1 DEF TrueOf
<1> HIDE DEF At
<1>5. \A i \in DOMAIN after :
        after[i].rows = FlattenSeq([k \in DOMAIN before |-> Picked(before[k].rows, At(after[i], k))])
  <2> TAKE i \in DOMAIN after
  <2>1. after[i].rows = FlattenSeq([k \in DOMAIN before |-> TrueOf(after[i].groups, before[k], plans)])
    BY <1>1 DEF ExactGroups
  <2>2. [k \in DOMAIN before |-> TrueOf(after[i].groups, before[k], plans)]
          = [k \in DOMAIN before |-> Picked(before[k].rows, At(after[i], k))]
    BY <1>4
  <2> QED BY <2>1, <2>2
<1>6. /\ \A i, j \in DOMAIN after : Says(after[i].groups) = Says(after[j].groups) => i = j
      /\ \A i \in DOMAIN AllRows(last.set) : \E j \in DOMAIN after : AllRows(last.set)[i] \in ToSet(after[j].rows)
  BY <1>1 DEF ExactGroups
<1> QED BY <1>5, <1>6 DEF GroupingIsExact, At, Others, named

\* What the last stage was applied to, and what it was if it grouped.
GroupedLast ==
  last.verb = "G" =>
    /\ last.set \in Results({}) /\ last.plans \in Seq(Plans) /\ Unlike(last.plans)
    /\ output.set = Grouped(last.set, last.plans)

\* What the stage G is applied to, and what it makes of it.
LEMMA StageGroups ==
  ASSUME PipelineInv, NEW stage \in Stages, stage.verb = "G"
  PROVE  /\ output.set \in Results({}) /\ stage.plans \in Seq(Plans) /\ Unlike(stage.plans)
         /\ Advance(output, stage).set = Grouped(output.set, stage.plans)
<1>1. output.set \in Results({})
  <2>1. output.set \in Results(Said(output))
    BY DEF PipelineInv, OutputFits
  <2>2. {} \subseteq Said(output)
    OBVIOUS
  <2> QED BY <2>1, <2>2, ResultsLess
<1>2. stage.plans \in Seq(Plans) /\ Unlike(stage.plans)
  BY StageTyped DEF Unlike
<1>3. ~ Keeps(output.set, stage)
  BY DEF Keeps
<1>4. Advance(output, stage).set = Apply(output.set, stage)
  BY <1>3 DEF Advance
<1>5. Apply(output.set, stage) = Grouped(output.set, stage.plans)
  BY DEF Apply
<1> QED BY <1>1, <1>2, <1>4, <1>5

\* Whatever rows and groups G meets, behind whatever stages and for any plans: its
\* groups are told apart by their headers, each holds all the rows that its header
\* is true of, once and in their order, and no row is in none (resolve_group_values,
\* resolve_group_headers, GroupBuckets::push).
THEOREM GroupsAreExact == OutputSpec => []GroupingIsExact
<1>0. NoStage.verb # "G"
  BY DEF NoStage
<1>1. OutputInit => GroupedLast
  BY <1>0 DEF OutputInit, GroupedLast
<1>2. PipelineInv /\ GroupedLast /\ [OutputNext]_outputVars => GroupedLast'
  <2> SUFFICES ASSUME PipelineInv, GroupedLast, [OutputNext]_outputVars PROVE GroupedLast'
    OBVIOUS
  <2>1. CASE Produce
    <3>1. last' = NoStage
      BY <2>1 DEF Produce, Produces
    <3> QED BY <1>0, <3>1 DEF GroupedLast
  <2>2. ASSUME NEW stage \in Stages, RunStage(stage) PROVE GroupedLast'
    <3>1. CASE UNCHANGED <<output, last>>
      BY <3>1 DEF GroupedLast
    <3>2. ASSUME output' = Advance(output, stage),
                 last' = [verb |-> stage.verb, set |-> output.set,
                          plans |-> IF stage.verb = "G" THEN stage.plans ELSE <<>>]
          PROVE  GroupedLast'
      <4>1. CASE stage.verb # "G"
        BY <3>2, <4>1 DEF GroupedLast
      <4>2. CASE stage.verb = "G"
        <5>1. last'.set = output.set /\ last'.plans = stage.plans
          BY <3>2, <4>2
        <5>2. output'.set = Grouped(output.set, stage.plans)
          BY <3>2, <4>2, StageGroups
        <5> QED BY <4>2, <5>1, <5>2, StageGroups DEF GroupedLast
      <4> QED BY <4>1, <4>2
    <3> QED BY <2>2, <3>1, <3>2 DEF RunStage
  <2>3. ASSUME NEW stage \in Stages, RefuseStage(stage) PROVE GroupedLast'
    BY <2>3 DEF RefuseStage, GroupedLast
  <2>4. CASE UNCHANGED outputVars
    BY <2>4 DEF outputVars, GroupedLast
  <2> QED BY <2>1, <2>2, <2>3, <2>4 DEF OutputNext
<1>3. GroupedLast => GroupingIsExact
  <2> SUFFICES ASSUME GroupedLast PROVE GroupingIsExact
    OBVIOUS
  <2>1. CASE last.verb = "G"
    BY <2>1, ExactGrouping DEF GroupedLast
  <2>2. CASE last.verb # "G"
    BY <2>2 DEF GroupingIsExact
  <2> QED BY <2>1, <2>2
<1> QED BY <1>1, <1>2, <1>3, OutputFitsAlways, PTL DEF OutputSpec

=============================================================================
