--------------------------- MODULE ReplLine_proofs ---------------------------
(***************************************************************************)
(* Proofs about ReplLine: what reaches the history file, what a line of a  *)
(* batch leaves alone and, when no transaction fails, that memory and the  *)
(* kept line follow the file, for any lines, shells, batches and depth.    *)
(***************************************************************************)
EXTENDS ReplLine, HistoryRecords_proofs

-----------------------------------------------------------------------------
(* Sequences. *)

\* The innermost line and the lines around it.
LEMMA LastAndFront ==
  ASSUME NEW S, NEW s \in Seq(S), s # <<>>
  PROVE  /\ Last(s) \in S /\ Last(s) = s[Len(s)]
         /\ Front(s) \in Seq(S) /\ Len(Front(s)) = Len(s) - 1
         /\ \A i \in 1 .. Len(s) - 1 : Front(s)[i] = s[i]
<1>1. Len(s) \in Nat /\ Len(s) > 0
  BY EmptySeq
<1>2. Len(s) - 1 \in 0 .. Len(s) /\ \A i \in 1 .. Len(s) - 1 : i \in 1 .. Len(s)
  BY <1>1
<1>3. Last(s) \in S /\ Last(s) = s[Len(s)]
  BY <1>1 DEF Last
<1>4. \A i \in 1 .. Len(s) - 1 : s[i] \in S
  BY <1>1, <1>2
<1>5. /\ Front(s) \in Seq(S) /\ Len(Front(s)) = Len(s) - 1
      /\ \A i \in 1 .. Len(s) - 1 : Front(s)[i] = s[i]
  <2> DEFINE n == Len(s) - 1
             f == SubSeq(s, 1, n)
  <2>1. n \in Nat /\ \A i \in 1 .. n : s[i] \in S
    BY <1>1, <1>4
  <2> HIDE DEF n
  <2>2. f \in Seq(S) /\ Len(f) = IF 1 <= n THEN n - 1 + 1 ELSE 0
    BY <2>1, SubSeqProperties
  <2>3. \A i \in 1 .. n - 1 + 1 : f[i] = s[1 + i - 1]
    BY <2>1, SubSeqProperties
  <2>4. Len(f) = n /\ \A i \in 1 .. n : f[i] = s[i]
    BY <2>1, <2>2, <2>3
  <2> QED BY <2>2, <2>4 DEF Front, n
<1> QED BY <1>3, <1>5

\* A suffix, position by position.
LEMMA SuffixPositions ==
  ASSUME NEW S, NEW s \in Seq(S), NEW t \in Seq(S)
  PROVE  IsSuffix(s, t) <=>
           Len(s) <= Len(t) /\ \A i \in 1 .. Len(s) : s[i] = t[Len(t) - Len(s) + i]
<1> DEFINE m == Len(s)
           n == Len(t)
           u == Reverse(s)
           v == Reverse(t)
<1>1. m \in Nat /\ n \in Nat
  OBVIOUS
<1>2. u \in Seq(S) /\ Len(u) = m /\ \A i \in 1 .. m : u[i] = s[m - i + 1]
  BY <1>1 DEF Reverse
<1>3. v \in Seq(S) /\ Len(v) = n /\ \A i \in 1 .. n : v[i] = t[n - i + 1]
  BY <1>1 DEF Reverse
<1>4. IsSuffix(s, t) <=> m <= n /\ SubSeq(u, 1, m) = SubSeq(v, 1, m)
  BY <1>2, <1>3 DEF IsSuffix, IsPrefix
<1> HIDE DEF u, v
<1>5. CASE m <= n
  <2>1. SubSeq(u, 1, m) \in Seq(S) /\ SubSeq(v, 1, m) \in Seq(S)
    BY <1>1, <1>2, <1>3, <1>5
  <2>2. Len(SubSeq(u, 1, m)) = m /\ Len(SubSeq(v, 1, m)) = m
    BY <1>1, <1>2, <1>3, <1>5
  <2>3. ASSUME NEW i \in 1 .. m
        PROVE  SubSeq(u, 1, m)[i] = s[m - i + 1] /\ SubSeq(v, 1, m)[i] = t[n - i + 1]
    BY <1>1, <1>2, <1>3, <1>5
  <2>4. SubSeq(u, 1, m) = SubSeq(v, 1, m)
          <=> \A i \in 1 .. m : s[m - i + 1] = t[n - i + 1]
    <3> DEFINE x == SubSeq(u, 1, m)
               y == SubSeq(v, 1, m)
    <3>1. x = y <=> \A i \in 1 .. m : x[i] = y[i]
      <4> HIDE DEF x, y
      <4> QED BY <2>1, <2>2, SeqEqual DEF x, y
    <3> QED BY <3>1, <2>3
  <2>5. (\A i \in 1 .. m : s[m - i + 1] = t[n - i + 1])
          <=> \A i \in 1 .. m : s[i] = t[n - m + i]
    <3>1. ASSUME NEW i \in 1 .. m, \A k \in 1 .. m : s[m - k + 1] = t[n - k + 1]
          PROVE  s[i] = t[n - m + i]
      <4>1. m - i + 1 \in 1 .. m /\ m - (m - i + 1) + 1 = i /\ n - (m - i + 1) + 1 = n - m + i
        BY <1>1
      <4> QED BY <3>1, <4>1
    <3>2. ASSUME NEW i \in 1 .. m, \A k \in 1 .. m : s[k] = t[n - m + k]
          PROVE  s[m - i + 1] = t[n - i + 1]
      <4>1. m - i + 1 \in 1 .. m /\ n - m + (m - i + 1) = n - i + 1
        BY <1>1
      <4> QED BY <3>2, <4>1
    <3> QED BY <3>1, <3>2
  <2> QED BY <1>4, <1>5, <2>4, <2>5
<1>6. CASE ~(m <= n)
  BY <1>4, <1>6
<1> QED BY <1>5, <1>6

\* A sequence is a suffix of itself, and a suffix has the same newest element.
LEMMA SuffixFacts ==
  ASSUME NEW S, NEW s \in Seq(S), NEW t \in Seq(S)
  PROVE  /\ IsSuffix(s, s)
         /\ IsSuffix(s, t) => Len(s) <= Len(t)
         /\ IsSuffix(s, t) /\ s # <<>> => t # <<>> /\ Newest(t) = Newest(s)
<1>1. IsSuffix(s, s)
  BY SuffixPositions
<1>2. ASSUME IsSuffix(s, t), s # <<>> PROVE t # <<>> /\ Newest(t) = Newest(s)
  <2>1. Len(s) \in Nat /\ Len(s) > 0 /\ Len(t) \in Nat /\ Len(s) <= Len(t)
    BY <1>2, SuffixPositions, EmptySeq
  <2>2. s[Len(s)] = t[Len(t) - Len(s) + Len(s)]
    BY <1>2, <2>1, SuffixPositions
  <2> QED BY <2>1, <2>2 DEF Newest
<1> QED BY <1>1, <1>2, SuffixPositions

\* What is in front of a record that was appended and trimmed is a suffix of what
\* there was before.
LEMMA FrontOfTrimmed ==
  ASSUME NEW S, NEW s \in Seq(S), NEW t \in Seq(S), NEW x \in S, IsSuffix(s, t)
  PROVE  IsSuffix(Front(Trim(Append(s, x))), t)
<1> DEFINE a == Append(s, x)
           b == Trim(a)
           f == Front(b)
<1>1. a \in Seq(S) /\ Len(a) = Len(s) + 1 /\ \A i \in 1 .. Len(s) : a[i] = s[i]
  OBVIOUS
<1>2. b \in Seq(S) /\ b # <<>> /\ Len(b) <= Len(a) /\ Len(b) \in Nat
  <2>1. a # <<>> /\ MaxEntries \in Nat
    BY CapacityAssumption
  <2> HIDE DEF a
  <2>2. b \in Seq(S) /\ b # <<>> /\ Len(b) = IF Len(a) > MaxEntries THEN MaxEntries ELSE Len(a)
    BY <1>1, <2>1, TrimProperties
  <2> QED BY <1>1, <2>1, <2>2
<1>3. f \in Seq(S) /\ Len(f) = Len(b) - 1 /\ \A i \in 1 .. Len(b) - 1 : f[i] = b[i]
  BY <1>2, LastAndFront
<1>4. Len(b) > 0
  BY <1>2, EmptySeq
<1>5. ASSUME NEW i \in 1 .. Len(f) PROVE f[i] = t[Len(t) - Len(f) + i]
  <2>1. i \in DOMAIN b
    BY <1>2, <1>3, <1>4
  <2>2. b[i] = a[Len(a) - Len(b) + i]
    BY <1>1, <2>1, TrimPositions
  <2> DEFINE k == Len(s) - Len(f) + i
  <2>3. k \in 1 .. Len(s) /\ Len(a) - Len(b) + i = k
    BY <1>1, <1>2, <1>3, <1>4
  <2>4. s[k] = t[Len(t) - Len(s) + k]
    BY <2>3, SuffixPositions
  <2> QED BY <1>1, <1>3, <2>2, <2>3, <2>4
<1>6. Len(f) <= Len(t)
  BY <1>1, <1>2, <1>3, <1>4, SuffixPositions
<1> HIDE DEF f
<1>7. IsSuffix(f, t)
  BY <1>3, <1>5, <1>6, SuffixPositions
<1> QED BY <1>7 DEF f

-----------------------------------------------------------------------------
(* Lines and the operations of the store on them. *)

Histories == [file : Seq(Text), store : TextStore]

\* A prefix is put before a line, and taken away, within the text.
LEMMA PrefixTyped ==
  ASSUME NEW p \in ScopePrefixes, NEW line \in Text
  PROVE  ApplyPrefix(p, line) \in Text /\ StripPrefix(p, line) \in Text
<1>1. p \in Text
  <2>1. CASE p = <<>>
    BY <2>1 DEF Text
  <2>2. ASSUME NEW word \in ShellWords, p = <<word>> PROVE p \in Text
    BY <2>2 DEF Text, Vocabulary
  <2> QED BY <2>1, <2>2 DEF ScopePrefixes
<1>2. ApplyPrefix(p, line) \in Text
  BY <1>1 DEF ApplyPrefix, Text
<1>3. StripPrefix(p, line) \in Text
  <2>1. CASE p # <<>> /\ InShell(p, line)
    <3>1. line # <<>>
      BY <2>1 DEF InShell, Text
    <3> QED BY <2>1, <3>1 DEF StripPrefix, Text
  <2> QED BY <2>1 DEF StripPrefix
<1> QED BY <1>2, <1>3

\* A queued command is a line wherever it is read.
LEMMA InScopeTyped ==
  ASSUME NEW p \in ScopePrefixes, NEW line \in Text
  PROVE  InScope(p, line) \in Text
<1> DEFINE sudo    == Len(line) > 1 /\ Head(line) = "sudo"
           command == IF sudo THEN Tail(line) ELSE line
<1>1. command \in Seq(Vocabulary)
  BY DEF Text
<1>2. sudo => "sudo" \in Vocabulary
  BY DEF Text
<1>3. command # <<>> => Tail(command) \in Seq(Vocabulary)
  <2> HIDE DEF command
  <2> QED BY <1>1
<1>4. sudo /\ command # <<>> => <<"sudo">> \o Tail(command) \in Seq(Vocabulary)
  <2> HIDE DEF command, sudo
  <2> QED BY <1>2, <1>3
<1> QED BY <1>3, <1>4 DEF InScope, Text

\* The name of a shell adds nothing sensitive.
LEMMA PrefixNotSensitive ==
  ASSUME NEW p \in ScopePrefixes, NEW line \in Text, ~Sensitive(line)
  PROVE  ~Sensitive(ApplyPrefix(p, line))
<1>1. CASE ApplyPrefix(p, line) = line
  BY <1>1
<1>2. CASE ApplyPrefix(p, line) = p \o line /\ p # <<>>
  <2>1. PICK word \in ShellWords : p = <<word>>
    BY <1>2 DEF ScopePrefixes
  <2>2. word \notin SensitiveWords
    BY ShellsAssumption
  <2>3. \A i \in DOMAIN line : line[i] \notin SensitiveWords
    BY DEF Sensitive
  <2> DEFINE full == <<word>> \o line
  <2>4. DOMAIN line = 1 .. Len(line) /\ Len(line) \in Nat /\ DOMAIN full = 1 .. Len(line) + 1
    BY DEF Text, Vocabulary
  <2>5. ASSUME NEW i \in DOMAIN full PROVE full[i] = IF i = 1 THEN word ELSE line[i - 1]
    BY <2>4 DEF Text, Vocabulary
  <2>6. ASSUME NEW i \in DOMAIN full PROVE full[i] \notin SensitiveWords
    <3>1. i # 1 => i - 1 \in DOMAIN line
      BY <2>4
    <3> HIDE DEF full
    <3> QED BY <2>2, <2>3, <2>5, <3>1
  <2>7. ~Sensitive(full)
    <3> HIDE DEF full
    <3> QED BY <2>6 DEF Sensitive
  <2> QED BY <1>2, <2>1, <2>7
<1> QED BY <1>1, <1>2 DEF ApplyPrefix

\* A line is saved as a line of the store.
LEMMA SaveTyped ==
  ASSUME NEW st \in TextStore, NEW p \in ScopePrefixes, NEW line \in Text
  PROVE  Save(st, p, line) \in TextStore
<1> DEFINE full == ApplyPrefix(p, line)
           appended == Trim(Append(st.records, full))
<1>1. full \in Text
  BY PrefixTyped
<1>2. Append(st.records, full) \in Seq(Text)
  BY <1>1 DEF TextStore
<1>3. appended \in Seq(Text) /\ Len(appended) \in Nat
  <2>1. Trim(Append(st.records, full)) \in Seq(Text)
    BY <1>2, TrimProperties
  <2> HIDE DEF appended
  <2>2. appended \in Seq(Text)
    BY <2>1 DEF appended
  <2> QED BY <2>2, LenProperties
<1> HIDE DEF full, appended
<1>4. [st EXCEPT !.pending = None] \in TextStore
  BY DEF TextStore
<1>5. [st EXCEPT !.records = appended,
                 !.pending = [index |-> Len(appended), line |-> full]] \in TextStore
  BY <1>1, <1>3 DEF TextStore
<1> QED BY <1>4, <1>5 DEF Save, full, appended

\* So is the pending line under another text.
LEMMA RenamedTyped ==
  ASSUME NEW st \in TextStore, NEW p \in ScopePrefixes, NEW input \in Text,
         NEW resolved \in Text, NEW keep
  PROVE  Renamed(st, p, input, resolved, keep) \in TextStore
<1> DEFINE expanded == ApplyPrefix(p, resolved)
           other == [st EXCEPT !.pending = [@ EXCEPT !.line = expanded],
                               !.records = [@ EXCEPT ![st.pending.index] = expanded]]
<1>1. expanded \in Text
  BY PrefixTyped
<1>2. ASSUME st.pending # None PROVE other \in TextStore
  <2> HIDE DEF expanded
  <2>1. [st.pending EXCEPT !.line = expanded] \in [index : Nat, line : Text]
    BY <1>1, <1>2 DEF TextStore
  <2>2. [st.records EXCEPT ![st.pending.index] = expanded] \in Seq(Text)
    <3>1. st.records \in Seq(Text) /\ DOMAIN st.records = 1 .. Len(st.records)
      BY DEF TextStore
    <3>2. CASE st.pending.index \in 1 .. Len(st.records)
      BY <1>1, <3>1, <3>2, ExceptSeq
    <3>3. CASE st.pending.index \notin DOMAIN st.records
      <4>1. [st.records EXCEPT ![st.pending.index] = expanded] = st.records
        BY <3>1, <3>3
      <4> QED BY <3>1, <4>1
    <3> QED BY <3>1, <3>2, <3>3
  <2> QED BY <2>1, <2>2 DEF TextStore
<1>3. Renamed(st, p, input, resolved, keep) \in {st, other, Save(st, p, resolved)}
  BY DEF Renamed
<1>4. Renamed(st, p, input, resolved, keep) = other => st.pending # None \/ other = st
         \/ other = Save(st, p, resolved)
  BY DEF Renamed
<1> HIDE DEF other
<1> QED BY <1>2, <1>3, <1>4, SaveTyped

\* A discarded line leaves lines.
LEMMA DiscardedTyped ==
  ASSUME NEW st \in TextStore
  PROVE  Discarded(st) \in TextStore
<1> DEFINE removed == {st.pending.index}
           left == Trim(RemoveIndices(st.records, removed))
<1>1. st.records \in Seq(Text)
  BY DEF TextStore
<1>2. RemoveIndices(st.records, removed) \in Seq(Text)
  BY <1>1, RemoveProperties
<1>3. left \in Seq(Text)
  BY <1>2, TrimProperties
<1> HIDE DEF left
<1> QED BY <1>1, <1>3 DEF Discarded, TextStore, left

\* What is committed.
LEMMA CommittedFacts ==
  ASSUME NEW g \in Seq(Text), NEW line \in Text
  PROVE  LET all == Committed(Load(g), line)
         IN  /\ all \in Seq(Text)
             /\ all # <<>> /\ Newest(all) = line
             /\ Trim(all) = all
             /\ \A i \in DOMAIN all : all[i] = line \/ \E k \in DOMAIN g : all[i] = g[k]
<1> DEFINE seen == Trim(g)
           longer == IF IsDuplicate(seen, line) THEN seen ELSE Append(seen, line)
           all == Trim(longer)
<1>1. seen \in Seq(Text)
  BY TrimProperties
<1>2. longer \in Seq(Text) /\ longer # <<>> /\ Newest(longer) = line
  <2> HIDE DEF seen
  <2>1. CASE IsDuplicate(seen, line)
    BY <1>1, <2>1 DEF IsDuplicate
  <2>2. Append(seen, line) \in Seq(Text) /\ Append(seen, line) # <<>>
          /\ Newest(Append(seen, line)) = line
    BY <1>1 DEF Newest
  <2> QED BY <2>1, <2>2
<1>3. \A i \in DOMAIN seen : \E k \in DOMAIN g : seen[i] = g[k]
  BY TrimPositions
<1>4. \A i \in DOMAIN longer : longer[i] = line \/ \E k \in DOMAIN seen : longer[i] = seen[k]
  <2> HIDE DEF seen
  <2>1. \A i \in DOMAIN Append(seen, line) :
          Append(seen, line)[i] = line \/ \E k \in DOMAIN seen : Append(seen, line)[i] = seen[k]
    BY <1>1
  <2> QED BY <2>1
<1> HIDE DEF longer
<1>5. all \in Seq(Text) /\ all # <<>> /\ Newest(all) = line
  BY <1>2, TrimProperties
<1>6. Len(all) = IF Len(longer) > MaxEntries THEN MaxEntries ELSE Len(longer)
  BY <1>2, TrimProperties
<1>7. Len(all) <= MaxEntries
  BY <1>2, <1>6, CapacityAssumption
<1>8. Trim(all) = all
  <2> HIDE DEF all
  <2> QED BY <1>5, <1>7, TrimProperties
<1>9. \A i \in DOMAIN all : \E k \in DOMAIN longer : all[i] = longer[k]
  BY <1>2, TrimPositions
<1>10. Committed(Load(g), line) = all
  BY DEF Committed, Load, longer
<1> HIDE DEF all, seen
<1> QED BY <1>3, <1>4, <1>5, <1>8, <1>9, <1>10

-----------------------------------------------------------------------------
(* The end of a line, for one history. *)

Kept(input, resolved, admitted) == admitted /\ ~Sensitive(input) /\ ~Excluded(resolved)

\* The store when it is known what the line was resolved to.
Resolved(st, p, input, resolved, admitted) ==
  Renamed(st, p, input, resolved, Kept(input, resolved, admitted))

\* How a line ends: its store is as it was resolved, it is given up, or it is
\* committed.
Ends(h, p, input, resolved, admitted, ok) ==
  LET st  == Resolved(h.store, p, input, resolved, admitted)
      all == Committed(Load(h.file), st.pending.line)
      end == Finalized(h, p, input, resolved, admitted, ok)
      is  == IsPendingFor(st, p, resolved)
  IN  /\ st \in TextStore /\ end \in Histories
      /\ ~is => end.store = st /\ end.file = h.file
      /\ is /\ ~Kept(input, resolved, admitted) =>
           end.store = Discarded(st) /\ end.file = h.file
      /\ is /\ Kept(input, resolved, admitted) /\ ok = TRUE =>
           /\ end.file = Payload(all)
           /\ end.store.records = all
           /\ end.store.pending = None
      /\ is => st.pending.line = ApplyPrefix(p, resolved)
      /\ \/ end.file = h.file
         \/ is /\ Kept(input, resolved, admitted) /\ end.file = Payload(all)

\* The four ends, apart: it leaves a history.
LEMMA FinalizedCases ==
  \A h \in Histories, p \in ScopePrefixes, input \in Text, resolved \in Text,
     admitted \in BOOLEAN, ok \in BOOLEAN :
    Ends(h, p, input, resolved, admitted, ok)
<1> TAKE h \in Histories, p \in ScopePrefixes, input \in Text, resolved \in Text,
         admitted \in BOOLEAN, ok \in BOOLEAN
<1> DEFINE keep == admitted /\ ~Sensitive(input) /\ ~Excluded(resolved)
           st   == Renamed(h.store, p, input, resolved, keep)
           all  == Committed(Load(h.file), st.pending.line)
           is   == IsPendingFor(st, p, resolved)
           end  == Finalized(h, p, input, resolved, admitted, ok)
           new  == [file |-> Payload(all), store |-> [st EXCEPT !.records = all, !.pending = None]]
<1>1. end = CASE ~is -> [h EXCEPT !.store = st]
              [] is /\ ~keep -> [h EXCEPT !.store = Discarded(st)]
              [] is /\ keep /\ ~ok -> [h EXCEPT !.store = st]
              [] is /\ keep /\ ok -> new
  BY DEF Finalized
<1>2. keep \in BOOLEAN /\ is \in BOOLEAN
  <2>1. keep \in BOOLEAN
    OBVIOUS
  <2>2. is \in BOOLEAN
    BY DEF IsPendingFor
  <2> QED BY <2>1, <2>2
<1>3. /\ keep <=> Kept(input, resolved, admitted)
      /\ st = Resolved(h.store, p, input, resolved, admitted)
  BY DEF Kept, Resolved
<1>4. is => st.pending.line = ApplyPrefix(p, resolved) /\ st.pending.line \in Text
  <2>1. ApplyPrefix(p, resolved) \in Text
    BY PrefixTyped
  <2> QED BY <2>1 DEF IsPendingFor
<1> HIDE DEF keep
<1>5. h.file \in Seq(Text) /\ h.store \in TextStore /\ h = [file |-> h.file, store |-> h.store]
  BY DEF Histories
<1>6. st \in TextStore /\ Discarded(st) \in TextStore
  BY <1>2, <1>5, RenamedTyped, DiscardedTyped
<1> HIDE DEF st, is
<1>7. is => all \in Seq(Text)
  BY <1>4, <1>5, CommittedFacts
<1> HIDE DEF all
<1>8. is => Payload(all) \in Seq(Text)
  BY <1>7, PayloadProperties
<1>9. is => /\ new \in Histories /\ new.file = Payload(all)
            /\ new.store.records = all /\ new.store.pending = None
  BY <1>6, <1>7, <1>8 DEF Histories, TextStore
<1>10. ASSUME NEW x \in TextStore
       PROVE  /\ [h EXCEPT !.store = x] \in Histories
              /\ [h EXCEPT !.store = x].store = x /\ [h EXCEPT !.store = x].file = h.file
  BY <1>5 DEF Histories
<1> HIDE DEF new, end
<1>11. is /\ keep /\ ok => /\ end \in Histories /\ end.file = Payload(all)
                          /\ end.store.records = all /\ end.store.pending = None
  BY <1>1, <1>9
<1>12. is /\ ~keep => end \in Histories /\ end.store = Discarded(st) /\ end.file = h.file
  BY <1>1, <1>6, <1>10
<1>13. ~is \/ (is /\ keep /\ ~ok) => end \in Histories /\ end.store = st /\ end.file = h.file
  BY <1>1, <1>6, <1>10
<1>14. end \in Histories
  BY <1>2, <1>11, <1>12, <1>13
<1>15. end.file = h.file \/ (is /\ keep /\ end.file = Payload(all))
  <2>1. CASE is /\ keep /\ ok
    BY <1>11, <2>1
  <2>2. CASE ~(is /\ keep /\ ok)
    BY <1>12, <1>13, <2>2
  <2> QED BY <2>1, <2>2
<1> QED BY <1>2, <1>3, <1>4, <1>6, <1>11, <1>12, <1>13, <1>14, <1>15 DEF is, all, end, Ends

\* It adds nothing to the file but the line.
LEMMA FinalizedFile ==
  ASSUME NEW h \in Histories, NEW p \in ScopePrefixes, NEW input \in Text,
         NEW resolved \in Text, NEW admitted \in BOOLEAN, NEW ok \in BOOLEAN
  PROVE  LET end == Finalized(h, p, input, resolved, admitted, ok)
         IN  \A i \in DOMAIN end.file :
               \/ \E k \in DOMAIN h.file : end.file[i] = h.file[k]
               \/ Kept(input, resolved, admitted) /\ end.file[i] = ApplyPrefix(p, resolved)
<1> DEFINE st   == Resolved(h.store, p, input, resolved, admitted)
           all  == Committed(Load(h.file), st.pending.line)
           end  == Finalized(h, p, input, resolved, admitted, ok)
<1>1. CASE end.file = h.file
  BY <1>1
<1>2. CASE end.file # h.file
  <2>1. /\ Kept(input, resolved, admitted)
        /\ end.file = Payload(all) /\ st.pending.line = ApplyPrefix(p, resolved)
    BY <1>2, FinalizedCases DEF Ends
  <2>2. h.file \in Seq(Text) /\ ApplyPrefix(p, resolved) \in Text
    BY PrefixTyped DEF Histories
  <2> HIDE DEF st, end
  <2>3. /\ all \in Seq(Text)
        /\ \A i \in DOMAIN all :
             all[i] = ApplyPrefix(p, resolved) \/ \E k \in DOMAIN h.file : all[i] = h.file[k]
    BY <2>1, <2>2, CommittedFacts
  <2> HIDE DEF all
  <2>4. ASSUME NEW i \in DOMAIN Payload(all)
        PROVE  \E k \in DOMAIN all : Payload(all)[i] = all[k]
    <3> DEFINE hidden == {k \in DOMAIN all : Sensitive(all[k])}
    <3>1. Payload(all) = RemoveIndices(all, hidden)
      BY DEF Payload
    <3> HIDE DEF hidden
    <3>2. \E k \in DOMAIN all \ hidden : RemoveIndices(all, hidden)[i] = all[k]
      BY <2>3, <3>1, RemoveElements
    <3> QED BY <3>1, <3>2
  <2>5. \A i \in DOMAIN end.file :
          \/ \E k \in DOMAIN h.file : end.file[i] = h.file[k]
          \/ end.file[i] = ApplyPrefix(p, resolved)
    BY <2>1, <2>3, <2>4
  <2> QED BY <2>1, <2>5 DEF end
<1> QED BY <1>1, <1>2

\* A pending line that is neither what was typed nor what ran stays as it is.
LEMMA FinalizedLeaves ==
  ASSUME NEW h \in Histories, NEW p \in ScopePrefixes, NEW input \in Text,
         NEW resolved \in Text, NEW admitted \in BOOLEAN, NEW ok \in BOOLEAN,
         h.store.pending # None,
         h.store.pending.line \notin {ApplyPrefix(p, input), ApplyPrefix(p, resolved)}
  PROVE  Finalized(h, p, input, resolved, admitted, ok).store = h.store
<1> DEFINE st == Resolved(h.store, p, input, resolved, admitted)
<1>2. st = h.store
  BY DEF Renamed, Resolved
<1>3. ~IsPendingFor(st, p, resolved)
  BY <1>2 DEF IsPendingFor
<1>4. Finalized(h, p, input, resolved, admitted, ok).store = st
  BY <1>3, FinalizedCases DEF Ends
<1> QED BY <1>2, <1>4

\* Nothing was queued, or one command.
LEMMA StagedNothing ==
  ASSUME NEW h, NEW p, NEW reader, NEW ok
  PROVE  Staged(h, p, reader, <<>>, ok) = h
<1> DEFINE step(f, n) == IF n = 0 THEN h
                         ELSE StagedOne(f[n - 1], p, InScope(reader, <<>>[n]), ok)
           sound(f) == f = [n \in 0 .. Len(<<>>) |-> step(f, n)]
           f0 == [n \in {0} |-> h]
<1>1. Len(<<>>) = 0 /\ 0 .. 0 = {0}
  OBVIOUS
<1>2. sound(f0)
  BY <1>1
<1>3. sound(CHOOSE f : sound(f))
  <2> HIDE DEF sound, f0
  <2> QED BY <1>2
<1>4. (CHOOSE f : sound(f))[0] = h
  <2> DEFINE g == CHOOSE f : sound(f)
  <2>1. g = [n \in 0 .. Len(<<>>) |-> step(g, n)]
    BY <1>3
  <2> HIDE DEF g
  <2>2. g[0] = h
    BY <1>1, <2>1
  <2> QED BY <2>2 DEF g
<1> QED BY <1>1, <1>4 DEF Staged

LEMMA StagedSingle ==
  ASSUME NEW h, NEW p, NEW reader, NEW line, NEW ok
  PROVE  Staged(h, p, reader, <<line>>, ok) = StagedOne(h, p, InScope(reader, line), ok)
<1> DEFINE new == StagedOne(h, p, InScope(reader, line), ok)
           step(f, n) == IF n = 0 THEN h
                         ELSE StagedOne(f[n - 1], p, InScope(reader, <<line>>[n]), ok)
           sound(f) == f = [n \in 0 .. Len(<<line>>) |-> step(f, n)]
           f1 == [n \in 0 .. 1 |-> IF n = 0 THEN h ELSE new]
<1>1. Len(<<line>>) = 1 /\ 0 .. 1 = {0, 1} /\ <<line>>[1] = line /\ 1 - 1 = 0
  OBVIOUS
<1>2. sound(f1)
  <2>1. f1[0] = h /\ f1[1] = new
    OBVIOUS
  <2>2. step(f1, 0) = h /\ step(f1, 1) = new
    <3> HIDE DEF f1
    <3> QED BY <1>1, <2>1
  <2>3. [n \in 0 .. 1 |-> step(f1, n)] = f1
    <3>1. \A n \in 0 .. 1 : step(f1, n) = IF n = 0 THEN h ELSE new
      <4> HIDE DEF f1, step
      <4> QED BY <1>1, <2>2
    <3> HIDE DEF step, new
    <3> QED BY <3>1
  <2> HIDE DEF f1, step
  <2> QED BY <1>1, <2>3
<1> DEFINE g == CHOOSE f : sound(f)
<1>3. sound(g)
  <2> HIDE DEF sound, f1
  <2> QED BY <1>2
<1>4. Staged(h, p, reader, <<line>>, ok) = g[Len(<<line>>)]
  BY DEF Staged
<1> HIDE DEF g, new
<1>5. g[0] = h /\ g[1] = step(g, 1)
  BY <1>1, <1>3
<1>6. g[1] = new
  BY <1>1, <1>5 DEF new
<1> QED BY <1>1, <1>4, <1>6 DEF new

\* The queue of the feedback holds one command at most.
LEMMA OneQueued ==
  ASSUME NEW queue \in Seq(Text), Len(queue) <= 1, queue # <<>>
  PROVE  Len(queue) = 1 /\ queue = <<queue[1]>> /\ queue[1] \in Text /\ 1 \in DOMAIN queue
<1>1. Len(queue) = 1
  <2>1. Len(queue) \in Nat /\ Len(queue) > 0
    BY EmptySeq
  <2>2. \A n \in Nat : n > 0 /\ n <= 1 => n = 1
    OBVIOUS
  <2> QED BY <2>1, <2>2, Zenon
<1>2. queue[1] \in Text /\ 1 \in DOMAIN queue
  BY <1>1
<1>3. <<queue[1]>> \in Seq(Text) /\ Len(<<queue[1]>>) = 1 /\ <<queue[1]>>[1] = queue[1]
  BY <1>2
<1>4. \A i \in 1 .. Len(queue) : queue[i] = <<queue[1]>>[i]
  BY <1>1, <1>3
<1>5. queue = <<queue[1]>>
  BY <1>1, <1>3, <1>4, SeqEqual
<1> QED BY <1>1, <1>2, <1>5

\* What is queued is kept as it would be typed.
LEMMA StagedFacts ==
  ASSUME NEW h \in Histories, NEW p \in ScopePrefixes, NEW reader \in ScopePrefixes,
         NEW queue \in Seq(Text), Len(queue) <= 1, NEW ok \in BOOLEAN
  PROVE  LET end == Staged(h, p, reader, queue, ok)
         IN  /\ end \in Histories
             /\ \A i \in DOMAIN end.file :
                  \/ \E k \in DOMAIN h.file : end.file[i] = h.file[k]
                  \/ \E k \in DOMAIN queue :
                       /\ end.file[i] = ApplyPrefix(p, InScope(reader, queue[k]))
                       /\ InScope(reader, queue[k]) \in Text /\ ~Excluded(InScope(reader, queue[k]))
<1>1. CASE queue = <<>>
  <2>1. Staged(h, p, reader, queue, ok) = h
    BY <1>1, StagedNothing
  <2> QED BY <2>1
<1>2. CASE queue # <<>>
  <2>1. Len(queue) = 1 /\ queue = <<queue[1]>> /\ queue[1] \in Text /\ 1 \in DOMAIN queue
    BY <1>2, OneQueued
  <2> DEFINE line == InScope(reader, queue[1])
             saved == [h EXCEPT !.store = Save(h.store, p, line)]
             end == Finalized(saved, p, line, line, TRUE, ok)
  <2>2. Staged(h, p, reader, queue, ok) = end
    <3>1. Staged(h, p, reader, <<queue[1]>>, ok) = StagedOne(h, p, line, ok)
      BY StagedSingle
    <3>2. StagedOne(h, p, line, ok) = end
      BY DEF StagedOne
    <3> QED BY <2>1, <3>1, <3>2
  <2>3. line \in Text
    BY <2>1, InScopeTyped
  <2> HIDE DEF line
  <2>4. Save(h.store, p, line) \in TextStore
    BY <2>3, SaveTyped DEF Histories
  <2>5. saved \in Histories /\ saved.file = h.file
    BY <2>4 DEF Histories
  <2> HIDE DEF saved
  <2>6. end \in Histories
    BY <2>3, <2>5, FinalizedCases DEF Ends
  <2>7. \A i \in DOMAIN end.file :
          \/ \E k \in DOMAIN saved.file : end.file[i] = saved.file[k]
          \/ end.file[i] = ApplyPrefix(p, line) /\ ~Excluded(line)
    <3>1. \A i \in DOMAIN end.file :
            \/ \E k \in DOMAIN saved.file : end.file[i] = saved.file[k]
            \/ Kept(line, line, TRUE) /\ end.file[i] = ApplyPrefix(p, line)
      BY <2>3, <2>5, FinalizedFile
    <3> QED BY <3>1 DEF Kept
  <2> HIDE DEF end
  <2> QED BY <2>1, <2>2, <2>3, <2>5, <2>6, <2>7 DEF line
<1> QED BY <1>1, <1>2

-----------------------------------------------------------------------------
(* Steps. *)

\* The history when the innermost line has been finalized, and when !! knows it.
Ended(resolved, ok) ==
  IF Top.hidden THEN [file |-> file, store |-> store]
  ELSE Finalized([file |-> file, store |-> store], scope, Top.input, resolved, Top.admitted, ok)

Heard(resolved, accepted, ok) ==
  [Ended(resolved, ok) EXCEPT !.store.last = Remembered(@, resolved, accepted)]

\* The lines that run and what they may end as are text.
LEMMA TopTyped ==
  ASSUME TypeOK, stack # <<>>
  PROVE  /\ Top \in Frame /\ Results(Top.resolved) \subseteq Text
         /\ Front(stack) \in Seq(Frame) /\ Len(Front(stack)) = Len(stack) - 1
         /\ Len(stack) \in Nat /\ Len(stack) > 0
<1>1. Top \in Frame /\ Front(stack) \in Seq(Frame) /\ Len(Front(stack)) = Len(stack) - 1
  BY LastAndFront DEF TypeOK, Top
<1>2. Results(Top.resolved) \subseteq Text
  BY <1>1, TypedAssumption DEF Results, Frame
<1>3. Len(stack) \in Nat /\ Len(stack) > 0
  BY EmptySeq DEF TypeOK
<1> QED BY <1>1, <1>2, <1>3

\* Remembering a line for !! changes nothing else.
LEMMA HeardFacts ==
  ASSUME TypeOK, stack # <<>>, NEW resolved \in Text, NEW accepted \in BOOLEAN, NEW ok \in BOOLEAN
  PROVE  /\ Ended(resolved, ok) \in Histories
         /\ Heard(resolved, accepted, ok) \in Histories
         /\ Heard(resolved, accepted, ok).file = Ended(resolved, ok).file
         /\ Heard(resolved, accepted, ok).store.records = Ended(resolved, ok).store.records
         /\ Heard(resolved, accepted, ok).store.pending = Ended(resolved, ok).store.pending
<1>1. [file |-> file, store |-> store] \in Histories
  BY DEF TypeOK, Histories
<1>2. Ended(resolved, ok) \in Histories
  BY <1>1, TopTyped, FinalizedCases DEF Ends, Ended, Frame, TypeOK
<1> DEFINE e == Ended(resolved, ok)
           new == Remembered(e.store.last, resolved, accepted)
<1>3. new \in Text \cup {None}
  BY <1>2 DEF Remembered, Histories, TextStore
<1>4. Heard(resolved, accepted, ok) = [e EXCEPT !.store.last = new]
  BY DEF Heard
<1> HIDE DEF e, new
<1>5. e \in Histories
  BY <1>2 DEF e
<1>6. /\ [e EXCEPT !.store.last = new] \in Histories
      /\ [e EXCEPT !.store.last = new].file = e.file
      /\ [e EXCEPT !.store.last = new].store.records = e.store.records
      /\ [e EXCEPT !.store.last = new].store.pending = e.store.pending
  BY <1>3, <1>5 DEF Histories, TextStore
<1> QED BY <1>4, <1>5, <1>6 DEF e

\* The end of a line, step by step.
LEMMA FinishSteps ==
  ASSUME TypeOK, Finish
  PROVE  \E resolved \in Results(Top.resolved), accepted \in BOOLEAN, ok \in Outcomes,
            okQueued \in Outcomes :
           LET after  == Staged(Heard(resolved, accepted, ok), scope, prompt, feedback, okQueued)
               leaves == Len(stack) = 1 /\ restart
           IN  /\ file' = after.file
               /\ store' = IF leaves THEN Opened(Load(after.file)) ELSE after.store
               /\ restart' = IF leaves THEN FALSE ELSE restart
  BY DEF Finish, Ended, Heard

\* Finish leaves histories and lines; a restart opens the file again.
LEMMA FinishTyped ==
  ASSUME TypeOK, Finish
  PROVE  TypeOK'
<1>1. PICK resolved \in Results(Top.resolved), accepted \in BOOLEAN, ok \in Outcomes,
           okQueued \in Outcomes :
        LET after  == Staged(Heard(resolved, accepted, ok), scope, prompt, feedback, okQueued)
            leaves == Len(stack) = 1 /\ restart
        IN  /\ file' = after.file
            /\ store' = IF leaves THEN Opened(Load(after.file)) ELSE after.store
            /\ restart' = IF leaves THEN FALSE ELSE restart
  BY FinishSteps
<1> DEFINE heard == Heard(resolved, accepted, ok)
           after == Staged(heard, scope, prompt, feedback, okQueued)
<1>2. stack # <<>> /\ resolved \in Text /\ ok \in BOOLEAN /\ okQueued \in BOOLEAN
  BY TopTyped, TypedAssumption DEF Finish, Outcomes
<1>3. heard \in Histories
  BY <1>2, HeardFacts
<1>4. feedback \in Seq(Text)
  BY TypedAssumption, SeqMonotonic DEF TypeOK
<1> HIDE DEF heard
<1>5. after \in Histories
  BY <1>2, <1>3, <1>4, StagedFacts DEF TypeOK
<1> HIDE DEF after
<1>6. after.file \in Seq(Text) /\ after.store \in TextStore
  BY <1>5 DEF Histories
<1>7. Trim(after.file) \in Seq(Text)
  BY <1>6, TrimProperties
<1>8. Opened(Load(after.file)) \in TextStore
  BY <1>7 DEF Opened, Load, TextStore
<1>9. file' \in Seq(Text) /\ store' \in TextStore
  BY <1>1, <1>6, <1>8 DEF after, heard
<1>10. restart' \in BOOLEAN
  BY <1>1 DEF TypeOK
<1>11. scope' \in ScopePrefixes /\ prompt' \in ScopePrefixes
  BY <1>2, TopTyped DEF Finish, Frame, TypeOK
<1>12. stack' \in Seq(Frame)
  BY <1>2, TopTyped DEF Finish
<1>13. feedback' \in Seq(Queued) /\ Len(feedback') <= 1
  BY DEF Finish
<1> QED BY <1>9, <1>10, <1>11, <1>12, <1>13 DEF TypeOK

\* What a history request is resolved to is text.
LEMMA ResolutionsTyped ==
  ASSUME TypeOK, NEW st \in TextStore, NEW line \in Text
  PROVE  Resolutions(st, line) \subseteq Text
<1>1. \A i \in DOMAIN st.records : st.records[i] \in Text
  BY DEF TextStore
<1>2. \A i \in DOMAIN st.records : StripPrefix(scope, st.records[i]) \in Text
  BY <1>1, PrefixTyped DEF TypeOK
<1>3. Visible(st.records, scope) \subseteq DOMAIN st.records
  BY DEF Visible
<1>4. st.last # None => st.last \in Text
  BY DEF TextStore
<1>5. Recalled(st) \subseteq Text
  BY <1>1, <1>2, <1>3, <1>4 DEF Recalled
<1> QED BY <1>5 DEF Resolutions

LEMMA ScopeTyped == TypeOK => scope \in ScopePrefixes /\ prompt \in ScopePrefixes
BY DEF TypeOK

\* A line that starts to run is a frame.
LEMMA PushTyped ==
  ASSUME TypeOK, NEW line \in Text, NEW resolved \in Text, NEW hidden \in BOOLEAN,
         NEW home \in ScopePrefixes \cup {None}, NEW at \in ScopePrefixes,
         Push(line, resolved, hidden, home, at)
  PROVE  /\ prompt' = at
         /\ stack' \in Seq(Frame) /\ Len(stack') = Len(stack) + 1
         /\ stack'[Len(stack) + 1].input = line
         /\ stack'[Len(stack) + 1].resolved = resolved
         /\ stack'[Len(stack) + 1].hidden = hidden
         /\ stack'[Len(stack) + 1].at = at
         /\ \A i \in 1 .. Len(stack) : stack'[i] = stack[i]
<1> DEFINE new == [input |-> line, resolved |-> resolved,
                   admitted |-> resolved \notin BangLines /\ Admits(resolved, at),
                   hidden |-> hidden, home |-> home, at |-> at]
<1>1. prompt' = at /\ stack' = Append(stack, new)
  BY DEF Push
<1>2. (resolved \notin BangLines /\ Admits(resolved, at)) \in BOOLEAN
  OBVIOUS
<1>3. new \in Frame
  BY <1>2 DEF Frame
<1>4. new.input = line /\ new.resolved = resolved /\ new.hidden = hidden /\ new.at = at
  OBVIOUS
<1> HIDE DEF new
<1> QED BY <1>1, <1>3, <1>4 DEF TypeOK

\* Every action leaves text, shells and frames.
LEMMA TypePreserved ==
  ASSUME TypeOK, [Next]_vars
  PROVE  TypeOK'
<1>1. <<>> \in ScopePrefixes /\ Typed \subseteq Text /\ Picked \subseteq Text
  BY TypedAssumption DEF ScopePrefixes
<1>2. CASE Submit
  <2>1. PICK line \in Typed, hidden \in BOOLEAN :
          /\ store' = IF hidden THEN [store EXCEPT !.pending = None] ELSE Save(store, scope, line)
          /\ \E resolved \in Resolutions(store', line) : Push(line, resolved, hidden, None, scope)
    BY <1>2 DEF Submit
  <2>2. store' \in TextStore
    <3>1. [store EXCEPT !.pending = None] \in TextStore
      BY DEF TypeOK, TextStore
    <3> QED BY <1>1, <2>1, <3>1, SaveTyped DEF TypeOK
  <2>3. stack' \in Seq(Frame) /\ prompt' \in ScopePrefixes
    <3>1. PICK resolved \in Resolutions(store', line) : Push(line, resolved, hidden, None, scope)
      BY <2>1
    <3>2. resolved \in Text
      BY <1>1, <2>2, ResolutionsTyped
    <3> QED BY <1>1, <3>1, <3>2, ScopeTyped, PushTyped
  <2> QED BY <1>2, <2>2, <2>3 DEF Submit, TypeOK
<1>3. CASE SubmitRoot
  <2>1. PICK line \in Picked :
          LET staged  == [file |-> file, store |-> Save(store, scope, line)]
              cleared == Finalized(staged, scope, line, line, FALSE, TRUE)
          IN  /\ store' = Save(cleared.store, <<>>, line)
              /\ Push(line, line, FALSE, scope, <<>>)
    BY <1>3 DEF SubmitRoot
  <2> DEFINE staged  == [file |-> file, store |-> Save(store, scope, line)]
             cleared == Finalized(staged, scope, line, line, FALSE, TRUE)
  <2>2. staged \in Histories
    BY <1>1, SaveTyped DEF Histories, TypeOK
  <2> HIDE DEF staged
  <2>3. cleared \in Histories
    BY <1>1, <2>2, FinalizedCases DEF Ends, TypeOK
  <2> HIDE DEF cleared
  <2>4. cleared.store \in TextStore
    BY <2>3 DEF Histories
  <2>5. store' \in TextStore
    BY <1>1, <2>1, <2>4, SaveTyped DEF staged, cleared
  <2>6. stack' \in Seq(Frame) /\ prompt' \in ScopePrefixes
    BY <1>1, <2>1, ScopeTyped, PushTyped
  <2> QED BY <1>1, <1>3, <2>5, <2>6 DEF SubmitRoot, TypeOK
<1>4. CASE EnterShell
  <2>1. Top \in Frame
    BY <1>4, TopTyped DEF EnterShell, Running
  <2>2. Top.resolved = <<Top.resolved[1]>>
    <3>1. Top.resolved \in Text /\ Len(Top.resolved) = 1
      BY <1>4, <2>1 DEF EnterShell, Frame
    <3> QED BY <3>1 DEF Text
  <2>3. scope' \in ScopePrefixes
    BY <1>4, <2>2 DEF EnterShell, ScopePrefixes
  <2> QED BY <1>4, <2>3 DEF EnterShell, TypeOK
<1>5. CASE LeaveShell
  BY <1>1, <1>5 DEF LeaveShell, TypeOK
<1>6. CASE RunChild
  <2>1. Top \in Frame /\ Batches[Top.resolved] \subseteq Text
    BY <1>6, TopTyped, TypedAssumption DEF RunChild, Running
  <2>2. PICK line \in Batches[Top.resolved] \ DOMAIN Batches :
          \E resolved \in Resolutions(store, line) : Push(line, resolved, FALSE, None, scope)
    BY <1>6 DEF RunChild
  <2>3. PICK resolved \in Resolutions(store, line) : Push(line, resolved, FALSE, None, scope)
    BY <2>2
  <2>4. resolved \in Text
    BY <2>1, ResolutionsTyped DEF TypeOK
  <2>5. stack' \in Seq(Frame) /\ prompt' \in ScopePrefixes
    <3>1. line \in Text
      BY <2>1
    <3>2. FALSE \in BOOLEAN /\ None \in ScopePrefixes \cup {None} /\ scope \in ScopePrefixes
      BY ScopeTyped
    <3>3. prompt' = scope /\ stack' \in Seq(Frame)
      BY <2>3, <2>4, <3>1, <3>2, PushTyped
    <3> QED BY <3>2, <3>3
  <2> QED BY <1>6, <2>5 DEF RunChild, TypeOK
<1>7. CASE QueueHistory
  <2>1. PICK line \in Queued : feedback' = <<line>>
    BY <1>7 DEF QueueHistory
  <2>2. feedback' \in Seq(Queued) /\ Len(feedback') <= 1
    BY <2>1
  <2> QED BY <1>7, <2>2 DEF QueueHistory, TypeOK
<1>8. CASE RequestRefresh
  BY <1>8 DEF RequestRefresh, TypeOK
<1>9. CASE Finish
  BY <1>9, FinishTyped
<1>10. CASE UNCHANGED vars
  BY <1>10 DEF vars, TypeOK
<1> QED BY <1>2, <1>3, <1>4, <1>5, <1>6, <1>7, <1>8, <1>9, <1>10 DEF Next

LEMMA InitTyped == Init => TypeOK
<1> SUFFICES ASSUME Init PROVE TypeOK
  OBVIOUS
<1>1. FirstFile \in Seq(Text)
  BY TypedAssumption, SeqMonotonic
<1>2. Trim(FirstFile) \in Seq(Text)
  BY <1>1, TrimProperties
<1>3. Opened(Load(FirstFile)) \in TextStore
  BY <1>2 DEF Opened, Load, TextStore
<1>4. <<>> \in Seq(Frame) /\ <<>> \in Seq(Queued) /\ Len(<<>>) = 0
  OBVIOUS
<1>5. <<>> \in ScopePrefixes
  BY DEF ScopePrefixes
<1>6. /\ file \in Seq(Text) /\ store \in TextStore /\ scope \in ScopePrefixes
        /\ prompt \in ScopePrefixes /\ restart \in BOOLEAN
  BY <1>1, <1>3, <1>5 DEF Init
<1>7. stack \in Seq(Frame) /\ feedback \in Seq(Queued) /\ Len(feedback) <= 1
  BY <1>4 DEF Init
<1> QED BY <1>6, <1>7 DEF TypeOK

\* A line never leaves the text, the shells and the frames: enter and leave a
\* shell, run a batch, queue a command, finish and restart keep every variable in
\* its type, and the queue of the feedback holds one command at most.
THEOREM ReplLineTypes == Spec => []TypeOK
<1>1. TypeOK /\ [Next]_vars => TypeOK'
  BY TypePreserved
<1> QED BY InitTyped, <1>1, PTL DEF Spec

-----------------------------------------------------------------------------
(* What reaches the file, and what a line of a batch leaves alone. *)

\* No other action writes.
LEMMA OnlyFinishWrites ==
  ASSUME [Next]_vars
  PROVE  Finish \/ file' = file
BY DEF Next, vars, Submit, SubmitRoot, EnterShell, LeaveShell, RunChild, QueueHistory,
       RequestRefresh

LEMMA AdmittedStep ==
  ASSUME TypeOK, [Next]_vars
  PROVE  \A i \in DOMAIN file' :
           \/ \E k \in DOMAIN file : file[k] = file'[i]
           \/ \E k \in DOMAIN feedback :
                /\ ~Excluded(InScope(prompt, feedback[k]))
                /\ file'[i] = ApplyPrefix(scope, InScope(prompt, feedback[k]))
           \/ \E resolved \in Results(Top.resolved) :
                Keeps(Top, resolved) /\ file'[i] = ApplyPrefix(scope, resolved)
<1>1. CASE file' = file
  BY <1>1
<1>2. CASE Finish
  <2>1. PICK resolved \in Results(Top.resolved), accepted \in BOOLEAN, ok \in Outcomes,
             okQueued \in Outcomes :
          file' = Staged(Heard(resolved, accepted, ok), scope, prompt, feedback, okQueued).file
    BY <1>2, FinishSteps
  <2> DEFINE heard == Heard(resolved, accepted, ok)
  <2>2. stack # <<>> /\ resolved \in Text /\ ok \in BOOLEAN /\ okQueued \in BOOLEAN
    BY <1>2, TopTyped, TypedAssumption DEF Finish, Outcomes
  <2>3. heard \in Histories /\ heard.file = Ended(resolved, ok).file
    BY <2>2, HeardFacts
  <2>4. Top \in Frame /\ scope \in ScopePrefixes
    BY <2>2, TopTyped DEF TypeOK
  <2>5. \A i \in DOMAIN heard.file :
          \/ \E k \in DOMAIN file : file[k] = heard.file[i]
          \/ Keeps(Top, resolved) /\ heard.file[i] = ApplyPrefix(scope, resolved)
    <3>1. CASE Top.hidden
      BY <2>3, <3>1 DEF Ended
    <3>2. CASE ~Top.hidden
      <4> DEFINE before == [file |-> file, store |-> store]
      <4>1. before \in Histories /\ before.file = file
        BY DEF TypeOK, Histories
      <4>2. heard.file = Finalized(before, scope, Top.input, resolved, Top.admitted, ok).file
        BY <2>3, <3>2 DEF Ended
      <4> HIDE DEF before, heard
      <4>3. \A i \in DOMAIN heard.file :
              \/ \E k \in DOMAIN before.file : heard.file[i] = before.file[k]
              \/ /\ Kept(Top.input, resolved, Top.admitted)
                 /\ heard.file[i] = ApplyPrefix(scope, resolved)
        BY <2>2, <2>4, <4>1, <4>2, FinalizedFile DEF Frame
      <4> QED BY <3>2, <4>1, <4>3 DEF Kept, Keeps
    <3> QED BY <3>1, <3>2
  <2>6. feedback \in Seq(Text) /\ Len(feedback) <= 1
    BY TypedAssumption, SeqMonotonic DEF TypeOK
  <2>7. file' = Staged(heard, scope, prompt, feedback, okQueued).file
    BY <2>1
  <2> HIDE DEF heard
  <2>8. \A i \in DOMAIN file' :
          \/ \E k \in DOMAIN heard.file : file'[i] = heard.file[k]
          \/ \E k \in DOMAIN feedback :
               /\ ~Excluded(InScope(prompt, feedback[k]))
               /\ file'[i] = ApplyPrefix(scope, InScope(prompt, feedback[k]))
    BY <2>2, <2>3, <2>4, <2>6, <2>7, ScopeTyped, StagedFacts
  <2> QED BY <2>2, <2>5, <2>8, <2>1
<1> QED BY <1>1, <1>2, OnlyFinishWrites

\* Nothing reaches the file but the admitted line that ends, in the shell it left
\* the user in, and the commands it queued: no unknown command, hidden line,
\* history request or line around a batch.
THEOREM OnlyAdmittedLines == Spec => OnlyAdmitted
BY AdmittedStep, ReplLineTypes, PTL DEF Spec, OnlyAdmitted

LEMMA ChildStep ==
  ASSUME TypeOK, [Next]_vars,
         Len(stack) > 1, stack' = Front(stack), feedback = <<>>, store.pending # None,
         store.pending.line \notin {ApplyPrefix(scope, line) : line \in OwnLines}
  PROVE  store'.pending = store.pending
<1>1. stack \in Seq(Frame) /\ stack # <<>> /\ Len(stack) \in Nat
  BY DEF TypeOK
<1>2. Len(stack') = Len(stack) - 1
  BY <1>1, TopTyped
<1>3. Len(stack') # Len(stack) /\ Len(stack') # Len(stack) + 1 /\ Len(stack) # 1
  <2>1. \A n \in Nat : n > 1 => n # 1
    OBVIOUS
  <2>2. Len(stack) # 1
    BY <1>1, <2>1, Zenon
  <2> QED BY <1>1, <1>2, <2>2
<1>4. CASE Finish
  <2>1. PICK resolved \in Results(Top.resolved), accepted \in BOOLEAN, ok \in Outcomes,
             okQueued \in Outcomes :
          Len(stack) # 1 =>
            store' = Staged(Heard(resolved, accepted, ok), scope, prompt, feedback, okQueued).store
    BY <1>4, FinishSteps
  <2>2. stack # <<>> /\ resolved \in Text /\ ok \in BOOLEAN /\ okQueued \in BOOLEAN
    BY <1>1, TopTyped, TypedAssumption DEF Outcomes
  <2> DEFINE heard == Heard(resolved, accepted, ok)
  <2>3. store' = heard.store
    <3>1. Staged(heard, scope, prompt, <<>>, okQueued) = heard
      BY StagedNothing
    <3>2. store' = Staged(heard, scope, prompt, feedback, okQueued).store
      BY <1>3, <2>1
    <3> QED BY <3>1, <3>2
  <2>4. store'.pending = Ended(resolved, ok).store.pending
    BY <2>2, <2>3, HeardFacts
  <2>5. CASE Top.hidden
    BY <2>4, <2>5 DEF Ended
  <2>6. CASE ~Top.hidden
    <3> DEFINE before == [file |-> file, store |-> store]
    <3>1. before \in Histories /\ before.store = store
      BY DEF TypeOK, Histories
    <3>2. Top \in Frame /\ scope \in ScopePrefixes
      BY <2>2, TopTyped DEF TypeOK
    <3>3. Ended(resolved, ok) = Finalized(before, scope, Top.input, resolved, Top.admitted, ok)
      BY <2>6 DEF Ended
    <3>4. store.pending.line \notin {ApplyPrefix(scope, Top.input), ApplyPrefix(scope, resolved)}
      BY DEF OwnLines
    <3> HIDE DEF before
    <3>5. Finalized(before, scope, Top.input, resolved, Top.admitted, ok).store = before.store
      BY <2>2, <3>1, <3>2, <3>4, FinalizedLeaves DEF Frame
    <3> QED BY <2>4, <3>1, <3>3, <3>5
  <2> QED BY <2>5, <2>6
<1>5. ~Submit /\ ~SubmitRoot
  BY <1>1 DEF Submit, SubmitRoot
<1>6. ~RunChild
  <2>1. ASSUME NEW line, NEW resolved, Push(line, resolved, FALSE, None, scope) PROVE FALSE
    <3>1. Len(stack') = Len(stack) + 1
      BY <1>1, <2>1 DEF Push
    <3> QED BY <1>3, <3>1
  <2> QED BY <2>1 DEF RunChild
<1>7. stack' # stack
  BY <1>3
<1>8. ~EnterShell /\ ~LeaveShell /\ ~QueueHistory /\ ~RequestRefresh /\ ~UNCHANGED vars
  BY <1>7 DEF EnterShell, LeaveShell, QueueHistory, RequestRefresh, vars
<1> QED BY <1>4, <1>5, <1>6, <1>8 DEF Next

\* A line of a batch that queues nothing leaves the pending line of its parent
\* alone, unless that is one of its own lines.
THEOREM ParentsStayPending == Spec => ChildLeavesPending
BY ChildStep, ReplLineTypes, PTL DEF Spec, ChildLeavesPending

-----------------------------------------------------------------------------
(* What the operations do to memory and file when no transaction fails. *)

\* Memory holds a newest part of the file, with the pending line behind it.
Behind(st, g) ==
  IF st.pending = None
  THEN IsSuffix(st.records, Load(g))
  ELSE /\ st.records # <<>> /\ st.pending.index = Len(st.records)
       /\ Newest(st.records) = st.pending.line
       /\ IsSuffix(Front(st.records), Load(g))

Clean(s) == \A i \in DOMAIN s : ~Sensitive(s[i])

\* Nothing is pending.
Settled(st, g) == st.pending = None /\ Behind(st, g) /\ Clean(st.records)

\* A line that is saved is put behind what memory holds, or is there already.
LEMMA SaveSound ==
  ASSUME NEW st \in TextStore, NEW g \in Seq(Text), NEW p \in ScopePrefixes,
         NEW line \in Text, Settled(st, g)
  PROVE  LET new == Save(st, p, line)
         IN  /\ Behind(new, g) /\ Clean(new.records)
             /\ new.pending # None => new.pending.line = ApplyPrefix(p, line)
             /\ new.pending = None /\ ~Excluded(line) =>
                  /\ new.records = st.records /\ st.records # <<>>
                  /\ Newest(st.records) = ApplyPrefix(p, line)
<1> DEFINE full == ApplyPrefix(p, line)
           longer == Append(st.records, full)
           appended == Trim(longer)
           new == Save(st, p, line)
           record == [index |-> Len(appended), line |-> full]
<1>1. /\ full \in Text /\ st.records \in Seq(Text) /\ Load(g) \in Seq(Text)
      /\ st.pending = None /\ IsSuffix(st.records, Load(g)) /\ Clean(st.records)
  BY PrefixTyped, TrimProperties DEF TextStore, Load, Settled, Behind
<1>2. CASE Excluded(line) \/ IsDuplicate(st.records, full)
  <2>1. new.records = st.records /\ new.pending = None
    BY <1>2 DEF Save, TextStore
  <2> HIDE DEF new
  <2>2. Behind(new, g) /\ Clean(new.records)
    BY <1>1, <2>1 DEF Behind
  <2>3. ~Excluded(line) => st.records # <<>> /\ Newest(st.records) = full
    BY <1>2 DEF IsDuplicate
  <2> QED BY <2>1, <2>2, <2>3 DEF new
<1>3. CASE ~(Excluded(line) \/ IsDuplicate(st.records, full))
  <2>1. new.records = appended /\ new.pending = record
    BY <1>3 DEF Save, TextStore
  <2>2. longer \in Seq(Text) /\ longer # <<>> /\ Newest(longer) = full
    <3>1. \A s \in Seq(Text), x \in Text :
            /\ Append(s, x) \in Seq(Text) /\ Append(s, x) # <<>>
            /\ Append(s, x)[Len(Append(s, x))] = x
      OBVIOUS
    <3> HIDE DEF full
    <3> QED BY <1>1, <3>1 DEF Newest
  <2>3. Clean(longer)
    <3>1. ~Sensitive(full)
      BY <1>3, PrefixNotSensitive DEF Excluded
    <3>2. \A i \in DOMAIN longer : longer[i] = full \/ \E k \in DOMAIN st.records : longer[i] = st.records[k]
      BY <1>1
    <3> HIDE DEF longer, full
    <3> QED BY <1>1, <3>1, <3>2 DEF Clean
  <2>4. IsSuffix(Front(appended), Load(g))
    BY <1>1, FrontOfTrimmed
  <2> HIDE DEF longer
  <2>5. appended \in Seq(Text) /\ appended # <<>> /\ Newest(appended) = full
    BY <2>2, TrimProperties
  <2>6. Clean(appended)
    BY <2>2, <2>3, TrimPositions DEF Clean
  <2> HIDE DEF appended
  <2>7. Len(appended) \in Nat
    BY <2>5
  <2>8. record # None /\ record.index = Len(appended) /\ record.line = full
    <3>1. record \in [index : Nat, line : Text]
      BY <1>1, <2>7
    <3> HIDE DEF record
    <3> QED BY <3>1, NoRecordAssumption DEF record
  <2> HIDE DEF new, record, full
  <2>9. Behind(new, g)
    BY <2>1, <2>4, <2>5, <2>8 DEF Behind
  <2> QED BY <2>1, <2>6, <2>8, <2>9 DEF new, full
<1> QED BY <1>2, <1>3

\* A pending line that is given up leaves what is in front of it.
LEMMA DiscardSound ==
  ASSUME NEW st \in TextStore, NEW g \in Seq(Text), Behind(st, g), st.pending # None,
         Clean(Front(st.records))
  PROVE  Settled(Discarded(st), g)
<1> DEFINE r == st.records
           n == Len(r)
           front == Front(r)
<1>1. /\ r \in Seq(Text) /\ r # <<>> /\ st.pending.index = n /\ Newest(r) = st.pending.line
      /\ IsSuffix(front, Load(g)) /\ Load(g) \in Seq(Text)
  BY TrimProperties DEF Behind, TextStore, Load
<1>2. n \in Nat /\ n > 0 /\ n \in DOMAIN r /\ n - 1 \in 0 .. n /\ n - 1 + 1 = n /\ n .. n = {n}
  <2>1. n \in Nat /\ n > 0
    BY <1>1, EmptySeq
  <2> QED BY <1>1, <2>1
<1>3. r[n] = st.pending.line
  BY <1>1 DEF Newest
<1>4. Discarded(st).pending = None /\ Discarded(st).records = Trim(RemoveIndices(r, {n}))
  BY <1>1, <1>2, <1>3 DEF Discarded, TextStore
<1>5. RemoveIndices(r, {n}) = front
  <2>1. RemoveIndices(r, n - 1 + 1 .. n) = SubSeq(r, 1, n - 1)
    BY <1>1, <1>2, RemoveBeyond
  <2> QED BY <1>2, <2>1 DEF Front
<1>6. front \in Seq(Text)
  BY <1>1, LastAndFront
<1>7. Len(front) <= Len(Load(g))
  BY <1>1, <1>6, SuffixFacts
<1>8. Len(Load(g)) <= MaxEntries /\ Len(Load(g)) \in Nat
  <2>1. Len(Trim(g)) = IF Len(g) > MaxEntries THEN MaxEntries ELSE Len(g)
    BY TrimProperties
  <2>2. Len(g) \in Nat /\ MaxEntries \in Nat
    BY CapacityAssumption
  <2> QED BY <2>1, <2>2 DEF Load
<1> HIDE DEF front
<1>9. Trim(front) = front
  <2>1. Len(front) <= MaxEntries
    BY <1>6, <1>7, <1>8, CapacityAssumption
  <2> QED BY <1>6, <2>1, TrimProperties
<1> QED BY <1>1, <1>4, <1>5, <1>9 DEF Settled, Behind, front

\* What is committed is the file, and memory is the file.
LEMMA CommitSound ==
  ASSUME NEW g \in Seq(Text), NEW line \in Text, Clean(g), ~Sensitive(line)
  PROVE  LET all == Committed(Load(g), line)
         IN  /\ Payload(all) = all /\ Clean(all)
             /\ IsSuffix(all, Load(all))
             /\ all # <<>> /\ Newest(all) = line
<1> DEFINE all == Committed(Load(g), line)
<1>1. /\ all \in Seq(Text) /\ all # <<>> /\ Newest(all) = line /\ Trim(all) = all
      /\ \A i \in DOMAIN all : all[i] = line \/ \E k \in DOMAIN g : all[i] = g[k]
  BY CommittedFacts
<1> HIDE DEF all
<1>2. Clean(all)
  BY <1>1 DEF Clean
<1>3. Payload(all) = all
  BY <1>1, <1>2, PayloadOfClean DEF Clean
<1>4. IsSuffix(all, Load(all))
  BY <1>1, SuffixFacts DEF Load
<1> QED BY <1>1, <1>2, <1>3, <1>4 DEF all

LEMMA CleanFront ==
  ASSUME NEW s \in Seq(Text), s # <<>>, Clean(s)
  PROVE  Clean(Front(s))
<1>1. /\ Front(s) \in Seq(Text) /\ Len(Front(s)) = Len(s) - 1
      /\ \A i \in 1 .. Len(s) - 1 : Front(s)[i] = s[i]
  BY LastAndFront
<1>2. \A i \in DOMAIN Front(s) : i \in DOMAIN s /\ Front(s)[i] = s[i]
  BY <1>1
<1> QED BY <1>2 DEF Clean

\* The pending line takes the text it was resolved to, or a recalled line is
\* saved, or the store stays as it is.
LEMMA ResolvedSound ==
  ASSUME NEW st \in TextStore, NEW g \in Seq(Text), NEW p \in ScopePrefixes,
         NEW input \in Text, NEW resolved \in Text, NEW admitted,
         Behind(st, g), Clean(st.records)
  PROVE  LET new == Resolved(st, p, input, resolved, admitted)
         IN  /\ new \in TextStore
             /\ Behind(new, g)
             /\ new.pending = None => Clean(new.records)
             /\ new.pending # None => Clean(Front(new.records))
             /\ new.pending # None /\ new.pending.line # ApplyPrefix(p, resolved) =>
                  new = st /\ st.pending.line # ApplyPrefix(p, input)
             /\ st.pending # None /\ st.pending.line = ApplyPrefix(p, input) => new.pending # None
             /\ st.pending = None /\ new.pending = None /\ input # resolved
                  /\ Kept(input, resolved, admitted) =>
                  new = st \/ (new.records = st.records /\ st.records # <<>>
                               /\ Newest(st.records) = ApplyPrefix(p, resolved))
<1> DEFINE keep == Kept(input, resolved, admitted)
           full == ApplyPrefix(p, resolved)
           new == Resolved(st, p, input, resolved, admitted)
           r == st.records
           n == Len(r)
           records == [r EXCEPT ![st.pending.index] = full]
           record == [st.pending EXCEPT !.line = full]
<1>1. full \in Text /\ r \in Seq(Text) /\ n \in Nat /\ new \in TextStore
  <2>1. new \in TextStore
    BY RenamedTyped DEF Resolved
  <2> QED BY <2>1, PrefixTyped DEF TextStore
<1>2. ASSUME r # <<>>
      PROVE  Clean(Front(r))
  BY <1>1, <1>2, CleanFront
<1>3. CASE input = resolved \/ (st.pending = None /\ ~keep)
           \/ (st.pending # None /\ st.pending.line # ApplyPrefix(p, input))
  <2>1. new = st
    BY <1>3 DEF Resolved, Renamed
  <2> HIDE DEF new
  <2>2. st.pending # None => r # <<>>
    BY DEF Behind
  <2>3. st.pending # None /\ st.pending.line # full => st.pending.line # ApplyPrefix(p, input)
    BY <1>3
  <2>4. st.pending = None /\ input # resolved /\ keep => FALSE
    BY <1>3
  <2> QED BY <1>1, <1>2, <2>1, <2>2, <2>3, <2>4 DEF new
<1>4. CASE input # resolved /\ st.pending # None /\ st.pending.line = ApplyPrefix(p, input)
  <2>1. new.records = records /\ new.pending = record
    BY <1>4 DEF Resolved, Renamed, TextStore
  <2>2. r # <<>> /\ st.pending.index = n /\ IsSuffix(Front(r), Load(g))
    BY <1>4 DEF Behind
  <2>3. n > 0 /\ n \in DOMAIN r /\ n - 1 \in Nat
    BY <1>1, <2>2, EmptySeq
  <2>4. records \in Seq(Text) /\ Len(records) = n /\ records[n] = full /\ records # <<>>
        /\ \A i \in 1 .. n - 1 : records[i] = r[i]
    <3>1. records = [r EXCEPT ![n] = full] /\ n \in 1 .. Len(r)
      BY <1>1, <2>2, <2>3
    <3>2. [r EXCEPT ![n] = full] \in Seq(Text) /\ Len([r EXCEPT ![n] = full]) = Len(r)
      BY <1>1, <3>1, ExceptSeq
    <3>3. [r EXCEPT ![n] = full][n] = full
      BY <1>1, <3>1, ExceptSeq
    <3>4. \A i \in 1 .. n - 1 : i \in 1 .. n /\ i # n
      BY <1>1
    <3>5. \A i \in 1 .. n - 1 : [r EXCEPT ![n] = full][i] = r[i]
      <4>1. DOMAIN r = 1 .. n
        BY <1>1
      <4> QED BY <3>4, <4>1
    <3>6. records # <<>>
      BY <2>3, <3>1, <3>2
    <3> QED BY <3>1, <3>2, <3>3, <3>5, <3>6
  <2> HIDE DEF records, r
  <2>5. Front(records) = Front(r)
    <3>1. /\ Front(records) \in Seq(Text) /\ Len(Front(records)) = n - 1
          /\ \A i \in 1 .. n - 1 : Front(records)[i] = records[i]
      BY <2>4, LastAndFront
    <3>2. /\ Front(r) \in Seq(Text) /\ Len(Front(r)) = n - 1
          /\ \A i \in 1 .. n - 1 : Front(r)[i] = r[i]
      BY <1>1, <2>2, LastAndFront
    <3> QED BY <2>3, <2>4, <3>1, <3>2, SeqEqual
  <2>6. record # None /\ record.index = n /\ record.line = full
    <3>1. st.pending \in [index : Nat, line : Text]
      BY <1>4 DEF TextStore
    <3>2. record \in [index : Nat, line : Text] /\ record.index = st.pending.index
          /\ record.line = full
      BY <1>1, <3>1
    <3> HIDE DEF record
    <3> QED BY <2>2, <3>2, NoRecordAssumption
  <2> HIDE DEF new, record, full, n
  <2>7. Behind(new, g)
    BY <2>1, <2>2, <2>4, <2>5, <2>6 DEF Behind, Newest
  <2>8. Clean(Front(new.records))
    BY <1>2, <2>1, <2>2, <2>5
  <2> QED BY <1>1, <1>4, <2>1, <2>6, <2>7, <2>8 DEF new, full
<1>5. CASE input # resolved /\ st.pending = None /\ keep
  <2>1. new = Save(st, p, resolved)
    BY <1>5 DEF Resolved, Renamed
  <2>2. Settled(st, g)
    BY <1>5 DEF Settled
  <2>3. /\ Behind(new, g) /\ Clean(new.records)
        /\ new.pending # None => new.pending.line = full
        /\ new.pending = None /\ ~Excluded(resolved) =>
             /\ new.records = st.records /\ st.records # <<>>
             /\ Newest(st.records) = full
    BY <2>1, <2>2, SaveSound
  <2> HIDE DEF new
  <2>4. ~Excluded(resolved)
    BY <1>5 DEF Kept
  <2>5. new.pending # None => Clean(Front(new.records))
    <3>1. new.records \in Seq(Text)
      BY <1>1 DEF TextStore
    <3> QED BY <2>3, <3>1, CleanFront DEF Behind
  <2> QED BY <1>1, <1>5, <2>3, <2>4, <2>5 DEF new
<1> QED BY <1>3, <1>4, <1>5

\* Nothing is pending after a line has ended, unless that is another line, which
\* is left alone.
EndsWell(h, p, input, end) ==
  \/ Settled(end.store, end.file)
  \/ /\ end.store = h.store /\ end.file = h.file
     /\ h.store.pending # None
     /\ h.store.pending.line # ApplyPrefix(p, input)

\* A line ends well when its transaction succeeds.
LEMMA FinalizedSound ==
  \A h \in Histories, p \in ScopePrefixes, input \in Text, resolved \in Text,
     admitted \in BOOLEAN, ok \in BOOLEAN :
    ok = TRUE /\ Behind(h.store, h.file) /\ Clean(h.store.records) /\ Clean(h.file) =>
      EndsWell(h, p, input, Finalized(h, p, input, resolved, admitted, ok))
<1> SUFFICES ASSUME NEW h \in Histories, NEW p \in ScopePrefixes, NEW input \in Text,
                    NEW resolved \in Text, NEW admitted \in BOOLEAN, NEW ok \in BOOLEAN,
                    ok = TRUE, Behind(h.store, h.file), Clean(h.store.records), Clean(h.file)
             PROVE  EndsWell(h, p, input, Finalized(h, p, input, resolved, admitted, ok))
  OBVIOUS
<1> DEFINE st   == Resolved(h.store, p, input, resolved, admitted)
           all  == Committed(Load(h.file), st.pending.line)
           end  == Finalized(h, p, input, resolved, admitted, ok)
           is   == IsPendingFor(st, p, resolved)
           full == ApplyPrefix(p, resolved)
<1>1. h.file \in Seq(Text) /\ h.store \in TextStore /\ full \in Text
  BY PrefixTyped DEF Histories
<1>2. /\ st \in TextStore /\ Behind(st, h.file)
      /\ st.pending = None => Clean(st.records)
      /\ st.pending # None => Clean(Front(st.records))
      /\ st.pending # None /\ st.pending.line # full =>
           st = h.store /\ h.store.pending.line # ApplyPrefix(p, input)
  BY <1>1, ResolvedSound
<1>3. /\ ~is => end.store = st /\ end.file = h.file
      /\ is /\ ~Kept(input, resolved, admitted) =>
           end.store = Discarded(st) /\ end.file = h.file
      /\ is /\ Kept(input, resolved, admitted) =>
           end.file = Payload(all) /\ end.store.records = all /\ end.store.pending = None
  <2>1. Ends(h, p, input, resolved, admitted, ok)
    BY FinalizedCases
  <2> QED BY <2>1 DEF Ends
<1>4. is <=> st.pending # None /\ st.pending.line = full
  BY DEF IsPendingFor
<1> HIDE DEF st, all, end, is, full
<1>5. CASE ~is
  <2>1. end.store = st /\ end.file = h.file
    BY <1>3, <1>5
  <2>2. CASE st.pending = None
    <3>1. Settled(st, h.file)
      BY <1>2, <2>2 DEF Settled
    <3> QED BY <2>1, <3>1 DEF end, EndsWell
  <2>3. CASE st.pending # None
    <3>1. st = h.store /\ h.store.pending.line # ApplyPrefix(p, input)
      BY <1>2, <1>4, <1>5, <2>3
    <3> QED BY <2>1, <2>3, <3>1 DEF end, EndsWell
  <2> QED BY <2>2, <2>3
<1>6. CASE is /\ ~Kept(input, resolved, admitted)
  BY <1>1, <1>2, <1>3, <1>4, <1>6, DiscardSound DEF end, EndsWell
<1>7. CASE is /\ Kept(input, resolved, admitted)
  <2>1. ~Sensitive(full)
    BY <1>7, PrefixNotSensitive DEF Kept, Excluded, full
  <2>2. all = Committed(Load(h.file), full)
    BY <1>4, <1>7 DEF all
  <2>3. Payload(all) = all /\ Clean(all) /\ IsSuffix(all, Load(all))
    BY <1>1, <2>1, <2>2, CommitSound
  <2>4. end.file = all /\ end.store.records = all /\ end.store.pending = None
    BY <1>3, <1>7, <2>3
  <2>5. Settled(end.store, end.file)
    BY <2>3, <2>4 DEF Settled, Behind
  <2> QED BY <2>5 DEF end, EndsWell
<1> QED BY <1>5, <1>6, <1>7 DEF end

EndsNewest(end, line) == end.file # <<>> /\ Newest(end.file) = line

\* A line that is kept is then the newest line of the file, if it was pending or
\* is the newest line already.
LEMMA FinalizedNewest ==
  \A h \in Histories, p \in ScopePrefixes, input \in Text, resolved \in Text,
     admitted \in BOOLEAN, ok \in BOOLEAN :
    /\ ok = TRUE /\ Behind(h.store, h.file) /\ Clean(h.store.records) /\ Clean(h.file)
    /\ Kept(input, resolved, admitted)
    /\ h.store.pending # None => h.store.pending.line = ApplyPrefix(p, input)
    /\ h.store.pending = None /\ input = resolved =>
         h.store.records # <<>> /\ Newest(h.store.records) = ApplyPrefix(p, resolved)
    => EndsNewest(Finalized(h, p, input, resolved, admitted, ok), ApplyPrefix(p, resolved))
<1> TAKE h \in Histories, p \in ScopePrefixes, input \in Text, resolved \in Text,
         admitted \in BOOLEAN, ok \in BOOLEAN
<1> HAVE /\ ok = TRUE /\ Behind(h.store, h.file) /\ Clean(h.store.records) /\ Clean(h.file)
         /\ Kept(input, resolved, admitted)
         /\ h.store.pending # None => h.store.pending.line = ApplyPrefix(p, input)
         /\ h.store.pending = None /\ input = resolved =>
              h.store.records # <<>> /\ Newest(h.store.records) = ApplyPrefix(p, resolved)
<1> DEFINE st   == Resolved(h.store, p, input, resolved, admitted)
           all  == Committed(Load(h.file), st.pending.line)
           end  == Finalized(h, p, input, resolved, admitted, ok)
           is   == IsPendingFor(st, p, resolved)
           full == ApplyPrefix(p, resolved)
           r    == h.store.records
<1>1. h.file \in Seq(Text) /\ h.store \in TextStore /\ full \in Text /\ r \in Seq(Text)
  BY PrefixTyped DEF Histories, TextStore
<1>2. /\ st \in TextStore /\ Behind(st, h.file)
      /\ st.pending # None /\ st.pending.line # full =>
           st = h.store /\ h.store.pending.line # ApplyPrefix(p, input)
      /\ h.store.pending # None /\ h.store.pending.line = ApplyPrefix(p, input) =>
           st.pending # None
      /\ h.store.pending = None /\ st.pending = None /\ input # resolved =>
           st = h.store \/ (st.records = r /\ r # <<>> /\ Newest(r) = full)
  BY <1>1, ResolvedSound
<1>3. input # resolved /\ h.store.pending = None =>
        st.pending # None \/ (r # <<>> /\ Newest(r) = full)
  <2>1. SUFFICES ASSUME input # resolved, h.store.pending = None, st.pending = None
                 PROVE  r # <<>> /\ Newest(r) = full
    OBVIOUS
  <2>2. st = Save(h.store, p, resolved)
    BY <2>1 DEF Resolved, Renamed
  <2>3. ~Excluded(resolved)
    BY DEF Kept
  <2>4. Settled(h.store, h.file)
    BY <2>1 DEF Settled
  <2> HIDE DEF st
  <2> QED BY <1>1, <2>1, <2>2, <2>3, <2>4, SaveSound
<1>4. /\ ~is => end.file = h.file
      /\ is => end.file = Payload(all)
  <2>1. Ends(h, p, input, resolved, admitted, ok)
    BY FinalizedCases
  <2> QED BY <2>1 DEF Ends
<1>5. is <=> st.pending # None /\ st.pending.line = full
  BY DEF IsPendingFor
<1> HIDE DEF all, end
<1>6. CASE is
  <2>1. ~Sensitive(full)
    BY PrefixNotSensitive DEF Kept, Excluded
  <2>2. all = Committed(Load(h.file), full)
    BY <1>5, <1>6 DEF all
  <2> HIDE DEF full, is, st
  <2>3. Payload(all) = all /\ all # <<>> /\ Newest(all) = full
    BY <1>1, <2>1, <2>2, CommitSound
  <2> QED BY <1>4, <1>6, <2>3 DEF end, full, EndsNewest
<1>7. CASE ~is
  <2> HIDE DEF st, is, full, r
  <2>1. h.store.pending = None
    BY <1>2, <1>5, <1>7
  <2>2. r # <<>> /\ Newest(r) = full
    <3>1. input = resolved => r # <<>> /\ Newest(r) = full
      BY <2>1 DEF r, full
    <3>2. st.pending = None
      BY <1>2, <1>5, <1>7, <2>1
    <3> QED BY <1>3, <2>1, <3>1, <3>2
  <2>3. IsSuffix(r, Load(h.file)) /\ Load(h.file) \in Seq(Text)
    BY <1>1, <2>1, TrimProperties DEF Behind, r, Load
  <2>4. Load(h.file) # <<>> /\ Newest(Load(h.file)) = full
    BY <1>1, <2>2, <2>3, SuffixFacts
  <2>5. h.file # <<>> /\ Newest(h.file) = full
    <3>1. h.file # <<>>
      <4>1. Trim(<<>>) = <<>>
        <5>1. <<>> \in Seq(Text) /\ Len(<<>>) <= MaxEntries
          BY CapacityAssumption
        <5> QED BY <5>1, TrimProperties
      <4> QED BY <2>4, <4>1 DEF Load
    <3> QED BY <1>1, <2>4, <3>1, TrimProperties DEF Load
  <2> QED BY <1>4, <1>7, <2>5 DEF end, full, EndsNewest
<1> QED BY <1>6, <1>7

\* Commands that are saved and finalized at once leave nothing pending either.
LEMMA StagedSound ==
  ASSUME NEW h \in Histories, NEW p \in ScopePrefixes, NEW reader \in ScopePrefixes,
         NEW queue \in Seq(Text), Len(queue) <= 1, NEW ok \in BOOLEAN, ok = TRUE,
         Settled(h.store, h.file), Clean(h.file)
  PROVE  LET end == Staged(h, p, reader, queue, ok)
         IN  Settled(end.store, end.file)
<1>1. CASE queue = <<>>
  <2>1. Staged(h, p, reader, queue, ok) = h
    BY <1>1, StagedNothing
  <2> QED BY <2>1
<1>2. CASE queue # <<>>
  <2>1. Len(queue) = 1 /\ queue = <<queue[1]>> /\ queue[1] \in Text
    BY <1>2, OneQueued
  <2> DEFINE line == InScope(reader, queue[1])
             new == Save(h.store, p, line)
             saved == [h EXCEPT !.store = Save(h.store, p, line)]
             end == Finalized(saved, p, line, line, TRUE, ok)
  <2>2. Staged(h, p, reader, queue, ok) = end
    <3>1. Staged(h, p, reader, <<queue[1]>>, ok) = StagedOne(h, p, line, ok)
      BY StagedSingle
    <3>2. StagedOne(h, p, line, ok) = end
      BY DEF StagedOne
    <3> QED BY <2>1, <3>1, <3>2
  <2>3. line \in Text /\ h.store \in TextStore /\ h.file \in Seq(Text)
    BY <2>1, InScopeTyped DEF Histories
  <2> HIDE DEF line
  <2>4. new \in TextStore
    BY <2>3, SaveTyped
  <2>5. saved \in Histories /\ saved.file = h.file /\ saved.store = new
    BY <2>4 DEF Histories
  <2>6. /\ Behind(new, h.file) /\ Clean(new.records)
        /\ new.pending # None => new.pending.line = ApplyPrefix(p, line)
    BY <2>3, SaveSound
  <2> HIDE DEF saved, new
  <2>7. \/ Settled(end.store, end.file)
        \/ saved.store.pending # None /\ saved.store.pending.line # ApplyPrefix(p, line)
    <3>1. EndsWell(saved, p, line, end)
      BY <2>3, <2>5, <2>6, FinalizedSound
    <3> QED BY <3>1 DEF EndsWell
  <2> QED BY <2>2, <2>5, <2>6, <2>7
<1> QED BY <1>1, <1>2

-----------------------------------------------------------------------------
(* The invariant. *)

\* What is known of the lines under way: only a batch runs lines inside it, and
\* they return to no shell; the user is in the shell of the outermost line until
\* that asks for a restart.
Nested ==
  /\ Len(stack) > 1 => stack[1].resolved \in DOMAIN Batches
  /\ \A i \in 2 .. Len(stack) : stack[i].home = None
  /\ feedback # <<>> => Products # {}
  /\ stack # <<>> /\ ~restart => scope = stack[1].at
  /\ stack = <<>> => ~restart

\* What is pending is the line of the editor.
Owned(st, frames) ==
  st.pending # None =>
    /\ frames # <<>> /\ ~frames[1].hidden
    /\ st.pending.line = ApplyPrefix(frames[1].at, frames[1].input)

\* A line that the editor did not have to save is the newest line already.
Recorded(st, frames) ==
  Len(frames) = 1 /\ ~frames[1].hidden /\ st.pending = None
    /\ ~Excluded(frames[1].input) /\ frames[1].resolved \notin DOMAIN Batches
  => st.records # <<>> /\ Newest(st.records) = ApplyPrefix(frames[1].at, frames[1].input)

\* Memory follows the file.
Follows ==
  /\ Behind(store, file) /\ Clean(store.records)
  /\ Owned(store, stack) /\ Recorded(store, stack)

IInv ==
  /\ TypeOK /\ Nested /\ Clean(file)
  /\ ~IOFails /\ QueuesAlone => Follows

LEMMA InitInv == Init => IInv
<1> SUFFICES ASSUME Init PROVE IInv
  OBVIOUS
<1>1. Clean(file)
  BY FirstFileAssumption DEF Init, Clean
<1>2. FirstFile \in Seq(Text) /\ TypeOK
  BY InitTyped, TypedAssumption, SeqMonotonic
<1>3. Len(stack) = 0 /\ Nested
  <2>1. stack = <<>> /\ feedback = <<>> /\ restart = FALSE
    BY DEF Init
  <2>2. Len(stack) = 0 /\ 2 .. 0 = {}
    BY <2>1
  <2> QED BY <2>1, <2>2 DEF Nested
<1>4. Trim(FirstFile) \in Seq(Text)
  BY <1>2, TrimProperties
<1>5. store.pending = None /\ store.records = Trim(FirstFile) /\ file = FirstFile
  BY DEF Init, Opened, Load
<1>6. Behind(store, file)
  BY <1>4, <1>5, SuffixFacts DEF Behind, Load
<1>7. Clean(store.records)
  BY <1>1, <1>2, <1>5, TrimPositions DEF Clean
<1>8. Owned(store, stack) /\ Recorded(store, stack)
  BY <1>3, <1>5 DEF Owned, Recorded
<1> QED BY <1>1, <1>2, <1>3, <1>6, <1>7, <1>8 DEF IInv, Follows

\* Nothing sensitive is written.
LEMMA CleanStep ==
  ASSUME TypeOK, Clean(file), [Next]_vars
  PROVE  Clean(file')
<1>1. CASE file' = file
  BY <1>1
<1>2. CASE Finish
  <2>1. stack # <<>> /\ scope \in ScopePrefixes /\ Results(Top.resolved) \subseteq Text
    BY <1>2, TopTyped DEF Finish, TypeOK
  <2>2. ASSUME NEW k \in DOMAIN feedback PROVE InScope(prompt, feedback[k]) \in Text
    <3>1. feedback[k] \in Text
      BY TypedAssumption DEF TypeOK
    <3> QED BY <3>1, ScopeTyped, InScopeTyped
  <2>3. ASSUME NEW i \in DOMAIN file' PROVE ~Sensitive(file'[i])
    <3>1. CASE \E k \in DOMAIN file : file[k] = file'[i]
      BY <3>1 DEF Clean
    <3>2. CASE \E k \in DOMAIN feedback :
                 /\ ~Excluded(InScope(prompt, feedback[k]))
                 /\ file'[i] = ApplyPrefix(scope, InScope(prompt, feedback[k]))
      <4>1. PICK line \in Text : ~Excluded(line) /\ file'[i] = ApplyPrefix(scope, line)
        BY <2>2, <3>2
      <4> QED BY <2>1, <4>1, PrefixNotSensitive DEF Excluded
    <3>3. CASE \E resolved \in Results(Top.resolved) :
                 Keeps(Top, resolved) /\ file'[i] = ApplyPrefix(scope, resolved)
      <4>1. PICK line \in Text : ~Excluded(line) /\ file'[i] = ApplyPrefix(scope, line)
        BY <2>1, <3>3 DEF Keeps
      <4> QED BY <2>1, <4>1, PrefixNotSensitive DEF Excluded
    <3> QED BY <3>1, <3>2, <3>3, AdmittedStep
  <2> QED BY <2>3 DEF Clean
<1> QED BY <1>1, <1>2, OnlyFinishWrites

\* A line the user submits is the only one that runs.
LEMMA SubmitSteps ==
  ASSUME TypeOK, Submit
  PROVE  /\ stack = <<>>
         /\ \E line \in Text, resolved \in Text, hidden \in BOOLEAN :
              /\ store' = IF hidden THEN [store EXCEPT !.pending = None]
                          ELSE Save(store, scope, line)
              /\ Len(stack') = 1
              /\ stack'[1].input = line /\ stack'[1].resolved = resolved
              /\ stack'[1].hidden = hidden /\ stack'[1].at = scope
<1>1. stack = <<>> /\ Len(stack) = 0
  BY DEF Submit
<1>2. PICK line \in Typed, hidden \in BOOLEAN :
        /\ store' = IF hidden THEN [store EXCEPT !.pending = None] ELSE Save(store, scope, line)
        /\ \E resolved \in Resolutions(store', line) : Push(line, resolved, hidden, None, scope)
  BY DEF Submit
<1>3. PICK resolved \in Resolutions(store', line) : Push(line, resolved, hidden, None, scope)
  BY <1>2
<1>4. line \in Text /\ resolved \in Text
  <2>1. line \in Text /\ store' \in TextStore
    BY TypedAssumption, TypePreserved DEF Next, TypeOK
  <2> QED BY <2>1, ResolutionsTyped
<1>5. 0 + 1 = 1
  OBVIOUS
<1>6. /\ Len(stack') = Len(stack) + 1
      /\ stack'[Len(stack) + 1].input = line
      /\ stack'[Len(stack) + 1].resolved = resolved
      /\ stack'[Len(stack) + 1].hidden = hidden
      /\ stack'[Len(stack) + 1].at = scope
  BY <1>3, <1>4, ScopeTyped, PushTyped
<1> QED BY <1>1, <1>2, <1>4, <1>5, <1>6

LEMMA SubmitRootSteps ==
  ASSUME TypeOK, SubmitRoot
  PROVE  /\ stack = <<>>
         /\ \E line \in Text :
              LET staged  == [file |-> file, store |-> Save(store, scope, line)]
                  cleared == Finalized(staged, scope, line, line, FALSE, TRUE)
              IN  /\ store' = Save(cleared.store, <<>>, line)
                  /\ Len(stack') = 1
                  /\ stack'[1].input = line /\ stack'[1].resolved = line
                  /\ stack'[1].hidden = FALSE /\ stack'[1].at = <<>>
<1>1. stack = <<>> /\ Len(stack) = 0 /\ 0 + 1 = 1 /\ <<>> \in ScopePrefixes
  BY DEF SubmitRoot, ScopePrefixes
<1>2. PICK line \in Picked :
        LET staged  == [file |-> file, store |-> Save(store, scope, line)]
            cleared == Finalized(staged, scope, line, line, FALSE, TRUE)
        IN  /\ store' = Save(cleared.store, <<>>, line)
            /\ Push(line, line, FALSE, scope, <<>>)
  BY DEF SubmitRoot
<1>3. line \in Text
  BY TypedAssumption
<1>4. /\ Len(stack') = Len(stack) + 1
      /\ stack'[Len(stack) + 1].input = line
      /\ stack'[Len(stack) + 1].resolved = line
      /\ stack'[Len(stack) + 1].hidden = FALSE
      /\ stack'[Len(stack) + 1].at = <<>>
  BY <1>1, <1>2, <1>3, ScopeTyped, PushTyped
<1> QED BY <1>1, <1>2, <1>3, <1>4

\* A line of a batch runs above the others.
LEMMA ChildSteps ==
  ASSUME TypeOK, RunChild
  PROVE  /\ Len(stack) \in Nat /\ Len(stack) > 0
         /\ Last(stack).resolved \in DOMAIN Batches
         /\ Len(stack') = Len(stack) + 1
         /\ stack'[Len(stack) + 1].home = None
         /\ \A i \in 1 .. Len(stack) : stack'[i] = stack[i]
<1>1. Top \in Frame /\ Len(stack) \in Nat /\ Len(stack) > 0
  BY TopTyped DEF RunChild, Running
<1>2. PICK line \in Batches[Top.resolved] \ DOMAIN Batches :
        \E resolved \in Resolutions(store, line) : Push(line, resolved, FALSE, None, scope)
  BY DEF RunChild
<1>3. PICK resolved \in Resolutions(store, line) : Push(line, resolved, FALSE, None, scope)
  BY <1>2
<1>4. Top.resolved \in DOMAIN Batches
  BY DEF RunChild
<1> DEFINE new == [input |-> line, resolved |-> resolved,
                   admitted |-> resolved \notin BangLines /\ Admits(resolved, scope),
                   hidden |-> FALSE, home |-> None, at |-> scope]
<1>5. stack' = Append(stack, new) /\ new.home = None
  BY <1>3 DEF Push
<1> HIDE DEF new
<1>6. stack \in Seq(Frame)
  BY DEF TypeOK
<1>7. /\ Len(stack') = Len(stack) + 1 /\ stack'[Len(stack) + 1] = new
      /\ \A i \in 1 .. Len(stack) : stack'[i] = stack[i]
  BY <1>5, <1>6
<1> QED BY <1>1, <1>4, <1>5, <1>7 DEF Top

LEMMA NestedStep ==
  ASSUME TypeOK, Nested, [Next]_vars
  PROVE  Nested'
<1>1. ASSUME stack = <<>>, Len(stack') = 1, scope' = stack'[1].at,
             feedback' = feedback, restart' = restart
      PROVE  Nested'
  <2>1. stack' # <<>> /\ 2 .. 1 = {} /\ ~(1 > 1)
    BY <1>1
  <2> QED BY <1>1, <2>1 DEF Nested
<1>2. CASE Submit
  BY <1>1, <1>2, SubmitSteps DEF Submit
<1>3. CASE SubmitRoot
  BY <1>1, <1>3, SubmitRootSteps DEF SubmitRoot
<1>4. CASE EnterShell \/ LeaveShell
  BY <1>4 DEF EnterShell, LeaveShell, Running, Nested
<1>5. CASE RunChild
  <2>1. /\ Len(stack) \in Nat /\ Len(stack) > 0 /\ stack # <<>> /\ stack' # <<>>
        /\ Len(stack') = Len(stack) + 1
        /\ Last(stack).resolved \in DOMAIN Batches
    <3>1. /\ Len(stack) \in Nat /\ Len(stack) > 0 /\ Len(stack') = Len(stack) + 1
          /\ Last(stack).resolved \in DOMAIN Batches
      BY <1>5, ChildSteps
    <3>2. Len(stack') # 0
      BY <3>1
    <3> QED BY <1>5, <3>1, <3>2 DEF RunChild, Running
  <2>2. 1 \in 1 .. Len(stack) /\ stack'[1] = stack[1]
    BY <1>5, <2>1, ChildSteps
  <2>3. stack'[1].resolved \in DOMAIN Batches
    <3>1. CASE Len(stack) = 1
      BY <2>1, <2>2, <3>1 DEF Last
    <3>2. CASE Len(stack) # 1
      <4>1. \A n \in Nat : n > 0 /\ n # 1 => n > 1
        OBVIOUS
      <4>2. Len(stack) > 1
        BY <2>1, <3>2, <4>1, Zenon
      <4> QED BY <2>2, <4>2 DEF Nested
    <3> QED BY <3>1, <3>2
  <2>4. ASSUME NEW i \in 2 .. Len(stack') PROVE stack'[i].home = None
    <3>1. CASE i = Len(stack) + 1
      BY <1>5, <3>1, ChildSteps
    <3>2. CASE i # Len(stack) + 1
      <4>1. i \in 1 .. Len(stack) /\ i \in 2 .. Len(stack)
        BY <2>1, <3>2
      <4> QED BY <1>5, <4>1, ChildSteps DEF Nested
    <3> QED BY <3>1, <3>2
  <2> QED BY <1>5, <2>1, <2>2, <2>3, <2>4 DEF RunChild, Nested
<1>6. CASE QueueHistory
  BY <1>6 DEF QueueHistory, Nested
<1>7. CASE RequestRefresh
  BY <1>7 DEF RequestRefresh, Running, Nested
<1>8. CASE Finish
  <2>1. /\ stack # <<>> /\ Len(stack) \in Nat /\ Len(stack) > 0
        /\ stack' = Front(stack) /\ Len(stack') = Len(stack) - 1
        /\ \A i \in 1 .. Len(stack) - 1 : stack'[i] = stack[i]
        /\ Top = stack[Len(stack)]
    BY <1>8, TopTyped, LastAndFront DEF Finish, TypeOK, Top
  <2>2. feedback' = <<>> /\ restart' = IF Len(stack) = 1 /\ restart THEN FALSE ELSE restart
    BY <1>8 DEF Finish
  <2>3. CASE Len(stack) = 1
    <3>1. Len(stack') = 0 /\ stack' = <<>> /\ 2 .. 0 = {}
      <4>1. stack' \in Seq(Frame)
        BY <1>8, TypePreserved DEF Next, TypeOK
      <4>2. Len(stack') = 0 /\ 2 .. 0 = {}
        BY <2>1, <2>3
      <4>3. stack' = <<>>
        BY <4>1, <4>2, EmptySeq
      <4> QED BY <4>2, <4>3
    <3> QED BY <2>2, <2>3, <3>1 DEF Nested, TypeOK
  <2>4. CASE Len(stack) # 1
    <3>1. /\ Len(stack) > 1 /\ stack' # <<>> /\ 1 \in 1 .. Len(stack) - 1
          /\ Len(stack) \in 2 .. Len(stack)
      BY <2>1, <2>4
    <3>2. stack'[1] = stack[1] /\ stack[1].resolved \in DOMAIN Batches /\ Top.home = None
      BY <2>1, <3>1 DEF Nested
    <3>3. scope' = scope /\ restart' = restart
      BY <1>8, <2>2, <2>4, <3>2 DEF Finish
    <3>4. ASSUME NEW i \in 2 .. Len(stack') PROVE stack'[i].home = None
      <4>1. i \in 2 .. Len(stack) /\ i \in 1 .. Len(stack) - 1
        BY <2>1
      <4> QED BY <2>1, <4>1 DEF Nested
    <3> QED BY <2>1, <2>2, <3>1, <3>2, <3>3, <3>4 DEF Nested
  <2> QED BY <2>3, <2>4
<1>9. CASE UNCHANGED vars
  BY <1>9 DEF vars, Nested
<1> QED BY <1>2, <1>3, <1>4, <1>5, <1>6, <1>7, <1>8, <1>9 DEF Next

-----------------------------------------------------------------------------
(* Memory follows the file. *)

\* A history whose memory follows its file, once its line has ended.
LEMMA EndedSound ==
  ASSUME IInv, stack # <<>>, ~IOFails, QueuesAlone,
         NEW resolved \in Results(Top.resolved), NEW accepted \in BOOLEAN,
         NEW ok \in BOOLEAN, ok = TRUE
  PROVE  LET heard == Heard(resolved, accepted, ok)
         IN  \/ Settled(heard.store, heard.file)
             \/ /\ heard.store.records = store.records
                /\ heard.store.pending = store.pending /\ heard.file = file
                /\ store.pending # None
                /\ ~Top.hidden => store.pending.line # ApplyPrefix(scope, Top.input)
<1> DEFINE e == Ended(resolved, ok)
           heard == Heard(resolved, accepted, ok)
           before == [file |-> file, store |-> store]
<1>1. TypeOK /\ Clean(file) /\ Behind(store, file) /\ Clean(store.records)
  BY DEF IInv, Follows
<1>2. resolved \in Text /\ Top \in Frame /\ scope \in ScopePrefixes
  BY <1>1, TopTyped DEF TypeOK
<1>3. /\ heard \in Histories /\ e \in Histories
      /\ heard.file = e.file
      /\ heard.store.records = e.store.records /\ heard.store.pending = e.store.pending
  BY <1>1, <1>2, HeardFacts
<1>4. before \in Histories /\ before.file = file /\ before.store = store
  BY <1>1 DEF TypeOK, Histories
<1>5. \/ Settled(e.store, e.file)
      \/ /\ e.store = store /\ e.file = file /\ store.pending # None
         /\ ~Top.hidden => store.pending.line # ApplyPrefix(scope, Top.input)
  <2>1. CASE Top.hidden
    <3>1. e.store = store /\ e.file = file
      BY <2>1 DEF Ended
    <3> QED BY <1>1, <2>1, <3>1 DEF Settled
  <2>2. CASE ~Top.hidden
    <3>1. e = Finalized(before, scope, Top.input, resolved, Top.admitted, ok)
      BY <2>2 DEF Ended
    <3> DEFINE end == Finalized(before, scope, Top.input, resolved, Top.admitted, ok)
    <3>2. \/ Settled(end.store, end.file)
          \/ /\ end.store = before.store /\ end.file = before.file
             /\ before.store.pending # None
             /\ before.store.pending.line # ApplyPrefix(scope, Top.input)
      <4>1. Behind(before.store, before.file) /\ Clean(before.store.records) /\ Clean(before.file)
        BY <1>1, <1>4
      <4>2. Top.input \in Text /\ Top.admitted \in BOOLEAN
        BY <1>2 DEF Frame
      <4>3. before \in Histories
        BY <1>4
      <4> HIDE DEF before
      <4>4. EndsWell(before, scope, Top.input, end)
        BY <1>2, <4>1, <4>2, <4>3, FinalizedSound
      <4> QED BY <4>4 DEF EndsWell
    <3> QED BY <1>4, <3>1, <3>2
  <2> QED BY <2>1, <2>2
<1> HIDE DEF heard, e
<1>6. Settled(e.store, e.file) => Settled(heard.store, heard.file)
  BY <1>3 DEF Settled, Behind
<1> QED BY <1>3, <1>5, <1>6 DEF heard

\* What a line adds to a clean file is not sensitive.
LEMMA HeardClean ==
  ASSUME TypeOK, stack # <<>>, Clean(file), NEW resolved \in Results(Top.resolved),
         NEW accepted \in BOOLEAN, NEW ok \in BOOLEAN
  PROVE  Clean(Heard(resolved, accepted, ok).file)
<1> DEFINE before == [file |-> file, store |-> store]
           e == Ended(resolved, ok)
<1>1. resolved \in Text /\ Top \in Frame /\ scope \in ScopePrefixes
  BY TopTyped DEF TypeOK
<1>2. Heard(resolved, accepted, ok).file = e.file
  BY <1>1, HeardFacts
<1>3. CASE Top.hidden
  BY <1>2, <1>3 DEF Ended
<1>4. CASE ~Top.hidden
  <2>1. before \in Histories /\ before.file = file
    BY DEF TypeOK, Histories
  <2>2. e = Finalized(before, scope, Top.input, resolved, Top.admitted, ok)
    BY <1>4 DEF Ended
  <2> HIDE DEF before, e
  <2>3. \A i \in DOMAIN e.file :
          \/ \E k \in DOMAIN before.file : e.file[i] = before.file[k]
          \/ /\ Kept(Top.input, resolved, Top.admitted)
             /\ e.file[i] = ApplyPrefix(scope, resolved)
    BY <1>1, <2>1, <2>2, FinalizedFile DEF Frame
  <2>4. Kept(Top.input, resolved, Top.admitted) => ~Sensitive(ApplyPrefix(scope, resolved))
    BY <1>1, PrefixNotSensitive DEF Kept, Excluded
  <2>5. Clean(e.file)
    BY <2>1, <2>3, <2>4 DEF Clean
  <2> QED BY <1>2, <2>5 DEF e
<1> QED BY <1>3, <1>4

\* The end of a line.
LEMMA FollowsFinish ==
  ASSUME IInv, Finish, ~IOFails, QueuesAlone
  PROVE  Follows'
<1>1. PICK resolved \in Results(Top.resolved), accepted \in BOOLEAN, ok \in Outcomes,
           okQueued \in Outcomes :
        LET after  == Staged(Heard(resolved, accepted, ok), scope, prompt, feedback, okQueued)
            leaves == Len(stack) = 1 /\ restart
        IN  /\ file' = after.file
            /\ store' = IF leaves THEN Opened(Load(after.file)) ELSE after.store
            /\ restart' = IF leaves THEN FALSE ELSE restart
  BY FinishSteps DEF IInv
<1> DEFINE heard == Heard(resolved, accepted, ok)
           after == Staged(heard, scope, prompt, feedback, okQueued)
<1>2. /\ stack # <<>> /\ ok \in BOOLEAN /\ okQueued \in BOOLEAN /\ ok = TRUE /\ okQueued = TRUE
      /\ file' = after.file
      /\ ~(Len(stack) = 1 /\ restart) => store' = after.store
      /\ Len(stack) = 1 /\ restart => store' = Opened(Load(after.file))
  BY <1>1 DEF Finish, Outcomes
<1>3. /\ TypeOK /\ Clean(file) /\ Behind(store, file) /\ Clean(store.records)
      /\ Owned(store, stack) /\ Nested /\ feedback \in Seq(Text) /\ Len(feedback) <= 1
      /\ resolved \in Text /\ scope \in ScopePrefixes
  <2>1. TypeOK
    BY DEF IInv
  <2>2. feedback \in Seq(Text)
    BY <2>1, TypedAssumption, SeqMonotonic DEF TypeOK
  <2> QED BY <1>2, <2>1, <2>2, TopTyped DEF IInv, Follows, TypeOK
<1>4. /\ heard \in Histories
      /\ \/ Settled(heard.store, heard.file)
         \/ /\ heard.store.records = store.records
            /\ heard.store.pending = store.pending /\ heard.file = file
            /\ store.pending # None
            /\ ~Top.hidden => store.pending.line # ApplyPrefix(scope, Top.input)
  BY <1>2, <1>3, HeardFacts, EndedSound
<1>5. /\ Len(stack) \in Nat /\ Len(stack) > 0
      /\ stack' = Front(stack) /\ Len(stack') = Len(stack) - 1 /\ stack' \in Seq(Frame)
      /\ \A i \in 1 .. Len(stack) - 1 : stack'[i] = stack[i]
      /\ Top = stack[Len(stack)]
  BY <1>2, <1>3, TopTyped, LastAndFront DEF Finish, TypeOK, Top
<1>6. Clean(file') /\ file' \in Seq(Text)
  BY <1>3, CleanStep, TypePreserved DEF Next, TypeOK
<1> HIDE DEF heard, after
<1>7. CASE Len(stack) = 1
  <2>1. stack' = <<>> /\ Len(stack') = 0
    BY <1>5, <1>7, EmptySeq
  <2>2. Settled(store', file')
    <3>1. CASE restart
      <4>1. store'.pending = None /\ store'.records = Trim(file')
        BY <1>2, <1>7, <3>1 DEF Opened, Load
      <4>2. Trim(file') \in Seq(Text) /\ Clean(Trim(file'))
        BY <1>6, TrimProperties, TrimPositions DEF Clean
      <4> QED BY <4>1, <4>2, SuffixFacts DEF Settled, Behind, Load
    <3>2. CASE ~restart
      <4>1. Top = stack[1] /\ scope = Top.at
        BY <1>2, <1>3, <1>5, <1>7, <3>2 DEF Nested
      <4>2. Settled(heard.store, heard.file)
        BY <1>3, <1>4, <4>1 DEF Owned
      <4>3. Clean(heard.file)
        BY <1>2, <1>3, HeardClean DEF heard
      <4>4. Settled(after.store, after.file)
        BY <1>2, <1>3, <1>4, <4>2, <4>3, ScopeTyped, StagedSound DEF after
      <4> QED BY <1>2, <3>2, <4>4
    <3> QED BY <3>1, <3>2
  <2>3. Owned(store', stack') /\ Recorded(store', stack')
    BY <2>1, <2>2 DEF Settled, Owned, Recorded
  <2> QED BY <2>2, <2>3 DEF Settled, Follows
<1>8. CASE Len(stack) # 1
  <2>1. Len(stack) > 1 /\ stack' # <<>> /\ 1 \in 1 .. Len(stack) - 1
    BY <1>5, <1>8
  <2>2. stack'[1] = stack[1] /\ stack[1].resolved \in DOMAIN Batches
    BY <1>3, <1>5, <2>1 DEF Nested
  <2>3. feedback = <<>>
    BY <1>3, <2>2 DEF Nested, QueuesAlone
  <2>4. store' = heard.store /\ file' = heard.file
    <3>1. Staged(heard, scope, prompt, <<>>, okQueued) = heard
      BY StagedNothing
    <3>2. after = heard
      BY <2>3, <3>1 DEF after
    <3> QED BY <1>2, <1>8, <3>2
  <2>5. CASE Settled(heard.store, heard.file)
    <3>1. store'.pending = None /\ Behind(store', file') /\ Clean(store'.records)
      BY <2>4, <2>5 DEF Settled
    <3> QED BY <2>2, <3>1 DEF Owned, Recorded, Follows
  <2>6. CASE heard.store.records = store.records /\ heard.store.pending = store.pending
               /\ heard.file = file
    <3>1. store'.records = store.records /\ store'.pending = store.pending /\ file' = file
      BY <2>4, <2>6
    <3>2. Behind(store', file') /\ Clean(store'.records)
      BY <1>3, <3>1 DEF Behind
    <3>3. Owned(store', stack')
      BY <1>2, <1>3, <2>1, <2>2, <3>1 DEF Owned
    <3> QED BY <2>2, <3>2, <3>3 DEF Recorded, Follows
  <2> QED BY <1>4, <2>5, <2>6
<1> QED BY <1>7, <1>8

\* A saved line under way.
LEMMA FollowsSaved ==
  ASSUME NEW st \in TextStore, NEW p \in ScopePrefixes, NEW line \in Text,
         Settled(st, file), file \in Seq(Text), file' = file,
         store' = Save(st, p, line), Len(stack') = 1,
         stack'[1].input = line, stack'[1].hidden = FALSE, stack'[1].at = p
  PROVE  Follows'
<1> DEFINE new == Save(st, p, line)
<1>1. /\ Behind(new, file) /\ Clean(new.records)
      /\ new.pending # None => new.pending.line = ApplyPrefix(p, line)
      /\ new.pending = None /\ ~Excluded(line) =>
           new.records # <<>> /\ Newest(new.records) = ApplyPrefix(p, line)
  BY SaveSound
<1>2. stack' # <<>>
  <2>1. Len(<<>>) # 1
    OBVIOUS
  <2> QED BY <2>1, Zenon
<1> HIDE DEF new
<1>3. store' = new
  BY DEF new
<1>4. Behind(store', file') /\ Clean(store'.records)
  BY <1>1, <1>3
<1>5. Owned(store', stack') /\ Recorded(store', stack')
  BY <1>1, <1>2, <1>3 DEF Owned, Recorded
<1> QED BY <1>4, <1>5 DEF Follows

LEMMA FollowsSubmit ==
  ASSUME TypeOK, Follows, Submit
  PROVE  Follows'
<1>1. /\ stack = <<>> /\ store.pending = None /\ Settled(store, file)
      /\ file \in Seq(Text) /\ store \in TextStore /\ scope \in ScopePrefixes /\ file' = file
  BY DEF Submit, Follows, Owned, Settled, TypeOK
<1>2. PICK line \in Text, resolved \in Text, hidden \in BOOLEAN :
        /\ store' = IF hidden THEN [store EXCEPT !.pending = None] ELSE Save(store, scope, line)
        /\ Len(stack') = 1
        /\ stack'[1].input = line /\ stack'[1].resolved = resolved
        /\ stack'[1].hidden = hidden /\ stack'[1].at = scope
  BY SubmitSteps
<1>3. CASE hidden
  <2>1. store'.pending = None /\ store'.records = store.records
    BY <1>1, <1>2, <1>3 DEF TextStore
  <2>2. Behind(store', file') /\ Clean(store'.records)
    BY <1>1, <2>1 DEF Settled, Behind
  <2>3. Owned(store', stack') /\ Recorded(store', stack')
    BY <1>2, <1>3, <2>1 DEF Owned, Recorded
  <2> QED BY <2>2, <2>3 DEF Follows
<1>4. CASE ~hidden
  <2>1. store' = Save(store, scope, line) /\ stack'[1].hidden = FALSE
    BY <1>2, <1>4
  <2> QED BY <1>1, <1>2, <2>1, FollowsSaved
<1> QED BY <1>3, <1>4

LEMMA FollowsSubmitRoot ==
  ASSUME TypeOK, Follows, Clean(file), SubmitRoot
  PROVE  Follows'
<1>1. /\ stack = <<>> /\ store.pending = None /\ Settled(store, file) /\ <<>> \in ScopePrefixes
      /\ file \in Seq(Text) /\ store \in TextStore /\ scope \in ScopePrefixes /\ file' = file
  BY DEF SubmitRoot, Follows, Owned, Settled, TypeOK, ScopePrefixes
<1>2. PICK line \in Text :
        LET staged  == [file |-> file, store |-> Save(store, scope, line)]
            cleared == Finalized(staged, scope, line, line, FALSE, TRUE)
        IN  /\ store' = Save(cleared.store, <<>>, line)
            /\ Len(stack') = 1
            /\ stack'[1].input = line /\ stack'[1].resolved = line
            /\ stack'[1].hidden = FALSE /\ stack'[1].at = <<>>
  BY SubmitRootSteps
<1> DEFINE saved   == Save(store, scope, line)
           staged  == [file |-> file, store |-> saved]
           cleared == Finalized(staged, scope, line, line, FALSE, TRUE)
<1>3. saved \in TextStore
  BY <1>1, SaveTyped
<1>4. /\ Behind(saved, file) /\ Clean(saved.records)
      /\ saved.pending # None => saved.pending.line = ApplyPrefix(scope, line)
  BY <1>1, SaveSound
<1>5. /\ store' = Save(cleared.store, <<>>, line) /\ Len(stack') = 1
      /\ stack'[1].input = line /\ stack'[1].hidden = FALSE /\ stack'[1].at = <<>>
  BY <1>2
<1> HIDE DEF saved
<1>6. staged \in Histories /\ staged.file = file /\ staged.store = saved
  BY <1>1, <1>3 DEF Histories
<1> HIDE DEF staged
<1>7. Ends(staged, scope, line, line, FALSE, TRUE)
  BY <1>1, <1>6, FinalizedCases
<1>8. EndsWell(staged, scope, line, cleared)
  BY <1>1, <1>4, <1>6, FinalizedSound
<1>9. /\ cleared \in Histories
      /\ cleared.file = file
      /\ Settled(cleared.store, cleared.file)
  <2>1. cleared \in Histories /\ cleared.file = staged.file
    BY <1>7 DEF Ends, Kept
  <2>2. Settled(cleared.store, cleared.file)
    BY <1>4, <1>6, <1>8 DEF EndsWell
  <2> QED BY <1>6, <2>1, <2>2
<1> HIDE DEF cleared
<1>10. cleared.store \in TextStore
  BY <1>9 DEF Histories
<1> QED BY <1>1, <1>5, <1>9, <1>10, FollowsSaved

\* Every step keeps the invariant.
LEMMA StepInv ==
  ASSUME IInv, [Next]_vars
  PROVE  IInv'
<1>1. TypeOK' /\ Nested' /\ Clean(file')
  BY TypePreserved, NestedStep, CleanStep DEF IInv
<1>2. ASSUME ~IOFails, QueuesAlone
      PROVE  Follows'
  <2>1. Follows /\ TypeOK /\ Clean(file) /\ Nested
    BY <1>2 DEF IInv
  <2>2. CASE Submit
    BY <2>1, <2>2, FollowsSubmit
  <2>3. CASE SubmitRoot
    BY <2>1, <2>3, FollowsSubmitRoot
  <2>4. CASE EnterShell \/ LeaveShell \/ QueueHistory \/ RequestRefresh
    BY <2>1, <2>4 DEF EnterShell, LeaveShell, QueueHistory, RequestRefresh, Follows
  <2>5. CASE RunChild
    <3>1. /\ Len(stack) \in Nat /\ Len(stack) > 0 /\ Len(stack') = Len(stack) + 1
          /\ stack # <<>>
          /\ \A i \in 1 .. Len(stack) : stack'[i] = stack[i]
      BY <2>1, <2>5, ChildSteps DEF RunChild, Running
    <3>2. stack'[1] = stack[1] /\ Len(stack') # 1 /\ Len(stack') # 0
      BY <3>1
    <3>3. stack' # <<>>
      BY <3>2
    <3>4. store' = store /\ file' = file
      BY <2>5 DEF RunChild
    <3> QED BY <2>1, <3>1, <3>2, <3>3, <3>4 DEF Follows, Owned, Recorded
  <2>6. CASE Finish
    BY <1>2, <2>6, FollowsFinish
  <2>7. CASE UNCHANGED vars
    BY <2>1, <2>7 DEF vars, Follows
  <2> QED BY <2>2, <2>3, <2>4, <2>5, <2>6, <2>7 DEF Next
<1> QED BY <1>1, <1>2 DEF IInv, QueuesAlone

THEOREM Invariance == Spec => []IInv
BY InitInv, StepInv, PTL DEF Spec

\* Between two lines nothing is pending and memory is a newest part of the file,
\* whatever lines were refused, renamed, queued, or given up before.
THEOREM MemoryFollows == Spec => []MemoryFollowsFile
<1>1. IInv => MemoryFollowsFile
  BY DEF IInv, MemoryFollowsFile, Follows, Owned, Behind
<1> QED BY <1>1, Invariance, PTL

\* A line that is kept is the newest line of the file once it has run.
LEMMA KeptStep ==
  ASSUME IInv, [Next]_vars, Len(stack) = 1, stack' = <<>>, ~IOFails, QueuesAlone,
         feedback = <<>>, scope = Top.at, Keeps(Top, Top.resolved),
         Top.resolved \notin DOMAIN Rewrites \cup DOMAIN Batches
  PROVE  file' # <<>> /\ Newest(file') = ApplyPrefix(scope, Top.resolved)
<1>1. /\ TypeOK /\ Clean(file) /\ Behind(store, file) /\ Clean(store.records)
      /\ Owned(store, stack) /\ Recorded(store, stack) /\ stack # <<>>
  <2>1. stack # <<>>
    BY EmptySeq
  <2> QED BY <2>1 DEF IInv, Follows
<1>2. Top = stack[1] /\ Top \in Frame /\ scope \in ScopePrefixes
  BY <1>1, TopTyped DEF Top, Last, TypeOK
<1>3. Finish
  <2>1. stack' # stack
    BY <1>1
  <2>2. ~Submit /\ ~SubmitRoot
    BY <1>1 DEF Submit, SubmitRoot
  <2>3. ~EnterShell /\ ~LeaveShell /\ ~QueueHistory /\ ~RequestRefresh /\ ~UNCHANGED vars
    BY <2>1 DEF EnterShell, LeaveShell, QueueHistory, RequestRefresh, vars
  <2>4. ~RunChild
    BY <1>2 DEF RunChild
  <2> QED BY <2>2, <2>3, <2>4 DEF Next
<1>4. PICK resolved \in Results(Top.resolved), accepted \in BOOLEAN, ok \in Outcomes,
           okQueued \in Outcomes :
        file' = Staged(Heard(resolved, accepted, ok), scope, prompt, feedback, okQueued).file
  BY <1>1, <1>3, FinishSteps
<1>5. resolved = Top.resolved /\ ok \in BOOLEAN /\ ok = TRUE /\ resolved \in Text
  BY <1>2 DEF Results, Outcomes, Frame
<1> DEFINE before == [file |-> file, store |-> store]
           end == Finalized(before, scope, Top.input, resolved, Top.admitted, ok)
           heard == Heard(resolved, accepted, ok)
<1>6. file' = end.file
  <2>1. Ended(resolved, ok) = end
    BY DEF Ended, Keeps
  <2>2. heard.file = Ended(resolved, ok).file
    BY <1>1, <1>5, HeardFacts
  <2> HIDE DEF heard, end
  <2>3. Staged(heard, scope, prompt, <<>>, okQueued) = heard
    BY StagedNothing
  <2>4. file' = Staged(heard, scope, prompt, feedback, okQueued).file
    BY <1>4 DEF heard
  <2> QED BY <2>1, <2>2, <2>3, <2>4
<1>7. before \in Histories /\ before.file = file /\ before.store = store
  BY <1>1 DEF TypeOK, Histories
<1>8. /\ Kept(Top.input, resolved, Top.admitted)
      /\ Top.input \in Text /\ Top.admitted \in BOOLEAN
  BY <1>2, <1>5 DEF Kept, Keeps, Frame
<1>9. /\ store.pending # None => store.pending.line = ApplyPrefix(scope, Top.input)
      /\ store.pending = None /\ Top.input = resolved =>
           store.records # <<>> /\ Newest(store.records) = ApplyPrefix(scope, resolved)
  <2>1. store.pending # None => store.pending.line = ApplyPrefix(scope, Top.input)
    BY <1>1, <1>2 DEF Owned
  <2>2. store.pending = None /\ Top.input = resolved =>
          store.records # <<>> /\ Newest(store.records) = ApplyPrefix(scope, resolved)
    BY <1>1, <1>2, <1>5 DEF Recorded, Keeps
  <2> QED BY <2>1, <2>2
<1>10. Behind(before.store, before.file) /\ Clean(before.store.records) /\ Clean(before.file)
  BY <1>1, <1>7
<1> HIDE DEF before
<1>11. end.file # <<>> /\ Newest(end.file) = ApplyPrefix(scope, resolved)
  <2>1. EndsNewest(end, ApplyPrefix(scope, resolved))
    BY <1>2, <1>5, <1>7, <1>8, <1>9, <1>10, FinalizedNewest, ZenonT(40)
  <2> QED BY <2>1 DEF EndsNewest
<1> QED BY <1>5, <1>6, <1>11

\* A line to be kept reaches the file, as it was resolved, whether the editor had
\* saved it, had found it there already, or a history request brought it.
THEOREM KeptLines == Spec => KeptLineIsOnDisk
<1>1. ASSUME IInv, [Next]_vars
      PROVE  Len(stack) = 1 /\ stack' = <<>> /\ ~IOFails /\ QueuesAlone
               /\ feedback = <<>> /\ scope = Top.at
               /\ Keeps(Top, Top.resolved) /\ Top.resolved \notin DOMAIN Rewrites \cup DOMAIN Batches
             => /\ file' # <<>>
                /\ Newest(file') = ApplyPrefix(scope, Top.resolved)
  BY <1>1, KeptStep
<1> QED BY <1>1, Invariance, PTL DEF Spec, KeptLineIsOnDisk

=============================================================================
