--------------------------- MODULE MCSessionState ---------------------------
(***************************************************************************)
(* Instances for TLC of what a REPL keeps or passes on. ContextStore: two   *)
(* REPLs that persist different kinds, r1 the kind `own` too; the entries  *)
(* plain and secret. SessionLines. Pipeline: a table, a document and a     *)
(* lone record. They have no variable in common, so one of them moves.     *)
(***************************************************************************)
EXTENDS ContextStore, SessionLines, Pipeline

CONSTANTS r1, both, own, plain, secret, first

VARIABLE part  \* which of them moves

allVars == <<vars, lineVars, outputVars, part>>

One(x, f) == Cell(Scalar(x), f)
All(xs, f) == Cell([many |-> TRUE, items |-> xs], f)

Table ==
  [rows |-> <<[uid |-> One(1, "uid"), tags |-> All(<<2, 1, 2>>, "tags"), seen |-> One(2, "seen")],
              [uid |-> One(2, "uid"), tags |-> All(<<>>, "tags"), seen |-> One(Null, "seen")],
              [uid |-> One(1, "uid"), tags |-> All(<<1, Null>>, "tags")]>>,
   roles |-> <<>>, view |-> TRUE, formatted |-> {{"seen"}, {"uid", "tags"}}, title |-> "uid"]
Article ==
  [rows |-> <<[uid |-> One(2, "uid")], [uid |-> One(1, "uid"), seen |-> One(0, "seen")],
              [uid |-> One(1, "uid")]>>,
   roles |-> <<"entry", "text", "entry">>, view |-> TRUE, formatted |-> {{"seen"}}, title |-> ""]
Record ==
  [rows |-> <<[uid |-> One(1, "uid"), tags |-> All(<<1, 2>>, "tags"), seen |-> One(Null, "seen")]>>,
   roles |-> <<>>, view |-> TRUE, formatted |-> {{"tags"}}, title |-> "seen"]
Produced == {Table, Article, Record}

Is(verb, key, exists, value, negated) ==
  [verb |-> verb, key |-> key, exists |-> exists, value |-> value, negated |-> negated]
By(key, header, exists) == [key |-> key, header |-> header, exists |-> exists]
Reduce(function, column, alias) ==
  [verb |-> "A", function |-> function, column |-> column, alias |-> alias]
Plain(verb) == [verb |-> verb]

\* A quick search is for a name (K uid) or, in whole, for a value (V =1).
Typed ==
  {Is("F", "tags", TRUE, 9, FALSE), Is("F", "uid", FALSE, 1, FALSE), Is("F", "seen", FALSE, 2, TRUE),
   Is("quick", "uid", FALSE, 9, FALSE), Is("quick", "", FALSE, 1, FALSE),
   Is("quick", "", FALSE, 2, TRUE), Is("quick", "seen", TRUE, 9, FALSE)}
    \cup {[verb |-> "S", key |-> key, descending |-> down] :
            key \in {"seen", "tags", "uid"}, down \in BOOLEAN}
    \cup {[verb |-> "L", count |-> n, offset |-> m] : n \in {1, -1}, m \in {0, 1, -2}}
    \cup {[verb |-> "G", plans |-> plans] :
            plans \in {<<By("tags", "tags", FALSE)>>, <<By("uid", "seen", FALSE)>>,
                       <<By("seen", "seen", TRUE)>>,
                       <<By("uid", "uid", FALSE), By("tags", "tag", FALSE)>>}}
    \cup {Reduce("count", "", "seen"), Reduce("sum", "tags", "total"), Reduce("max", "seen", "seen")}
    \cup {Plain(verb) : verb \in {"C", "Z", "?", "Y"}}
    \cup {[verb |-> "U", key |-> "tags"]}
    \cup {[verb |-> "P", keep |-> {"tags"}, drop |-> {}], [verb |-> "P", keep |-> {}, drop |-> {"uid"}]}
    \cup {[verb |-> "VALUE", keys |-> <<"tags", "seen">>]}

StateInit ==
  /\ part \in {"selections", "lines", "output"}
  /\ LinesInit /\ Init /\ OutputInit
  /\ part # "selections" => file = Nothing
  /\ part # "output" => product = Table

StateNext ==
  \/ part = "selections" /\ Next /\ UNCHANGED <<lineVars, outputVars, part>>
  \/ part = "lines" /\ LinesNext /\ UNCHANGED <<vars, outputVars, part>>
  \/ part = "output" /\ OutputNext /\ UNCHANGED <<vars, lineVars, part>>

StateSpec == StateInit /\ [][StateNext]_allVars

Differ == [p \in Processes |-> IF p = r1 THEN Keys ELSE {both}]
Redacts == [e \in Entries |-> IF e = secret THEN None ELSE e]

Sourced == {first, "next", "prev", "recording start", "recording stop"}
=============================================================================
