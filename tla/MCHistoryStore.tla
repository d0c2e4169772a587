--------------------------- MODULE MCHistoryStore ---------------------------
(***************************************************************************)
(* Instances of HistoryStore for TLC. The words are strings; the lines are *)
(* the ones the configurations type, at the root and inside ldap.          *)
(***************************************************************************)
EXTENDS HistoryStore, TLC

Who   == <<"who">>
User  == <<"user">>
Bang  == <<"!!">>
Login == <<"login", "pw">>

AtRoot == {<<>>}
LdapOrRoot == {<<>>, <<"ldap">>}

RootLines == {<<"who">>, <<"user">>, <<"!!">>, <<"login", "pw">>}
ShellLines == RootLines \cup {<<"ldap">> \o line : line \in RootLines}

TwoSorts == {Who, Login}
OneSecret == <<Login>>
OneLine == {Who}
NoLines == [s \in Sessions |-> {}]
InMemoryOnly == [s \in Sessions |-> IF s \in Persistent THEN {} ELSE {Who}]
PublicExclusions == {Bang}

OnePattern == {{Who}}
KeepNoneOrOne == {0, 1}
KeepNone == {0}

EmptyFile == <<>>

Processes == Permutations(Sessions)

=============================================================================
