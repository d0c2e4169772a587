---------------------------- MODULE MCReplLine ----------------------------
(***************************************************************************)
(* Instances of ReplLine for TLC: two shells, ldap and mreg, the command   *)
(* who, which exists everywhere, the word junk, which exists nowhere, the  *)
(* global command config, the batch src, the command ask, which queues     *)
(* others for the history, and the history request !!.                     *)
(***************************************************************************)
EXTENDS ReplLine

Who  == <<"who">>
Junk == <<"junk">>
Bang == <<"!!">>
Exit == <<"exit">>
Src  == <<"src">>
Ldap == <<"ldap">>
Mreg == <<"mreg">>
Set  == <<"set", "pw">>
Ask  == <<"ask">>
Done == <<"done">>

Plain == {Who, Junk, Bang, Exit, Src, Ldap, Mreg, Set, Ask, Done}
Config == <<"config">>
AllLines == Plain \cup {shell \o line : shell \in {Ldap, Mreg}, line \in Plain \cup {Config}}

AllScopes == {<<>>, Ldap, Mreg}
Excl == {Bang, Exit}
Bangs == {Bang}
NoBangs == {}
Leave == {Exit}
Shells == {"ldap", "mreg"}
Globals == {"config"}
Resolving == [p \in AllScopes |->
                {"who", "src", "set", "exit", "ask", "done"} \cup (IF p = <<>> THEN Shells ELSE {})]

InShells == {Who, Junk, Bang, Exit, Ldap, Mreg, Set, Ask}
InBatches == {Bang, Src, Ask}
Switches == {Who, Ldap, Mreg, Exit}
Batch == {Src}
Pick == {Who, Ldap}
NoPick == {}
Asking == {Ask}
Doing == {Done}
Elsewhere == {Done, Ldap \o Done, Ldap \o Config}
NoQueue == {}

Sourced == [line \in {Src} |-> {Who, Bang}]
SourcedAsk == [line \in {Src} |-> {Ask}]
NoBatches == [line \in {} |-> {}]
Expanded == [line \in {Ask} |-> {Junk}]
NoRewrites == [line \in {} |-> {}]

FileBefore == <<Done>>
EmptyFile == <<>>
=============================================================================
