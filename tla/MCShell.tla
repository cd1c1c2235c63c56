------------------------------ MODULE MCShell ------------------------------
(* Sessions for TLC.  Each line of a list is a session of its own, or is   *)
(* typed to sh and to my_shell.  ">>" writes at the start of the file.     *)
EXTENDS Shell

Empty == [f \in {"f", "g"} |-> <<>>]
Means(ls) == LET m == SessionMeaning(ls, [in |-> <<>>, out |-> <<>>,
                                          files |-> Empty]) IN
             [out |-> m.out, files |-> m.files]

Leaves(o, f) == [out |-> o, files |-> [Empty EXCEPT !["f"] = f]]

Tables(ls, np, nf, no, ms) == [lines |-> ls, nproc |-> np, nfile |-> nf,
                               nofile |-> no, means |-> ms]
Session(ls)   == Tables(ls, 9, 9, 9, {Means(ls)})
InMyShell(ls) == Session(<<<<"my_shell">>>> \o ls)

EchoCat == <<"echo", "x", "|", "cat">>
ThenHw  == <<"echo", "x", "|", "cat", ";", "hw">>
Three   == <<"echo", "x", "|", "cat", "|", "cat">>
Into    == <<"echo", "x", ">", "f", ";", "hw", ";", "cat", "f">>
Through == <<"cat", "<", "f", ">", "g">>
Onto    == <<"echo", "y", ">>", "f">>
Group   == <<"(", "echo", "x", ";", "hw", ")", ">", "f">>
Back    == <<"pingpong", "&">>
Doze    == <<"sleep", "2">>
Quit    == <<>>

DozeToo == <<"sleep", "1", "&">>

MCSessions ==
  {Session(<<l>>) : l \in {ThenHw, Three, <<"pingpong">>}}
  \cup {InMyShell(<<l>>) : l \in {ThenHw, <<"pingpong">>}}
  \cup {Session(<<Into, Through>>), InMyShell(<<Into, Through>>),
        InMyShell(<<<<"cd", "g">>, <<"hw">>, Quit, <<"hw">>, Quit>>)}
  \cup {Tables(<<Group>>, 9, 9, 9, {Leaves(<<>>, <<"x", "Hello World">>)}),
        Tables(<<<<"my_shell">>, Into, Onto>>, 9, 9, 9,
               {Leaves(<<"Hello World", "x">>, <<"y">>)})}
  \cup {Tables(ls, 9, 9, 9, {}) :
          ls \in {<<Back, <<"hw">>>>, <<DozeToo, Doze>>}}
  \cup {Tables(<<<<"my_shell">>, EchoCat>>, np, 9, 9, {}) : np \in {5, 6}}
  \cup {Tables(<<Three, Quit>>, np, nf, no, {}) :
          np \in {5, 9}, nf \in {3, 5}, no \in {4, 6}}
  \cup {Tables(<<<<"pingpong">>, <<"echo", "(">>, <<"echo", "x", ">">>>>,
               np, 9, no, {}) : np \in {3, 4}, no \in {5, 6, 7}}
=============================================================================
