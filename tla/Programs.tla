------------------------------ MODULE Programs ------------------------------
(***************************************************************************)
(* User programs as lists of system calls: the parser and runcmd() of      *)
(* user/sh.c, run_command() of user/my_shell.c, pingpong.c, init.c, cat.c, *)
(* echo.c, hw.c and sleep.c.                                               *)
(*                                                                         *)
(* A command line is a sequence of tokens.  An instruction is one system   *)
(* call, with what the program does when the call fails: "exit", or        *)
(* "go_on".  A descriptor is "0", "1", or one that the program keeps in a  *)
(* variable: "p0" and "p1" (from pipe()), "q0" and "q1" (from a second     *)
(* pipe()) and "fd" (from open()).  exec() keeps the descriptors and needs *)
(* no instruction: the program's own calls follow.  What a program writes  *)
(* in one go is one message; complaints and exit statuses are left out.    *)
(***************************************************************************)
EXTENDS Integers, Sequences, FiniteSets, FiniteSetsExt

CONSTANTS MAXARGS   \* arguments of a command

Redirections == {"<", ">", ">>"}
Operators    == {"|", ";", "&", "(", ")"}
IsWord(t)    == t \notin Redirections \cup Operators

-----------------------------------------------------------------------------
(* sh.c: commands and their parser.  A parser returns the command and the  *)
(* tokens that are left; panic() makes the command Syntax.                 *)

Node(type, left, right) == [type |-> type, left |-> left, right |-> right]
Syntax             == Node("syntax", <<>>, <<>>)
ExecCmd(argv)      == Node("exec", argv, <<>>)
RedirCmd(cmd, r)   == Node("redir", cmd, r)      \* r: <<operator, file>>
PipeCmd(l, r)      == Node("pipe", l, r)
ListCmd(l, r)      == Node("list", l, r)
BackCmd(cmd)       == Node("back", cmd, <<>>)

Parsed(cmd, rest)  == [cmd |-> cmd, rest |-> rest]
Panic              == Parsed(Syntax, <<>>)
Peek(s, toks)      == s # <<>> /\ s[1] \in toks

RECURSIVE Wrap(_, _), ParseRedirs(_, _), ParseArgs(_, _, _)
RECURSIVE ParseLine(_), ParsePipe(_), ParseAmps(_)

Wrap(cmd, rs) == IF rs = <<>> THEN cmd
                 ELSE Wrap(RedirCmd(cmd, rs[1]), Tail(rs))

\* parseredirs(): the redirections at the head of s, collected in rs.
ParseRedirs(rs, s) ==
  IF ~Peek(s, Redirections) THEN [rs |-> rs, rest |-> s, ok |-> TRUE]
  ELSE IF Len(s) < 2 \/ ~IsWord(s[2])
  THEN [rs |-> rs, rest |-> s, ok |-> FALSE]
  ELSE ParseRedirs(Append(rs, <<s[1], s[2]>>), SubSeq(s, 3, Len(s)))

\* The loop of parseexec(): arguments, with redirections among them.
ParseArgs(argv, rs, s) ==
  LET r == ParseRedirs(rs, s) IN
  IF ~r.ok THEN Panic
  ELSE IF r.rest = <<>> \/ Peek(r.rest, {"|", ")", "&", ";"})
  THEN Parsed(Wrap(ExecCmd(argv), r.rs), r.rest)
  ELSE IF ~IsWord(r.rest[1]) \/ Len(argv) + 1 >= MAXARGS THEN Panic
  ELSE ParseArgs(Append(argv, r.rest[1]), r.rs, Tail(r.rest))

ParseBlock(s) ==
  LET l == ParseLine(Tail(s))
      r == ParseRedirs(<<>>, Tail(l.rest)) IN
  IF l.cmd = Syntax \/ ~Peek(l.rest, {")"}) THEN Panic
  ELSE IF ~r.ok THEN Panic ELSE Parsed(Wrap(l.cmd, r.rs), r.rest)

ParseExec(s) == IF Peek(s, {"("}) THEN ParseBlock(s)
                ELSE ParseArgs(<<>>, <<>>, s)

ParsePipe(s) ==
  LET l == ParseExec(s)
      r == ParsePipe(Tail(l.rest)) IN
  IF l.cmd = Syntax \/ ~Peek(l.rest, {"|"}) THEN l
  ELSE IF r.cmd = Syntax THEN Panic ELSE Parsed(PipeCmd(l.cmd, r.cmd), r.rest)

ParseAmps(l) == IF Peek(l.rest, {"&"})
                THEN ParseAmps(Parsed(BackCmd(l.cmd), Tail(l.rest))) ELSE l

ParseLine(s) ==
  LET l == ParseAmps(ParsePipe(s))
      r == ParseLine(Tail(l.rest)) IN
  IF l.cmd = Syntax \/ ~Peek(l.rest, {";"}) THEN l
  ELSE IF r.cmd = Syntax THEN Panic ELSE Parsed(ListCmd(l.cmd, r.cmd), r.rest)

\* parsecmd(): nothing may be left over.
ParseCmd(s) == LET l == ParseLine(s) IN IF l.rest = <<>> THEN l.cmd ELSE Syntax

-----------------------------------------------------------------------------
(* Instructions, and the programs that are not shells.                     *)

I(op, a, x)   == [op |-> op, a |-> a, x |-> x]
Exit          == <<I("exit", "", <<>>)>>
Wait          == <<I("wait", "", <<>>)>>
Close(fd)     == <<I("close", fd, <<>>)>>
Dup(fd)       == <<I("dup", fd, <<>>)>>
Pipe(r, err)  == <<I("pipe", r, err)>>           \* r: "p" or "q"
Open(f, mode) == <<I("open", f, mode)>>          \* exits if it fails
Write(fd, m, err) == <<I("write", fd, <<m, err>>)>>
Read(fd, m)   == <<I("read", fd, m)>>            \* exits unless it reads m
Fork(code, err) == <<I("fork", err, code)>>
Prompt(shell) == <<I("prompt", shell, <<>>)>>

Cat(fd)       == <<I("cat", fd, <<>>)>>          \* reads and writes on 1
Skip(fd)      == <<I("skip", fd, <<>>)>>         \* reads to the end
Sleep(n)      == <<I("sleep", n, <<>>)>>
Reap(pid)     == <<I("reap", pid, <<>>)>>        \* waits until it is pid

\* atoi(), of the numbers that are used.
Atoi(s) == CASE s = "1" -> 1 [] s = "2" -> 2 [] OTHER -> 0

\* pingpong.c
PingPong ==
  Pipe("p", "exit") \o Pipe("q", "exit")
  \o Fork(Close("p1") \o Close("q0") \o Read("p0", "ping")
          \o Write("1", "got ping", "go_on") \o Write("q1", "pong", "exit")
          \o Close("p0") \o Close("q1") \o Exit, "go_on")
  \o Close("p0") \o Close("q1") \o Write("p1", "ping", "exit")
  \o Read("q0", "pong") \o Write("1", "got pong", "go_on")
  \o Close("p1") \o Close("q0") \o Wait \o Exit

\* echo.c with one argument, cat.c with at most one, hw.c, sleep.c, and
\* my_shell.c, whose main() begins with a pipe().  Any other fails to exec.
Program(argv) ==
  CASE argv[1] = "echo" /\ Len(argv) > 1 ->
         Write("1", argv[2], "go_on") \o Exit
    [] argv[1] = "cat" /\ Len(argv) = 1 -> Cat("0") \o Exit
    [] argv[1] = "cat" /\ Len(argv) > 1 ->
         Open(argv[2], "r") \o Cat("fd") \o Close("fd") \o Exit
    [] argv[1] = "hw" -> Write("1", "Hello World", "go_on") \o Exit
    [] argv[1] = "pingpong" -> PingPong
    [] argv[1] = "sleep" /\ Len(argv) = 2 ->
         (IF Atoi(argv[2]) <= 0 THEN <<>> ELSE Sleep(argv[2])) \o Exit
    [] argv[1] = "my_shell" -> Pipe("p", "go_on") \o Prompt("my_shell")
    [] OTHER -> Exit

-----------------------------------------------------------------------------
(* runcmd() of sh.c                                                        *)

Mode(r) == CASE r = "<" -> "r" [] r = ">" -> "trunc" [] r = ">>" -> "w"
RedirFd(r) == IF r = "<" THEN "0" ELSE "1"

\* The two ends of a pipeline, in the children.
LeftEnd == Close("1") \o Dup("p1") \o Close("p0") \o Close("p1")
RightEndLeaky == Close("0") \o Dup("p0") \o Close("p0")
RightEnd == Close("0") \o Dup("p0") \o Close("p0") \o Close("p1")

RECURSIVE RunCmd(_)
RunCmd(c) ==
  CASE c.type = "syntax" -> Exit
    [] c.type = "exec" -> IF c.left = <<>> THEN Exit ELSE Program(c.left)
    [] c.type = "redir" ->
         Close(RedirFd(c.right[1])) \o Open(c.right[2], Mode(c.right[1]))
         \o RunCmd(c.left)
    [] c.type = "list" -> Fork(RunCmd(c.left), "exit") \o Wait
                          \o RunCmd(c.right)
    [] c.type = "pipe" ->
         Pipe("p", "exit") \o Fork(LeftEnd \o RunCmd(c.left), "exit")
         \o Fork(RightEnd \o RunCmd(c.right), "exit")
         \o Close("p0") \o Close("p1") \o Wait \o Wait \o Exit
    [] c.type = "back" -> Fork(RunCmd(c.left), "exit") \o Exit

-----------------------------------------------------------------------------
(* run_command() of my_shell.c, which splits the line at the first "|" or  *)
(* ";" it meets.                                                           *)

\* Positions of tokens in T.
Places(s, T) == {i \in DOMAIN s : s[i] \in T}
Before(s, i) == SubSeq(s, 1, i - 1)
After(s, i)  == SubSeq(s, i + 1, Len(s))

\* Arguments, and the last file of each kind of redirection.
RedirAt(s, T) == {i \in Places(s, T) : i < Len(s)}
Arguments(s)  ==
  LET R == RedirAt(s, Redirections)
      keep == {i \in DOMAIN s : i \notin R /\ i - 1 \notin R} IN
  [k \in 1..Cardinality(keep) |->
     s[CHOOSE i \in keep : Cardinality({j \in keep : j <= i}) = k]]

RedirectIn(s) ==
  LET R == RedirAt(s, {"<"}) IN
  IF R = {} THEN <<>>
  ELSE Open(s[Max(R) + 1], "r") \o Close("0") \o Dup("fd") \o Close("fd")

\* ">>" reads the new descriptor to move to its end; ">" opens the file a
\* second time to truncate it.
RedirectOut(s) ==
  LET R == RedirAt(s, {">", ">>"})
      f == s[Max(R) + 1] IN
  IF R = {} THEN <<>>
  ELSE Open(f, "w")
       \o (IF s[Max(R)] = ">>" THEN Skip("fd")
           ELSE Close("fd") \o Open(f, "trunc"))
       \o Close("1") \o Dup("fd") \o Close("fd")

RightEnd2 == Close("0") \o Dup("p0") \o Close("p1") \o Close("p0")

RECURSIVE RunCommand(_)
RunCommand(s) ==
  LET splits == Places(s, {"|", ";"})
      i      == Min(splits)
      argv   == Arguments(s) IN
  IF splits # {} /\ s[i] = "|"
  THEN Pipe("p", "go_on")
       \o Fork(LeftEnd \o RunCommand(Before(s, i)), "go_on")
       \o Fork(RightEnd2 \o RunCommand(After(s, i)), "go_on")
       \o Close("p0") \o Close("p1") \o Wait \o Wait \o Exit
  ELSE IF splits # {}
  THEN Fork(RunCommand(Before(s, i)), "go_on") \o Wait
       \o RunCommand(After(s, i))
  ELSE IF argv = <<>> \/ argv[1] = "cd" THEN Exit
  ELSE RedirectIn(s) \o RedirectOut(s) \o Fork(Program(argv), "exit") \o Wait
       \o Exit

\* main() of each shell, on a line that is not "cd".
RunLine(shell, line) ==
  IF shell = "sh" THEN Fork(RunCmd(ParseCmd(line)), "exit")
  ELSE Fork(RunCommand(line), "go_on")

\* sh.c's main() ensures that three descriptors are open.
Sh == <<I("open", "console", "any")>> \o Close("fd") \o Prompt("sh")

\* init.c: start a shell, and reap until it is the shell that exits.
InitLoop == Fork(Sh, "exit") \o Reap("pid")

-----------------------------------------------------------------------------
(* What a line without "(", "&" and ">>" means, whichever shell runs it:   *)
(* ";" separates, then "|" connects.  st is [in, out, files].              *)

RECURSIVE Meaning(_, _)
Simple(s, st) ==
  LET argv == Arguments(s)
      ins  == RedirAt(s, {"<"})
      outs == RedirAt(s, {">"})
      in   == IF ins = {} THEN st.in ELSE st.files[s[Max(ins) + 1]]
      text == CASE argv[1] = "echo" -> <<argv[2]>>
                [] argv[1] = "cat" /\ Len(argv) = 1 -> in
                [] argv[1] = "cat" /\ Len(argv) > 1 -> st.files[argv[2]]
                [] argv[1] = "hw" -> <<"Hello World">>
                [] argv[1] = "pingpong" -> <<"got ping", "got pong">>
                [] OTHER -> <<>> IN
  IF outs = {} THEN [st EXCEPT !.out = @ \o text]
  ELSE [st EXCEPT !.files = [@ EXCEPT ![s[Max(outs) + 1]] = text]]

Meaning(s, st) ==
  LET semis == Places(s, {";"})
      bars  == Places(s, {"|"}) IN
  IF semis # {}
  THEN Meaning(After(s, Min(semis)), Meaning(Before(s, Min(semis)), st))
  ELSE IF bars # {}
  THEN LET l == Meaning(Before(s, Min(bars)), [st EXCEPT !.out = <<>>])
           r == Meaning(After(s, Min(bars)),
                        [in |-> l.out, out |-> st.out, files |-> l.files]) IN
       [r EXCEPT !.in = st.in]
  ELSE Simple(s, st)

\* Lines in a row; the end of input, "my_shell" and "cd" show nothing.
RECURSIVE SessionMeaning(_, _)
SessionMeaning(ls, st) ==
  IF ls = <<>> THEN st
  ELSE SessionMeaning(Tail(ls), IF ls[1] = <<>> THEN st
                                ELSE Meaning(ls[1], st))
=============================================================================
