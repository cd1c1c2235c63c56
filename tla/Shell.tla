------------------------------- MODULE Shell -------------------------------
(***************************************************************************)
(* Processes that run the programs of Programs: the descriptor and file    *)
(* tables (kernel/file.c and the calls of sysfile.c on descriptors), with  *)
(* fork(), exit(), wait(), sleep() and the clock as the programs see them. *)
(*                                                                         *)
(* A system call is one step once it need not wait; exit() closes one      *)
(* descriptor in a step.  Pipes are what Channel says of them, with a      *)
(* message in place of bytes.  A session gives the lines that are typed,   *)
(* the sizes of the tables and, unless a table is too small or the output  *)
(* depends on the schedule, what it means: the set of the one [out, files] *)
(* it should end with.  Files f and g exist and are empty.                 *)
(*                                                                         *)
(* my_shell uses the array it passed to pipe(), and the status it passed   *)
(* to wait(), also when the call failed and left them uninitialized: its   *)
(* sessions have files and descriptors enough, and a process to fork.      *)
(***************************************************************************)
EXTENDS Programs

CONSTANTS Sessions,   \* [lines, nproc, nfile, nofile, means]
          PIPESIZE,   \* messages in a pipe
          TICKMOD,    \* number of values of ticks (2^32)
          FirstTick,  \* ticks at the start
          MaxWait     \* bound: ticks while a process is ready to wake up

ASSUME ShellAssumption ==
  /\ PIPESIZE \in Nat \ {0} /\ TICKMOD \in Nat \ {0} /\ MaxWait \in Nat
  /\ FirstTick \in 0..(TICKMOD - 1)

VARIABLES session,  \* chosen once
          lines,    \* lines still to be typed
          P,        \* processes; 1 is init
          F,        \* ftable.file
          Q,        \* pipes
          files,    \* contents of files
          out,      \* what the console shows
          ticks

vars == <<session, lines, P, F, Q, files, out, ticks>>

Procs == 1..session.nproc
Files == 1..session.nfile
Fds   == 0..(session.nofile - 1)
INIT  == 1

NoFile == [ref |-> 0, type |-> "none", obj |-> "", pipe |-> 0, off |-> 0,
           r |-> FALSE, w |-> FALSE]
NoPipe == [r |-> FALSE, w |-> FALSE, data |-> <<>>]
Regs == [x \in {"p0", "p1", "q0", "q1", "fd", "pid"} |-> -1]
Unused == [st |-> "unused", parent |-> 0, ofile |-> <<>>, reg |-> <<>>,
           code |-> <<>>, t0 |-> 0, slept |-> 0]
Tty == [NoFile EXCEPT !.ref = 3, !.type = "dev", !.r = TRUE, !.w = TRUE]

\* init has opened the console and duplicated it twice.
Init ==
  /\ session \in Sessions
  /\ lines = session.lines
  /\ P = [i \in Procs |-> IF i # INIT THEN Unused
            ELSE [Unused EXCEPT !.st = "run", !.code = InitLoop,
                    !.ofile = [d \in Fds |-> IF d < 3 THEN 1 ELSE 0],
                    !.reg = Regs]]
  /\ F = [f \in Files |-> IF f = 1 THEN Tty ELSE NoFile]
  /\ Q = [q \in Files |-> NoPipe]
  /\ files = [f \in {"f", "g"} |-> <<>>]
  /\ out = <<>>
  /\ ticks = FirstTick

-----------------------------------------------------------------------------
(* Descriptors and files.  S is [P, F, Q].                                 *)

Now == [P |-> P, F |-> F, Q |-> Q]
Becomes(S) == \E s \in {S} : P' = s.P /\ F' = s.F /\ Q' = s.Q

FreeFiles(S)  == {f \in Files : S.F[f].ref = 0}
FreeFds(S, p) == {d \in Fds : S.P[p].ofile[d] = 0}

\* argfd(): the descriptor d of p, and the file, 0 if there is none.
Fd(p, d) == CASE d = "0" -> 0 [] d = "1" -> 1 [] OTHER -> P[p].reg[d]
File(p, d) == IF Fd(p, d) \in Fds THEN P[p].ofile[Fd(p, d)] ELSE 0

PipeCloseOther(q, w) ==
  IF w THEN [q EXCEPT !.r = FALSE] ELSE [q EXCEPT !.w = FALSE]

\* pipeclose(), and kfree() after the second end.
PipeClose(q, w) ==
  LET c == IF w THEN [q EXCEPT !.w = FALSE] ELSE [q EXCEPT !.r = FALSE] IN
  IF c.r \/ c.w THEN c ELSE NoPipe

\* fileclose()
FileClose(S, f) ==
  LET file == S.F[f] IN
  IF file.ref > 1 THEN [S EXCEPT !.F[f].ref = @ - 1]
  ELSE [S EXCEPT !.F[f] = NoFile,
                 !.Q = IF file.type = "pipe"
                       THEN [@ EXCEPT ![file.pipe] = PipeClose(@, file.w)]
                       ELSE @]

\* sys_close()
CloseFd(S, p, d) ==
  FileClose([S EXCEPT !.P[p].ofile[d] = 0], S.P[p].ofile[d])

\* fdalloc(): the lowest free descriptor for f, -1 if there is none.
FdAlloc(S, p, f) ==
  LET free == FreeFds(S, p) IN
  IF free = {} THEN [S |-> S, fd |-> -1]
  ELSE [S |-> [S EXCEPT !.P[p].ofile[Min(free)] = f], fd |-> Min(free)]

\* p goes on behind its first instruction, or exits.
Code(p) == P[p].code
Op(p)   == Code(p)[1]
At(p, op) == P[p].st = "run" /\ Op(p).op = op
Goes(S, p, code) == [S EXCEPT !.P[p].code = code]
Advance(S, p) == Goes(S, p, Tail(S.P[p].code))
Fails(S, p, err) == IF err = "exit" THEN Goes(S, p, Exit) ELSE Advance(S, p)

\* sys_close()
DoClose(p) ==
  /\ At(p, "close")
  /\ Becomes(Advance(IF File(p, Op(p).a) = 0 THEN Now
                     ELSE CloseFd(Now, p, Fd(p, Op(p).a)), p))
  /\ UNCHANGED <<session, lines, files, out, ticks>>

\* sys_dup()
DoDup(p) ==
  LET f == File(p, Op(p).a)
      a == FdAlloc(Now, p, f) IN
  /\ At(p, "dup")
  /\ Becomes(Advance(IF f = 0 \/ a.fd = -1 THEN Now
                     ELSE [a.S EXCEPT !.F[f].ref = @ + 1], p))
  /\ UNCHANGED <<session, lines, files, out, ticks>>

\* pipealloc() and sys_pipe(): two files and two descriptors, or neither.
WithPipe(S, q, rf, wf) ==
  [S EXCEPT !.Q[q] = [r |-> TRUE, w |-> TRUE, data |-> <<>>],
            !.F[rf] = [NoFile EXCEPT !.ref = 1, !.type = "pipe", !.pipe = q,
                                     !.r = TRUE],
            !.F[wf] = [NoFile EXCEPT !.ref = 1, !.type = "pipe", !.pipe = q,
                                     !.w = TRUE]]

KeepFd0(S, p, fd0) == S
DropFd0(S, p, fd0) ==
  IF fd0 = -1 THEN S ELSE [S EXCEPT !.P[p].ofile[fd0] = 0]

DoPipe(p) ==
  LET free == FreeFiles(Now)
      rf   == Min(free)
      wf   == Min(free \ {rf})
      q    == Min({k \in Files : Q[k] = NoPipe})
      S    == WithPipe(Now, q, rf, wf)
      a    == FdAlloc(S, p, rf)
      b    == FdAlloc(a.S, p, wf)
      undo == FileClose(FileClose(DropFd0(a.S, p, a.fd), rf), wf)
      r    == Op(p).a IN
  /\ At(p, "pipe")
  /\ Becomes(IF Cardinality(free) < 2 THEN Fails(Now, p, Op(p).x)
             ELSE IF a.fd = -1 \/ b.fd = -1 THEN Fails(undo, p, Op(p).x)
             ELSE Advance([b.S EXCEPT
                    !.P[p].reg = [@ EXCEPT ![r \o "0"] = a.fd,
                                           ![r \o "1"] = b.fd]], p))
  /\ UNCHANGED <<session, lines, files, out, ticks>>

\* sys_open() of a file or of the console; a mode other than "r" creates.
Opened(f, mode) ==
  IF mode = "any" THEN [Tty EXCEPT !.ref = 1]
  ELSE [NoFile EXCEPT !.ref = 1, !.type = "ino", !.obj = f,
                      !.r = (mode = "r"), !.w = (mode # "r")]

DoOpen(p) ==
  LET free == FreeFiles(Now)
      f    == Min(free)
      a    == FdAlloc([Now EXCEPT !.F[f] = Opened(Op(p).a, Op(p).x)], p, f)
      ok   == free # {} /\ FreeFds(Now, p) # {}
      err  == IF Op(p).x = "any" THEN "go_on" ELSE "exit" IN
  /\ At(p, "open")
  /\ Becomes(IF ~ok THEN Fails([Now EXCEPT !.P[p].reg["fd"] = -1], p, err)
             ELSE Advance([a.S EXCEPT !.P[p].reg["fd"] = a.fd], p))
  /\ files' = IF ok /\ Op(p).x = "trunc"
              THEN [files EXCEPT ![Op(p).a] = <<>>] ELSE files
  /\ UNCHANGED <<session, lines, out, ticks>>

-----------------------------------------------------------------------------
(* read() and write()                                                      *)

\* filewrite(): to a pipe, waiting while it is full; to a file, at the
\* file's offset; to the console.
Overwritten(s, off, m) ==
  SubSeq(s, 1, off) \o <<m>> \o SubSeq(s, off + 2, Len(s))

DoWrite(p) ==
  LET f    == File(p, Op(p).a)
      file == F[f]
      m    == Op(p).x[1]
      bad  == f = 0 \/ ~file.w \/ (file.type = "pipe" /\ ~Q[file.pipe].r) IN
  /\ At(p, "write")
  /\ IF bad
     THEN Becomes(Fails(Now, p, Op(p).x[2])) /\ UNCHANGED <<files, out>>
     ELSE \/ /\ file.type = "pipe" /\ Len(Q[file.pipe].data) < PIPESIZE
             /\ Becomes(Advance([Now EXCEPT !.Q[file.pipe].data =
                                   Append(@, m)], p))
             /\ UNCHANGED <<files, out>>
          \/ /\ file.type = "ino"
             /\ files' = [files EXCEPT ![file.obj] =
                            Overwritten(@, file.off, m)]
             /\ Becomes(Advance([Now EXCEPT !.F[f].off = @ + 1], p))
             /\ UNCHANGED out
          \/ /\ file.type = "dev"
             /\ out' = Append(out, m)
             /\ Becomes(Advance(Now, p))
             /\ UNCHANGED files
  /\ UNCHANGED <<session, lines, ticks>>

\* fileread(): what can be read from f, which is then taken.  Only the
\* shells read the console, with getcmd().
CanRead(f)  == f # 0 /\ F[f].r
Readable(f) == CASE F[f].type = "pipe" -> Q[F[f].pipe].data
                 [] F[f].type = "ino"  -> SubSeq(files[F[f].obj],
                                                 F[f].off + 1,
                                                 Len(files[F[f].obj]))
                 [] OTHER -> <<>>
Taken(S, f) == IF F[f].type = "pipe"
               THEN [S EXCEPT !.Q[F[f].pipe].data = <<>>]
               ELSE [S EXCEPT !.F[f].off = @ + Len(Readable(f))]
AtEnd(f) == /\ F[f].type # "dev" /\ Readable(f) = <<>>
            /\ F[f].type = "pipe" => ~Q[F[f].pipe].w

\* cat(): a piece is read, then written; the loop ends at the end of file.
DoCat(p) ==
  LET f == File(p, Op(p).a)
      d == Readable(f) IN
  /\ At(p, "cat")
  /\ ~CanRead(f) \/ AtEnd(f) \/ d # <<>>
  /\ Becomes(IF ~CanRead(f) THEN Goes(Now, p, Exit)
             ELSE IF AtEnd(f) THEN Advance(Now, p)
             ELSE Goes(Taken(Now, f), p,
                       [k \in DOMAIN d |-> I("write", "1", <<d[k], "exit">>)]
                       \o Code(p)))
  /\ UNCHANGED <<session, lines, files, out, ticks>>

\* pingpong's read(), which must return what it expects.
DoRead(p) ==
  LET f == File(p, Op(p).a) IN
  /\ At(p, "read")
  /\ ~CanRead(f) \/ AtEnd(f) \/ Readable(f) # <<>>
  /\ Becomes(IF CanRead(f) /\ Readable(f) = <<Op(p).x>>
             THEN Advance(Taken(Now, f), p) ELSE Goes(Now, p, Exit))
  /\ UNCHANGED <<session, lines, files, out, ticks>>

\* my_shell's loop of reads of the file it opened for ">>": a descriptor
\* that is not readable fails at once.
DoSkip(p) ==
  LET f == File(p, Op(p).a) IN
  /\ At(p, "skip")
  /\ Becomes(Advance(IF CanRead(f) THEN Taken(Now, f) ELSE Now, p))
  /\ UNCHANGED <<session, lines, files, out, ticks>>

-----------------------------------------------------------------------------
(* fork(), exit(), wait(), sleep()                                         *)

Refs(of, f) == Cardinality({d \in Fds : of[d] = f})

DoFork(p) ==
  LET slots == {i \in Procs : P[i].st = "unused"}
      c     == Min(slots)
      child == [P[p] EXCEPT !.parent = p, !.code = Op(p).x]
      S     == [Now EXCEPT !.P[c] = child,
                           !.F = [f \in Files |-> [F[f] EXCEPT
                                    !.ref = @ + Refs(P[p].ofile, f)]]]
  IN
  /\ At(p, "fork")
  /\ Becomes(IF slots = {} THEN Fails(Now, p, Op(p).a)
             ELSE Advance([S EXCEPT !.P[p].reg["pid"] = c], p))
  /\ UNCHANGED <<session, lines, files, out, ticks>>

\* exit(): close a descriptor, or when none is open give the children to
\* init and become a zombie.
DoExit(p) ==
  LET open == {d \in Fds : P[p].ofile[d] # 0} IN
  /\ At(p, "exit") /\ p # INIT
  /\ IF open # {} THEN Becomes(CloseFd(Now, p, Min(open)))
     ELSE Becomes([Now EXCEPT !.P = [i \in Procs |->
            IF i = p THEN [Unused EXCEPT !.st = "zombie",
                                         !.parent = P[p].parent]
            ELSE IF P[i].parent = p THEN [P[i] EXCEPT !.parent = INIT]
            ELSE P[i]]])
  /\ UNCHANGED <<session, lines, files, out, ticks>>

Children(p) == {i \in Procs : P[i].st # "unused" /\ P[i].parent = p}
Zombies(p)  == {i \in Children(p) : P[i].st = "zombie"}

DoWait(p) ==
  /\ At(p, "wait")
  /\ \/ /\ Children(p) = {}
        /\ Becomes(Advance(Now, p))
     \/ /\ Zombies(p) # {}
        /\ Becomes(Advance([Now EXCEPT !.P[Min(Zombies(p))] = Unused], p))
  /\ UNCHANGED <<session, lines, files, out, ticks>>

\* init's inner loop, until it is the shell that it reaped.
DoReap(p) ==
  LET z == Min(Zombies(p))
      S == [Now EXCEPT !.P[z] = Unused] IN
  /\ At(p, "reap")
  /\ Zombies(p) # {}
  /\ Becomes(IF z = P[p].reg[Op(p).a] THEN Goes(S, p, InitLoop) ELSE S)
  /\ UNCHANGED <<session, lines, files, out, ticks>>

\* The instructions of every line of the sessions, for each shell.
AllLines == UNION {{ses.lines[k] : k \in DOMAIN ses.lines} : ses \in Sessions}
Compiled == [shell \in {"sh", "my_shell"} |->
               [l \in AllLines \ {<<>>} |-> RunLine(shell, l)]]

\* getcmd() returns a line; an empty one is the end of input.
DoPrompt(p) ==
  LET shell == Op(p).a IN
  /\ At(p, "prompt")
  /\ lines # <<>>
  /\ lines' = Tail(lines)
  /\ Becomes(Goes(Now, p,
       IF Head(lines) = <<>> THEN Exit
       ELSE IF Head(lines)[1] = "cd" THEN Code(p)
       ELSE Compiled[shell][Head(lines)] \o Wait \o Code(p)))
  /\ UNCHANGED <<session, files, out, ticks>>

\* sys_sleep(): while(ticks - ticks0 < n), unsigned.
Elapsed(t0) == (ticks + TICKMOD - t0) % TICKMOD
SleptUntil(p) == ticks >= (P[p].t0 + Atoi(Op(p).a)) % TICKMOD
SleptEnough(p) == Elapsed(P[p].t0) >= Atoi(Op(p).a)

DoSleep(p) ==
  /\ At(p, "sleep")
  /\ Becomes([Now EXCEPT !.P[p].t0 = ticks, !.P[p].slept = 0,
                         !.P[p].code[1].op = "asleep"])
  /\ UNCHANGED <<session, lines, files, out, ticks>>

DoAwake(p) ==
  /\ At(p, "asleep") /\ SleptEnough(p)
  /\ Becomes(Advance([Now EXCEPT !.P[p].t0 = 0, !.P[p].slept = 0], p))
  /\ UNCHANGED <<session, lines, files, out, ticks>>

\* clockintr(), while somebody sleeps.
NextTickWide(t) == t + 1
NextTick(t) == (t + 1) % TICKMOD

Sleepers == {p \in Procs : At(p, "asleep")}
Tick ==
  /\ Sleepers # {}
  /\ \A p \in Sleepers : P[p].slept < Atoi(Op(p).a) + MaxWait
  /\ ticks' = NextTick(ticks)
  /\ P' = [p \in Procs |-> IF p \in Sleepers
             THEN [P[p] EXCEPT !.slept = @ + 1] ELSE P[p]]
  /\ UNCHANGED <<session, lines, F, Q, files, out>>

-----------------------------------------------------------------------------
Step(p) ==
  \/ DoClose(p) \/ DoDup(p) \/ DoPipe(p) \/ DoOpen(p) \/ DoWrite(p)
  \/ DoCat(p) \/ DoRead(p) \/ DoSkip(p) \/ DoFork(p) \/ DoExit(p)
  \/ DoWait(p) \/ DoReap(p) \/ DoPrompt(p) \/ DoSleep(p) \/ DoAwake(p)

Next == (\E p \in Procs : Step(p)) \/ Tick

Spec == Init /\ [][Next]_vars

\* Somebody who can go on does; a session is finite, so that is enough.
FairSpec == Spec /\ WF_vars(Next)

-----------------------------------------------------------------------------
(* Properties.                                                             *)

\* Every variable keeps its type.
TypeOK ==
  /\ \A p \in Procs : P[p].st \in {"unused", "run", "zombie"}
  /\ \A p \in Procs : P[p].st = "run" =>
       /\ P[p].ofile \in [Fds -> Files \cup {0}] /\ Len(P[p].code) > 0
  /\ \A f \in Files : F[f].type \in {"none", "pipe", "ino", "dev"}
  /\ ticks \in 0..(TICKMOD - 1)

\* A file counts exactly the descriptors that refer to it, in all processes,
\* also where pipe(), dup(), open() or fork() ran out of something.
FileRefsExact ==
  \A f \in Files :
    F[f].ref = FoldSet(LAMBDA p, n : n + Refs(P[p].ofile, f), 0,
                       {p \in Procs : P[p].st = "run"})

\* An end of a pipe is open exactly while a file refers to it: a reader gets
\* end-of-file, and the page is freed, as soon as the last descriptor is gone.
PipeEndsFollowFiles ==
  \A q \in Files :
    /\ Q[q].r <=> \E f \in Files : F[f].type = "pipe" /\ F[f].pipe = q
                                   /\ F[f].r
    /\ Q[q].w <=> \E f \in Files : F[f].type = "pipe" /\ F[f].pipe = q
                                   /\ F[f].w

\* Everybody waits: the shell for a line, the others for the shell.
AtPrompt == \E p \in Procs : At(p, "prompt")
Finished ==
  /\ lines = <<>> /\ AtPrompt
  /\ \A p \in Procs :
       P[p].st = "run" => Op(p).op \in {"prompt", "wait", "reap"}
  /\ \A p \in Procs : P[p].st # "zombie"

\* The shell comes back with a prompt and every process of a command is gone:
\* no pipeline waits for an end-of-file that cannot come, and init starts a
\* new shell when one has exited.
SessionFinishes == <>Finished


\* sleep(n) lasts at least n ticks, also when ticks wraps meanwhile.
SleepsLongEnough ==
  [][\A p \in Procs : At(p, "asleep") /\ ~At(p, "asleep")'
       => P[p].slept >= Atoi(Op(p).a)]_vars

\* Files, descriptors and pipe ends agree; variables keep their types.
FilesAreExact == TypeOK /\ FileRefsExact /\ PipeEndsFollowFiles
=============================================================================
