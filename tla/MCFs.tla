-------------------------------- MODULE MCFs --------------------------------
(* Inodes and directories instantiated for TLC: one process lives in       *)
(* directories that the other removes.                                     *)
EXTENDS Fs, TLC

CONSTANTS p1, p2

Abs(s) == [abs |-> TRUE, names |-> s]
Rel(s) == [abs |-> FALSE, names |-> s]
Do(op, path) == [op |-> op, path |-> path, new |-> NoPath]
DoLink(old, new) == [op |-> "link", path |-> old, new |-> new]

A  == Abs(<<"a">>)
AB == Abs(<<"a", "b">>)
Up == Rel(<<"..">>)
B  == Abs(<<"b">>)

\* p1 visits directories that p2 makes and removes.
Visit ==
  [writes |-> FALSE, crashes |-> 0,
   calls |-> p1 :> {Do("chdir", AB), Do("chdir", Up), Do("unlink", Up)}
          @@ p2 :> {Do("mkdir", A), Do("mkdir", AB),
                    Do("unlink", A), Do("unlink", AB)}]

\* Both make and remove the same nested directories.
Race ==
  [writes |-> FALSE, crashes |-> 0,
   calls |-> p1 :> {Do("mkdir", A), Do("unlink", AB)}
          @@ p2 :> {Do("mkdir", AB), Do("unlink", A)}]

\* p1 creates files in a directory that p2 removes.
Inside ==
  [writes |-> FALSE, crashes |-> 0,
   calls |-> p1 :> {Do("chdir", A), Do("chdir", Abs(<<>>)),
                    Do("create", Rel(<<"b">>))}
          @@ p2 :> {Do("mkdir", A), Do("unlink", A)}]

\* Two names of one file.
Hard ==
  [writes |-> FALSE, crashes |-> 0,
   calls |-> p1 :> {DoLink(A, B), Do("unlink", B)}
          @@ p2 :> {Do("create", A), Do("unlink", A)}]

\* An open file loses its name, the power fails.
Power ==
  [writes |-> TRUE, crashes |-> 1,
   calls |-> p1 :> {Do("create", A), Do("mkdir", B)}
          @@ p2 :> {Do("unlink", A)}]

\* Opening, with and without truncation, against creation.
Reopen ==
  [writes |-> TRUE, crashes |-> 0,
   calls |-> p1 :> {Do("create", A)}
          @@ p2 :> {Do("open", A), Do("mkdir", A), Do("open", Abs(<<>>))}]

MCWorkloads == {Visit, Race, Inside, Hard, Power, Reopen}
=============================================================================
