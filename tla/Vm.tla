--------------------------------- MODULE Vm ---------------------------------
(***************************************************************************)
(* Memory of processes: the page allocator kernel/kalloc.c, page tables    *)
(* kernel/vm.c, and the calls that build and free them: fork(), sbrk(),    *)
(* exec(), exit() and wait().                                              *)
(*                                                                         *)
(* Pages are interchangeable, so the free list is a number; every page is  *)
(* in one place exactly when the pages of all places add up to NPAGES.  A  *)
(* page table is a tree of three levels with FAN entries per node: a set   *)
(* of inner nodes and the mapped leaves, by page number.  Sizes are in     *)
(* bytes, PGSIZE to the page.  One iteration of a loop that allocates is   *)
(* one step, so calls of different processes compete for the last pages.   *)
(***************************************************************************)
EXTENDS Integers, FiniteSets, Sequences, Functions, FiniteSetsExt

CONSTANTS NPROC,      \* slots of proc[]
          NPAGES,     \* pages that kinit() finds
          PGSIZE,     \* bytes in a page
          FAN,        \* entries of a page-table page
          USERSTACK,  \* pages of user stack
          MaxSz,      \* bound: the size sbrk() may ask for
          MAXARG,     \* bound: arguments of exec()
          Programs    \* executables: sequences of [va, end, filesz, perm]

ASSUME VmAssumption ==
  /\ NPROC \in Nat \ {0} /\ NPAGES \in Nat /\ PGSIZE \in Nat \ {0}
  /\ FAN \in Nat \ {0, 1}
  /\ NPAGES >= 7   \* enough for userinit()
  /\ MaxSz <= (FAN * FAN * FAN - 2) * PGSIZE

Slots == 1..NPROC
MAXPG == FAN * FAN * FAN
TRAMPOLINE == MAXPG - 1
TRAPFRAME  == MAXPG - 2

VARIABLES free,       \* number of pages on kmem.freelist
          panic,      \* a panic() was reached
          P           \* proc[]: state, trapframe, page table, size, and the
                      \* system call the process is in

vars == <<free, panic, P>>

NoTable == [root |-> FALSE, nodes |-> {}, map |-> <<>>]
Idle == [op |-> "none", np |-> 0, a |-> 0, goal |-> 0, pt |-> NoTable,
         sz |-> 0, todo |-> <<>>, args |-> 0]
Unused == [state |-> "UNUSED", tf |-> FALSE, pt |-> NoTable, sz |-> 0,
           job |-> Idle]

\* The page that PGROUNDUP() of a size ends at.
PgDown(sz) == sz \div PGSIZE
PgUp(sz)   == (sz + PGSIZE - 1) \div PGSIZE

-----------------------------------------------------------------------------
(* Operations on a page table.  They thread a record of the table, the     *)
(* free pages, success, and whether a panic was reached.                   *)

World(t) == [pt |-> t, free |-> free, ok |-> TRUE, panic |-> panic]

\* kalloc() when a page is free, and kfree() of n pages.
Kalloc(w)   == [w EXCEPT !.free = @ - 1]
Kfree(w, n) == [w EXCEPT !.free = @ + n]

\* walk(pagetable, va, 1).  A node that was allocated stays in the tree when
\* the next one cannot be.
Walk(w, va) ==
  LET level1 == <<1, va \div (FAN * FAN)>>
      level0 == <<0, va \div FAN>>
      need   == {level1, level0} \ w.pt.nodes
      got    == IF w.free >= Cardinality(need) THEN need
                ELSE IF w.free = 0 THEN {} ELSE {level1} IN
  [w EXCEPT !.pt.nodes = @ \cup got, !.free = @ - Cardinality(got),
            !.ok = (got = need)]

\* mappages() of one page.
Mappages(w, va, perm) ==
  LET grown == Walk(w, va) IN
  IF ~grown.ok THEN grown
  ELSE [grown EXCEPT !.panic = @ \/ va \in DOMAIN w.pt.map,
                     !.pt.map = [v \in DOMAIN @ \cup {va} |->
                                   IF v = va THEN perm ELSE @[v]]]

\* uvmunmap() of n pages from page lo.
Uvmunmap(w, lo, n, do_free) ==
  LET S == lo..(lo + n - 1) IN
  [w EXCEPT !.panic = @ \/ ~(S \subseteq DOMAIN w.pt.map),
            !.pt.map = Restrict(@, DOMAIN @ \ S),
            !.free = IF do_free THEN @ + Cardinality(S) ELSE @]

Freewalk(w) ==
  [w EXCEPT !.panic = @ \/ w.pt.map # <<>>,
            !.free = @ + Cardinality(w.pt.nodes) + 1,
            !.pt = NoTable]

Uvmfree(w, sz) ==
  Freewalk(IF sz > 0 THEN Uvmunmap(w, 0, PgUp(sz), TRUE) ELSE w)

UvmdeallocDown(w, oldsz, newsz) ==
  IF newsz < oldsz /\ PgDown(newsz) < PgUp(oldsz)
  THEN Uvmunmap(w, PgDown(newsz), PgUp(oldsz) - PgDown(newsz), TRUE)
  ELSE w

Uvmdealloc(w, oldsz, newsz) ==
  IF newsz < oldsz /\ PgUp(newsz) < PgUp(oldsz)
  THEN Uvmunmap(w, PgUp(newsz), PgUp(oldsz) - PgUp(newsz), TRUE)
  ELSE w

\* kalloc() a page and map it at va; if mappages() fails, kfree() it.
AddPageLeaks(w, va, perm) ==
  IF w.free = 0 THEN [w EXCEPT !.ok = FALSE]
  ELSE Mappages(Kalloc(w), va, perm)

AddPage(w, va, perm) ==
  IF w.free = 0 THEN [w EXCEPT !.ok = FALSE]
  ELSE LET m == Mappages(Kalloc(w), va, perm) IN
       IF m.ok THEN m ELSE Kfree(m, 1)

\* An iteration of uvmalloc() that began at size oldsz.
UvmallocKeeps(w, a, oldsz, perm) == AddPage(w, a, perm)

Uvmalloc(w, a, oldsz, perm) ==
  LET r == AddPage(w, a, perm) IN
  IF r.ok THEN r ELSE Uvmdealloc(r, a * PGSIZE, PgUp(oldsz) * PGSIZE)

\* proc_pagetable(), undone if it cannot be completed.
ProcPagetable(w) ==
  IF w.free = 0 THEN [w EXCEPT !.ok = FALSE]
  ELSE LET root == [Kalloc(w) EXCEPT !.pt.root = TRUE]
           top  == Mappages(root, TRAMPOLINE, "kernel")
           both == Mappages(top, TRAPFRAME, "kernel") IN
       IF ~top.ok THEN Uvmfree(top, 0)
       ELSE IF ~both.ok
       THEN Uvmfree(Uvmunmap(both, TRAMPOLINE, 1, FALSE), 0)
       ELSE both

ProcFreepagetable(w, sz) ==
  Uvmfree(Uvmunmap(Uvmunmap(w, TRAMPOLINE, 1, FALSE), TRAPFRAME, 1, FALSE), sz)

\* allocproc(): trapframe and page table, or neither.
Allocproc(w) ==
  IF w.free = 0 THEN [w EXCEPT !.ok = FALSE]
  ELSE LET r == ProcPagetable(Kalloc(w)) IN
       IF r.ok THEN r ELSE Kfree(r, 1)

\* freeproc() of a process with page table w.pt and size sz.
Freeproc(w, sz) == ProcFreepagetable(Kfree(w, 1), sz)

\* userinit(): one process with one page of memory (uvmfirst()).
Init ==
  LET w == AddPage(Allocproc([pt |-> NoTable, free |-> NPAGES, ok |-> TRUE,
                              panic |-> FALSE]), 0, "data") IN
  /\ free = w.free
  /\ panic = FALSE
  /\ P = [p \in Slots |->
            IF p = 1 THEN [Unused EXCEPT !.state = "LIVE", !.tf = TRUE,
                                         !.pt = w.pt, !.sz = PGSIZE]
            ELSE Unused]

\* After an operation on a table: what it did to memory.
Commit(w) == free' = w.free /\ panic' = w.panic

In(p, op) == P[p].state = "LIVE" /\ P[p].job.op = op

-----------------------------------------------------------------------------
(* fork(), exit() and wait()                                               *)

Fork(p, np) ==
  LET w == Allocproc(World(NoTable)) IN
  /\ In(p, "none")
  /\ P[np].state = "UNUSED"
  /\ Commit(w)
  /\ P' = IF ~w.ok THEN P
          ELSE [P EXCEPT ![np].state = "USED", ![np].tf = TRUE,
                         ![np].pt = w.pt,
                         ![p].job = [Idle EXCEPT !.op = "fork", !.np = np]]

Flags(map, a)      == map[a]

\* One page of uvmcopy(); on failure it unmaps what it copied, and fork()
\* frees the new process, whose size is still 0.
ForkCopy(p) ==
  LET j   == P[p].job
      old == P[p].pt.map IN
  /\ In(p, "fork")
  /\ j.a * PGSIZE < P[p].sz
  /\ LET perm == IF j.a \in DOMAIN old THEN Flags(old, j.a) ELSE "none"
         w    == AddPage([World(P[j.np].pt) EXCEPT
                            !.panic = @ \/ j.a \notin DOMAIN old], j.a, perm) IN
     IF w.ok THEN /\ Commit(w)
                  /\ P' = [P EXCEPT ![j.np].pt = w.pt, ![p].job.a = @ + 1]
     ELSE /\ Commit(Freeproc(Uvmunmap(w, 0, j.a, TRUE), P[j.np].sz))
          /\ P' = [P EXCEPT ![j.np] = Unused, ![p].job = Idle]

ForkDone(p) ==
  LET j == P[p].job IN
  /\ In(p, "fork")
  /\ j.a * PGSIZE >= P[p].sz
  /\ P' = [P EXCEPT ![j.np].sz = P[p].sz, ![j.np].state = "LIVE",
                    ![p].job = Idle]
  /\ UNCHANGED <<free, panic>>

Exit(p) ==
  /\ In(p, "none")
  /\ p # 1
  /\ P' = [P EXCEPT ![p].state = "ZOMBIE"]
  /\ UNCHANGED <<free, panic>>

\* wait() in the parent frees the zombie.
Wait(p, pp) ==
  /\ In(p, "none")
  /\ P[pp].state = "ZOMBIE"
  /\ Commit(Freeproc(World(P[pp].pt), P[pp].sz))
  /\ P' = [P EXCEPT ![pp] = Unused]

-----------------------------------------------------------------------------
(* sbrk(): growproc(n)                                                     *)

SbrkGrow(p, n) ==
  /\ In(p, "none")
  /\ n > 0 /\ P[p].sz + n <= MaxSz
  /\ P' = [P EXCEPT ![p].job = [Idle EXCEPT !.op = "sbrk",
                                            !.a = PgUp(P[p].sz),
                                            !.goal = P[p].sz + n]]
  /\ UNCHANGED <<free, panic>>

SbrkPage(p) ==
  LET j == P[p].job
      w == Uvmalloc(World(P[p].pt), j.a, P[p].sz, "data") IN
  /\ In(p, "sbrk")
  /\ j.a * PGSIZE < j.goal
  /\ Commit(w)
  /\ P' = [P EXCEPT ![p].pt = w.pt,
                    ![p].job = IF w.ok THEN [@ EXCEPT !.a = @ + 1] ELSE Idle]

SbrkDone(p) ==
  /\ In(p, "sbrk")
  /\ P[p].job.a * PGSIZE >= P[p].job.goal
  /\ P' = [P EXCEPT ![p].sz = P[p].job.goal, ![p].job = Idle]
  /\ UNCHANGED <<free, panic>>

\* sz + n is unsigned: below zero it wraps to more than sz, and uvmdealloc()
\* then leaves the size alone.
ShrunkUnchecked(sz, n) == sz - n
Shrunk(sz, n)          == IF n > sz THEN sz ELSE sz - n

SbrkShrink(p, n) ==
  LET new == Shrunk(P[p].sz, n)
      w   == Uvmdealloc(World(P[p].pt), P[p].sz, new) IN
  /\ In(p, "none")
  /\ n >= 0
  /\ Commit(w)
  /\ P' = [P EXCEPT ![p].pt = w.pt, ![p].sz = new]

-----------------------------------------------------------------------------
(* sys_exec() and exec()                                                   *)

Exec(p, prog) ==
  /\ In(p, "none")
  /\ P' = [P EXCEPT ![p].job = [Idle EXCEPT !.op = "args", !.todo = prog]]
  /\ UNCHANGED <<free, panic>>

\* kalloc() a page for the next argument.
ExecArg(p) ==
  LET j == P[p].job IN
  /\ In(p, "args")
  /\ j.args < MAXARG
  /\ IF free > 0
     THEN free' = free - 1 /\ P' = [P EXCEPT ![p].job.args = @ + 1]
     ELSE free' = free + j.args /\ P' = [P EXCEPT ![p].job = Idle]
  /\ UNCHANGED panic

\* Too many arguments, a bad pointer, no such file or not an executable:
\* the arguments are freed.
ExecArgBad(p) ==
  /\ In(p, "args")
  /\ free' = free + P[p].job.args
  /\ P' = [P EXCEPT ![p].job = Idle]
  /\ UNCHANGED panic

\* Where the uvmalloc() for the next segment starts, and its goal; after the
\* segments, the guard page and the stack.
NextGrow(j, sz) ==
  IF j.todo # <<>>
  THEN [j EXCEPT !.sz = sz, !.a = PgUp(sz), !.goal = Head(j.todo).end]
  ELSE [j EXCEPT !.sz = PgUp(sz) * PGSIZE, !.a = PgUp(sz),
                 !.goal = (PgUp(sz) + USERSTACK + 1) * PGSIZE]

ExecStart(p) ==
  LET j == P[p].job
      w == ProcPagetable(World(NoTable)) IN
  /\ In(p, "args")
  /\ IF w.ok
     THEN /\ Commit(w)
          /\ P' = [P EXCEPT ![p].job = NextGrow([j EXCEPT !.op = "exec",
                                                          !.pt = w.pt], 0)]
     ELSE /\ Commit(Kfree(w, j.args))
          /\ P' = [P EXCEPT ![p].job = Idle]

\* bad: free the new table and its sz bytes, then the arguments.
Bad(p, w) ==
  /\ Commit(ProcFreepagetable(Kfree(w, P[p].job.args), P[p].job.sz))
  /\ P' = [P EXCEPT ![p].job = Idle]

ExecPage(p) ==
  LET j == P[p].job
      w == Uvmalloc(World(j.pt), j.a, j.sz,
                    IF j.todo # <<>> THEN Head(j.todo).perm ELSE "data") IN
  /\ In(p, "exec")
  /\ j.a * PGSIZE < j.goal
  /\ IF w.ok
     THEN /\ Commit(w)
          /\ P' = [P EXCEPT ![p].job.pt = w.pt, ![p].job.a = @ + 1]
     ELSE Bad(p, w)

\* uvmalloc() is done: it returns the larger size, 0 meaning failure; then
\* loadseg(), which panics if a page of the segment is not there.
ExecLoad(p) ==
  LET j    == P[p].job
      seg  == Head(j.todo)
      sz   == IF j.goal < j.sz THEN j.sz ELSE j.goal
      need == (seg.va \div PGSIZE)..(PgUp(seg.va + seg.filesz) - 1) IN
  /\ In(p, "exec")
  /\ j.todo # <<>>
  /\ j.a * PGSIZE >= j.goal
  /\ IF sz = 0 THEN Bad(p, World(j.pt))
     ELSE /\ panic' = (panic \/ ~(need \subseteq DOMAIN j.pt.map))
          /\ P' = [P EXCEPT ![p].job =
                      NextGrow([j EXCEPT !.todo = Tail(@)], sz)]
          /\ UNCHANGED free

\* A segment cannot be read, or the arguments do not fit on the stack.
ExecBad(p) ==
  /\ In(p, "exec")
  /\ P[p].job.a * PGSIZE >= P[p].job.goal
  /\ LET j == P[p].job
         grown == IF j.goal < j.sz THEN j.sz ELSE j.goal IN
     /\ Commit(ProcFreepagetable(Kfree(World(j.pt), j.args), grown))
     /\ P' = [P EXCEPT ![p].job = Idle]

\* uvmclear() the guard page, push the arguments, commit to the new image
\* and free the old one.
ExecCommit(p) ==
  LET j     == P[p].job
      guard == (j.goal \div PGSIZE) - USERSTACK - 1
      w     == ProcFreepagetable(World(P[p].pt), P[p].sz) IN
  /\ In(p, "exec")
  /\ j.todo = <<>>
  /\ j.a * PGSIZE >= j.goal
  /\ Commit(Kfree(w, j.args))
  /\ P' = [P EXCEPT ![p].pt = [j.pt EXCEPT !.map[guard] = "guard"],
                    ![p].sz = j.goal, ![p].job = Idle]

-----------------------------------------------------------------------------
Step(p) ==
  \/ ForkCopy(p) \/ ForkDone(p) \/ SbrkPage(p) \/ SbrkDone(p)
  \/ ExecArg(p) \/ ExecArgBad(p) \/ ExecStart(p) \/ ExecPage(p)
  \/ ExecLoad(p) \/ ExecBad(p) \/ ExecCommit(p)

Next == \E p \in Slots :
  \/ Step(p) \/ Exit(p)
  \/ \E q \in Slots : Fork(p, q) \/ Wait(p, q)
  \/ \E n \in 0..MaxSz : SbrkGrow(p, n) \/ SbrkShrink(p, n)
  \/ \E prog \in Programs : Exec(p, prog)

Spec == Init /\ [][Next]_vars

-----------------------------------------------------------------------------
(* copyout(), copyin() and copyinstr(): page by page.  The result is       *)
(* whether the call succeeds and the addresses it touched.                 *)

Bytes == 0..(MAXPG * PGSIZE)

Readable(t, pg) == pg \in DOMAIN t.map /\ t.map[pg] \in {"text", "data"}
Writable(t, pg) == pg \in DOMAIN t.map /\ t.map[pg] = "data"

\* n = PGSIZE - (va - va0), at most len.
ChunkWhole(va, len) == Min({PGSIZE, len})
Chunk(va, len)      == Min({PGSIZE - (va % PGSIZE), len})

Copy(pages, start, count) ==
  LET copy[va \in Bytes, len \in 0..count] ==
        IF len = 0 THEN [ok |-> TRUE, touched |-> {}]
        ELSE IF (va \div PGSIZE) \notin pages
        THEN [ok |-> FALSE, touched |-> {}]
        ELSE LET n    == Chunk(va, len)
                 rest == copy[(va \div PGSIZE + 1) * PGSIZE, len - n] IN
             [rest EXCEPT !.touched = @ \cup va..(va + n - 1)]
  IN copy[start, count]

\* The string at start has its nul at address nul; max bytes fit.
CopyinStr(pages, start, nul, max) ==
  LET copy[va \in Bytes, left \in 0..max] ==
        IF left = 0 THEN FALSE
        ELSE IF (va \div PGSIZE) \notin pages THEN FALSE
        ELSE LET n == Chunk(va, left) IN
             IF nul < va + n THEN TRUE
             ELSE copy[(va \div PGSIZE + 1) * PGSIZE, left - n]
  IN copy[start, max]

-----------------------------------------------------------------------------
(* Properties.                                                             *)

PagesOf(t) ==
  IF ~t.root THEN 0
  ELSE 1 + Cardinality(t.nodes)
         + Cardinality({v \in DOMAIN t.map : t.map[v] # "kernel"})

Tables == {"UNUSED", "USED", "LIVE", "ZOMBIE"}

\* Every variable keeps its type; a size is a size the process asked for.
TypeOK ==
  /\ free \in 0..NPAGES
  /\ panic \in BOOLEAN
  /\ \A p \in Slots : /\ P[p].state \in Tables
                      /\ P[p].sz \in 0..(MAXPG * PGSIZE)
                      /\ P[p].job.np \in 0..NPROC
                      /\ P[p].job.args \in 0..MAXARG
                      /\ P[p].tf \in BOOLEAN

\* No page is lost and none is in two places: the pages of the free list,
\* trapframes, page tables, images under construction and exec() arguments
\* add up, wherever fork(), sbrk() or exec() ran out of memory.
PagesConserved ==
  NPAGES = free + FoldSet(LAMBDA p, n : n + PagesOf(P[p].pt)
                            + PagesOf(P[p].job.pt) + P[p].job.args
                            + (IF P[p].tf THEN 1 ELSE 0), 0, Slots)

\* None of the panics of vm.c is reached: "mappages: remap", "uvmunmap: not
\* mapped", "freewalk: leaf", "uvmcopy: pte should exist", "loadseg: address
\* should exist".
NoVmPanic == ~panic

\* Between calls a process has mapped exactly the pages of its size and the
\* two kernel pages, in user mode and as a zombie.
ImageMatchesSize ==
  \A p \in Slots : P[p].state \in {"LIVE", "ZOMBIE"} /\ P[p].job = Idle =>
    DOMAIN P[p].pt.map = 0..(PgUp(P[p].sz) - 1) \cup {TRAMPOLINE, TRAPFRAME}

\* Until exec() commits nothing that a process can still address changes:
\* a call that fails leaves the image as it was, and a call of another
\* process never touches it.
ImageKept ==
  [][\A p \in Slots : P[p].state = "LIVE" /\ P'[p].state = "LIVE"
       /\ P[p].job.op # "exec" =>
       \A v \in 0..(PgUp(Min({P[p].sz, P'[p].sz})) - 1) :
         /\ v \in DOMAIN P[p].pt.map /\ v \in DOMAIN P'[p].pt.map
         /\ P[p].pt.map[v] = P'[p].pt.map[v]]_vars

\* A forked child has the parent's permissions page for page, the guard page
\* under the stack included.
ForkCopiesPermissions ==
  [][\A p, c \in Slots : P[p].job.op = "fork" /\ P[p].job.np = c
       /\ P'[c].state = "LIVE" => P'[c].pt.map = P[p].pt.map]_vars

User(t) == {pg \in 0..(MAXPG - 1) : Readable(t, pg)}
Data(t) == {pg \in 0..(MAXPG - 1) : Writable(t, pg)}

\* copyout() and copyin() succeed exactly when every byte of the range is in
\* a page the user may write or read, touch no other byte, and copyinstr()
\* succeeds exactly when the string ends within max readable bytes, whatever
\* the alignment and even if the next page is not mapped.
CopyIsBytewise ==
  \A p \in Slots : P[p].state = "LIVE" /\ P[p].job = Idle =>
    \A pages \in {User(P[p].pt), Data(P[p].pt)}, va \in 0..(MaxSz + 1),
       len \in 0..(2 * PGSIZE + 1) :
      LET range == va..(va + len - 1)
          r     == Copy(pages, va, len) IN
      /\ r.ok <=> \A b \in range : b \div PGSIZE \in pages
      /\ r.ok => r.touched = range
      /\ \A b \in r.touched : b \in range /\ b \div PGSIZE \in pages
      /\ \A nul \in va..(va + 2 * PGSIZE + 1) :
           CopyinStr(pages, va, nul, len)
             <=> nul - va < len /\ \A b \in va..nul : b \div PGSIZE \in pages

\* Memory is accounted for, between calls and wherever one has failed: types,
\* pages, the image of every process, and no panic of vm.c.
MemoryAccounted == TypeOK /\ PagesConserved /\ NoVmPanic /\ ImageMatchesSize

=============================================================================
