------------------------------ MODULE Umalloc ------------------------------
(***************************************************************************)
(* The user-level allocator (user/umalloc.c): a circular list of free      *)
(* blocks in address order, searched from where the last call left off.    *)
(*                                                                         *)
(* Addresses count headers.  The static header `base' is at address 0, the *)
(* heap begins at address 2 and cannot grow past TOP.  A block is named by *)
(* the address of its header, h.size is known for every block and h.ptr    *)
(* for the free ones.                                                      *)
(***************************************************************************)
EXTENDS Integers, FiniteSets, Functions

CONSTANTS HDR,        \* sizeof(Header)
          MINCORE,    \* 4096: the least morecore() asks for
          TOP,        \* bound: sbrk() fails past this address
          MaxBytes    \* bound: the largest request

VARIABLES h,          \* ptr, size, freep (NULL is -1) and the program break
          used,       \* allocated blocks, with the bytes asked for
          arena       \* addresses morecore() got from sbrk()

base == 0
NULL == -1

Init ==
  /\ h = [ptr |-> <<>>, size |-> <<>>, freep |-> NULL, brk |-> 2]
  /\ used = <<>>
  /\ arena = {}

Set(f, a, v) == [x \in DOMAIN f \cup {a} |-> IF x = a THEN v ELSE f[x]]
Without(f, a) == Restrict(f, DOMAIN f \ {a})

-----------------------------------------------------------------------------
(* free()                                                                  *)

\* Block bp goes between p and its successor, or p is the end of the list.
BelongsAfter(g, p, bp) ==
  \/ bp > p /\ bp < g.ptr[p]
  \/ p >= g.ptr[p] /\ (bp > p \/ bp < g.ptr[p])

RECURSIVE PlaceFrom(_, _, _)
PlaceFrom(g, p, bp) ==
  IF BelongsAfter(g, p, bp) THEN p ELSE PlaceFrom(g, g.ptr[p], bp)

\* Join bp with the block above, if they touch.
JoinUpper(g, p, bp) ==
  LET n == g.ptr[p] IN
  IF bp + g.size[bp] = n
  THEN [g EXCEPT !.size = Without(Set(@, bp, g.size[bp] + g.size[n]), n),
                 !.ptr  = Without(Set(@, bp, g.ptr[n]), n)]
  ELSE [g EXCEPT !.ptr = Set(@, bp, n)]

\* Join p with bp, or link bp after p.
JoinLowerNever(g, p, bp) == [g EXCEPT !.ptr[p] = bp]
JoinLower(g, p, bp) ==
  IF p + g.size[p] = bp
  THEN [g EXCEPT !.size = Without(Set(@, p, g.size[p] + g.size[bp]), bp),
                 !.ptr  = Without(Set(@, p, g.ptr[bp]), bp)]
  ELSE [g EXCEPT !.ptr[p] = bp]

Release(g, bp) ==
  LET p == PlaceFrom(g, g.freep, bp) IN
  [JoinLower(JoinUpper(g, p, bp), p, bp) EXCEPT !.freep = p]

-----------------------------------------------------------------------------
(* malloc()                                                                *)

Nunits(nbytes) == (nbytes + HDR - 1) \div HDR + 1

\* What morecore(nu) adds to the heap: more than it needs, if it is little.
CoreSize(nu) == IF nu < MINCORE THEN MINCORE ELSE nu
CanGrow(g, nu) == g.brk + CoreSize(nu) <= TOP
Morecore(g, nu) ==
  Release([g EXCEPT !.brk = @ + CoreSize(nu),
                    !.size = Set(@, g.brk, CoreSize(nu))], g.brk)

\* Take nu units from the free block p, all of it or its upper end.
TakeAll(g, prevp, p) ==
  [heap |-> [g EXCEPT !.ptr = Without(Set(@, prevp, g.ptr[p]), p),
                      !.freep = prevp],
   bp |-> p]
SplitOffKeeps(g, prevp, p, nu) ==
  [heap |-> [g EXCEPT !.size = Set(@, p + g.size[p] - nu, nu),
                      !.freep = prevp],
   bp |-> p + g.size[p] - nu]
SplitOff(g, prevp, p, nu) ==
  [heap |-> [g EXCEPT !.size = Set(Set(@, p, g.size[p] - nu),
                                   p + g.size[p] - nu, nu),
                      !.freep = prevp],
   bp |-> p + g.size[p] - nu]
Take(g, prevp, p, nu) ==
  IF g.size[p] = nu THEN TakeAll(g, prevp, p) ELSE SplitOff(g, prevp, p, nu)

Wrapped(g, p) == p = g.freep

RECURSIVE Search(_, _, _, _)
Search(g, prevp, p, nu) ==
  IF g.size[p] >= nu THEN Take(g, prevp, p, nu)
  ELSE IF ~Wrapped(g, p) THEN Search(g, p, g.ptr[p], nu)
  ELSE IF ~CanGrow(g, nu) THEN [heap |-> g, bp |-> NULL]
  ELSE LET m == Morecore(g, nu) IN Search(m, m.freep, m.ptr[m.freep], nu)

\* The first call makes the list of base alone.
Started(g) ==
  IF g.freep # NULL THEN g
  ELSE [g EXCEPT !.ptr = Set(@, base, base), !.size = Set(@, base, 0),
                 !.freep = base]

Malloc(nbytes) ==
  LET g == Started(h) IN
  \E r \in {Search(g, g.freep, g.ptr[g.freep], Nunits(nbytes))} :
    /\ h' = r.heap
    /\ used' = IF r.bp = NULL THEN used ELSE Set(used, r.bp, nbytes)
    /\ arena' = arena \cup (IF r.heap.brk = h.brk THEN {}
                            ELSE h.brk..(r.heap.brk - 1))

Free(bp) ==
  /\ bp \in DOMAIN used
  /\ h' = Release(h, bp)
  /\ used' = Without(used, bp)
  /\ UNCHANGED arena

\* The program calls sbrk() itself: the next piece of heap is not adjacent.
Sbrk ==
  /\ h.brk < TOP
  /\ h' = [h EXCEPT !.brk = @ + 1]
  /\ UNCHANGED <<used, arena>>

Next ==
  \/ \E nbytes \in 0..MaxBytes : Malloc(nbytes)
  \/ \E bp \in DOMAIN used : Free(bp)
  \/ Sbrk

uvars == <<h, used, arena>>
Spec == Init /\ [][Next]_uvars

-----------------------------------------------------------------------------
(* Properties.                                                             *)

FreeBlocks == DOMAIN h.ptr \ {base}
Block(b) == b..(b + h.size[b] - 1)

\* The free and the allocated blocks partition what came from sbrk(), and
\* an allocated block has room for its header and for what was asked for.
BlocksPartitionArena ==
  LET B == FreeBlocks \cup DOMAIN used IN
  /\ FreeBlocks \cap DOMAIN used = {}
  /\ DOMAIN h.size \ {base} = B
  /\ UNION {Block(b) : b \in B} = arena
  /\ \A a, b \in B : a # b => Block(a) \cap Block(b) = {}
  /\ \A b \in DOMAIN used : (h.size[b] - 1) * HDR >= used[b]

\* The list is circular through all free blocks and base, in address order,
\* and no two free blocks touch: free() has joined them.
ListIsCoalesced ==
  h.freep # NULL =>
    /\ h.freep \in DOMAIN h.ptr
    /\ \A b \in DOMAIN h.ptr :
         LET above == {a \in DOMAIN h.ptr : a > b} IN
         h.ptr[b] = IF above = {} THEN base
                    ELSE CHOOSE a \in above : \A x \in above : a <= x
    /\ \A a, b \in FreeBlocks : a + h.size[a] # b

\* malloc() grows the heap only when no free block is large enough, and
\* fails only if the heap cannot grow either: the search from wherever freep
\* is misses no block.
GrowsOnlyIfNothingFits ==
  \A nbytes \in 0..MaxBytes :
    Malloc(nbytes) =>
      LET fits == \E b \in FreeBlocks : h.size[b] >= Nunits(nbytes) IN
      /\ h'.brk # h.brk => ~fits
      /\ used' = used =>
           ~fits /\ h.brk + CoreSize(Nunits(nbytes)) > TOP

\* malloc() and free() keep the heap whole and its free list in order.
HeapIsSound == BlocksPartitionArena /\ ListIsCoalesced
=============================================================================
