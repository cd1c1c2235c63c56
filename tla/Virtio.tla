------------------------------- MODULE Virtio -------------------------------
(***************************************************************************)
(* The disk driver of kernel/virtio_disk.c: processes in virtio_disk_rw(), *)
(* the interrupt handler virtio_disk_intr() and the virtio device, which   *)
(* share the descriptor table and the available and used rings.            *)
(*                                                                         *)
(* A process is the process that has buffer b locked, so both are b; the   *)
(* cache keeps one buffer per block, so b is also its block.  vdisk_lock   *)
(* is held across steps: the device does not respect it.  The driver's     *)
(* memory fences are the boundaries between its steps.                     *)
(***************************************************************************)
EXTENDS Naturals, FiniteSets

CONSTANTS Bufs,       \* buffers, each locked by the process that uses it
          Vals,       \* contents of a block
          Junk,       \* contents of a buffer that is not valid
          Killable,   \* processes somebody may kill()
          NUM,        \* number of descriptors
          IDXMOD,     \* number of values of a ring index (2^16)
          FirstIdx,   \* ring indices after the requests that went before
          Budgets,    \* bounds: calls of virtio_disk_rw() in a behaviour
          None        \* the null pointer, and nobody

ASSUME VirtioAssumption ==
  /\ NUM \in Nat /\ NUM >= 3
  /\ IDXMOD \in Nat \ {0} /\ IDXMOD % NUM = 0
  /\ FirstIdx \in 0..(IDXMOD - 1) /\ Budgets \subseteq Nat
  /\ None \notin Bufs /\ "intr" \notin Bufs \cup {None}
  /\ Vals # {} /\ Junk \notin Vals /\ Killable \subseteq Bufs

Desc == 0..(NUM - 1)

VARIABLES free,       \* disk.free: the free descriptors
          desc,       \* disk.desc: what each descriptor points to, and next
          ops,        \* disk.ops: request type of each chain head
          info,       \* disk.info: buffer and status of each chain head
          avail,      \* disk.avail: ring and idx
          used,       \* disk.used: ring and idx
          used_idx,   \* disk.used_idx
          bdisk,      \* b->disk
          data,       \* b->data
          platter,    \* what is on the disk
          lock,       \* vdisk_lock between steps: a process, "intr" or None
          calls,      \* calls that may still be made
          pc,         \* where each process is in virtio_disk_rw()
          write,      \* the parameter write
          idx,        \* idx[0..2]: the descriptors of the request
          seen,       \* device: how far it has read the available ring
          taken,      \* device: chain heads it is working on
          active,     \* device: it was notified and is reading the ring
          raising,    \* device: it is about to set its interrupt status
          isr         \* device: interrupt status bit, the interrupt line

tables == <<free, desc, ops, info>>
rings  == <<avail, used, used_idx>>
bufs   == <<bdisk, data, platter>>
procs  == <<pc, write, idx>>
device == <<seen, taken, active, raising, isr>>
vars   == <<tables, rings, bufs, lock, calls, procs, device>>

PCs == {"idle", "enter", "asleep_free", "publish", "notify", "asleep_b",
        "relock"}

Blank == [addr |-> <<"nowhere", None>>, next |-> 0, more |-> FALSE]
NoOp  == [out |-> FALSE, sector |-> None]

\* virtio_disk_init(): every descriptor is free.  The rings are those of a
\* driver that has served FirstIdx requests (0 after the initialisation).
Init ==
  /\ free = Desc
  /\ desc = [i \in Desc |-> Blank]
  /\ ops = [i \in Desc |-> NoOp]
  /\ info = [i \in Desc |-> [b |-> None, status |-> 0]]
  /\ avail = [ring |-> [i \in Desc |-> 0], idx |-> FirstIdx]
  /\ used = [ring |-> [i \in Desc |-> 0], idx |-> FirstIdx]
  /\ used_idx = FirstIdx
  /\ bdisk = [b \in Bufs |-> FALSE]
  /\ data = [b \in Bufs |-> Junk]
  /\ platter = [b \in Bufs |-> CHOOSE v \in Vals : TRUE]
  /\ lock = None
  /\ calls \in Budgets
  /\ pc = [b \in Bufs |-> "idle"]
  /\ write = [b \in Bufs |-> FALSE]
  /\ idx = [b \in Bufs |-> <<>>]
  /\ seen = FirstIdx /\ taken = {}
  /\ active = FALSE /\ raising = FALSE /\ isr = FALSE

Goto(b, l) == pc' = [pc EXCEPT ![b] = l]

\* A ring index is a free-running uint16.
NextIdxUnbounded(n) == n + 1
NextIdx(n)          == (n + 1) % IDXMOD

\* wakeup(&disk.free[0]), while b moves to l.
WakeFreeAndGoto(b, l) ==
  pc' = [c \in Bufs |-> IF c = b THEN l
                        ELSE IF pc[c] = "asleep_free" THEN "enter" ELSE pc[c]]

-----------------------------------------------------------------------------
(* virtio_disk_rw()                                                        *)

\* The cache reads into a buffer that is not valid, and writes one that its
\* user filled.
Call(b, v, w) ==
  /\ pc[b] = "idle"
  /\ calls > 0
  /\ calls' = calls - 1
  /\ data' = [data EXCEPT ![b] = IF w THEN v ELSE Junk]
  /\ write' = [write EXCEPT ![b] = w]
  /\ Goto(b, "enter")
  /\ UNCHANGED <<tables, rings, bdisk, platter, lock, idx, device>>

\* alloc_desc() finds the first free descriptor, so alloc3_desc() the first
\* three.
Lowest3 ==
  [k \in 1..3 |-> CHOOSE i \in free :
                    Cardinality({j \in free : j < i}) = k - 1]

\* Take the lock and three descriptors, format them, record b for the
\* interrupt handler, and put the head of the chain in the available ring.
Submit(b) ==
  LET i == Lowest3 IN
  /\ pc[b] = "enter" /\ lock = None
  /\ Cardinality(free) >= 3
  /\ lock' = b
  /\ idx' = [idx EXCEPT ![b] = i]
  /\ free' = free \ {i[1], i[2], i[3]}
  /\ ops' = [ops EXCEPT ![i[1]] = [out |-> write[b], sector |-> b]]
  /\ desc' = [desc EXCEPT
       ![i[1]] = [addr |-> <<"op", i[1]>>, next |-> i[2], more |-> TRUE],
       ![i[2]] = [addr |-> <<"data", b>>, next |-> i[3], more |-> TRUE],
       ![i[3]] = [addr |-> <<"status", i[1]>>, next |-> 0, more |-> FALSE]]
  /\ info' = [info EXCEPT ![i[1]] = [b |-> b, status |-> 255]]
  /\ bdisk' = [bdisk EXCEPT ![b] = TRUE]
  /\ avail' = [avail EXCEPT !.ring[avail.idx % NUM] = i[1]]
  /\ Goto(b, "publish")
  /\ UNCHANGED <<calls, used, used_idx, data, platter, write, device>>

\* Fewer than three are free: alloc3_desc() gives back the ones it took,
\* which wakes the others that wait, and b sleeps on &disk.free[0].
KeepTaken(b) ==
  /\ free' = {}
  /\ Goto(b, "asleep_free")

GiveBack(b) ==
  /\ free' = free
  /\ IF free = {} THEN Goto(b, "asleep_free")
                  ELSE WakeFreeAndGoto(b, "asleep_free")

SubmitFails(b) ==
  /\ pc[b] = "enter" /\ lock = None
  /\ Cardinality(free) < 3
  /\ GiveBack(b)
  /\ UNCHANGED <<calls, desc, ops, info, rings, bufs, lock, write, idx,
                 device>>

\* disk.avail->idx += 1, after the first fence.
Publish(b) ==
  /\ pc[b] = "publish"
  /\ avail' = [avail EXCEPT !.idx = NextIdx(@)]
  /\ Goto(b, "notify")
  /\ UNCHANGED <<calls, tables, used, used_idx, bufs, lock, write, idx,
                 device>>

\* Write the notify register, after the second fence.  b->disk cannot have
\* been cleared while the lock is held, so the loop is entered: sleep(b).
Notify(b) ==
  /\ pc[b] = "notify"
  /\ active' = TRUE
  /\ lock' = None
  /\ Goto(b, "asleep_b")
  /\ UNCHANGED <<calls, tables, rings, bufs, write, idx, seen, taken,
                 raising, isr>>

\* The condition of while(b->disk == 1).
MustWaitOnce(b) == FALSE
MustWait(b)     == bdisk[b]

SleepAgain(b) ==
  /\ pc[b] = "relock" /\ lock = None
  /\ MustWait(b)
  /\ Goto(b, "asleep_b")
  /\ UNCHANGED <<calls, tables, rings, bufs, lock, write, idx, device>>

\* The descriptors that free_chain(i) frees.
Chain(i) ==
  LET n == desc[i].next IN
  {i} \cup IF ~desc[i].more THEN {}
           ELSE {n} \cup IF desc[n].more THEN {desc[n].next} ELSE {}

\* The loop ends: clear info.b, free the chain, which wakes waiters, return.
\* ops and write are dead from here until they are set again.
Finish(b) ==
  LET chain == Chain(idx[b][1]) IN
  /\ pc[b] = "relock" /\ lock = None
  /\ ~MustWait(b)
  /\ info' = [info EXCEPT ![idx[b][1]].b = None]
  /\ ops' = [ops EXCEPT ![idx[b][1]] = NoOp]
  /\ free' = free \cup chain
  /\ desc' = [i \in Desc |-> IF i \in chain THEN Blank ELSE desc[i]]
  /\ idx' = [idx EXCEPT ![b] = <<>>]
  /\ write' = [write EXCEPT ![b] = FALSE]
  /\ WakeFreeAndGoto(b, "idle")
  /\ UNCHANGED <<calls, rings, bufs, lock, device>>

\* kill() of a sleeping process makes it runnable; both sleeps are in loops.
Kill(b) ==
  /\ b \in Killable
  /\ pc[b] \in {"asleep_free", "asleep_b"}
  /\ Goto(b, IF pc[b] = "asleep_b" THEN "relock" ELSE "enter")
  /\ UNCHANGED <<calls, tables, rings, bufs, lock, write, idx, device>>

-----------------------------------------------------------------------------
(* virtio_disk_intr(), which devintr() calls between plic_claim() and      *)
(* plic_complete(): until then the PLIC delivers this interrupt to nobody. *)

\* acquire(&disk.vdisk_lock) and acknowledge the interrupt.
IntrAck ==
  /\ isr
  /\ lock = None
  /\ lock' = "intr"
  /\ isr' = FALSE
  /\ UNCHANGED <<calls, tables, rings, bufs, procs, seen, taken, active,
                 raising>>

\* One iteration: b->disk = 0 and wakeup(b) for an entry of the used ring.
CompleteSilently(b) ==
  /\ bdisk' = [bdisk EXCEPT ![b] = FALSE]
  /\ UNCHANGED pc

Complete(b) ==
  /\ bdisk' = [bdisk EXCEPT ![b] = FALSE]
  /\ pc' = [pc EXCEPT ![b] = IF @ = "asleep_b" THEN "relock" ELSE @]

IntrWalkTwice ==
  /\ lock = "intr"
  /\ used_idx # used.idx
  /\ \/ Complete(info[used.ring[used_idx % NUM]].b) /\ UNCHANGED lock
     \/ lock' = None /\ UNCHANGED <<bdisk, pc>>
  /\ UNCHANGED <<calls, tables, rings, data, platter, write, idx, device>>

IntrWalkOnce ==
  /\ lock = "intr"
  /\ used_idx # used.idx
  /\ Complete(info[used.ring[used_idx % NUM]].b)
  /\ used_idx' = NextIdx(used_idx)
  /\ lock' = None
  /\ UNCHANGED <<calls, tables, avail, used, data, platter, write, idx,
                 device>>

\* A used entry that was read is dead until the device writes it again.
IntrWalk ==
  /\ lock = "intr"
  /\ used_idx # used.idx
  /\ Complete(info[used.ring[used_idx % NUM]].b)
  /\ used_idx' = NextIdx(used_idx)
  /\ used' = [used EXCEPT !.ring[used_idx % NUM] = 0]
  /\ UNCHANGED <<calls, tables, avail, data, platter, lock, write, idx,
                 device>>

IntrReturn ==
  /\ lock = "intr"
  /\ used_idx = used.idx
  /\ lock' = None
  /\ UNCHANGED <<calls, tables, rings, bufs, procs, device>>

-----------------------------------------------------------------------------
(* The device (external).  Once notified it reads the available ring until *)
(* it has seen all of it; it finishes requests in any order.               *)

\* An available entry that was read is dead until the driver writes it.
DevTake ==
  /\ active
  /\ seen # avail.idx
  /\ taken' = taken \cup {avail.ring[seen % NUM]}
  /\ avail' = [avail EXCEPT !.ring[seen % NUM] = 0]
  /\ seen' = NextIdx(seen)
  /\ UNCHANGED <<calls, tables, used, used_idx, bufs, lock, procs, active,
                 raising, isr>>

DevRest ==
  /\ active
  /\ seen = avail.idx
  /\ active' = FALSE
  /\ UNCHANGED <<calls, tables, rings, bufs, lock, procs, seen, taken,
                 raising, isr>>

\* Follow the chain from h: transfer the data, write the status, add h to
\* the used ring.
DevDone(h) ==
  LET op     == ops[desc[h].addr[2]]
      d      == desc[desc[h].next]
      memory == d.addr[2]
      status == desc[d.next].addr[2] IN
  /\ h \in taken
  /\ IF op.out
     THEN /\ platter' = [platter EXCEPT ![op.sector] = data[memory]]
          /\ UNCHANGED data
     ELSE /\ data' = [data EXCEPT ![memory] = platter[op.sector]]
          /\ UNCHANGED platter
  /\ info' = [info EXCEPT ![status].status = 0]
  /\ used' = [ring |-> [used.ring EXCEPT ![used.idx % NUM] = h],
              idx  |-> NextIdx(used.idx)]
  /\ taken' = taken \ {h}
  /\ raising' = TRUE
  /\ UNCHANGED <<calls, free, desc, ops, avail, used_idx, bdisk, lock, procs,
                 seen, active, isr>>

DevRaise ==
  /\ raising
  /\ raising' = FALSE
  /\ isr' = TRUE
  /\ UNCHANGED <<calls, tables, rings, bufs, lock, procs, seen, taken,
                 active>>

-----------------------------------------------------------------------------
Rw(b) ==
  \/ Submit(b) \/ SubmitFails(b) \/ Publish(b) \/ Notify(b)
  \/ SleepAgain(b) \/ Finish(b)

Intr == IntrAck \/ IntrWalk \/ IntrReturn

Device == DevTake \/ DevRest \/ DevRaise \/ \E h \in Desc : DevDone(h)

Next ==
  \/ \E b \in Bufs : \/ \E v \in Vals, w \in BOOLEAN : Call(b, v, w)
                     \/ Rw(b) \/ Kill(b)
  \/ Intr
  \/ Device

Spec == Init /\ [][Next]_vars

\* A process or handler that can go on does so in the end, and the device
\* does not stop working.  The lock is free again after finitely many
\* requests and handlers, so weak fairness is enough.
Fairness ==
  /\ \A b \in Bufs : WF_vars(Rw(b))
  /\ WF_vars(Intr)
  /\ WF_vars(Device)

FairSpec == Spec /\ Fairness

-----------------------------------------------------------------------------
(* Properties.                                                             *)

\* What a descriptor points to.
Addrs == {"nowhere", "op", "data", "status"} \X (Desc \cup Bufs \cup {None})

\* Every variable keeps its type; ring indices are 16-bit.
TypeOK ==
  /\ free \subseteq Desc
  /\ desc \in [Desc -> [addr : Addrs, next : Desc, more : BOOLEAN]]
  /\ ops \in [Desc -> [out : BOOLEAN, sector : Bufs \cup {None}]]
  /\ info \in [Desc -> [b : Bufs \cup {None}, status : {0, 255}]]
  /\ avail \in [ring : [Desc -> Desc], idx : 0..(IDXMOD - 1)]
  /\ used \in [ring : [Desc -> Desc], idx : 0..(IDXMOD - 1)]
  /\ used_idx \in 0..(IDXMOD - 1) /\ seen \in 0..(IDXMOD - 1)
  /\ bdisk \in [Bufs -> BOOLEAN]
  /\ data \in [Bufs -> Vals \cup {Junk}] /\ platter \in [Bufs -> Vals]
  /\ lock \in Bufs \cup {"intr", None}
  /\ calls \in Nat
  /\ pc \in [Bufs -> PCs] /\ write \in [Bufs -> BOOLEAN]
  /\ idx \in [Bufs -> {<<>>} \cup [1..3 -> Desc]]
  /\ taken \subseteq Desc
  /\ active \in BOOLEAN /\ raising \in BOOLEAN /\ isr \in BOOLEAN

Held(b) == {idx[b][k] : k \in DOMAIN idx[b]}

\* Every descriptor is free or belongs to exactly one request: none is lost
\* when alloc3_desc() gives up half way or free_chain() follows a chain, and
\* none is handed out twice (panic "free_desc 2").
DescriptorsAccounted ==
  /\ free \cup UNION {Held(b) : b \in Bufs} = Desc
  /\ \A b, c \in Bufs : b # c => Held(b) \cap Held(c) = {}
  /\ \A b \in Bufs : Held(b) \cap free = {}

\* What the handler has still to read of the used ring.
Unread == {used.ring[i % NUM] : i \in {j \in 0..(IDXMOD - 1) :
             (j + IDXMOD - used_idx) % IDXMOD
               < (used.idx + IDXMOD - used_idx) % IDXMOD}}

\* Each entry the handler will read names a request that was successful, is
\* still waiting, and belongs to the buffer on record: no panic on a status,
\* no null buffer, no completion of somebody else's request.
UsedNamesItsOwner ==
  \A h \in Unread : /\ info[h].status = 0
                    /\ info[h].b # None
                    /\ idx[info[h].b][1] = h
                    /\ bdisk[info[h].b]

\* The request of a process asleep on its buffer is still on its way, and
\* if it is complete the handler will see it: the acknowledgement comes
\* before the walk, so a completion that races with the walk leaves the
\* interrupt raised.
NoLostCompletion ==
  \A b \in Bufs : pc[b] = "asleep_b" /\ bdisk[b] =>
    LET h == idx[b][1] IN
    \/ h \in taken
    \/ /\ active
       /\ \E i \in Desc : avail.ring[i] = h
       /\ seen # avail.idx
    \/ /\ h \in Unread
       /\ raising \/ isr \/ lock = "intr"

\* Every call returns, in whatever order the device completes requests and
\* however the processes that wait for descriptors wake each other; with no
\* bound on the calls only the ones that got their descriptors would.
CallsReturn == []<>(\A b \in Bufs : pc[b] = "idle")

\* The state of each call, as its caller sees it: it is done when the device
\* has written its status.
CallStates ==
  [b \in Bufs |->
     IF pc[b] = "idle" THEN "none"
     ELSE IF idx[b] # <<>> /\ info[idx[b][1]].b = b
             /\ info[idx[b][1]].status = 0 THEN "done"
     ELSE IF write[b] THEN "write" ELSE "read"]

\* The driver implements BlockDevice.
Abstract == INSTANCE BlockDevice WITH call <- CallStates

RefinesBlockDevice == Abstract!Spec

\* The handler's view and the processes' agree: variables keep their types,
\* every descriptor has one owner, every entry of the used ring names it,
\* and no completion is overlooked.
RequestsAccounted ==
  TypeOK /\ DescriptorsAccounted /\ UsedNamesItsOwner /\ NoLostCompletion
=============================================================================
