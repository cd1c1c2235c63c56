---------------------------- MODULE VirtioSteps ----------------------------
(***************************************************************************)
(* The inductive invariant of Virtio, the arithmetic of its ring indices,  *)
(* and the steps of the handler, of the device and of processes that leave *)
(* the free descriptors alone.  The rest of the steps and the theorems are *)
(* in VirtioProofs.                                                        *)
(*                                                                         *)
(* The ring indices wrap.  The proofs count without wrapping: a, s, u and  *)
(* v are the numbers of requests made available, seen by the device,       *)
(* reported as used, and handled, since the driver started.                *)
(***************************************************************************)
EXTENDS Virtio, TLAPS

-----------------------------------------------------------------------------
(* The inductive invariant.                                                *)

\* b is in virtio_disk_rw() and has its descriptors.
InRw(b) == pc[b] \in {"publish", "notify", "asleep_b", "relock"}

\* The ring index, and the cell of a ring, for request number j.
Lap(j)  == j % IDXMOD
Cell(j) == j % NUM

\* h is the head of the chain of the request on record for it.
Owned(h) == /\ info[h].b \in Bufs
            /\ InRw(info[h].b)
            /\ idx[info[h].b][1] = h

\* A process has descriptors exactly between alloc3_desc() and free_chain(),
\* holds vdisk_lock across steps exactly from the ring entry to the notify,
\* and b->disk is set until the interrupt handler clears it.
PcInv ==
  \A b \in Bufs :
    /\ InRw(b) => idx[b] \in [1..3 -> Desc]
    /\ ~InRw(b) => idx[b] = <<>> /\ ~bdisk[b]
    /\ lock = b <=> pc[b] \in {"publish", "notify"}
    /\ pc[b] \in {"publish", "notify", "asleep_b"} => bdisk[b]

\* What virtio_disk_rw() writes in its descriptors, and the request header.
OpDesc(h, n)   == [addr |-> <<"op", h>>, next |-> n, more |-> TRUE]
DataDesc(b, n) == [addr |-> <<"data", b>>, next |-> n, more |-> TRUE]
StatusDesc(h)  == [addr |-> <<"status", h>>, next |-> 0, more |-> FALSE]
Request(w, b)  == [out |-> w, sector |-> b]

\* What virtio_disk_rw() wrote in its descriptors stays there; a request
\* whose status the device has not written is still waited for.
ChainInv ==
  \A b \in Bufs : InRw(b) =>
    /\ idx[b][1] # idx[b][2] /\ idx[b][1] # idx[b][3] /\ idx[b][2] # idx[b][3]
    /\ ops[idx[b][1]] = Request(write[b], b)
    /\ desc[idx[b][1]] = OpDesc(idx[b][1], idx[b][2])
    /\ desc[idx[b][2]] = DataDesc(b, idx[b][3])
    /\ desc[idx[b][3]] = StatusDesc(idx[b][1])
    /\ info[idx[b][1]].b = b
    /\ info[idx[b][1]].status = 255 => bdisk[b]

\* Every descriptor is free or belongs to exactly one request.
OwnInv ==
  /\ \A b \in Bufs : InRw(b) => \A k \in 1..3 : idx[b][k] \notin free
  /\ \A b, c \in Bufs : InRw(b) /\ InRw(c) /\ b # c =>
       \A k, l \in 1..3 : idx[b][k] # idx[c][l]
  /\ \A i \in Desc : i \in free
                     \/ \E b \in Bufs : InRw(b) /\ \E k \in 1..3 : idx[b][k] = i

\* What the device works on was published, and is not complete.
TakenInv ==
  \A h \in taken :
    Owned(h) /\ info[h].status = 255 /\ pc[info[h].b] # "publish"

\* The indices are the counts, and fewer entries than a ring has cells are
\* in use.
CountInv(a, s, u, v) ==
  /\ s <= a /\ a - s < NUM /\ v <= u /\ u - v < NUM
  /\ avail.idx = Lap(a) /\ seen = Lap(s)
  /\ used.idx = Lap(u) /\ used_idx = Lap(v)

\* A request in the available ring: published, not complete, and the device
\* will read on unless the process is about to notify it.
Waiting(h) ==
  /\ Owned(h) /\ info[h].status = 255 /\ h \notin taken
  /\ pc[info[h].b] # "publish"
  /\ pc[info[h].b] = "notify" \/ active

\* A request in the used ring: complete, and still waited for.
Reported(h) == Owned(h) /\ info[h].status = 0 /\ bdisk[info[h].b]

\* The entries of the available ring the device has not seen are different
\* requests that nobody else works on.  The next cell holds the request that
\* is about to be published.
AvailInv(a, s) ==
  /\ \A j \in s..(a - 1), g \in Desc : avail.ring[Cell(j)] = g => Waiting(g)
  /\ \A j, k \in s..(a - 1) : avail.ring[Cell(j)] = avail.ring[Cell(k)] => j = k
  /\ \A b \in Bufs : pc[b] = "publish" =>
       /\ avail.ring[Cell(a)] = idx[b][1]
       /\ info[idx[b][1]].status = 255

\* The entries of the used ring that were not handled are different requests,
\* and the handler will come.
UsedInv(u, v) ==
  /\ \A j \in v..(u - 1), g \in Desc : used.ring[Cell(j)] = g => Reported(g)
  /\ \A j, k \in v..(u - 1) : used.ring[Cell(j)] = used.ring[Cell(k)] => j = k
  /\ v < u => raising \/ isr \/ lock = "intr"

\* A request that is waited for is in the hands of the process, in the
\* available ring, with the device, or in the used ring.
PlaceInv(a, s, u, v) ==
  \A b \in Bufs : InRw(b) /\ bdisk[b] =>
    IF info[idx[b][1]].status = 255
    THEN \/ pc[b] = "publish" \/ idx[b][1] \in taken
         \/ \E j \in s..(a - 1) : avail.ring[Cell(j)] = idx[b][1]
    ELSE \E j \in v..(u - 1) : used.ring[Cell(j)] = idx[b][1]

RingInv(a, s, u, v) ==
  CountInv(a, s, u, v) /\ AvailInv(a, s) /\ UsedInv(u, v)
    /\ PlaceInv(a, s, u, v)

\* A buffer that is being written was filled by its user.
DataInv == \A b \in Bufs : write[b] => data[b] \in Vals

IInv ==
  /\ TypeOK /\ PcInv /\ ChainInv /\ OwnInv /\ TakenInv /\ DataInv
  /\ \E a, s, u, v \in Nat : RingInv(a, s, u, v)

-----------------------------------------------------------------------------
(* Arithmetic of ring indices.                                             *)

\* Division with remainder, for the unsigned % of C.
LEMMA DivMod ==
  ASSUME NEW M \in Nat \ {0}, NEW a \in Nat
  PROVE  /\ a % M \in 0..(M - 1) /\ a \div M \in Nat
         /\ a = (M * (a \div M)) + (a % M)
OBVIOUS

\* The remainder is the only one: how % is computed for a given quotient.
LEMMA ModUnique ==
  ASSUME NEW M \in Nat \ {0}, NEW a \in Nat, NEW q \in Nat, NEW r \in 0..(M - 1),
         a = M * q + r
  PROVE  a % M = r
OBVIOUS

\* Less than a turn apart, two positions of a ring are different.
LEMMA ModApart ==
  ASSUME NEW P \in Nat \ {0}, NEW j \in Nat, NEW k \in Nat, j < k, k < j + P
  PROVE  j % P # k % P
<1> DEFINE q == j \div P
           r == j % P
<1>1. q \in Nat /\ r \in 0..(P - 1) /\ j = P * q + r
  BY Zenon, DivMod
<1> HIDE DEF q, r
<1>2. CASE r + (k - j) < P
  <2>1. r + (k - j) \in 0..(P - 1) /\ k = P * q + (r + (k - j))
    BY <1>1, <1>2
  <2>2. k % P = r + (k - j)
    BY Zenon, <1>1, <2>1, ModUnique
  <2> QED
    BY <2>2, <1>1 DEF r
<1>3. CASE r + (k - j) >= P
  <2>1. P * (q + 1) = P * q + P /\ q + 1 \in Nat
    BY <1>1
  <2>2. r + (k - j) - P \in 0..(P - 1) /\ k = P * (q + 1) + (r + (k - j) - P)
    BY <1>1, <1>3, <2>1
  <2>3. k % P = r + (k - j) - P
    BY Zenon, <2>1, <2>2, ModUnique
  <2> QED
    BY <2>3, <1>1 DEF r
<1> QED
  BY <1>1, <1>2, <1>3

\* A ring index goes around a whole number of turns of the ring.
LEMMA Turns == \E n \in Nat \ {0} : IDXMOD = NUM * n /\ IDXMOD >= NUM
<1> DEFINE n == IDXMOD \div NUM
<1>1. NUM \in Nat \ {0} /\ IDXMOD \in Nat \ {0} /\ IDXMOD % NUM = 0
  BY VirtioAssumption
<1>2. n \in Nat /\ IDXMOD = (NUM * n) + (IDXMOD % NUM)
  BY Zenon, <1>1, DivMod
<1> HIDE DEF n
<1>3. IDXMOD = NUM * n
  BY <1>1, <1>2
<1>4. n # 0
  BY <1>1, <1>3
<1>5. NUM * n >= NUM
  BY <1>1, <1>2, <1>4
<1> QED
  BY Zenon, <1>2, <1>3, <1>4, <1>5

\* Cells and indices have their types.
LEMMA CellType ==
  ASSUME NEW j \in Nat
  PROVE  Cell(j) \in Desc /\ Lap(j) \in 0..(IDXMOD - 1)
  BY VirtioAssumption, DivMod DEF Cell, Lap, Desc

\* Requests that are in a ring at the same time are in different cells.
LEMMA CellApart ==
  ASSUME NEW j \in Nat, NEW k \in Nat, j < k, k < j + NUM
  PROVE  Cell(j) # Cell(k)
<1>1. NUM \in Nat \ {0}
  BY VirtioAssumption
<1>2. j % NUM # k % NUM
  BY Zenon, <1>1, ModApart
<1> QED
  BY Zenon, <1>2 DEF Cell

\* idx - used_idx does not wrap to zero: equal indices mean equal counts.
LEMMA LapApart ==
  ASSUME NEW j \in Nat, NEW k \in Nat, j <= k, k < j + NUM, Lap(j) = Lap(k)
  PROVE  j = k
<1>1. IDXMOD >= NUM /\ IDXMOD \in Nat \ {0} /\ NUM \in Nat
  BY Zenon, Turns, VirtioAssumption
<1> SUFFICES ASSUME j < k PROVE FALSE
  OBVIOUS
<1>2. k < j + IDXMOD
  BY <1>1
<1>3. j % IDXMOD # k % IDXMOD
  BY Zenon, <1>1, <1>2, ModApart
<1> QED
  BY Zenon, <1>3 DEF Lap

\* disk.used->ring[disk.used_idx % NUM] is the cell of the count.
LEMMA LapCell ==
  ASSUME NEW j \in Nat
  PROVE  Lap(j) % NUM = Cell(j)
<1> DEFINE q == j \div IDXMOD
           r == j % IDXMOD
           p == r \div NUM
           c == r % NUM
<1>1. NUM \in Nat \ {0} /\ IDXMOD \in Nat \ {0}
  BY VirtioAssumption
<1>2. PICK n \in Nat \ {0} : IDXMOD = NUM * n
  BY Zenon, Turns
<1>3. q \in Nat /\ r \in Nat /\ j = (IDXMOD * q) + r
  BY <1>1, DivMod
<1>4. p \in Nat /\ c \in 0..(NUM - 1) /\ r = (NUM * p) + c
  BY Zenon, <1>1, <1>3, DivMod
<1> HIDE DEF q, r, p, c
<1>5. IDXMOD * q = NUM * (n * q) /\ n * q \in Nat
  BY <1>1, <1>2, <1>3
<1>6. NUM * ((n * q) + p) = (NUM * (n * q)) + (NUM * p) /\ (n * q) + p \in Nat
  BY <1>1, <1>4, <1>5
<1>7. j = NUM * ((n * q) + p) + c
  BY <1>1, <1>3, <1>4, <1>5, <1>6
<1>8. j % NUM = c
  BY Zenon, <1>1, <1>4, <1>6, <1>7, ModUnique
<1> QED
  BY Zenon, <1>8 DEF Cell, Lap, c, r

\* A uint16 that is incremented counts one more.
LEMMA LapNext ==
  ASSUME NEW j \in Nat
  PROVE  NextIdx(Lap(j)) = Lap(j + 1)
<1> DEFINE q == j \div IDXMOD
           r == j % IDXMOD
<1>1. IDXMOD \in Nat \ {0}
  BY Zenon, VirtioAssumption
<1>2. q \in Nat /\ r \in 0..(IDXMOD - 1) /\ j = (IDXMOD * q) + r
  BY Zenon, <1>1, DivMod
<1> HIDE DEF q, r
<1>3. CASE r + 1 < IDXMOD
  <2>1. (j + 1) % IDXMOD = r + 1
    BY <1>1, <1>2, <1>3, ModUnique
  <2>2. (r + 1) % IDXMOD = r + 1
    BY <1>1, <1>2, <1>3
  <2> QED
    BY Zenon, <2>1, <2>2 DEF Lap, NextIdx, r
<1>4. CASE r + 1 = IDXMOD
  <2>1. IDXMOD * (q + 1) = (IDXMOD * q) + IDXMOD /\ q + 1 \in Nat
    BY <1>1, <1>2
  <2>2. j + 1 = (IDXMOD * (q + 1)) + 0
    BY <1>1, <1>2, <1>4, <2>1
  <2>3. (j + 1) % IDXMOD = 0
    <3>1. 0 \in 0..(IDXMOD - 1) /\ j + 1 \in Nat
      BY <1>1
    <3> QED
      BY Zenon, <1>1, <2>1, <2>2, <3>1, ModUnique
  <2>4. (r + 1) % IDXMOD = 0
    BY <1>1, <1>4
  <2> QED
    BY Zenon, <2>3, <2>4 DEF Lap, NextIdx, r
<1> QED
  BY <1>1, <1>2, <1>3, <1>4

\* Entries of the rings are descriptors.
LEMMA RingTypes ==
  ASSUME TypeOK
  PROVE  /\ avail.ring \in [Desc -> Desc] /\ used.ring \in [Desc -> Desc]
         /\ \A j \in Nat : avail.ring[Cell(j)] \in Desc
         /\ \A j \in Nat : used.ring[Cell(j)] \in Desc
         /\ \A m, n \in Nat : \A j \in m..(n - 1) : j \in Nat
         /\ \A h \in Desc : /\ info[h].b \in Bufs \cup {None}
                             /\ info[h].status \in {0, 255}
<1>1. avail.ring \in [Desc -> Desc] /\ used.ring \in [Desc -> Desc]
  BY Zenon DEF TypeOK
<1>2. /\ \A j \in Nat : avail.ring[Cell(j)] \in Desc
      /\ \A j \in Nat : used.ring[Cell(j)] \in Desc
  BY Zenon, <1>1, CellType
<1>3. \A m, n \in Nat : \A j \in m..(n - 1) : j \in Nat
  OBVIOUS
<1>4. \A h \in Desc : /\ info[h].b \in Bufs \cup {None}
                      /\ info[h].status \in {0, 255}
  BY DEF TypeOK
<1> QED
  BY Zenon, <1>1, <1>2, <1>3, <1>4

-----------------------------------------------------------------------------
(* What the invariant says of one request.                                 *)

\* A process in virtio_disk_rw() has three descriptors.
LEMMA HasThree ==
  ASSUME PcInv, NEW b \in Bufs, InRw(b)
  PROVE  /\ idx[b] \in [1..3 -> Desc]
         /\ idx[b][1] \in Desc /\ idx[b][2] \in Desc /\ idx[b][3] \in Desc
<1>1. idx[b] \in [1..3 -> Desc]
  BY Zenon DEF PcInv
<1> QED
  BY <1>1

\* Its head records the process, and is waited for until it is complete.
LEMMA HeadRecords ==
  ASSUME ChainInv, NEW b \in Bufs, InRw(b)
  PROVE  /\ info[idx[b][1]].b = b
         /\ info[idx[b][1]].status = 255 => bdisk[b]
BY Zenon DEF ChainInv

\* What the device and free_chain() find when they follow its chain.
LEMMA ChainLinks ==
  ASSUME ChainInv, NEW b \in Bufs, InRw(b)
  PROVE  /\ desc[idx[b][1]].addr[2] = idx[b][1]
         /\ desc[idx[b][1]].next = idx[b][2] /\ desc[idx[b][1]].more = TRUE
         /\ desc[idx[b][2]].addr[2] = b
         /\ desc[idx[b][2]].next = idx[b][3] /\ desc[idx[b][2]].more = TRUE
         /\ desc[idx[b][3]].addr[2] = idx[b][1]
         /\ ops[idx[b][1]].out = write[b] /\ ops[idx[b][1]].sector = b
<1>1. /\ ops[idx[b][1]] = Request(write[b], b)
      /\ desc[idx[b][1]] = OpDesc(idx[b][1], idx[b][2])
      /\ desc[idx[b][2]] = DataDesc(b, idx[b][3])
      /\ desc[idx[b][3]] = StatusDesc(idx[b][1])
  BY Zenon DEF ChainInv
<1>2. \A h, n, w : /\ OpDesc(h, n).addr[2] = h /\ OpDesc(h, n).next = n
                   /\ OpDesc(h, n).more = TRUE
                   /\ DataDesc(h, n).addr[2] = h /\ DataDesc(h, n).next = n
                   /\ DataDesc(h, n).more = TRUE
                   /\ StatusDesc(h).addr[2] = h
                   /\ Request(w, h).out = w /\ Request(w, h).sector = h
  BY Zenon DEF Request, OpDesc, DataDesc, StatusDesc
<1> QED
  BY <1>1, <1>2

\* An entry of the available ring is a request that waits for the device.
LEMMA AvailEntry ==
  ASSUME TypeOK, NEW a \in Nat, NEW s \in Nat, AvailInv(a, s),
         NEW j \in s..(a - 1)
  PROVE  avail.ring[Cell(j)] \in Desc /\ Waiting(avail.ring[Cell(j)])
<1>1. j \in Nat
  OBVIOUS
<1>2. avail.ring[Cell(j)] \in Desc
  BY Zenon, <1>1, RingTypes
<1> QED
  BY <1>2 DEF AvailInv

\* An entry of the used ring is a request that waits for the handler.
LEMMA UsedEntry ==
  ASSUME TypeOK, NEW u \in Nat, NEW v \in Nat, UsedInv(u, v),
         NEW j \in v..(u - 1)
  PROVE  used.ring[Cell(j)] \in Desc /\ Reported(used.ring[Cell(j)])
<1>1. j \in Nat
  OBVIOUS
<1>2. used.ring[Cell(j)] \in Desc
  BY <1>1, RingTypes
<1> QED
  BY Zenon, <1>2 DEF UsedInv

-----------------------------------------------------------------------------
(* Steps of the handler, of the device, and of processes between           *)
(* alloc3_desc() and free_chain() leave the chains alone.                  *)

\* If descriptors stay with their owners, so do heads of chains.
LEMMA SameOwned ==
  ASSUME TypeOK, idx' = idx, \A c \in Bufs : InRw(c)' <=> InRw(c),
         \A h \in Desc : info'[h].b = info[h].b
  PROVE  \A h \in Desc : Owned(h)' <=> Owned(h)
  BY Zenon DEF Owned

\* Chains that nobody touches stay as they are.
LEMMA SameChains ==
  ASSUME TypeOK, PcInv, ChainInv, OwnInv,
         UNCHANGED <<free, desc, ops, idx>>,
         \A h \in Desc : info'[h].b = info[h].b,
         \A c \in Bufs : InRw(c)' <=> InRw(c),
         \A c \in Bufs : InRw(c) => write'[c] = write[c],
         \A c \in Bufs : InRw(c) /\ info'[idx[c][1]].status = 255 => bdisk'[c]
  PROVE  ChainInv' /\ OwnInv'
<1>1. ChainInv'
  <2> SUFFICES ASSUME NEW b \in Bufs, InRw(b)
               PROVE  /\ idx[b][1] # idx[b][2] /\ idx[b][1] # idx[b][3]
                      /\ idx[b][2] # idx[b][3]
                      /\ ops[idx[b][1]] = Request(write'[b], b)
                      /\ desc[idx[b][1]] = OpDesc(idx[b][1], idx[b][2])
                      /\ desc[idx[b][2]] = DataDesc(b, idx[b][3])
                      /\ desc[idx[b][3]] = StatusDesc(idx[b][1])
                      /\ info'[idx[b][1]].b = b
                      /\ info'[idx[b][1]].status = 255 => bdisk'[b]
    BY DEF ChainInv
  <2>1. idx[b][1] \in Desc
    BY Zenon, HasThree
  <2> QED
    BY <2>1 DEF ChainInv
<1>2. OwnInv'
  BY DEF OwnInv
<1> QED
  BY Zenon, <1>1, <1>2

\* A step of processes that have no descriptors, or that go to sleep or wake
\* up, keeps the invariant.
LEMMA PcOnly ==
  ASSUME IInv, TypeOK', DataInv',
         UNCHANGED <<free, desc, ops, info, avail, used, used_idx, bdisk,
                     lock, idx, seen, taken, active, raising, isr>>,
         \A c \in Bufs : /\ pc'[c] = "publish" <=> pc[c] = "publish"
                         /\ pc'[c] = "notify" <=> pc[c] = "notify"
                         /\ InRw(c)' <=> InRw(c)
                         /\ pc'[c] = "asleep_b" => bdisk[c]
                         /\ InRw(c) => write'[c] = write[c]
  PROVE  IInv'
<1>1. TypeOK /\ PcInv /\ ChainInv /\ OwnInv /\ TakenInv
  BY Zenon DEF IInv
<1>2. PICK a \in Nat, s \in Nat, u \in Nat, v \in Nat : RingInv(a, s, u, v)
  BY Zenon DEF IInv
<1>3. \A h \in Desc : Owned(h)' <=> Owned(h)
  BY Zenon, <1>1, SameOwned
<1>4. PcInv'
  BY Zenon, <1>1 DEF PcInv
<1>5. ChainInv' /\ OwnInv'
  <2>1. \A c \in Bufs : InRw(c) /\ info'[idx[c][1]].status = 255 => bdisk'[c]
    BY Zenon, <1>1 DEF ChainInv
  <2> QED
    BY Zenon, <1>1, <2>1, SameChains
<1>6. TakenInv'
  <2>1. taken \subseteq Desc
    BY Zenon, <1>1 DEF TypeOK
  <2> QED
    BY <1>1, <1>3, <2>1 DEF TakenInv, Owned
<1>7. RingInv(a, s, u, v)'
  <2>1. CountInv(a, s, u, v)'
    BY Zenon, <1>2 DEF RingInv, CountInv
  <2>2. AvailInv(a, s)'
    <3>1. ASSUME NEW g \in Desc, Waiting(g) PROVE Waiting(g)'
      BY <1>3, <3>1 DEF Waiting, Owned
    <3> QED
      BY <1>2, <3>1 DEF RingInv, AvailInv
  <2>3. UsedInv(u, v)'
    <3>1. ASSUME NEW g \in Desc, Reported(g) PROVE Reported(g)'
      BY Zenon, <1>3, <3>1 DEF Reported
    <3> QED
      BY Zenon, <1>2, <3>1 DEF RingInv, UsedInv
  <2>4. PlaceInv(a, s, u, v)'
    BY <1>2 DEF RingInv, PlaceInv
  <2> QED
    BY Zenon, <2>1, <2>2, <2>3, <2>4 DEF RingInv
<1> QED
  BY Zenon, <1>4, <1>5, <1>6, <1>7 DEF IInv

\* A call begins.
LEMMA CallKeeps ==
  ASSUME IInv, NEW b \in Bufs, NEW v \in Vals, NEW w \in BOOLEAN, Call(b, v, w)
  PROVE  IInv'
<1>1. TypeOK /\ PcInv
  BY Zenon DEF IInv
<1>2. /\ pc[b] = "idle" /\ calls > 0 /\ calls' = calls - 1
      /\ data' = [data EXCEPT ![b] = IF w THEN v ELSE Junk]
      /\ write' = [write EXCEPT ![b] = w]
      /\ pc' = [pc EXCEPT ![b] = "enter"]
      /\ UNCHANGED <<free, desc, ops, info, avail, used, used_idx, bdisk,
                     platter, lock, idx, seen, taken, active, raising, isr>>
  BY Zenon DEF Call, Goto, tables, rings, device
<1>3. TypeOK'
  <2>1. data' \in [Bufs -> Vals \cup {Junk}] /\ calls' \in Nat
    BY <1>1, <1>2 DEF TypeOK
  <2>2. write' \in [Bufs -> BOOLEAN] /\ pc' \in [Bufs -> PCs]
    BY Zenon, <1>1, <1>2 DEF TypeOK, PCs
  <2> QED
    BY Zenon, <1>1, <1>2, <2>1, <2>2 DEF TypeOK
<1>4. \A c \in Bufs : /\ pc'[c] = "publish" <=> pc[c] = "publish"
                      /\ pc'[c] = "notify" <=> pc[c] = "notify"
                      /\ InRw(c)' <=> InRw(c)
                      /\ pc'[c] = "asleep_b" => bdisk[c]
                      /\ InRw(c) => write'[c] = write[c]
  BY <1>1, <1>2 DEF TypeOK, InRw, PcInv
<1>5. DataInv'
  BY <1>1, <1>2 DEF IInv, DataInv, TypeOK
<1> QED
  BY Zenon, <1>2, <1>3, <1>4, <1>5, PcOnly

\* alloc3_desc() gives back what it took, and the process sleeps.
LEMMA SubmitFailsKeeps ==
  ASSUME IInv, NEW b \in Bufs, SubmitFails(b)
  PROVE  IInv'
<1>1. TypeOK /\ PcInv
  BY Zenon DEF IInv
<1>2. /\ pc[b] = "enter"
      /\ UNCHANGED <<free, desc, ops, info, avail, used, used_idx, bdisk, data,
                     platter, lock, calls, write, idx, seen, taken, active,
                     raising, isr>>
  BY Zenon DEF SubmitFails, GiveBack, rings, bufs, device
<1>3. /\ pc' \in [Bufs -> PCs]
      /\ \A c \in Bufs : \/ pc'[c] = pc[c]
                         \/ pc[c] = "enter" /\ pc'[c] = "asleep_free"
                         \/ pc[c] = "asleep_free" /\ pc'[c] = "enter"
  BY <1>1, <1>2 DEF SubmitFails, GiveBack, WakeFreeAndGoto, Goto, TypeOK, PCs
<1>4. TypeOK'
  BY Zenon, <1>1, <1>2, <1>3 DEF TypeOK
<1>5. \A c \in Bufs : /\ pc'[c] = "publish" <=> pc[c] = "publish"
                      /\ pc'[c] = "notify" <=> pc[c] = "notify"
                      /\ InRw(c)' <=> InRw(c)
                      /\ pc'[c] = "asleep_b" => bdisk[c]
                      /\ InRw(c) => write'[c] = write[c]
  BY Zenon, <1>1, <1>2, <1>3 DEF InRw, PcInv
<1>6. DataInv'
  BY Zenon, <1>2 DEF IInv, DataInv
<1> QED
  BY Zenon, <1>2, <1>4, <1>5, <1>6, PcOnly

\* The loop goes around: b->disk is still set.
LEMMA SleepAgainKeeps ==
  ASSUME IInv, NEW b \in Bufs, SleepAgain(b)
  PROVE  IInv'
<1>1. TypeOK /\ PcInv
  BY Zenon DEF IInv
<1>2. /\ pc[b] = "relock" /\ bdisk[b] /\ pc' = [pc EXCEPT ![b] = "asleep_b"]
      /\ UNCHANGED <<free, desc, ops, info, avail, used, used_idx, bdisk, data,
                     platter, lock, calls, write, idx, seen, taken, active,
                     raising, isr>>
  BY Zenon DEF SleepAgain, MustWait, Goto, tables, rings, bufs, device
<1>3. TypeOK'
  BY Zenon, <1>1, <1>2 DEF TypeOK, PCs
<1>4. \A c \in Bufs : /\ pc'[c] = "publish" <=> pc[c] = "publish"
                      /\ pc'[c] = "notify" <=> pc[c] = "notify"
                      /\ InRw(c)' <=> InRw(c)
                      /\ pc'[c] = "asleep_b" => bdisk[c]
                      /\ InRw(c) => write'[c] = write[c]
  BY <1>1, <1>2 DEF TypeOK, InRw, PcInv
<1>5. DataInv'
  BY Zenon, <1>1, <1>2 DEF IInv, DataInv, TypeOK
<1> QED
  BY Zenon, <1>2, <1>3, <1>4, <1>5, PcOnly

\* kill() wakes a process; it will find b->disk set or no descriptors.
LEMMA KillKeeps ==
  ASSUME IInv, NEW b \in Bufs, Kill(b)
  PROVE  IInv'
<1>1. TypeOK /\ PcInv
  BY Zenon DEF IInv
<1>2. /\ pc[b] \in {"asleep_free", "asleep_b"}
      /\ pc' = [pc EXCEPT ![b] = IF pc[b] = "asleep_b" THEN "relock" ELSE "enter"]
      /\ UNCHANGED <<free, desc, ops, info, avail, used, used_idx, bdisk, data,
                     platter, lock, calls, write, idx, seen, taken, active,
                     raising, isr>>
  BY Zenon DEF Kill, Goto, tables, rings, bufs, device
<1>3. TypeOK'
  BY Zenon, <1>1, <1>2 DEF TypeOK, PCs
<1>4. \A c \in Bufs : /\ pc'[c] = "publish" <=> pc[c] = "publish"
                      /\ pc'[c] = "notify" <=> pc[c] = "notify"
                      /\ InRw(c)' <=> InRw(c)
                      /\ pc'[c] = "asleep_b" => bdisk[c]
                      /\ InRw(c) => write'[c] = write[c]
  BY <1>1, <1>2 DEF TypeOK, InRw, PcInv
<1>5. DataInv'
  BY Zenon, <1>1, <1>2 DEF IInv, DataInv, TypeOK
<1> QED
  BY Zenon, <1>2, <1>3, <1>4, <1>5, PcOnly
\* The second descriptor of a request is no head of a chain.
LEMMA NotAHead ==
  ASSUME TypeOK, PcInv, ChainInv, OwnInv, NEW b \in Bufs, InRw(b),
         NEW h \in Desc, Owned(h)
  PROVE  idx[b][2] \in Desc /\ h # idx[b][2]
<1>1. idx[b] \in [1..3 -> Desc] /\ 1 \in 1..3 /\ 2 \in 1..3
  BY DEF PcInv
<1>2. /\ info[h].b \in Bufs /\ InRw(info[h].b) /\ idx[info[h].b][1] = h
  BY Zenon DEF Owned
<1>3. CASE info[h].b = b
  BY <1>1, <1>2, <1>3 DEF ChainInv
<1>4. CASE info[h].b # b
  BY <1>1, <1>2, <1>4 DEF OwnInv
<1> QED
  BY Zenon, <1>1, <1>3, <1>4

\* Different entries of a ring, of which some descriptor is none, are fewer
\* than the ring has cells.  This is a fact about finite sets, which the steps
\* that fill a cell assume and VirtioProofs proves (RoomInRing).
RingHasRoom ==
  \A s, a \in Nat, x \in Desc : \A f \in [s..a -> Desc] :
    /\ s <= a /\ \A j \in s..a : f[j] # x
    /\ \A j, k \in s..a : f[j] = f[k] => j = k
    => a + 1 - s < NUM

\* disk.avail->idx += 1: the device may see the request.
LEMMA PublishKeeps ==
  ASSUME IInv, RingHasRoom, NEW b \in Bufs, Publish(b)
  PROVE  IInv'
<1>1. TypeOK /\ PcInv /\ ChainInv /\ OwnInv /\ TakenInv
  BY Zenon DEF IInv
<1>2. PICK a \in Nat, s \in Nat, u \in Nat, v \in Nat : RingInv(a, s, u, v)
  BY Zenon DEF IInv
<1>3. /\ pc[b] = "publish" /\ pc' = [pc EXCEPT ![b] = "notify"]
      /\ avail' = [avail EXCEPT !.idx = NextIdx(avail.idx)]
      /\ UNCHANGED <<free, desc, ops, info, used, used_idx, bdisk, data,
                     platter, lock, calls, write, idx, seen, taken, active,
                     raising, isr>>
  BY Zenon DEF Publish, Goto, tables, bufs, device
<1>4. avail.idx = Lap(a) /\ NextIdx(avail.idx) = Lap(a + 1)
  BY Zenon, <1>2, LapNext DEF RingInv, CountInv
<1>5. avail'.ring = avail.ring /\ avail'.idx = Lap(a + 1)
  BY Zenon, <1>1, <1>3, <1>4 DEF TypeOK
<1>6. /\ pc'[b] = "notify" /\ \A c \in Bufs : c # b => pc'[c] = pc[c]
      /\ \A c \in Bufs : InRw(c)' <=> InRw(c)
  BY <1>1, <1>3 DEF TypeOK, InRw
<1>7. TypeOK'
  <2>1. avail' \in [ring : [Desc -> Desc], idx : 0..(IDXMOD - 1)]
    <3>1. Lap(a + 1) \in 0..(IDXMOD - 1)
      BY CellType
    <3> QED
      BY Zenon, <1>1, <1>3, <1>4, <3>1 DEF TypeOK
  <2> QED
    BY Zenon, <1>1, <1>3, <2>1 DEF TypeOK, PCs
<1>8. PcInv'
  BY Zenon, <1>1, <1>3, <1>6 DEF PcInv
<1>9. ChainInv' /\ OwnInv'
  <2>1. \A c \in Bufs : InRw(c) /\ info'[idx[c][1]].status = 255 => bdisk'[c]
    BY Zenon, <1>1, <1>3 DEF ChainInv
  <2> QED
    BY Zenon, <1>1, <1>3, <1>6, <2>1, SameChains
<1>10. \A h \in Desc : Owned(h)' <=> Owned(h)
  BY Zenon, <1>1, <1>3, <1>6, SameOwned
<1> DEFINE h == idx[b][1]
<1>11. h \in Desc /\ InRw(b) /\ info[h].b = b /\ Owned(h)
  <2>1. InRw(b)
    BY Zenon, <1>3 DEF InRw
  <2>2. h \in Desc /\ info[h].b = b
    BY Zenon, <1>1, <2>1, HasThree, HeadRecords
  <2> QED
    BY Zenon, <2>1, <2>2 DEF Owned
<1>12. TakenInv'
  <2>1. taken \subseteq Desc
    BY Zenon, <1>1 DEF TypeOK
  <2>2. ASSUME NEW g \in taken
        PROVE  info[g].b \in Bufs /\ info[g].b # b /\ Owned(g) /\ info[g].status = 255
    BY <1>1, <1>3 DEF TakenInv, Owned
  <2>3. ASSUME NEW g \in taken PROVE pc'[info[g].b] # "publish"
    BY <1>1, <1>6, <2>2 DEF TakenInv
  <2> QED
    BY <1>3, <1>10, <2>1, <2>2, <2>3 DEF TakenInv
<1>13. /\ s <= a /\ v <= u /\ avail.ring[Cell(a)] = h /\ info[h].status = 255
       /\ h \notin taken
  BY <1>1, <1>2, <1>3, <1>11 DEF RingInv, CountInv, AvailInv, TakenInv
<1>14. ASSUME NEW j \in s..(a - 1)
       PROVE  /\ avail.ring[Cell(j)] \in Desc /\ avail.ring[Cell(j)] # h
              /\ Waiting(avail.ring[Cell(j)])
  <2>1. avail.ring[Cell(j)] \in Desc /\ Waiting(avail.ring[Cell(j)])
    BY Zenon, <1>1, <1>2, AvailEntry DEF RingInv
  <2> QED
    BY Zenon, <1>3, <1>11, <2>1 DEF Waiting
<1>15. ASSUME NEW j \in s..a PROVE j \in s..(a - 1) \/ j = a
  OBVIOUS
<1>16. \A j, k \in s..a : avail.ring[Cell(j)] = avail.ring[Cell(k)] => j = k
  <2>1. \A j, k \in s..(a - 1) : avail.ring[Cell(j)] = avail.ring[Cell(k)] => j = k
    BY Zenon, <1>2 DEF RingInv, AvailInv
  <2> HIDE DEF h
  <2> QED
    BY <1>13, <1>14, <1>15, <2>1
<1>17. a + 1 - s < NUM
  <2> DEFINE f == [j \in s..a |-> avail.ring[Cell(j)]]
             x == idx[b][2]
  <2>1. \A j \in s..a : f[j] \in Desc /\ Owned(f[j])
    BY <1>11, <1>13, <1>14, <1>15 DEF Waiting
  <2>2. f \in [s..a -> Desc]
    BY Zenon, <2>1
  <2>3. \A j, k \in s..a : f[j] = f[k] => j = k
    BY Zenon, <1>16
  <2>4. x \in Desc /\ \A j \in s..a : f[j] # x
    <3> HIDE DEF f
    <3>1. x \in Desc
      BY Zenon, <1>1, <1>11, NotAHead
    <3>2. \A j \in s..a : f[j] # x
      BY Zenon, <1>1, <1>11, <2>1, NotAHead
    <3> QED
      BY Zenon, <3>1, <3>2
  <2>5. s <= a
    BY Zenon, <1>13
  <2> HIDE DEF f, x
  <2> QED
    BY ONLY Zenon, <2>2, <2>3, <2>4, <2>5, RingHasRoom, s \in Nat, a \in Nat DEF RingHasRoom
<1>18. RingInv(a + 1, s, u, v)'
  <2>1. CountInv(a + 1, s, u, v)'
    <3>1. s <= a + 1 /\ (a + 1) - s < NUM
      BY <1>13, <1>17
    <3> QED
      BY Zenon, <1>2, <1>3, <1>5, <3>1 DEF RingInv, CountInv
  <2>2. AvailInv(a + 1, s)'
    <3>0. (a + 1) - 1 = a
      OBVIOUS
    <3>1. ASSUME NEW g \in Desc, Waiting(g) PROVE Waiting(g)'
      <4>1. Owned(g) /\ info[g].b \in Bufs /\ info[g].b # b
        BY Zenon, <1>3, <3>1 DEF Waiting, Owned
      <4> QED
        BY <1>3, <1>6, <1>10, <3>1, <4>1 DEF Waiting
    <3>a. ASSUME NEW g \in Desc, g = h PROVE Waiting(g)'
      <4>1. info'[g].b = b /\ Owned(g)'
        BY Zenon, <1>3, <1>10, <1>11, <3>a
      <4> QED
        BY Zenon, <1>3, <1>6, <1>13, <3>a, <4>1 DEF Waiting
    <3> HIDE DEF h
    <3>b. ASSUME NEW j \in s..a, NEW g \in Desc, avail.ring[Cell(j)] = g
          PROVE  Waiting(g)'
      <4>1. CASE j = a
        BY Zenon, <1>13, <3>a, <3>b, <4>1
      <4>2. CASE j \in s..(a - 1)
        BY Zenon, <1>14, <3>1, <3>b, <4>2
      <4> QED
        BY Zenon, <1>15, <4>1, <4>2
    <3>2. \A c \in Bufs : pc'[c] # "publish"
      BY Zenon, <1>1, <1>3, <1>6 DEF PcInv
    <3> QED
      BY Zenon, <1>3, <1>5, <1>16, <3>0, <3>b, <3>2 DEF AvailInv
  <2>3. UsedInv(u, v)'
    <3>1. ASSUME NEW g \in Desc, Reported(g) PROVE Reported(g)'
      BY Zenon, <1>3, <1>10, <3>1 DEF Reported
    <3> QED
      BY Zenon, <1>2, <1>3, <3>1 DEF RingInv, UsedInv
  <2>4. PlaceInv(a + 1, s, u, v)'
    <3> SUFFICES ASSUME NEW c \in Bufs, InRw(c), bdisk[c]
                 PROVE  IF info[idx[c][1]].status = 255
                        THEN \/ idx[c][1] \in taken
                             \/ \E j \in s..((a + 1) - 1) :
                                  avail.ring[Cell(j)] = idx[c][1]
                        ELSE \E j \in v..(u - 1) : used.ring[Cell(j)] = idx[c][1]
      BY <1>3, <1>5, <1>6 DEF PlaceInv
    <3>1. a \in s..((a + 1) - 1) /\ s..(a - 1) \subseteq s..((a + 1) - 1)
      BY <1>13
    <3>2. CASE c = b
      BY <1>13, <3>1, <3>2
    <3>3. CASE c # b
      <4>1. pc[c] # "publish"
        BY Zenon, <1>1, <1>3, <3>3 DEF PcInv
      <4> QED
        BY <1>2, <3>1, <4>1 DEF RingInv, PlaceInv
    <3> QED
      BY Zenon, <3>2, <3>3
  <2> QED
    BY Zenon, <2>1, <2>2, <2>3, <2>4 DEF RingInv
<1>19. DataInv'
  BY Zenon, <1>3 DEF IInv, DataInv
<1> QED
  BY <1>7, <1>8, <1>9, <1>12, <1>18, <1>19 DEF IInv
\* The notify register is written, and the process sleeps on b.
LEMMA NotifyKeeps ==
  ASSUME IInv, NEW b \in Bufs, Notify(b)
  PROVE  IInv'
<1>1. TypeOK /\ PcInv /\ ChainInv /\ OwnInv /\ TakenInv
  BY Zenon DEF IInv
<1>2. PICK a \in Nat, s \in Nat, u \in Nat, v \in Nat : RingInv(a, s, u, v)
  BY Zenon DEF IInv
<1>3. /\ pc[b] = "notify" /\ pc' = [pc EXCEPT ![b] = "asleep_b"]
      /\ active' = TRUE /\ lock' = None
      /\ UNCHANGED <<free, desc, ops, info, avail, used, used_idx, bdisk, data,
                     platter, calls, write, idx, seen, taken, raising, isr>>
  BY Zenon DEF Notify, Goto, tables, rings, bufs
<1>4. /\ pc'[b] = "asleep_b" /\ \A c \in Bufs : c # b => pc'[c] = pc[c]
      /\ \A c \in Bufs : InRw(c)' <=> InRw(c)
  BY <1>1, <1>3 DEF TypeOK, InRw
<1>5. lock = b /\ b # "intr" /\ \A c \in Bufs : c # None
  BY Zenon, <1>1, <1>3, VirtioAssumption DEF PcInv
<1>6. TypeOK'
  BY Zenon, <1>1, <1>3 DEF TypeOK, PCs
<1>7. PcInv'
  BY Zenon, <1>1, <1>3, <1>4, <1>5 DEF PcInv
<1>8. ChainInv' /\ OwnInv'
  <2>1. \A c \in Bufs : InRw(c) /\ info'[idx[c][1]].status = 255 => bdisk'[c]
    BY Zenon, <1>1, <1>3 DEF ChainInv
  <2> QED
    BY Zenon, <1>1, <1>3, <1>4, <2>1, SameChains
<1>9. \A h \in Desc : Owned(h)' <=> Owned(h)
  BY Zenon, <1>1, <1>3, <1>4, SameOwned
<1>10. \A c \in Bufs : pc'[c] = "publish" <=> pc[c] = "publish"
  BY Zenon, <1>3, <1>4
<1>11. TakenInv'
  <2>1. taken \subseteq Desc
    BY Zenon, <1>1 DEF TypeOK
  <2> QED
    BY <1>1, <1>3, <1>9, <1>10, <2>1 DEF TakenInv, Owned
<1>12. RingInv(a, s, u, v)'
  <2>1. CountInv(a, s, u, v)'
    BY Zenon, <1>2, <1>3 DEF RingInv, CountInv
  <2>2. AvailInv(a, s)'
    <3>1. ASSUME NEW g \in Desc, Waiting(g) PROVE Waiting(g)'
      <4>1. info[g].b \in Bufs
        BY Zenon, <3>1 DEF Waiting, Owned
      <4> QED
        BY <1>3, <1>9, <1>10, <3>1, <4>1 DEF Waiting
    <3> QED
      BY <1>2, <1>3, <1>10, <3>1 DEF RingInv, AvailInv
  <2>3. UsedInv(u, v)'
    <3>1. ASSUME NEW g \in Desc, Reported(g) PROVE Reported(g)'
      BY Zenon, <1>3, <1>9, <3>1 DEF Reported
    <3> QED
      BY Zenon, <1>2, <1>3, <1>5, <3>1 DEF RingInv, UsedInv
  <2>4. PlaceInv(a, s, u, v)'
    BY <1>2, <1>3, <1>4, <1>10 DEF RingInv, PlaceInv
  <2> QED
    BY Zenon, <2>1, <2>2, <2>3, <2>4 DEF RingInv
<1>13. DataInv'
  BY Zenon, <1>3 DEF IInv, DataInv
<1> QED
  BY Zenon, <1>6, <1>7, <1>8, <1>11, <1>12, <1>13 DEF IInv

\* A step that changes neither processes nor descriptors, and neither ring,
\* keeps the invariant if the handler and the device still have a reason to
\* go on.
LEMMA SignalsOnly ==
  ASSUME IInv, TypeOK', DataInv',
         UNCHANGED <<free, desc, ops, info, avail, used, used_idx, bdisk, pc,
                     write, idx, seen, taken>>,
         \A c \in Bufs : lock' = c <=> lock = c,
         used_idx # used.idx => raising' \/ isr' \/ lock' = "intr",
         seen # avail.idx /\ active => active'
  PROVE  IInv'
<1>1. TypeOK /\ PcInv /\ ChainInv /\ OwnInv /\ TakenInv
  BY Zenon DEF IInv
<1>2. PICK a \in Nat, s \in Nat, u \in Nat, v \in Nat : RingInv(a, s, u, v)
  BY Zenon DEF IInv
<1>3. PcInv'
  BY Zenon, <1>1 DEF PcInv, InRw
<1>4. ChainInv' /\ OwnInv'
  <2>1. \A c \in Bufs : InRw(c)' <=> InRw(c)
    BY Zenon DEF InRw
  <2>2. \A c \in Bufs : InRw(c) /\ info'[idx[c][1]].status = 255 => bdisk'[c]
    BY Zenon, <1>1, HeadRecords
  <2> QED
    BY Zenon, <1>1, <2>1, <2>2, SameChains
<1>5. \A h : Owned(h)' <=> Owned(h)
  BY Zenon DEF Owned, InRw
<1>7. TakenInv'
  BY <1>1, <1>5 DEF TakenInv
<1>6. RingInv(a, s, u, v)'
  <2>1. CountInv(a, s, u, v)'
    BY Zenon, <1>2 DEF RingInv, CountInv
  <2>2. AvailInv(a, s)'
    <3>1. ASSUME NEW j \in s..(a - 1) PROVE active => active'
      <4>1. s <= a /\ a < s + NUM /\ s # a /\ avail.idx = Lap(a) /\ seen = Lap(s)
        BY <1>2, VirtioAssumption DEF RingInv, CountInv
      <4>2. seen # avail.idx
        BY Zenon, <4>1, LapApart
      <4> QED
        BY Zenon, <4>2
    <3>2. ASSUME NEW j \in s..(a - 1), NEW g \in Desc, avail.ring[Cell(j)] = g
          PROVE  Waiting(g)'
      <4>1. Waiting(g)
        BY <1>2, <3>2 DEF RingInv, AvailInv
      <4> QED
        BY Zenon, <1>5, <3>1, <4>1 DEF Waiting
    <3> QED
      BY <1>2, <3>2 DEF RingInv, AvailInv
  <2>3. UsedInv(u, v)'
    <3>1. ASSUME v < u PROVE raising' \/ isr' \/ lock' = "intr"
      <4>1. v <= u /\ u < v + NUM /\ v # u /\ used.idx = Lap(u) /\ used_idx = Lap(v)
        BY <1>2, <3>1, VirtioAssumption DEF RingInv, CountInv
      <4>2. used_idx # used.idx
        BY Zenon, <4>1, LapApart
      <4> QED
        BY Zenon, <4>2
    <3>2. ASSUME NEW g \in Desc, Reported(g) PROVE Reported(g)'
      BY Zenon, <1>5, <3>2 DEF Reported
    <3> QED
      BY Zenon, <1>2, <3>1, <3>2 DEF RingInv, UsedInv
  <2>4. PlaceInv(a, s, u, v)'
    BY <1>2 DEF RingInv, PlaceInv, InRw
  <2> QED
    BY Zenon, <2>1, <2>2, <2>3, <2>4 DEF RingInv
<1> QED
  BY Zenon, <1>3, <1>4, <1>6, <1>7 DEF IInv

\* The handler takes the lock and acknowledges the interrupt, before it looks
\* at the used ring.
LEMMA IntrAckKeeps ==
  ASSUME IInv, IntrAck
  PROVE  IInv'
<1>1. /\ lock = None /\ lock' = "intr" /\ isr' = FALSE
      /\ UNCHANGED <<free, desc, ops, info, avail, used, used_idx, bdisk, data,
                     platter, calls, pc, write, idx, seen, taken, active, raising>>
  BY Zenon DEF IntrAck, tables, rings, bufs, procs
<1>2. TypeOK' /\ DataInv'
  BY Zenon, <1>1 DEF IInv, TypeOK, DataInv
<1> QED
  BY Zenon, <1>1, <1>2, SignalsOnly, VirtioAssumption

\* The handler returns when it has seen the end of the used ring.
LEMMA IntrReturnKeeps ==
  ASSUME IInv, IntrReturn
  PROVE  IInv'
<1>1. /\ lock = "intr" /\ lock' = None /\ used_idx = used.idx
      /\ UNCHANGED <<free, desc, ops, info, avail, used, used_idx, bdisk, data,
                     platter, calls, pc, write, idx, seen, taken, active,
                     raising, isr>>
  BY Zenon DEF IntrReturn, tables, rings, bufs, procs, device
<1>2. TypeOK' /\ DataInv'
  BY Zenon, <1>1 DEF IInv, TypeOK, DataInv
<1> QED
  BY Zenon, <1>1, <1>2, SignalsOnly, VirtioAssumption

\* The device has seen all of the available ring.
LEMMA DevRestKeeps ==
  ASSUME IInv, DevRest
  PROVE  IInv'
<1>1. /\ seen = avail.idx /\ active' = FALSE
      /\ UNCHANGED <<free, desc, ops, info, avail, used, used_idx, bdisk, data,
                     platter, lock, calls, pc, write, idx, seen, taken,
                     raising, isr>>
  BY Zenon DEF DevRest, tables, rings, bufs, procs
<1>2. TypeOK' /\ DataInv'
  BY Zenon, <1>1 DEF IInv, TypeOK, DataInv
<1>3. used_idx # used.idx => raising' \/ isr' \/ lock' = "intr"
  <2>1. PICK a \in Nat, s \in Nat, u \in Nat, v \in Nat : RingInv(a, s, u, v)
    BY Zenon DEF IInv
  <2> QED
    BY <1>1, <2>1 DEF RingInv, CountInv, UsedInv, Reported
<1> QED
  BY Zenon, <1>1, <1>2, <1>3, SignalsOnly

\* The device raises the interrupt.
LEMMA DevRaiseKeeps ==
  ASSUME IInv, DevRaise
  PROVE  IInv'
<1>1. /\ raising' = FALSE /\ isr' = TRUE
      /\ UNCHANGED <<free, desc, ops, info, avail, used, used_idx, bdisk, data,
                     platter, lock, calls, pc, write, idx, seen, taken, active>>
  BY Zenon DEF DevRaise, tables, rings, bufs, procs
<1>2. TypeOK' /\ DataInv'
  BY Zenon, <1>1 DEF IInv, TypeOK, DataInv
<1> QED
  BY Zenon, <1>1, <1>2, SignalsOnly
\* The device takes a request from the available ring.
LEMMA DevTakeKeeps ==
  ASSUME IInv, DevTake
  PROVE  IInv'
<1>1. TypeOK /\ PcInv /\ ChainInv /\ OwnInv /\ TakenInv
  BY Zenon DEF IInv
<1>2. PICK a \in Nat, s \in Nat, u \in Nat, v \in Nat : RingInv(a, s, u, v)
  BY Zenon DEF IInv
<1> DEFINE h == avail.ring[Cell(s)]
<1>3. /\ active /\ seen # avail.idx /\ taken' = taken \cup {avail.ring[seen % NUM]}
      /\ avail' = [avail EXCEPT !.ring[seen % NUM] = 0]
      /\ seen' = NextIdx(seen)
      /\ UNCHANGED <<free, desc, ops, info, used, used_idx, bdisk, data, platter,
                     lock, calls, pc, write, idx, active, raising, isr>>
  BY Zenon DEF DevTake, tables, bufs, procs
<1>4. /\ seen = Lap(s) /\ seen % NUM = Cell(s) /\ seen' = Lap(s + 1)
      /\ avail.idx = Lap(a) /\ s <= a /\ a - s < NUM
  BY Zenon, <1>2, <1>3, LapCell, LapNext DEF RingInv, CountInv
<1>5. s < a /\ NUM \in Nat
  BY <1>3, <1>4, VirtioAssumption
<1>6. /\ avail'.idx = avail.idx /\ Cell(s) \in Desc
      /\ \A i \in Desc : i # Cell(s) => avail'.ring[i] = avail.ring[i]
      /\ taken' = taken \cup {h}
  BY Zenon, <1>1, <1>3, <1>4, CellType DEF TypeOK
<1>7. ASSUME NEW j \in (s + 1)..a
      PROVE  avail'.ring[Cell(j)] = avail.ring[Cell(j)]
  <2>1. Cell(j) \in Desc
    BY CellType
  <2>2. j \in Nat /\ s < j /\ j < s + NUM
    BY <1>4, <1>5
  <2>3. Cell(s) # Cell(j)
    BY Zenon, <2>2, CellApart
  <2> QED
    BY Zenon, <1>6, <2>1, <2>3
<1>8. /\ h \in Desc /\ Owned(h) /\ info[h].status = 255 /\ pc[info[h].b] # "publish"
  <2>1. s \in s..(a - 1)
    BY <1>5
  <2>2. h \in Desc /\ Waiting(h)
    BY Zenon, <1>1, <1>2, <2>1, AvailEntry DEF RingInv
  <2> QED
    BY Zenon, <2>2 DEF Waiting
<1>9. \A j \in (s + 1)..(a - 1) : avail.ring[Cell(j)] # h
  <2>1. s \in s..(a - 1) /\ \A j \in (s + 1)..(a - 1) : j \in s..(a - 1) /\ j # s
    BY <1>5
  <2> QED
    BY <1>2, <2>1 DEF RingInv, AvailInv
<1>10. TypeOK'
  <2>1. avail' \in [ring : [Desc -> Desc], idx : 0..(IDXMOD - 1)]
    <3>1. 0 \in Desc
      BY VirtioAssumption DEF Desc
    <3> QED
      BY Zenon, <1>1, <1>3, <3>1 DEF TypeOK
  <2>2. seen' \in 0..(IDXMOD - 1)
    BY <1>4, CellType
  <2>3. taken' \subseteq Desc
    BY <1>1, <1>6, <1>8 DEF TypeOK
  <2> QED
    BY Zenon, <1>1, <1>3, <2>1, <2>2, <2>3 DEF TypeOK
<1>11. \A g : Owned(g)' <=> Owned(g)
  BY Zenon, <1>3 DEF Owned, InRw
<1>12. PcInv' /\ ChainInv' /\ OwnInv' /\ DataInv'
  BY <1>1, <1>3 DEF IInv, PcInv, ChainInv, OwnInv, DataInv, InRw
<1>13. TakenInv'
  BY <1>1, <1>3, <1>6, <1>8, <1>11 DEF TakenInv
<1>14. (s + 1)..(a - 1) \subseteq (s + 1)..a /\ (s + 1)..(a - 1) \subseteq s..(a - 1)
       /\ a \in (s + 1)..a
  BY <1>5
<1>15. RingInv(a, s + 1, u, v)'
  <2>1. CountInv(a, s + 1, u, v)'
    <3>1. s + 1 <= a /\ a - (s + 1) < NUM
      BY <1>4, <1>5
    <3> QED
      BY Zenon, <1>2, <1>3, <1>4, <1>6, <3>1 DEF RingInv, CountInv
  <2>2. AvailInv(a, s + 1)'
    <3> HIDE DEF h
    <3>0. ASSUME NEW g, Waiting(g), g # h PROVE Waiting(g)'
      BY Zenon, <1>3, <1>6, <1>11, <3>0 DEF Waiting
    <3>1. ASSUME NEW j \in (s + 1)..(a - 1), NEW g \in Desc,
                 avail'.ring[Cell(j)] = g
          PROVE  Waiting(g)'
      <4>1. avail.ring[Cell(j)] = g /\ g # h /\ j \in s..(a - 1)
        BY Zenon, <1>7, <1>9, <1>14, <3>1 DEF h
      <4>2. Waiting(g)
        BY <1>2, <4>1 DEF RingInv, AvailInv
      <4> QED
        BY Zenon, <3>0, <4>1, <4>2
    <3>2. \A j, k \in (s + 1)..(a - 1) :
            avail'.ring[Cell(j)] = avail'.ring[Cell(k)] => j = k
      BY <1>2, <1>7, <1>14 DEF RingInv, AvailInv
    <3>3. \A b \in Bufs : pc'[b] = "publish" =>
            /\ avail'.ring[Cell(a)] = idx'[b][1]
            /\ info'[idx'[b][1]].status = 255
      BY <1>2, <1>3, <1>7, <1>14 DEF RingInv, AvailInv
    <3> QED
      BY Zenon, <3>1, <3>2, <3>3 DEF AvailInv
  <2>3. UsedInv(u, v)'
    <3>1. ASSUME NEW g \in Desc, Reported(g) PROVE Reported(g)'
      BY Zenon, <1>3, <1>11, <3>1 DEF Reported
    <3> QED
      BY Zenon, <1>2, <1>3, <3>1 DEF RingInv, UsedInv
  <2>4. PlaceInv(a, s + 1, u, v)'
    <3> SUFFICES ASSUME NEW c \in Bufs, InRw(c), bdisk[c],
                        info[idx[c][1]].status = 255, pc[c] # "publish",
                        idx[c][1] \notin taken'
                 PROVE  \E j \in (s + 1)..(a - 1) : avail'.ring[Cell(j)] = idx[c][1]
      BY <1>2, <1>3 DEF RingInv, PlaceInv, InRw
    <3>1. PICK j \in s..(a - 1) : avail.ring[Cell(j)] = idx[c][1]
      BY <1>2, <1>6 DEF RingInv, PlaceInv
    <3>2. j # s
      BY <1>6, <3>1
    <3>3. j \in (s + 1)..(a - 1)
      BY <3>2
    <3> QED
      BY <1>7, <1>14, <3>1, <3>3
  <2> QED
    BY Zenon, <2>1, <2>2, <2>3, <2>4 DEF RingInv
<1> QED
  BY <1>10, <1>12, <1>13, <1>15 DEF IInv
\* The handler clears b->disk of the request in the used ring, which is the
\* one on record, and wakes its process.
LEMMA IntrWalkKeeps ==
  ASSUME IInv, IntrWalk
  PROVE  IInv'
<1>1. TypeOK /\ PcInv /\ ChainInv /\ OwnInv /\ TakenInv
  BY Zenon DEF IInv
<1>2. PICK a \in Nat, s \in Nat, u \in Nat, v \in Nat : RingInv(a, s, u, v)
  BY Zenon DEF IInv
<1> DEFINE h == used.ring[Cell(v)]
           b == info[h].b
<1>3. /\ used_idx = Lap(v) /\ used_idx % NUM = Cell(v)
      /\ NextIdx(used_idx) = Lap(v + 1) /\ used.idx = Lap(u)
      /\ v <= u /\ u - v < NUM /\ NUM \in Nat
  BY Zenon, <1>2, LapCell, LapNext, VirtioAssumption DEF RingInv, CountInv
<1>4. /\ lock = "intr" /\ used_idx # used.idx
      /\ bdisk' = [bdisk EXCEPT ![b] = FALSE]
      /\ pc' = [pc EXCEPT ![b] = IF @ = "asleep_b" THEN "relock" ELSE @]
      /\ used_idx' = Lap(v + 1)
      /\ used' = [used EXCEPT !.ring[Cell(v)] = 0]
      /\ UNCHANGED <<free, desc, ops, info, avail, data, platter, lock, calls,
                     write, idx, seen, taken, active, raising, isr>>
  BY Zenon, <1>3 DEF IntrWalk, Complete, tables, device
<1>5. v < u /\ Cell(v) \in Desc
  BY <1>3, <1>4, CellType
<1>6. /\ h \in Desc /\ Owned(h) /\ info[h].status = 0 /\ bdisk[b]
      /\ b \in Bufs /\ InRw(b) /\ idx[b][1] = h
  <2>1. v \in v..(u - 1)
    BY <1>5
  <2> QED
    BY <1>1, <1>2, <2>1, UsedEntry DEF RingInv, Reported, Owned
<1> HIDE DEF b
<1>7. /\ pc[b] \in {"asleep_b", "relock"} /\ pc'[b] = "relock" /\ ~bdisk'[b]
      /\ \A c \in Bufs : c # b => pc'[c] = pc[c] /\ bdisk'[c] = bdisk[c]
  <2>1. lock # b
    BY Zenon, <1>4, <1>6, VirtioAssumption
  <2>2. pc[b] \in {"asleep_b", "relock"}
    BY Zenon, <1>1, <1>6, <2>1 DEF PcInv, InRw
  <2> QED
    BY <1>1, <1>4, <1>6, <2>2 DEF TypeOK
<1>8. /\ \A c \in Bufs : InRw(c)' <=> InRw(c)
      /\ \A c \in Bufs : pc'[c] = "publish" <=> pc[c] = "publish"
      /\ \A c \in Bufs : pc'[c] = "notify" <=> pc[c] = "notify"
      /\ \A c \in Bufs : pc'[c] = "asleep_b" => c # b /\ pc[c] = "asleep_b"
  BY Zenon, <1>7 DEF InRw
<1>9. ASSUME NEW c \in Bufs, InRw(c), c # b PROVE idx[c][1] # h
  <2>1. info[idx[c][1]].b = c
    BY <1>1, <1>9, HeadRecords
  <2> QED
    BY Zenon, <1>9, <2>1 DEF b
<1>10. TypeOK'
  <2>1. used' \in [ring : [Desc -> Desc], idx : 0..(IDXMOD - 1)]
    <3>1. 0 \in Desc
      BY VirtioAssumption DEF Desc
    <3> QED
      BY Zenon, <1>1, <1>4, <3>1 DEF TypeOK
  <2>2. used_idx' \in 0..(IDXMOD - 1)
    BY <1>4, CellType
  <2>3. bdisk' \in [Bufs -> BOOLEAN] /\ pc' \in [Bufs -> PCs]
    BY Zenon, <1>1, <1>4 DEF TypeOK, PCs
  <2> QED
    BY Zenon, <1>1, <1>4, <2>1, <2>2, <2>3 DEF TypeOK
<1>11. PcInv'
  BY <1>1, <1>4, <1>6, <1>7, <1>8 DEF PcInv
<1>12. ChainInv' /\ OwnInv'
  <2>1. \A c \in Bufs : InRw(c) /\ info'[idx[c][1]].status = 255 => bdisk'[c]
    BY <1>1, <1>4, <1>6, <1>7 DEF ChainInv
  <2> QED
    BY Zenon, <1>1, <1>4, <1>8, <2>1, SameChains
<1>13. \A g \in Desc : Owned(g)' <=> Owned(g)
  BY Zenon, <1>1, <1>4, <1>8, SameOwned
<1>14. TakenInv'
  <2>1. taken \subseteq Desc
    BY Zenon, <1>1 DEF TypeOK
  <2> QED
    BY <1>1, <1>4, <1>8, <1>13, <2>1 DEF TakenInv, Owned
<1>15. ASSUME NEW j \in (v + 1)..(u - 1)
       PROVE  /\ used'.ring[Cell(j)] = used.ring[Cell(j)]
              /\ used.ring[Cell(j)] # h /\ used.ring[Cell(j)] \in Desc
              /\ j \in v..(u - 1)
  <2>1. Cell(j) \in Desc
    BY CellType
  <2>2. j \in Nat /\ v < j /\ j < v + NUM /\ j \in v..(u - 1) /\ v \in v..(u - 1)
    BY <1>3, <1>5
  <2>3. Cell(v) # Cell(j)
    BY Zenon, <2>2, CellApart
  <2>4. used'.ring[Cell(j)] = used.ring[Cell(j)]
    BY Zenon, <1>1, <1>4, <1>5, <2>1, <2>3 DEF TypeOK
  <2>5. used.ring[Cell(j)] \in Desc
    BY <1>1, <2>2, RingTypes
  <2> QED
    BY <1>2, <2>2, <2>4, <2>5 DEF RingInv, UsedInv
<1>16. RingInv(a, s, u, v + 1)'
  <2>1. CountInv(a, s, u, v + 1)'
    <3>1. v + 1 <= u /\ u - (v + 1) < NUM /\ used'.idx = used.idx
      BY <1>1, <1>3, <1>4, <1>5 DEF TypeOK
    <3> QED
      BY Zenon, <1>2, <1>3, <1>4, <3>1 DEF RingInv, CountInv
  <2>2. AvailInv(a, s)'
    <3>1. ASSUME NEW g \in Desc, Waiting(g) PROVE Waiting(g)'
      <4>1. Owned(g) /\ info[g].b \in Bufs
        BY Zenon, <3>1 DEF Waiting, Owned
      <4> QED
        BY <1>4, <1>8, <1>13, <3>1, <4>1 DEF Waiting
    <3> QED
      BY <1>2, <1>4, <1>8, <3>1 DEF RingInv, AvailInv
  <2>3. UsedInv(u, v + 1)'
    <3>0. ASSUME NEW g \in Desc, Reported(g), g # h PROVE Reported(g)'
      <4>1. info[g].b \in Bufs /\ info[g].b # b
        BY Zenon, <1>6, <3>0 DEF Reported, Owned
      <4> QED
        BY <1>4, <1>7, <1>13, <3>0, <4>1 DEF Reported
    <3>1. ASSUME NEW j \in (v + 1)..(u - 1), NEW g \in Desc,
                 used'.ring[Cell(j)] = g
          PROVE  Reported(g)'
      <4>1. used.ring[Cell(j)] = g /\ g # h /\ j \in v..(u - 1)
        BY Zenon, <1>15, <3>1
      <4>2. Reported(g)
        BY Zenon, <1>2, <4>1 DEF RingInv, UsedInv
      <4> QED
        BY Zenon, <3>0, <4>1, <4>2
    <3>2. \A j, k \in (v + 1)..(u - 1) :
            used'.ring[Cell(j)] = used'.ring[Cell(k)] => j = k
      BY Zenon, <1>2, <1>15 DEF RingInv, UsedInv
    <3> QED
      BY Zenon, <1>4, <3>1, <3>2 DEF UsedInv
  <2>4. PlaceInv(a, s, u, v + 1)'
    <3> SUFFICES ASSUME NEW c \in Bufs, InRw(c), bdisk'[c],
                        info[idx[c][1]].status # 255
                 PROVE  \E j \in (v + 1)..(u - 1) : used'.ring[Cell(j)] = idx[c][1]
      BY <1>2, <1>4, <1>7, <1>8 DEF RingInv, PlaceInv
    <3>1. c # b /\ bdisk[c] /\ idx[c][1] # h
      BY <1>7, <1>9
    <3>2. PICK j \in v..(u - 1) : used.ring[Cell(j)] = idx[c][1]
      BY <1>2, <3>1 DEF RingInv, PlaceInv
    <3>3. j \in (v + 1)..(u - 1)
      BY <3>1, <3>2
    <3> QED
      BY <1>15, <3>2, <3>3
  <2> QED
    BY Zenon, <2>1, <2>2, <2>3, <2>4 DEF RingInv
<1>17. DataInv'
  BY Zenon, <1>4 DEF IInv, DataInv
<1> QED
  BY <1>10, <1>11, <1>12, <1>14, <1>16, <1>17 DEF IInv
\* The device follows the chain of a request it has taken to the buffer,
\* the sector and the status byte of the process on record.
LEMMA DevDoneDoes ==
  ASSUME TypeOK, PcInv, ChainInv, TakenInv, NEW h \in Desc, DevDone(h)
  PROVE  LET b == info[h].b IN
         /\ h \in taken /\ b \in Bufs /\ InRw(b) /\ idx[b][1] = h /\ Owned(h)
         /\ info[h].status = 255 /\ pc[b] # "publish" /\ bdisk[b]
         /\ IF write[b]
            THEN platter' = [platter EXCEPT ![b] = data[b]] /\ data' = data
            ELSE data' = [data EXCEPT ![b] = platter[b]] /\ platter' = platter
         /\ info' = [info EXCEPT ![h].status = 0]
         /\ used' = [ring |-> [used.ring EXCEPT ![used.idx % NUM] = h],
                     idx  |-> NextIdx(used.idx)]
         /\ taken' = taken \ {h}
         /\ raising' = TRUE
         /\ UNCHANGED <<calls, free, desc, ops, avail, used_idx, bdisk, lock, pc,
                        write, idx, seen, active, isr>>
<1> DEFINE b == info[h].b
           i == idx[b]
<1>1. h \in taken
  BY Zenon DEF DevDone
<1>2. /\ b \in Bufs /\ InRw(b) /\ i[1] = h /\ info[h].status = 255
      /\ pc[b] # "publish" /\ Owned(h)
  BY <1>1 DEF TakenInv, Owned
<1>3. bdisk[b]
  BY <1>2, HeadRecords
<1>4. /\ desc[h].addr[2] = h /\ desc[h].next = i[2]
      /\ desc[i[2]].addr[2] = b /\ desc[i[2]].next = i[3]
      /\ desc[i[3]].addr[2] = h /\ ops[h].out = write[b] /\ ops[h].sector = b
  <2> HIDE DEF b
  <2>1. /\ desc[i[1]].addr[2] = i[1] /\ desc[i[1]].next = i[2]
        /\ desc[i[2]].addr[2] = b /\ desc[i[2]].next = i[3]
        /\ desc[i[3]].addr[2] = i[1]
        /\ ops[i[1]].out = write[b] /\ ops[i[1]].sector = b
    BY ZenonT(60), <1>2, ChainLinks
  <2> QED
    BY ONLY Zenon, <1>2, <2>1
<1>5. IF write[b]
      THEN platter' = [platter EXCEPT ![b] = data[b]] /\ data' = data
      ELSE data' = [data EXCEPT ![b] = platter[b]] /\ platter' = platter
  BY Zenon, <1>4 DEF DevDone
<1>6. info' = [info EXCEPT ![h].status = 0]
  BY Zenon, <1>4 DEF DevDone
<1>7. /\ used' = [ring |-> [used.ring EXCEPT ![used.idx % NUM] = h],
                  idx  |-> NextIdx(used.idx)]
      /\ taken' = taken \ {h} /\ raising' = TRUE
      /\ UNCHANGED <<calls, free, desc, ops, avail, used_idx, bdisk, lock, pc,
                     write, idx, seen, active, isr>>
  BY Zenon DEF DevDone, procs
<1> QED
  BY Zenon, <1>1, <1>2, <1>3, <1>5, <1>6, <1>7

\* The device transfers the data, writes the status and adds the request to
\* the used ring, which has room.
LEMMA DevDoneKeeps ==
  ASSUME IInv, RingHasRoom, NEW h \in Desc, DevDone(h)
  PROVE  IInv'
<1>1. TypeOK /\ PcInv /\ ChainInv /\ OwnInv /\ TakenInv /\ DataInv
  BY Zenon DEF IInv
<1>2. PICK a \in Nat, s \in Nat, u \in Nat, v \in Nat : RingInv(a, s, u, v)
  BY Zenon DEF IInv
<1> DEFINE b == info[h].b
<1>3. /\ h \in taken /\ b \in Bufs /\ InRw(b) /\ idx[b][1] = h /\ Owned(h)
      /\ info[h].status = 255 /\ pc[b] # "publish" /\ bdisk[b]
      /\ IF write[b]
         THEN platter' = [platter EXCEPT ![b] = data[b]] /\ data' = data
         ELSE data' = [data EXCEPT ![b] = platter[b]] /\ platter' = platter
      /\ info' = [info EXCEPT ![h].status = 0]
      /\ used' = [ring |-> [used.ring EXCEPT ![used.idx % NUM] = h],
                  idx  |-> NextIdx(used.idx)]
      /\ taken' = taken \ {h}
      /\ raising' = TRUE
      /\ UNCHANGED <<calls, free, desc, ops, avail, used_idx, bdisk, lock, pc,
                     write, idx, seen, active, isr>>
  BY Zenon, <1>1, DevDoneDoes
<1>4. /\ used.idx = Lap(u) /\ used.idx % NUM = Cell(u)
      /\ NextIdx(used.idx) = Lap(u + 1)
      /\ v <= u /\ u - v < NUM /\ NUM \in Nat /\ Cell(u) \in Desc
  BY Zenon, <1>2, LapCell, LapNext, CellType, VirtioAssumption DEF RingInv, CountInv
<1>5. /\ used'.idx = Lap(u + 1) /\ used'.ring[Cell(u)] = h
      /\ \A i \in Desc : i # Cell(u) => used'.ring[i] = used.ring[i]
  BY <1>1, <1>3, <1>4 DEF TypeOK
<1>6. /\ info'[h].status = 0 /\ \A g \in Desc : info'[g].b = info[g].b
      /\ \A g \in Desc : g # h => info'[g] = info[g]
  BY <1>1, <1>3 DEF TypeOK
<1>7. \A c \in Bufs : InRw(c)' <=> InRw(c)
  BY Zenon, <1>3 DEF InRw
<1>8. TypeOK'
  <2>1. used' \in [ring : [Desc -> Desc], idx : 0..(IDXMOD - 1)]
    <3>1. NextIdx(used.idx) \in 0..(IDXMOD - 1)
      BY <1>4, CellType
    <3>2. [used.ring EXCEPT ![used.idx % NUM] = h] \in [Desc -> Desc]
      BY Zenon, <1>1 DEF TypeOK
    <3> QED
      BY Zenon, <1>3, <3>1, <3>2
  <2>2. info' \in [Desc -> [b : Bufs \cup {None}, status : {0, 255}]]
    <3>1. info \in [Desc -> [b : Bufs \cup {None}, status : {0, 255}]]
      BY Zenon, <1>1 DEF TypeOK
    <3>2. info' = [info EXCEPT ![h].status = 0]
      BY Zenon, <1>3
    <3> QED
      BY ONLY <3>1, <3>2
  <2>3. data' \in [Bufs -> Vals \cup {Junk}] /\ platter' \in [Bufs -> Vals]
    <3>1. CASE write[b]
      <4>1. data[b] \in Vals
        BY Zenon, <1>1, <1>3, <3>1 DEF DataInv
      <4>2. platter' = [platter EXCEPT ![b] = data[b]] /\ data' = data
        BY Zenon, <1>3, <3>1
      <4>3. data \in [Bufs -> Vals \cup {Junk}] /\ platter \in [Bufs -> Vals]
        BY Zenon, <1>1 DEF TypeOK
      <4> QED
        BY ONLY Zenon, <4>1, <4>2, <4>3
    <3>2. CASE ~write[b]
      <4>1. data \in [Bufs -> Vals \cup {Junk}] /\ platter \in [Bufs -> Vals]
        BY Zenon, <1>1 DEF TypeOK
      <4>2. data' = [data EXCEPT ![b] = platter[b]] /\ platter' = platter
        BY Zenon, <1>3, <3>2
      <4>3. b \in Bufs
        BY Zenon, <1>3
      <4> QED
        BY ONLY Zenon, <4>1, <4>2, <4>3
    <3> QED
      BY Zenon, <3>1, <3>2
  <2>4. taken' \subseteq Desc /\ raising' \in BOOLEAN
    BY Zenon, <1>1, <1>3 DEF TypeOK
  <2> QED
    BY Zenon, <1>1, <1>3, <2>1, <2>2, <2>3, <2>4 DEF TypeOK
<1>9. PcInv'
  BY <1>1, <1>3, <1>7 DEF PcInv
<1> HIDE DEF b
<1>10. ChainInv' /\ OwnInv'
  <2>1. \A c \in Bufs : InRw(c) /\ info'[idx[c][1]].status = 255 => bdisk'[c]
    <3> SUFFICES ASSUME NEW c \in Bufs, InRw(c), info'[idx[c][1]].status = 255
                 PROVE  bdisk[c]
      BY Zenon, <1>3
    <3>1. idx[c][1] \in Desc
      BY Zenon, <1>1, HasThree
    <3>2. info[idx[c][1]].status = 255
      BY <1>6, <3>1
    <3> QED
      BY Zenon, <1>1, <3>2, HeadRecords
  <2> QED
    BY Zenon, <1>1, <1>3, <1>6, <1>7, <2>1, SameChains
<1>11. \A g \in Desc : Owned(g)' <=> Owned(g)
  BY Zenon, <1>1, <1>3, <1>6, <1>7, SameOwned
<1>12. TakenInv'
  <2>1. taken \subseteq Desc
    BY Zenon, <1>1 DEF TypeOK
  <2> QED
    BY <1>1, <1>3, <1>6, <1>11, <2>1 DEF TakenInv
<1>13. ASSUME NEW j \in v..(u - 1)
       PROVE  /\ used'.ring[Cell(j)] = used.ring[Cell(j)]
              /\ used.ring[Cell(j)] # h /\ used.ring[Cell(j)] \in Desc
              /\ Owned(used.ring[Cell(j)]) /\ info[used.ring[Cell(j)]].status = 0
              /\ bdisk[info[used.ring[Cell(j)]].b]
  <2>1. Cell(j) \in Desc
    BY CellType
  <2>2. j \in Nat /\ j < u /\ u < j + NUM
    BY <1>4
  <2>3. Cell(j) # Cell(u)
    BY Zenon, <2>2, CellApart
  <2> QED
    BY <1>1, <1>2, <1>3, <1>5, <2>1, <2>3, UsedEntry DEF RingInv, Reported
<1>14. ASSUME NEW j \in v..u PROVE j \in v..(u - 1) \/ j = u
  OBVIOUS
<1>15. \A j, k \in v..u : used'.ring[Cell(j)] = used'.ring[Cell(k)] => j = k
  <2>1. \A j, k \in v..(u - 1) : used.ring[Cell(j)] = used.ring[Cell(k)] => j = k
    BY Zenon, <1>2 DEF RingInv, UsedInv
  <2> QED
    BY <1>5, <1>13, <1>14, <2>1
<1>16. (u + 1) - v < NUM
  <2> DEFINE f == [j \in v..u |-> used'.ring[Cell(j)]]
             x == idx[b][2]
  <2>1. \A j \in v..u : f[j] \in Desc /\ Owned(f[j])
    BY <1>3, <1>5, <1>13, <1>14
  <2>2. f \in [v..u -> Desc]
    BY Zenon, <2>1
  <2>3. \A j, k \in v..u : f[j] = f[k] => j = k
    BY Zenon, <1>15
  <2>4. x \in Desc /\ \A j \in v..u : f[j] # x
    <3> HIDE DEF f
    <3>1. x \in Desc
      BY <1>1, <1>3, NotAHead DEF b
    <3>2. \A j \in v..u : f[j] # x
      BY <1>1, <1>3, <2>1, NotAHead DEF b
    <3> QED
      BY Zenon, <3>1, <3>2
  <2>5. v <= u
    BY Zenon, <1>4
  <2> HIDE DEF f, x
  <2> QED
    BY ONLY <2>2, <2>3, <2>4, <2>5, RingHasRoom, u \in Nat, v \in Nat DEF RingHasRoom
<1>17. RingInv(a, s, u + 1, v)'
  <2>1. CountInv(a, s, u + 1, v)'
    <3>1. v <= u + 1
      BY <1>4
    <3> QED
      BY Zenon, <1>2, <1>3, <1>5, <1>16, <3>1 DEF RingInv, CountInv
  <2>2. AvailInv(a, s)'
    <3>1. ASSUME NEW g \in Desc, Waiting(g) PROVE Waiting(g)'
      <4>1. g # h
        BY Zenon, <1>3, <3>1 DEF Waiting
      <4> QED
        BY <1>3, <1>6, <1>11, <3>1, <4>1 DEF Waiting
    <3>2. ASSUME NEW c \in Bufs, pc[c] = "publish"
          PROVE  /\ avail.ring[Cell(a)] = idx[c][1]
                 /\ info'[idx[c][1]].status = 255
      <4>1. InRw(c)
        BY Zenon, <3>2 DEF InRw
      <4>2. idx[c][1] \in Desc /\ info[idx[c][1]].b = c
        BY Zenon, <1>1, <4>1, HasThree, HeadRecords
      <4>3. idx[c][1] # h
        BY Zenon, <1>3, <3>2, <4>2 DEF b
      <4> QED
        BY <1>2, <1>6, <3>2, <4>2, <4>3 DEF RingInv, AvailInv
    <3> QED
      BY <1>2, <1>3, <3>1, <3>2 DEF RingInv, AvailInv
  <2>3. UsedInv(u + 1, v)'
    <3>0. (u + 1) - 1 = u
      OBVIOUS
    <3>a. ASSUME NEW g \in Desc, Reported(g) PROVE Reported(g)'
      BY <1>3, <1>6, <1>11, <3>a DEF Reported
    <3>b. Reported(h)'
      BY <1>3, <1>6, <1>11 DEF Reported, b
    <3>1. ASSUME NEW j \in v..u, NEW g \in Desc, used'.ring[Cell(j)] = g
          PROVE  Reported(g)'
      <4>1. CASE j = u
        BY Zenon, <1>5, <3>b, <3>1, <4>1
      <4>2. CASE j \in v..(u - 1)
        <5>1. Reported(g)
          BY Zenon, <1>13, <3>1, <4>2 DEF Reported
        <5> QED
          BY Zenon, <3>a, <5>1
      <4> QED
        BY Zenon, <1>14, <4>1, <4>2
    <3> QED
      BY <1>3, <1>15, <3>0, <3>1 DEF UsedInv
  <2>4. PlaceInv(a, s, u + 1, v)'
    <3> SUFFICES ASSUME NEW c \in Bufs, InRw(c), bdisk[c]
                 PROVE  IF info'[idx[c][1]].status = 255
                        THEN \/ pc[c] = "publish" \/ idx[c][1] \in taken'
                             \/ \E j \in s..(a - 1) :
                                  avail.ring[Cell(j)] = idx[c][1]
                        ELSE \E j \in v..((u + 1) - 1) :
                               used'.ring[Cell(j)] = idx[c][1]
      BY <1>3, <1>7 DEF PlaceInv
    <3>1. u \in v..((u + 1) - 1) /\ v..(u - 1) \subseteq v..((u + 1) - 1)
      BY <1>4
    <3>2. idx[c][1] \in Desc
      BY ZenonT(60), <1>1, HasThree
    <3>3. CASE idx[c][1] = h
      BY <1>5, <1>6, <3>1, <3>3
    <3>4. CASE idx[c][1] # h
      <4>1. info'[idx[c][1]] = info[idx[c][1]]
        BY ZenonT(60), <1>6, <3>2, <3>4
      <4>2. IF info[idx[c][1]].status = 255
            THEN \/ pc[c] = "publish" \/ idx[c][1] \in taken
                 \/ \E j \in s..(a - 1) : avail.ring[Cell(j)] = idx[c][1]
            ELSE \E j \in v..(u - 1) : used.ring[Cell(j)] = idx[c][1]
        BY <1>2 DEF RingInv, PlaceInv
      <4> QED
        BY <1>3, <1>13, <3>1, <3>4, <4>1, <4>2
    <3> QED
      BY Zenon, <3>3, <3>4
  <2> QED
    BY Zenon, <2>1, <2>2, <2>3, <2>4 DEF RingInv
<1>18. DataInv'
  <2> SUFFICES ASSUME NEW c \in Bufs, write[c] PROVE data'[c] \in Vals
    BY Zenon, <1>3 DEF DataInv
  <2>1. data[c] \in Vals
    BY Zenon, <1>1 DEF DataInv
  <2>2. CASE write[b]
    BY Zenon, <1>3, <2>1, <2>2 DEF b
  <2>3. CASE ~write[b]
    <3>1. c # b /\ data' = [data EXCEPT ![b] = platter[b]]
      BY Zenon, <1>3, <2>3 DEF b
    <3> QED
      BY <1>1, <2>1, <3>1 DEF TypeOK
  <2> QED
    BY Zenon, <2>2, <2>3
<1> QED
  BY <1>8, <1>9, <1>10, <1>12, <1>17, <1>18 DEF IInv

=============================================================================
