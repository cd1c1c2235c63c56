---------------------------- MODULE VirtioProofs ----------------------------
(***************************************************************************)
(* Theorems about Virtio, for any number of processes, any even split of   *)
(* the 16-bit index into turns of the rings, and a device that completes   *)
(* requests in any order: every descriptor has one owner, the interrupt    *)
(* handler wakes the right process and overlooks no completion, and the    *)
(* driver is the BlockDevice the buffer cache relies on.                   *)
(***************************************************************************)
EXTENDS VirtioSteps, FiniteSetTheorems

-----------------------------------------------------------------------------
(* Finite sets of descriptors.                                             *)

\* A set of natural numbers has a least element: alloc_desc() finds it.
LEMMA NatMin ==
  ASSUME NEW T, T \subseteq Nat, T # {}
  PROVE  \E x \in T : \A y \in T : x <= y
<1> DEFINE R == OpToRel(<, Nat)
<1>1. IsWellFoundedOn(R, Nat)
  BY Zenon, NatLessThanWellFounded
<1>2. PICK x \in T : \A y \in T : ~ (<<y, x>> \in R)
  <2> HIDE DEF R
  <2> QED
    BY Zenon, <1>1, WFMin
<1>3. \A y \in T : ~ (y < x)
  BY Zenon, <1>2 DEF OpToRel
<1> QED
  BY <1>3

\* There are NUM descriptors.
LEMMA DescFinite ==
  /\ NUM \in Nat /\ Desc \subseteq Nat /\ IsFiniteSet(Desc)
  /\ Cardinality(Desc) = NUM
<1>1. NUM \in Nat /\ NUM >= 3 /\ 0 \in Int /\ NUM - 1 \in Int /\ ~(0 > NUM - 1)
  BY VirtioAssumption
<1>2. IsFiniteSet(0..(NUM - 1)) /\ Cardinality(0..(NUM - 1)) = (NUM - 1) - 0 + 1
  BY Zenon, <1>1, FS_Interval
<1>3. Desc \subseteq Nat
  BY <1>1 DEF Desc
<1> QED
  BY <1>1, <1>2, <1>3 DEF Desc

\* alloc3_desc() finds three different free descriptors if there are three.
LEMMA ThreeFree ==
  ASSUME free \subseteq Desc, Cardinality(free) >= 3
  PROVE  /\ Lowest3 \in [1..3 -> Desc]
         /\ \A k \in 1..3 : Lowest3[k] \in free
         /\ Lowest3[1] # Lowest3[2] /\ Lowest3[1] # Lowest3[3]
         /\ Lowest3[2] # Lowest3[3]
<1> DEFINE Below(i) == {j \in free : j < i}
<1>1. free \subseteq Nat /\ IsFiniteSet(free)
  <2>1. IsFiniteSet(Desc) /\ Desc \subseteq Nat
    BY Zenon, DescFinite
  <2> QED
    BY Zenon, <2>1, FS_Subset
<1>2. PICK m1 \in free : \A y \in free : m1 <= y
  <2>1. free # {}
    BY FS_EmptySet
  <2> QED
    BY Zenon, <1>1, <2>1, NatMin
<1>3. IsFiniteSet(free \ {m1}) /\ Cardinality(free \ {m1}) >= 2
  <2>1. Cardinality(free) \in Nat
    BY Zenon, <1>1, FS_CardinalityType
  <2>2. Cardinality(free \ {m1}) = Cardinality(free) - 1
    BY Zenon, <1>1, <1>2, FS_RemoveElement
  <2>3. IsFiniteSet(free \ {m1})
    BY Zenon, <1>1, FS_RemoveElement
  <2> QED
    BY <2>1, <2>2, <2>3
<1>4. PICK m2 \in free \ {m1} : \A y \in free \ {m1} : m2 <= y
  <2>1. free \ {m1} # {}
    BY <1>3, FS_EmptySet
  <2>2. free \ {m1} \subseteq Nat
    BY Zenon, <1>1
  <2> QED
    BY Zenon, <2>1, <2>2, NatMin
<1>5. Cardinality((free \ {m1}) \ {m2}) >= 1
  <2>1. Cardinality(free \ {m1}) \in Nat
    BY Zenon, <1>3, FS_CardinalityType
  <2>2. Cardinality((free \ {m1}) \ {m2}) = Cardinality(free \ {m1}) - 1
    BY Zenon, <1>3, <1>4, FS_RemoveElement
  <2> QED
    BY <1>3, <2>1, <2>2
<1>6. PICK m3 \in (free \ {m1}) \ {m2} : \A y \in (free \ {m1}) \ {m2} : m3 <= y
  <2>1. (free \ {m1}) \ {m2} # {}
    BY <1>5, FS_EmptySet
  <2>2. (free \ {m1}) \ {m2} \subseteq Nat
    BY Zenon, <1>1
  <2> QED
    BY Zenon, <2>1, <2>2, NatMin
<1>7. Below(m1) = {} /\ Below(m2) = {m1} /\ Below(m3) = {m1} \cup {m2}
  <2>1. m1 \in Nat /\ m2 \in Nat /\ m3 \in Nat /\ m1 < m2 /\ m2 < m3
    BY <1>1, <1>2, <1>4, <1>6
  <2>a. /\ \A y \in free : ~(y < m1)
        /\ \A y \in free : y < m2 <=> y = m1
        /\ \A y \in free : y < m3 <=> y = m1 \/ y = m2
    BY <1>1, <1>2, <1>4, <1>6, <2>1
  <2>2. Below(m1) = {}
    BY Zenon, <2>a
  <2>3. Below(m2) = {m1}
    BY Zenon, <1>2, <2>a
  <2>4. Below(m3) = {m1} \cup {m2}
    BY Zenon, <1>2, <1>4, <2>a
  <2> QED
    BY Zenon, <2>2, <2>3, <2>4
<1>8. /\ Cardinality({}) = 0 /\ Cardinality({m1}) = 1
      /\ Cardinality({m1} \cup {m2}) = 2
  <2>1. IsFiniteSet({m1}) /\ Cardinality({m1}) = 1
    BY Zenon, FS_Singleton
  <2>2. m2 \notin {m1}
    BY Zenon, <1>4
  <2>3. Cardinality({m1} \cup {m2}) = Cardinality({m1}) + 1
    BY Zenon, <2>1, <2>2, FS_AddElement
  <2> QED
    BY <2>1, <2>3, FS_EmptySet
<1>9. /\ Cardinality(Below(m1)) = 0 /\ Cardinality(Below(m2)) = 1
      /\ Cardinality(Below(m3)) = 2
  BY Zenon, <1>7, <1>8
<1>10. \A k \in 1..3 : \E i \in free : Cardinality(Below(i)) = k - 1
  <2> HIDE DEF Below
  <2> SUFFICES ASSUME NEW k \in 1..3
               PROVE  \E i \in free : Cardinality(Below(i)) = k - 1
    BY Zenon
  <2>1. k = 1 \/ k = 2 \/ k = 3
    OBVIOUS
  <2> QED
    BY <1>2, <1>4, <1>6, <1>9, <2>1
<1>11. \A k \in 1..3 : /\ Lowest3[k] \in free
                       /\ Cardinality(Below(Lowest3[k])) = k - 1
  BY Zenon, <1>10 DEF Lowest3
<1>12. Lowest3 \in [1..3 -> Desc]
  BY Zenon, <1>11 DEF Lowest3
<1>13. 1 \in 1..3 /\ 2 \in 1..3 /\ 3 \in 1..3
  OBVIOUS
<1>14. /\ Cardinality(Below(Lowest3[1])) = 0 /\ Cardinality(Below(Lowest3[2])) = 1
       /\ Cardinality(Below(Lowest3[3])) = 2
  <2> HIDE DEF Below
  <2> QED
    BY <1>11, <1>13
<1>15. Lowest3[1] # Lowest3[2] /\ Lowest3[1] # Lowest3[3] /\ Lowest3[2] # Lowest3[3]
  <2> HIDE DEF Below
  <2> QED
    BY <1>14
<1> QED
  BY Zenon, <1>11, <1>12, <1>15

\* Different entries of a ring, of which some descriptor is none, are fewer
\* than the ring has cells: RingHasRoom.
LEMMA RoomInRing == RingHasRoom
<1> SUFFICES ASSUME NEW s \in Nat, NEW a \in Nat, NEW x \in Desc,
                    NEW f \in [s..a -> Desc], s <= a, \A j \in s..a : f[j] # x,
                    \A j, k \in s..a : f[j] = f[k] => j = k
             PROVE  a + 1 - s < NUM
  BY Zenon DEF RingHasRoom
<1>1. NUM \in Nat /\ IsFiniteSet(Desc) /\ Cardinality(Desc) = NUM
  BY Zenon, DescFinite
<1>2. IsFiniteSet(Desc \ {x}) /\ Cardinality(Desc \ {x}) = NUM - 1
  BY Zenon, <1>1, FS_RemoveElement
<1>3. f \in Injection(s..a, Desc \ {x})
  BY Zenon DEF Injection, IsInjective
<1>4. Cardinality(s..a) <= NUM - 1
  BY <1>2, <1>3, FS_Injection
<1>5. Cardinality(s..a) = a - s + 1
  BY FS_Interval
<1> QED
  BY <1>1, <1>4, <1>5

-----------------------------------------------------------------------------
(* alloc3_desc() and free_chain() hand descriptors over.                   *)

\* Three free descriptors become the chain of b, and its head goes into a
\* cell of the available ring that is not in use.
LEMMA SubmitKeeps ==
  ASSUME IInv, NEW b \in Bufs, Submit(b)
  PROVE  IInv'
<1>1. TypeOK /\ PcInv /\ ChainInv /\ OwnInv /\ TakenInv /\ DataInv
  BY Zenon DEF IInv
<1>2. PICK a \in Nat, s \in Nat, u \in Nat, v \in Nat : RingInv(a, s, u, v)
  BY Zenon DEF IInv
<1> DEFINE i == Lowest3
<1>3. /\ i \in [1..3 -> Desc] /\ \A k \in 1..3 : i[k] \in free
      /\ i[1] # i[2] /\ i[1] # i[3] /\ i[2] # i[3]
  BY Zenon, <1>1, ThreeFree DEF Submit, TypeOK
<1>4. /\ avail.idx % NUM = Cell(a) /\ s <= a /\ a - s < NUM /\ NUM \in Nat
      /\ Cell(a) \in Desc
  BY Zenon, <1>2, LapCell, CellType, VirtioAssumption DEF RingInv, CountInv
<1>5. /\ pc[b] = "enter" /\ lock = None /\ lock' = b
      /\ idx' = [idx EXCEPT ![b] = i]
      /\ free' = free \ {i[1], i[2], i[3]}
      /\ ops' = [ops EXCEPT ![i[1]] = [out |-> write[b], sector |-> b]]
      /\ desc' = [desc EXCEPT
           ![i[1]] = [addr |-> <<"op", i[1]>>, next |-> i[2], more |-> TRUE],
           ![i[2]] = [addr |-> <<"data", b>>, next |-> i[3], more |-> TRUE],
           ![i[3]] = [addr |-> <<"status", i[1]>>, next |-> 0, more |-> FALSE]]
      /\ info' = [info EXCEPT ![i[1]] = [b |-> b, status |-> 255]]
      /\ bdisk' = [bdisk EXCEPT ![b] = TRUE]
      /\ avail' = [avail EXCEPT !.ring[Cell(a)] = i[1]]
      /\ pc' = [pc EXCEPT ![b] = "publish"]
      /\ UNCHANGED <<calls, used, used_idx, data, platter, write, seen, taken,
                     active, raising, isr>>
  BY Zenon, <1>4 DEF Submit, Goto, device
<1> HIDE DEF i
<1>u. UNCHANGED <<calls, used, used_idx, data, platter, write, seen, taken,
                  active, raising, isr>>
  BY Zenon, <1>5
<1>6. 1 \in 1..3 /\ 2 \in 1..3 /\ 3 \in 1..3
  OBVIOUS
<1>7. i[1] \in Desc /\ i[2] \in Desc /\ i[3] \in Desc
  BY Zenon, <1>3, <1>6
<1>8. /\ pc'[b] = "publish" /\ bdisk'[b] /\ idx'[b] = i /\ InRw(b)' /\ ~InRw(b)
      /\ \A c \in Bufs : c # b => /\ pc'[c] = pc[c] /\ bdisk'[c] = bdisk[c]
                                  /\ idx'[c] = idx[c] /\ (InRw(c)' <=> InRw(c))
  BY <1>1, <1>5 DEF TypeOK, InRw
<1>9. /\ desc'[i[1]] = OpDesc(i[1], i[2]) /\ desc'[i[2]] = DataDesc(b, i[3])
      /\ desc'[i[3]] = StatusDesc(i[1]) /\ ops'[i[1]] = Request(write[b], b)
      /\ info'[i[1]].b = b /\ info'[i[1]].status = 255
  <2>1. desc' = [desc EXCEPT ![i[1]] = OpDesc(i[1], i[2]),
                             ![i[2]] = DataDesc(b, i[3]), ![i[3]] = StatusDesc(i[1])]
    BY Zenon, <1>5 DEF OpDesc, DataDesc, StatusDesc
  <2>2. DOMAIN desc = Desc /\ DOMAIN ops = Desc /\ DOMAIN info = Desc
    BY Zenon, <1>1 DEF TypeOK
  <2>3. /\ desc'[i[1]] = OpDesc(i[1], i[2]) /\ desc'[i[2]] = DataDesc(b, i[3])
        /\ desc'[i[3]] = StatusDesc(i[1])
    BY ONLY Zenon, <1>3, <1>7, <2>1, <2>2
  <2>4. ops'[i[1]] = Request(write[b], b)
    BY Zenon, <1>5, <1>7, <2>2 DEF Request
  <2>5. info'[i[1]] = [b |-> b, status |-> 255]
    BY Zenon, <1>5, <1>7, <2>2
  <2> QED
    BY <2>3, <2>4, <2>5
<1>10. \A g \in Desc : g \notin free =>
         desc'[g] = desc[g] /\ ops'[g] = ops[g] /\ info'[g] = info[g]
  BY <1>1, <1>3, <1>5, <1>6 DEF TypeOK
<1>11. ASSUME NEW c \in Bufs, InRw(c)
       PROVE  /\ c # b /\ \A k \in 1..3 : idx[c][k] \in Desc \ free
              /\ pc[c] \notin {"publish", "notify"}
  BY <1>1, <1>5, <1>8, <1>11, VirtioAssumption DEF PcInv, OwnInv
<1>12. ASSUME NEW g \in Desc, Owned(g)
       PROVE  /\ Owned(g)' /\ g \notin free /\ info'[g] = info[g]
              /\ info[g].b \in Bufs /\ info[g].b # b
              /\ pc'[info[g].b] = pc[info[g].b]
              /\ bdisk'[info[g].b] = bdisk[info[g].b]
  <2>1. info[g].b \in Bufs /\ InRw(info[g].b) /\ idx[info[g].b][1] = g
    BY Zenon, <1>12 DEF Owned
  <2>2. info[g].b # b /\ g \notin free
    BY Zenon, <1>6, <1>11, <2>1
  <2>3. info'[g] = info[g]
    BY Zenon, <1>10, <2>2
  <2> QED
    BY <1>8, <2>1, <2>2, <2>3 DEF Owned
<1>13. TypeOK'
  <2>1. free' \subseteq Desc /\ idx' \in [Bufs -> {<<>>} \cup [1..3 -> Desc]]
    BY Zenon, <1>1, <1>3, <1>5 DEF TypeOK
  <2>2. ops' \in [Desc -> [out : BOOLEAN, sector : Bufs \cup {None}]]
    BY Zenon, <1>1, <1>5 DEF TypeOK
  <2>3. desc' \in [Desc -> [addr : Addrs, next : Desc, more : BOOLEAN]]
    <3>1. 0 \in Desc
      BY VirtioAssumption DEF Desc
    <3>2. /\ <<"op", i[1]>> \in Addrs /\ <<"data", b>> \in Addrs
          /\ <<"status", i[1]>> \in Addrs
      BY Zenon, <1>7 DEF Addrs
    <3> QED
      BY ZenonT(60), <1>1, <1>5, <1>7, <3>1, <3>2 DEF TypeOK
  <2>4. info' \in [Desc -> [b : Bufs \cup {None}, status : {0, 255}]]
    BY Zenon, <1>1, <1>5 DEF TypeOK
  <2>5. avail' \in [ring : [Desc -> Desc], idx : 0..(IDXMOD - 1)]
    BY Zenon, <1>1, <1>5, <1>7 DEF TypeOK
  <2>6. /\ bdisk' \in [Bufs -> BOOLEAN] /\ pc' \in [Bufs -> PCs]
        /\ lock' \in Bufs \cup {"intr", None}
    BY Zenon, <1>1, <1>5 DEF TypeOK, PCs
  <2> QED
    BY ZenonT(60), <1>1, <1>5, <2>1, <2>2, <2>3, <2>4, <2>5, <2>6 DEF TypeOK
<1>14. PcInv'
  <2> SUFFICES ASSUME NEW c \in Bufs
               PROVE  /\ InRw(c)' => idx'[c] \in [1..3 -> Desc]
                      /\ ~InRw(c)' => idx'[c] = <<>> /\ ~bdisk'[c]
                      /\ lock' = c <=> pc'[c] \in {"publish", "notify"}
                      /\ pc'[c] \in {"publish", "notify", "asleep_b"} => bdisk'[c]
    BY Zenon DEF PcInv
  <2>1. CASE c = b
    BY <1>3, <1>5, <1>8, <2>1
  <2>2. CASE c # b
    <3>1. lock # c
      BY Zenon, <1>5, VirtioAssumption
    <3> QED
      BY Zenon, <1>1, <1>5, <1>8, <2>2, <3>1 DEF PcInv
  <2> QED
    BY Zenon, <2>1, <2>2
<1>15. ChainInv'
  <2> SUFFICES ASSUME NEW c \in Bufs, InRw(c)'
               PROVE  /\ idx'[c][1] # idx'[c][2] /\ idx'[c][1] # idx'[c][3]
                      /\ idx'[c][2] # idx'[c][3]
                      /\ ops'[idx'[c][1]] = Request(write'[c], c)
                      /\ desc'[idx'[c][1]] = OpDesc(idx'[c][1], idx'[c][2])
                      /\ desc'[idx'[c][2]] = DataDesc(c, idx'[c][3])
                      /\ desc'[idx'[c][3]] = StatusDesc(idx'[c][1])
                      /\ info'[idx'[c][1]].b = c
                      /\ info'[idx'[c][1]].status = 255 => bdisk'[c]
    BY DEF ChainInv
  <2>1. CASE c = b
    BY ZenonT(60), <1>3, <1>u, <1>8, <1>9, <2>1
  <2>2. CASE c # b
    <3>1. InRw(c) /\ idx'[c] = idx[c] /\ bdisk'[c] = bdisk[c] /\ write' = write
      BY Zenon, <1>5, <1>8, <2>2
    <3>2. \A k \in 1..3 : /\ desc'[idx[c][k]] = desc[idx[c][k]]
                          /\ ops'[idx[c][k]] = ops[idx[c][k]]
                          /\ info'[idx[c][k]] = info[idx[c][k]]
      BY Zenon, <1>10, <1>11, <3>1
    <3> QED
      BY <1>1, <1>6, <3>1, <3>2 DEF ChainInv
  <2> QED
    BY Zenon, <2>1, <2>2
<1>16. OwnInv'
  <2>1. \A c \in Bufs : InRw(c)' => \A k \in 1..3 : idx'[c][k] \notin free'
    <3> SUFFICES ASSUME NEW c \in Bufs, InRw(c)', NEW k \in 1..3
                 PROVE  idx'[c][k] \notin free'
      BY Zenon
    <3>1. k = 1 \/ k = 2 \/ k = 3
      OBVIOUS
    <3> QED
      BY <1>5, <1>8, <1>11, <3>1
  <2>2. \A c, d \in Bufs : InRw(c)' /\ InRw(d)' /\ c # d =>
          \A k, l \in 1..3 : idx'[c][k] # idx'[d][l]
    <3> SUFFICES ASSUME NEW c \in Bufs, NEW d \in Bufs, InRw(c)', InRw(d)', c # d,
                        NEW k \in 1..3, NEW l \in 1..3
                 PROVE  idx'[c][k] # idx'[d][l]
      BY Zenon
    <3>1. CASE c = b
      BY <1>3, <1>8, <1>11, <3>1
    <3>2. CASE d = b
      BY <1>3, <1>8, <1>11, <3>2
    <3>3. CASE c # b /\ d # b
      BY <1>1, <1>8, <3>3 DEF OwnInv
    <3> QED
      BY Zenon, <3>1, <3>2, <3>3
  <2>3. ASSUME NEW g \in Desc
        PROVE  \/ g \in free'
               \/ \E c \in Bufs : InRw(c)' /\ \E k \in 1..3 : idx'[c][k] = g
    <3>1. CASE g \in {i[1], i[2], i[3]}
      BY Zenon, <1>6, <1>8, <3>1
    <3>2. CASE g \in free /\ g \notin {i[1], i[2], i[3]}
      BY Zenon, <1>5, <3>2
    <3>3. CASE \E c \in Bufs : InRw(c) /\ \E k \in 1..3 : idx[c][k] = g
      BY Zenon, <1>8, <1>11, <3>3
    <3> QED
      BY Zenon, <1>1, <3>1, <3>2, <3>3 DEF OwnInv
  <2> QED
    BY Zenon, <2>1, <2>2, <2>3 DEF OwnInv
<1>17. TakenInv'
  <2>1. taken \subseteq Desc
    BY Zenon, <1>1 DEF TypeOK
  <2> QED
    BY <1>1, <1>u, <1>12, <2>1 DEF TakenInv
<1>18. ASSUME NEW j \in s..(a - 1)
       PROVE  /\ avail'.ring[Cell(j)] = avail.ring[Cell(j)]
              /\ avail.ring[Cell(j)] \in Desc
  <2>1. j \in Nat /\ j < a /\ a < j + NUM /\ Cell(j) \in Desc
    BY <1>4, CellType
  <2>2. Cell(j) # Cell(a)
    BY Zenon, <2>1, CellApart
  <2> QED
    BY <1>1, <1>4, <1>5, <2>1, <2>2 DEF TypeOK
<1>19. RingInv(a, s, u, v)'
  <2>1. CountInv(a, s, u, v)'
    <3>1. avail'.idx = avail.idx
      BY Zenon, <1>1, <1>5 DEF TypeOK
    <3> QED
      BY Zenon, <1>2, <1>5, <3>1 DEF RingInv, CountInv
  <2>2. AvailInv(a, s)'
    <3>0. ASSUME NEW g \in Desc, Waiting(g) PROVE Waiting(g)'
      BY <1>u, <1>12, <3>0 DEF Waiting
    <3>1. ASSUME NEW j \in s..(a - 1), NEW g \in Desc, avail'.ring[Cell(j)] = g
          PROVE  Waiting(g)'
      BY <1>2, <1>18, <3>0, <3>1 DEF RingInv, AvailInv
    <3>2. \A j, k \in s..(a - 1) :
            avail'.ring[Cell(j)] = avail'.ring[Cell(k)] => j = k
      BY <1>2, <1>18 DEF RingInv, AvailInv
    <3>3. ASSUME NEW c \in Bufs, pc'[c] = "publish"
          PROVE  /\ avail'.ring[Cell(a)] = idx'[c][1]
                 /\ info'[idx'[c][1]].status = 255
      <4>1. c = b
        BY ZenonT(60), <1>8, <1>11, <3>3 DEF InRw
      <4>2. avail'.ring[Cell(a)] = i[1]
        BY <1>1, <1>4, <1>5 DEF TypeOK
      <4> QED
        BY Zenon, <1>8, <1>9, <4>1, <4>2
    <3> QED
      BY Zenon, <3>1, <3>2, <3>3 DEF AvailInv
  <2>3. UsedInv(u, v)'
    <3>1. lock # "intr"
      BY Zenon, <1>5, VirtioAssumption
    <3>2. ASSUME NEW g \in Desc, Reported(g) PROVE Reported(g)'
      BY ZenonT(60), <1>12, <3>2 DEF Reported
    <3> QED
      BY Zenon, <1>2, <1>u, <3>1, <3>2 DEF RingInv, UsedInv
  <2>4. PlaceInv(a, s, u, v)'
    <3> SUFFICES ASSUME NEW c \in Bufs, InRw(c)', bdisk'[c], c # b
                 PROVE  IF info'[idx'[c][1]].status = 255
                        THEN \/ pc'[c] = "publish" \/ idx'[c][1] \in taken'
                             \/ \E j \in s..(a - 1) :
                                  avail'.ring[Cell(j)] = idx'[c][1]
                        ELSE \E j \in v..(u - 1) :
                               used'.ring[Cell(j)] = idx'[c][1]
      BY <1>8, <1>9 DEF PlaceInv
    <3>1. InRw(c) /\ bdisk[c] /\ idx'[c] = idx[c] /\ pc'[c] = pc[c]
      BY Zenon, <1>8
    <3>2. info'[idx[c][1]] = info[idx[c][1]]
      BY Zenon, <1>6, <1>10, <1>11, <3>1
    <3> QED
      BY <1>2, <1>5, <1>18, <3>1, <3>2 DEF RingInv, PlaceInv
  <2> QED
    BY Zenon, <2>1, <2>2, <2>3, <2>4 DEF RingInv
<1>20. DataInv'
  BY Zenon, <1>1, <1>5 DEF DataInv
<1> QED
  BY Zenon, <1>13, <1>14, <1>15, <1>16, <1>17, <1>19, <1>20 DEF IInv

\* The loop of virtio_disk_rw() has ended: free_chain() frees exactly the three
\* descriptors, and no ring and no device refers to them.
LEMMA FinishDoes ==
  ASSUME TypeOK, PcInv, ChainInv, NEW b \in Bufs, Finish(b)
  PROVE  /\ pc[b] = "relock" /\ lock = None /\ ~bdisk[b] /\ InRw(b)
         /\ info' = [info EXCEPT ![idx[b][1]].b = None]
         /\ ops' = [ops EXCEPT ![idx[b][1]] = NoOp]
         /\ free' = free \cup {idx[b][1], idx[b][2], idx[b][3]}
         /\ desc' = [g \in Desc |-> IF g \in {idx[b][1], idx[b][2], idx[b][3]}
                                    THEN Blank ELSE desc[g]]
         /\ idx' = [idx EXCEPT ![b] = <<>>]
         /\ write' = [write EXCEPT ![b] = FALSE]
         /\ pc' = [c \in Bufs |-> IF c = b THEN "idle"
                     ELSE IF pc[c] = "asleep_free" THEN "enter" ELSE pc[c]]
         /\ UNCHANGED <<calls, avail, used, used_idx, bdisk, data, platter, lock,
                        seen, taken, active, raising, isr>>
<1>1. pc[b] = "relock" /\ lock = None /\ ~bdisk[b] /\ InRw(b)
  BY Zenon DEF Finish, MustWait, InRw
<1>2. /\ desc[idx[b][1]].next = idx[b][2] /\ desc[idx[b][1]].more = TRUE
      /\ desc[idx[b][2]].next = idx[b][3] /\ desc[idx[b][2]].more = TRUE
  BY Zenon, <1>1, ChainLinks
<1>3. Chain(idx[b][1]) = {idx[b][1], idx[b][2], idx[b][3]}
  BY <1>2 DEF Chain
<1> QED
  BY Zenon, <1>1, <1>3 DEF Finish, WakeFreeAndGoto, rings, bufs, device

\* Freeing the chain of a finished request keeps the invariant.
LEMMA FinishKeeps ==
  ASSUME IInv, NEW b \in Bufs, Finish(b)
  PROVE  IInv'
<1>1. TypeOK /\ PcInv /\ ChainInv /\ OwnInv /\ TakenInv /\ DataInv
  BY Zenon DEF IInv
<1>2. PICK a \in Nat, s \in Nat, u \in Nat, v \in Nat : RingInv(a, s, u, v)
  BY Zenon DEF IInv
<1> DEFINE i == idx[b]
<1>3. /\ pc[b] = "relock" /\ lock = None /\ ~bdisk[b] /\ InRw(b)
      /\ info' = [info EXCEPT ![i[1]].b = None]
      /\ ops' = [ops EXCEPT ![i[1]] = NoOp]
      /\ free' = free \cup {i[1], i[2], i[3]}
      /\ desc' = [g \in Desc |-> IF g \in {i[1], i[2], i[3]} THEN Blank ELSE desc[g]]
      /\ idx' = [idx EXCEPT ![b] = <<>>]
      /\ write' = [write EXCEPT ![b] = FALSE]
      /\ pc' = [c \in Bufs |-> IF c = b THEN "idle"
                  ELSE IF pc[c] = "asleep_free" THEN "enter" ELSE pc[c]]
      /\ UNCHANGED <<calls, avail, used, used_idx, bdisk, data, platter, lock,
                     seen, taken, active, raising, isr>>
  BY Zenon, <1>1, FinishDoes
<1>u. UNCHANGED <<calls, avail, used, used_idx, bdisk, data, platter, lock,
                  seen, taken, active, raising, isr>>
  BY Zenon, <1>3
<1>4. i \in [1..3 -> Desc] /\ 1 \in 1..3 /\ 2 \in 1..3 /\ 3 \in 1..3 /\ info[i[1]].b = b
  BY <1>1, <1>3 DEF PcInv, ChainInv
<1>5. i[1] \in Desc /\ i[2] \in Desc /\ i[3] \in Desc
  BY Zenon, <1>4
<1>6. /\ pc'[b] = "idle" /\ idx'[b] = <<>> /\ ~InRw(b)'
      /\ \A c \in Bufs : c # b =>
           /\ idx'[c] = idx[c] /\ write'[c] = write[c] /\ (InRw(c)' <=> InRw(c))
           /\ InRw(c) => pc'[c] = pc[c]
           /\ pc'[c] \in {"publish", "notify", "asleep_b"}
                <=> pc[c] \in {"publish", "notify", "asleep_b"}
           /\ pc'[c] = "publish" <=> pc[c] = "publish"
           /\ pc'[c] = "notify" <=> pc[c] = "notify"
  <2>1. DOMAIN idx = Bufs /\ DOMAIN write = Bufs
    BY Zenon, <1>1 DEF TypeOK
  <2> QED
    BY Zenon, <1>3, <2>1 DEF InRw
<1> HIDE DEF i
<1>7. ASSUME NEW g \in Desc, g \notin {i[1], i[2], i[3]}
      PROVE  desc'[g] = desc[g] /\ ops'[g] = ops[g] /\ info'[g] = info[g]
  <2>1. DOMAIN ops = Desc /\ DOMAIN info = Desc
    BY Zenon, <1>1 DEF TypeOK
  <2> QED
    BY Zenon, <1>3, <1>7, <2>1
<1>8. ASSUME NEW c \in Bufs, InRw(c), c # b, NEW k \in 1..3
      PROVE  /\ idx[c][k] \in Desc /\ idx[c][k] \notin {i[1], i[2], i[3]}
             /\ idx[c][k] \notin free
  BY <1>1, <1>3, <1>4, <1>8 DEF PcInv, OwnInv, i
<1>9. ASSUME NEW g \in Desc, Owned(g), bdisk[info[g].b]
      PROVE  /\ Owned(g)' /\ info'[g] = info[g] /\ info[g].b \in Bufs
             /\ info[g].b # b /\ pc'[info[g].b] = pc[info[g].b]
  <2>1. info[g].b \in Bufs /\ InRw(info[g].b) /\ idx[info[g].b][1] = g
    BY Zenon, <1>9 DEF Owned
  <2>2. info[g].b # b
    BY Zenon, <1>3, <1>9
  <2>3. info'[g] = info[g]
    BY <1>4, <1>7, <1>8, <2>1, <2>2
  <2> QED
    BY <1>6, <2>1, <2>2, <2>3 DEF Owned
<1>10. TypeOK'
  <2>1. free' \subseteq Desc
    BY <1>1, <1>3, <1>5 DEF TypeOK
  <2>2. idx' \in [Bufs -> {<<>>} \cup [1..3 -> Desc]]
    BY Zenon, <1>1, <1>3 DEF TypeOK
  <2>3. ops' \in [Desc -> [out : BOOLEAN, sector : Bufs \cup {None}]]
    <3>1. NoOp \in [out : BOOLEAN, sector : Bufs \cup {None}]
      BY Zenon DEF NoOp
    <3> QED
      BY Zenon, <1>1, <1>3, <3>1 DEF TypeOK
  <2>4. desc' \in [Desc -> [addr : Addrs, next : Desc, more : BOOLEAN]]
    <3>1. 0 \in Desc /\ <<"nowhere", None>> \in Addrs
      BY VirtioAssumption DEF Desc, Addrs
    <3>2. Blank \in [addr : Addrs, next : Desc, more : BOOLEAN]
      BY Zenon, <3>1 DEF Blank
    <3>3. desc \in [Desc -> [addr : Addrs, next : Desc, more : BOOLEAN]]
      BY Zenon, <1>1 DEF TypeOK
    <3> QED
      BY Zenon, <1>3, <3>2, <3>3
  <2>5. info' \in [Desc -> [b : Bufs \cup {None}, status : {0, 255}]]
    <3>1. info \in [Desc -> [b : Bufs \cup {None}, status : {0, 255}]]
      BY Zenon, <1>1 DEF TypeOK
    <3>2. info' = [info EXCEPT ![i[1]].b = None]
      BY Zenon, <1>3
    <3> QED
      BY ONLY <1>5, <3>1, <3>2
  <2>6. write' \in [Bufs -> BOOLEAN]
    BY Zenon, <1>1, <1>3 DEF TypeOK
  <2>7. pc' \in [Bufs -> PCs]
    BY <1>1, <1>3 DEF TypeOK, PCs
  <2> QED
    BY ZenonT(60), <1>1, <1>u, <2>1, <2>2, <2>3, <2>4, <2>5, <2>6, <2>7 DEF TypeOK
<1>11. PcInv'
  <2> SUFFICES ASSUME NEW c \in Bufs
               PROVE  /\ InRw(c)' => idx'[c] \in [1..3 -> Desc]
                      /\ ~InRw(c)' => idx'[c] = <<>> /\ ~bdisk'[c]
                      /\ lock' = c <=> pc'[c] \in {"publish", "notify"}
                      /\ pc'[c] \in {"publish", "notify", "asleep_b"} => bdisk'[c]
    BY Zenon DEF PcInv
  <2>1. lock # c
    BY Zenon, <1>3, VirtioAssumption
  <2>2. CASE c = b
    BY Zenon, <1>3, <1>6, <1>u, <2>1, <2>2
  <2>3. CASE c # b
    BY ZenonT(60), <1>1, <1>u, <1>6, <2>1, <2>3 DEF PcInv
  <2> QED
    BY Zenon, <2>2, <2>3
<1>12. ChainInv'
  <2> SUFFICES ASSUME NEW c \in Bufs, InRw(c)'
               PROVE  /\ idx'[c][1] # idx'[c][2] /\ idx'[c][1] # idx'[c][3]
                      /\ idx'[c][2] # idx'[c][3]
                      /\ ops'[idx'[c][1]] = Request(write'[c], c)
                      /\ desc'[idx'[c][1]] = OpDesc(idx'[c][1], idx'[c][2])
                      /\ desc'[idx'[c][2]] = DataDesc(c, idx'[c][3])
                      /\ desc'[idx'[c][3]] = StatusDesc(idx'[c][1])
                      /\ info'[idx'[c][1]].b = c
                      /\ info'[idx'[c][1]].status = 255 => bdisk'[c]
    BY ZenonT(60) DEF ChainInv
  <2>1. c # b /\ InRw(c) /\ idx'[c] = idx[c] /\ write'[c] = write[c]
    BY Zenon, <1>6
  <2>2. \A k \in 1..3 : /\ desc'[idx[c][k]] = desc[idx[c][k]]
                        /\ ops'[idx[c][k]] = ops[idx[c][k]]
                        /\ info'[idx[c][k]] = info[idx[c][k]]
    BY Zenon, <1>7, <1>8, <2>1
  <2> QED
    BY <1>1, <1>u, <1>4, <2>1, <2>2 DEF ChainInv
<1>13. OwnInv'
  <2>1. \A c \in Bufs : InRw(c)' => \A k \in 1..3 : idx'[c][k] \notin free'
    BY <1>3, <1>6, <1>8
  <2>2. \A c, d \in Bufs : InRw(c)' /\ InRw(d)' /\ c # d =>
          \A k, l \in 1..3 : idx'[c][k] # idx'[d][l]
    BY <1>1, <1>6 DEF OwnInv
  <2>3. ASSUME NEW g \in Desc
        PROVE  \/ g \in free'
               \/ \E c \in Bufs : InRw(c)' /\ \E k \in 1..3 : idx'[c][k] = g
    <3>1. CASE g \in free
      BY Zenon, <1>3, <3>1
    <3>2. CASE \E c \in Bufs : InRw(c) /\ \E k \in 1..3 : idx[c][k] = g
      <4>1. PICK c \in Bufs, k \in 1..3 : InRw(c) /\ idx[c][k] = g
        BY Zenon, <3>2
      <4>2. CASE c = b
        <5>1. k = 1 \/ k = 2 \/ k = 3
          OBVIOUS
        <5> QED
          BY Zenon, <1>3, <4>1, <4>2, <5>1 DEF i
      <4>3. CASE c # b
        BY Zenon, <1>6, <4>1, <4>3
      <4> QED
        BY Zenon, <4>2, <4>3
    <3> QED
      BY Zenon, <1>1, <3>1, <3>2 DEF OwnInv
  <2> QED
    BY Zenon, <2>1, <2>2, <2>3 DEF OwnInv
<1>14. ASSUME NEW g \in Desc, Owned(g), info[g].status = 255
       PROVE  bdisk[info[g].b]
  BY <1>1, <1>14, HeadRecords DEF Owned
<1>15. TakenInv'
  <2>1. taken \subseteq Desc
    BY Zenon, <1>1 DEF TypeOK
  <2> QED
    BY <1>1, <1>u, <1>9, <1>14, <2>1 DEF TakenInv
<1>16. RingInv(a, s, u, v)'
  <2>1. CountInv(a, s, u, v)'
    BY Zenon, <1>2, <1>u DEF RingInv, CountInv
  <2>2. AvailInv(a, s)'
    <3>1. ASSUME NEW g \in Desc, Waiting(g) PROVE Waiting(g)'
      <4>1. Owned(g) /\ info[g].status = 255
        BY Zenon, <3>1 DEF Waiting
      <4>2. bdisk[info[g].b]
        BY <1>14, <4>1
      <4> QED
        BY <1>u, <1>9, <3>1, <4>1, <4>2 DEF Waiting
    <3>2. ASSUME NEW c \in Bufs, pc'[c] = "publish" PROVE FALSE
      BY ZenonT(60), <1>1, <1>3, <1>6, <3>2, VirtioAssumption DEF PcInv
    <3>3. AvailInv(a, s) /\ avail' = avail
      BY Zenon, <1>2, <1>u DEF RingInv
    <3> QED
      BY <3>1, <3>2, <3>3 DEF AvailInv
  <2>3. UsedInv(u, v)'
    <3>1. ASSUME NEW g \in Desc, Reported(g) PROVE Reported(g)'
      BY Zenon, <1>u, <1>9, <3>1 DEF Reported
    <3> QED
      BY Zenon, <1>2, <1>u, <3>1 DEF RingInv, UsedInv
  <2>4. PlaceInv(a, s, u, v)'
    <3> SUFFICES ASSUME NEW c \in Bufs, InRw(c)', bdisk[c]
                 PROVE  IF info'[idx'[c][1]].status = 255
                        THEN \/ pc'[c] = "publish" \/ idx'[c][1] \in taken
                             \/ \E j \in s..(a - 1) :
                                  avail.ring[Cell(j)] = idx'[c][1]
                        ELSE \E j \in v..(u - 1) :
                               used.ring[Cell(j)] = idx'[c][1]
      BY <1>u DEF PlaceInv
    <3>1. c # b /\ InRw(c) /\ idx'[c] = idx[c] /\ pc'[c] = pc[c]
      BY Zenon, <1>6
    <3>2. info'[idx[c][1]] = info[idx[c][1]]
      BY Zenon, <1>4, <1>7, <1>8, <3>1
    <3> QED
      BY <1>2, <3>1, <3>2 DEF RingInv, PlaceInv
  <2> QED
    BY Zenon, <2>1, <2>2, <2>3, <2>4 DEF RingInv
<1>17. DataInv'
  BY <1>1, <1>3, <1>6 DEF DataInv
<1> QED
  BY Zenon, <1>10, <1>11, <1>12, <1>13, <1>15, <1>16, <1>17 DEF IInv

-----------------------------------------------------------------------------
(* The invariant holds.                                                    *)

\* virtio_disk_init() establishes the invariant: the four counts are those of
\* the requests that went before.
LEMMA VirtioInit == Init => IInv
<1> SUFFICES ASSUME Init PROVE IInv
  BY Zenon
<1>1. 0 \in Desc /\ FirstIdx \in Nat /\ FirstIdx \in 0..(IDXMOD - 1)
  BY VirtioAssumption DEF Desc
<1>2. \A b \in Bufs : /\ ~InRw(b) /\ idx[b] = <<>> /\ ~bdisk[b]
                      /\ pc[b] = "idle" /\ ~write[b] /\ lock # b
  BY Zenon, VirtioAssumption DEF Init, InRw
<1>3. TypeOK
  <2>1. Blank \in [addr : Addrs, next : Desc, more : BOOLEAN]
    BY Zenon, <1>1 DEF Blank, Addrs
  <2>2. desc \in [Desc -> [addr : Addrs, next : Desc, more : BOOLEAN]]
    BY Zenon, <2>1 DEF Init
  <2>3. ops \in [Desc -> [out : BOOLEAN, sector : Bufs \cup {None}]]
    BY Zenon DEF Init, NoOp
  <2>4. info \in [Desc -> [b : Bufs \cup {None}, status : {0, 255}]]
    BY Zenon DEF Init
  <2>5. /\ avail \in [ring : [Desc -> Desc], idx : 0..(IDXMOD - 1)]
        /\ used \in [ring : [Desc -> Desc], idx : 0..(IDXMOD - 1)]
    BY Zenon, <1>1 DEF Init
  <2>6. platter \in [Bufs -> Vals]
    BY Zenon, VirtioAssumption DEF Init
  <2>7. /\ pc \in [Bufs -> PCs] /\ write \in [Bufs -> BOOLEAN]
        /\ bdisk \in [Bufs -> BOOLEAN] /\ data \in [Bufs -> Vals \cup {Junk}]
        /\ idx \in [Bufs -> {<<>>} \cup [1..3 -> Desc]]
    BY Zenon DEF Init, PCs
  <2>8. calls \in Nat
    BY Zenon, VirtioAssumption DEF Init
  <2>9. /\ free \subseteq Desc /\ used_idx \in 0..(IDXMOD - 1)
        /\ seen \in 0..(IDXMOD - 1) /\ lock \in Bufs \cup {"intr", None}
        /\ taken \subseteq Desc
        /\ active \in BOOLEAN /\ raising \in BOOLEAN /\ isr \in BOOLEAN
    BY Zenon, <1>1 DEF Init
  <2> QED
    BY ZenonT(60), <2>2, <2>3, <2>4, <2>5, <2>6, <2>7, <2>8, <2>9 DEF TypeOK
<1>4. PcInv /\ ChainInv /\ OwnInv /\ DataInv
  <2>1. free = Desc
    BY Zenon DEF Init
  <2> QED
    BY Zenon, <1>2, <2>1 DEF PcInv, ChainInv, OwnInv, DataInv
<1>5. TakenInv
  BY Zenon DEF Init, TakenInv
<1>6. RingInv(FirstIdx, FirstIdx, FirstIdx, FirstIdx)
  <2>1. Lap(FirstIdx) = FirstIdx
    BY <1>1, VirtioAssumption DEF Lap
  <2>2. /\ avail.idx = FirstIdx /\ seen = FirstIdx
        /\ used.idx = FirstIdx /\ used_idx = FirstIdx
    BY Zenon DEF Init
  <2>3. CountInv(FirstIdx, FirstIdx, FirstIdx, FirstIdx)
    BY <1>1, <2>1, <2>2, VirtioAssumption DEF CountInv
  <2>4. FirstIdx..(FirstIdx - 1) = {}
    BY <1>1
  <2> QED
    BY <1>1, <1>2, <2>3, <2>4 DEF RingInv, AvailInv, UsedInv, PlaceInv
<1> QED
  BY Zenon, <1>1, <1>3, <1>4, <1>5, <1>6 DEF IInv

\* Nothing happens: the invariant stays.
LEMMA VirtioStutters ==
  ASSUME IInv, UNCHANGED vars
  PROVE  IInv'
<1>1. UNCHANGED <<free, desc, ops, info, avail, used, used_idx, bdisk, data,
                  platter, lock, calls, pc, write, idx, seen, taken, active,
                  raising, isr>>
  BY Zenon DEF vars, tables, rings, bufs, procs, device
<1>2. TypeOK' /\ DataInv'
  BY Zenon, <1>1 DEF IInv, TypeOK, DataInv
<1>3. \A c \in Bufs : /\ InRw(c)' <=> InRw(c)
                      /\ pc'[c] = "asleep_b" => bdisk[c]
  BY Zenon, <1>1 DEF IInv, PcInv, InRw
<1> QED
  BY Zenon, <1>1, <1>2, <1>3, PcOnly

\* Every step of a process, of the handler and of the device keeps the
\* invariant.
LEMMA VirtioStep == IInv /\ [Next]_vars => IInv'
<1> SUFFICES ASSUME IInv, [Next]_vars PROVE IInv'
  BY Zenon
<1>1. ASSUME NEW b \in Bufs, \/ \E v \in Vals, w \in BOOLEAN : Call(b, v, w)
                             \/ Rw(b) \/ Kill(b)
      PROVE  IInv'
  BY Zenon, <1>1, CallKeeps, SubmitKeeps, SubmitFailsKeeps, PublishKeeps, NotifyKeeps,
     SleepAgainKeeps, FinishKeeps, KillKeeps, RoomInRing DEF Rw
<1>2. CASE Intr
  BY Zenon, <1>2, IntrAckKeeps, IntrWalkKeeps, IntrReturnKeeps DEF Intr
<1>3. CASE Device
  BY Zenon, <1>3, DevTakeKeeps, DevRestKeeps, DevRaiseKeeps, DevDoneKeeps, RoomInRing
     DEF Device
<1>4. CASE UNCHANGED vars
  BY Zenon, <1>4, VirtioStutters
<1> QED
  BY Zenon, <1>1, <1>2, <1>3, <1>4 DEF Next

\* The inductive invariant of the driver, the handler and the device: it
\* follows each request from the process to the available ring, the device,
\* the used ring and back, across any number of wraps of the ring indices.
THEOREM VirtioInvariant == Spec => []IInv
BY VirtioInit, VirtioStep, PTL DEF Spec

-----------------------------------------------------------------------------
(* What the handler reads.                                                 *)

\* The difference of two ring indices, taken modulo 2^16, is the difference
\* of the counts.
LEMMA LapDiff ==
  ASSUME NEW j \in Nat, NEW k \in Nat, j <= k, k < j + NUM
  PROVE  (Lap(k) + IDXMOD - Lap(j)) % IDXMOD = k - j
<1> DEFINE q == j \div IDXMOD
           r == j % IDXMOD
           d == k - j
<1>1. IDXMOD \in Nat \ {0} /\ NUM \in Nat /\ NUM <= IDXMOD
  BY Zenon, VirtioAssumption, Turns
<1>2. q \in Nat /\ r \in 0..(IDXMOD - 1) /\ j = (IDXMOD * q) + r
  BY Zenon, <1>1, DivMod
<1>3. d \in 0..(IDXMOD - 1) /\ k = (IDXMOD * q) + (r + d)
  BY <1>1, <1>2
<1>4. Lap(j) = r /\ Lap(k) = k % IDXMOD
  BY Zenon DEF Lap
<1> HIDE DEF q, r, d
<1>5. CASE r + d < IDXMOD
  <2>1. k % IDXMOD = r + d
    BY <1>1, <1>2, <1>3, <1>5, ModUnique
  <2>2. (r + d) + IDXMOD - r = (IDXMOD * 1) + d
    BY <1>1, <1>2, <1>3
  <2>3. ((r + d) + IDXMOD - r) % IDXMOD = d
    <3>1. (r + d) + IDXMOD - r \in Nat
      BY <1>1, <1>2, <1>3
    <3> QED
      BY Zenon, <1>1, <1>3, <2>2, <3>1, ModUnique
  <2> QED
    BY Zenon, <1>4, <2>1, <2>3 DEF d
<1>6. CASE r + d >= IDXMOD
  <2>1. IDXMOD * (q + 1) = (IDXMOD * q) + IDXMOD /\ q + 1 \in Nat
    BY <1>1, <1>2
  <2>2. (r + d) - IDXMOD \in 0..(IDXMOD - 1)
    BY <1>1, <1>2, <1>3, <1>6
  <2>3. k = (IDXMOD * (q + 1)) + ((r + d) - IDXMOD)
    BY <1>1, <1>2, <1>3, <2>1
  <2>4. k % IDXMOD = (r + d) - IDXMOD
    BY Zenon, <1>1, <2>1, <2>2, <2>3, ModUnique
  <2>5. ((r + d) - IDXMOD) + IDXMOD - r = d
    BY <1>1, <1>2, <1>3
  <2>6. d % IDXMOD = d
    BY <1>1, <1>3
  <2> QED
    BY Zenon, <1>4, <2>4, <2>5, <2>6 DEF d
<1> QED
  BY <1>1, <1>2, <1>3, <1>5, <1>6

\* A ring index is at its distance, modulo 2^16, from another.
LEMMA LapBack ==
  ASSUME NEW j \in Nat, NEW i \in 0..(IDXMOD - 1)
  PROVE  /\ (i + IDXMOD - Lap(j)) % IDXMOD \in Nat
         /\ Lap(j + ((i + IDXMOD - Lap(j)) % IDXMOD)) = i
<1> DEFINE q == j \div IDXMOD
           r == j % IDXMOD
<1>1. IDXMOD \in Nat \ {0}
  BY Zenon, VirtioAssumption
<1>2. q \in Nat /\ r \in 0..(IDXMOD - 1) /\ j = (IDXMOD * q) + r
  BY Zenon, <1>1, DivMod
<1>3. Lap(j) = r
  BY Zenon DEF Lap
<1> HIDE DEF q, r
<1>4. CASE r <= i
  <2>1. i - r \in 0..(IDXMOD - 1) /\ i + IDXMOD - r \in Nat
    BY <1>1, <1>2, <1>4
  <2>2. i + IDXMOD - r = (IDXMOD * 1) + (i - r)
    BY <1>1, <1>2
  <2>3. (i + IDXMOD - r) % IDXMOD = i - r
    BY Zenon, <1>1, <2>1, <2>2, ModUnique
  <2>4. j + (i - r) = (IDXMOD * q) + i /\ j + (i - r) \in Nat
    BY <1>1, <1>2, <1>4
  <2>5. (j + (i - r)) % IDXMOD = i
    BY Zenon, <1>1, <1>2, <2>4, ModUnique
  <2> QED
    BY <1>3, <2>1, <2>3, <2>5 DEF Lap
<1>5. CASE i < r
  <2>1. i + IDXMOD - r \in 0..(IDXMOD - 1)
    BY <1>1, <1>2, <1>5
  <2>2. (i + IDXMOD - r) % IDXMOD = i + IDXMOD - r
    BY <1>1, <2>1
  <2>3. IDXMOD * (q + 1) = (IDXMOD * q) + IDXMOD /\ q + 1 \in Nat
    BY <1>1, <1>2
  <2>4. /\ j + (i + IDXMOD - r) = (IDXMOD * (q + 1)) + i
        /\ j + (i + IDXMOD - r) \in Nat
    BY <1>1, <1>2, <2>3
  <2>5. (j + (i + IDXMOD - r)) % IDXMOD = i
    BY Zenon, <1>1, <2>3, <2>4, ModUnique
  <2> QED
    BY <1>3, <2>1, <2>2, <2>5 DEF Lap
<1> QED
  BY <1>1, <1>2, <1>4, <1>5

\* The entries the handler has still to read are those of the requests that
\* were reported and not handled.
LEMMA UnreadIs ==
  ASSUME NEW u \in Nat, NEW v \in Nat, v <= u, u - v < NUM,
         used.idx = Lap(u), used_idx = Lap(v)
  PROVE  Unread = {used.ring[Cell(j)] : j \in v..(u - 1)}
<1> DEFINE Dist(i) == (i + IDXMOD - used_idx) % IDXMOD
           I == {i \in 0..(IDXMOD - 1) : Dist(i) < Dist(used.idx)}
<1>1. NUM \in Nat /\ IDXMOD \in Nat \ {0}
  BY Zenon, VirtioAssumption
<1>2. Dist(used.idx) = u - v
  BY <1>1, LapDiff
<1>3. ASSUME NEW j \in v..(u - 1)
      PROVE  Lap(j) \in I /\ used.ring[Lap(j) % NUM] = used.ring[Cell(j)]
  <2>1. j \in Nat /\ v <= j /\ j < v + NUM /\ j - v < u - v
    BY <1>1
  <2>2. Dist(Lap(j)) = j - v
    BY Zenon, <2>1, LapDiff
  <2> QED
    BY Zenon, <1>2, <2>1, <2>2, CellType, LapCell
<1>4. ASSUME NEW i \in I
      PROVE  \E j \in v..(u - 1) : used.ring[i % NUM] = used.ring[Cell(j)]
  <2>1. Dist(i) \in Nat /\ Lap(v + Dist(i)) = i
    BY Zenon, LapBack
  <2>2. Dist(i) < u - v
    BY Zenon, <1>2
  <2>3. v + Dist(i) \in v..(u - 1) /\ v + Dist(i) \in Nat
    <3> HIDE DEF Dist
    <3> QED
      BY <2>1, <2>2
  <2>4. i % NUM = Cell(v + Dist(i))
    <3> HIDE DEF Dist
    <3> QED
      BY Zenon, <2>1, <2>3, LapCell
  <2> QED
    BY Zenon, <2>3, <2>4
<1>5. Unread = {used.ring[i % NUM] : i \in I}
  BY Zenon DEF Unread
<1> QED
  BY Zenon, <1>3, <1>4, <1>5

-----------------------------------------------------------------------------
(* The theorems.                                                           *)

\* Every descriptor is free or held by one process.
LEMMA InvDescriptors == IInv => DescriptorsAccounted
<1> SUFFICES ASSUME IInv PROVE DescriptorsAccounted
  BY Zenon
<1>1. TypeOK /\ PcInv /\ OwnInv
  BY Zenon DEF IInv
<1>2. ASSUME NEW b \in Bufs, InRw(b)
      PROVE  Held(b) = {idx[b][k] : k \in 1..3} /\ Held(b) \subseteq Desc
  <2>1. idx[b] \in [1..3 -> Desc]
    BY Zenon, <1>1, <1>2 DEF PcInv
  <2>2. DOMAIN idx[b] = 1..3
    BY Zenon, <2>1
  <2> QED
    BY Zenon, <2>1, <2>2 DEF Held
<1>3. ASSUME NEW b \in Bufs, ~InRw(b) PROVE Held(b) = {}
  <2>1. DOMAIN idx[b] = {}
    BY <1>1, <1>3 DEF PcInv
  <2> QED
    BY Zenon, <2>1 DEF Held
<1>4. \A b \in Bufs : Held(b) \cap free = {}
  BY <1>1, <1>2, <1>3 DEF OwnInv
<1>5. ASSUME NEW b \in Bufs, NEW c \in Bufs, b # c
      PROVE  Held(b) \cap Held(c) = {}
  BY <1>1, <1>2, <1>3, <1>5 DEF OwnInv
<1>6. free \cup UNION {Held(b) : b \in Bufs} = Desc
  <2>1. free \cup UNION {Held(b) : b \in Bufs} \subseteq Desc
    BY <1>1, <1>2, <1>3 DEF TypeOK
  <2>2. ASSUME NEW g \in Desc
        PROVE  g \in free \cup UNION {Held(b) : b \in Bufs}
    <3>1. CASE g \in free
      BY Zenon, <3>1
    <3>2. CASE \E b \in Bufs, k \in 1..3 : InRw(b) /\ idx[b][k] = g
      <4>1. PICK b \in Bufs, k \in 1..3 : InRw(b) /\ idx[b][k] = g
        BY Zenon, <3>2
      <4>2. g \in Held(b)
        BY Zenon, <1>2, <4>1
      <4> QED
        BY Zenon, <4>2
    <3> QED
      BY Zenon, <1>1, <3>1, <3>2 DEF OwnInv
  <2> QED
    BY Zenon, <2>1, <2>2
<1> QED
  BY Zenon, <1>4, <1>5, <1>6 DEF DescriptorsAccounted

\* The handler's entries name requests that are complete and waited for.
LEMMA InvUsed == IInv => UsedNamesItsOwner
<1> SUFFICES ASSUME IInv, NEW h \in Unread
             PROVE  /\ info[h].status = 0 /\ info[h].b # None
                    /\ idx[info[h].b][1] = h /\ bdisk[info[h].b]
  BY Zenon DEF UsedNamesItsOwner
<1>1. PICK a \in Nat, s \in Nat, u \in Nat, v \in Nat : RingInv(a, s, u, v)
  BY Zenon DEF IInv
<1>2. Unread = {used.ring[Cell(j)] : j \in v..(u - 1)}
  BY Zenon, <1>1, UnreadIs DEF RingInv, CountInv
<1>3. Reported(h)
  BY Zenon, <1>1, <1>2, UsedEntry DEF RingInv, IInv
<1> QED
  BY Zenon, <1>3, VirtioAssumption DEF Reported, Owned

\* The request of a sleeping process is on its way.
LEMMA InvCompletion == IInv => NoLostCompletion
<1> SUFFICES ASSUME IInv, NEW b \in Bufs, pc[b] = "asleep_b", bdisk[b]
             PROVE  \/ idx[b][1] \in taken
                    \/ /\ active
                       /\ \E i \in Desc : avail.ring[i] = idx[b][1]
                       /\ seen # avail.idx
                    \/ /\ idx[b][1] \in Unread
                       /\ raising \/ isr \/ lock = "intr"
  BY Zenon DEF NoLostCompletion
<1>1. TypeOK /\ PcInv /\ ChainInv
  BY Zenon DEF IInv
<1>2. PICK a \in Nat, s \in Nat, u \in Nat, v \in Nat : RingInv(a, s, u, v)
  BY Zenon DEF IInv
<1>3. Unread = {used.ring[Cell(j)] : j \in v..(u - 1)}
  BY Zenon, <1>2, UnreadIs DEF RingInv, CountInv
<1>4. InRw(b) /\ info[idx[b][1]].b = b
  BY Zenon, <1>1, HeadRecords DEF InRw
<1>5. CASE info[idx[b][1]].status = 255
  <2>1. CASE idx[b][1] \in taken
    BY Zenon, <2>1
  <2>2. CASE \E j \in s..(a - 1) : avail.ring[Cell(j)] = idx[b][1]
    <3>1. PICK j \in s..(a - 1) : avail.ring[Cell(j)] = idx[b][1]
      BY Zenon, <2>2
    <3>2. Waiting(idx[b][1])
      BY Zenon, <1>1, <1>2, <3>1, AvailEntry DEF RingInv
    <3>3. active
      BY Zenon, <1>4, <3>2 DEF Waiting
    <3>4. s < a /\ j \in Nat /\ a < s + NUM
      BY <1>2, VirtioAssumption DEF RingInv, CountInv
    <3>5. Lap(s) # Lap(a)
      BY <3>4, LapApart
    <3> QED
      BY Zenon, <1>2, <3>1, <3>3, <3>4, <3>5, CellType DEF RingInv, CountInv
  <2> QED
    BY Zenon, <1>2, <1>4, <1>5, <2>1, <2>2 DEF RingInv, PlaceInv
<1>6. CASE info[idx[b][1]].status # 255
  <2>1. PICK j \in v..(u - 1) : used.ring[Cell(j)] = idx[b][1]
    BY Zenon, <1>2, <1>4, <1>6 DEF RingInv, PlaceInv
  <2>2. v < u
    OBVIOUS
  <2> QED
    BY Zenon, <1>2, <1>3, <2>1, <2>2 DEF RingInv, UsedInv
<1> QED
  BY Zenon, <1>5, <1>6

\* virtio_disk_rw(), virtio_disk_intr() and the device agree on every request:
\* no descriptor is lost or handed out twice, the handler completes the request
\* of the right buffer (none of its panics), and a process never sleeps on a
\* request whose completion nobody will report.
THEOREM VirtioRequests == Spec => []RequestsAccounted
<1>1. IInv => RequestsAccounted
  BY Zenon, InvDescriptors, InvUsed, InvCompletion DEF RequestsAccounted, IInv
<1> QED
  BY <1>1, VirtioInvariant, PTL

-----------------------------------------------------------------------------
(* The driver implements BlockDevice.                                      *)

\* The state of the call on b, as the cache sees it.
Done(b) == InRw(b) /\ info[idx[b][1]].status = 0

CallOf(b) == IF pc[b] = "idle" THEN "none"
             ELSE IF Done(b) THEN "done"
             ELSE IF write[b] THEN "write" ELSE "read"

CallsSeen == CallStates = [b \in Bufs |-> CallOf(b)]

\* It is the state BlockDevice is given.
LEMMA CallIs == IInv => CallsSeen
<1> SUFFICES ASSUME PcInv, ChainInv PROVE CallsSeen
  BY Zenon DEF IInv
<1>1. ASSUME NEW b \in Bufs
      PROVE  (idx[b] # <<>> /\ info[idx[b][1]].b = b /\ info[idx[b][1]].status = 0)
               <=> Done(b)
  <2>1. CASE InRw(b)
    <3>1. idx[b] \in [1..3 -> Desc] /\ info[idx[b][1]].b = b
      BY Zenon, <2>1 DEF PcInv, ChainInv
    <3>2. idx[b] # <<>>
      BY <3>1
    <3> QED
      BY Zenon, <2>1, <3>1, <3>2 DEF Done
  <2>2. CASE ~InRw(b)
    BY Zenon, <2>2 DEF PcInv, Done
  <2> QED
    BY Zenon, <2>1, <2>2
<1> QED
  BY Zenon, <1>1 DEF CallsSeen, CallStates, CallOf

\* Before and after a step.
LEMMA CallsAre ==
  ASSUME IInv, IInv'
  PROVE  /\ CallStates = [c \in Bufs |-> CallOf(c)]
         /\ CallStates' = [c \in Bufs |-> CallOf(c)']
<1>1. IInv' => CallsSeen'
  BY CallIs, PTL
<1> QED
  BY Zenon, <1>1, CallIs DEF CallsSeen

\* A step that neither completes nor starts nor ends a request does not show.
LEMMA CallsSame ==
  ASSUME UNCHANGED <<idx, info, write>>,
         \A c \in Bufs : /\ pc'[c] = "idle" <=> pc[c] = "idle"
                         /\ InRw(c)' <=> InRw(c)
  PROVE  \A c \in Bufs : CallOf(c)' = CallOf(c)
BY Zenon DEF CallOf, Done

\* Calling virtio_disk_rw() starts a call.
LEMMA CallStarts ==
  ASSUME IInv, IInv', NEW b \in Bufs, NEW v \in Vals, NEW w \in BOOLEAN,
         Call(b, v, w)
  PROVE  Abstract!Next
<1>1. /\ CallStates = [c \in Bufs |-> CallOf(c)]
      /\ CallStates' = [c \in Bufs |-> CallOf(c)']
  BY Zenon, CallsAre
<1>2. /\ pc[b] = "idle" /\ pc' = [pc EXCEPT ![b] = "enter"]
      /\ write' = [write EXCEPT ![b] = w]
      /\ data' = [data EXCEPT ![b] = IF w THEN v ELSE Junk]
      /\ UNCHANGED <<idx, info, platter>>
  BY Zenon DEF Call, Goto, tables
<1>3. DOMAIN pc = Bufs /\ DOMAIN write = Bufs
  BY Zenon DEF IInv, TypeOK
<1>4. CallOf(b) = "none" /\ CallOf(b)' = IF w THEN "write" ELSE "read"
  BY Zenon, <1>2, <1>3 DEF CallOf, Done, InRw
<1>5. \A c \in Bufs : c # b => CallOf(c)' = CallOf(c)
  BY Zenon, <1>2, <1>3 DEF CallOf, Done, InRw
<1>6. CallStates' = [CallStates EXCEPT ![b] = IF w THEN "write" ELSE "read"]
  BY Zenon, <1>1, <1>4, <1>5
<1>7. Abstract!Start(b, v, w)
  BY Zenon, <1>1, <1>2, <1>4, <1>6 DEF Abstract!Start
<1> QED
  BY Zenon, <1>7 DEF Abstract!Next

\* The device's completion is the transfer of the block.
LEMMA DevDoneTransfers ==
  ASSUME IInv, IInv', NEW h \in Desc, DevDone(h)
  PROVE  Abstract!Next
<1>1. /\ CallStates = [c \in Bufs |-> CallOf(c)]
      /\ CallStates' = [c \in Bufs |-> CallOf(c)']
  BY Zenon, CallsAre
<1>2. TypeOK /\ PcInv /\ ChainInv /\ OwnInv /\ TakenInv
  BY Zenon DEF IInv
<1>3. PICK b \in Bufs :
        /\ InRw(b) /\ idx[b][1] = h /\ info[h].status = 255
        /\ IF write[b]
           THEN platter' = [platter EXCEPT ![b] = data[b]] /\ data' = data
           ELSE data' = [data EXCEPT ![b] = platter[b]] /\ platter' = platter
        /\ info' = [info EXCEPT ![h].status = 0]
        /\ UNCHANGED <<pc, write, idx>>
  <2> DEFINE c == info[h].b
  <2>1. /\ c \in Bufs /\ InRw(c) /\ idx[c][1] = h /\ info[h].status = 255
        /\ IF write[c]
           THEN platter' = [platter EXCEPT ![c] = data[c]] /\ data' = data
           ELSE data' = [data EXCEPT ![c] = platter[c]] /\ platter' = platter
        /\ info' = [info EXCEPT ![h].status = 0]
        /\ UNCHANGED <<pc, write, idx>>
    BY ZenonT(60), <1>2, DevDoneDoes
  <2> HIDE DEF c
  <2> QED
    BY Zenon, <2>1
<1>4. info'[h].status = 0 /\ \A g \in Desc : g # h => info'[g] = info[g]
  <2>1. info \in [Desc -> [b : Bufs \cup {None}, status : {0, 255}]]
    BY Zenon, <1>2 DEF TypeOK
  <2>2. info' = [info EXCEPT ![h].status = 0]
    BY Zenon, <1>3
  <2> QED
    BY ONLY <2>1, <2>2, h \in Desc
<1>u. UNCHANGED <<pc, write, idx>> /\ \A c \in Bufs : InRw(c)' <=> InRw(c)
  BY Zenon, <1>3 DEF InRw
<1>5. CallOf(b) = (IF write[b] THEN "write" ELSE "read") /\ CallOf(b)' = "done"
  BY <1>3, <1>4, <1>u DEF CallOf, Done, InRw
<1>6. ASSUME NEW c \in Bufs, c # b PROVE CallOf(c)' = CallOf(c)
  <2>1. CASE InRw(c)
    <3>1. idx[c][1] \in Desc /\ idx[c][1] # h
      BY <1>2, <1>3, <1>6, <2>1 DEF PcInv, OwnInv
    <3> QED
      BY Zenon, <1>4, <1>u, <3>1 DEF CallOf, Done
  <2>2. CASE ~InRw(c)
    BY Zenon, <1>u, <2>2 DEF CallOf, Done
  <2> QED
    BY Zenon, <2>1, <2>2
<1>7. CallStates' = [CallStates EXCEPT ![b] = "done"]
  BY Zenon, <1>1, <1>5, <1>6
<1>8. CallStates[b] = IF write[b] THEN "write" ELSE "read"
  BY Zenon, <1>1, <1>5
<1>9. Abstract!Transfer(b)
  BY ZenonT(60), <1>3, <1>7, <1>8 DEF Abstract!Transfer
<1> QED
  BY Zenon, <1>9 DEF Abstract!Next

\* Freeing the descriptors and returning ends the call.
LEMMA FinishReturns ==
  ASSUME IInv, IInv', NEW b \in Bufs, Finish(b)
  PROVE  Abstract!Next
<1>1. /\ CallStates = [c \in Bufs |-> CallOf(c)]
      /\ CallStates' = [c \in Bufs |-> CallOf(c)']
  BY Zenon, CallsAre
<1>2. TypeOK /\ PcInv /\ ChainInv /\ OwnInv
  BY Zenon DEF IInv
<1>3. /\ pc[b] = "relock" /\ ~bdisk[b] /\ InRw(b)
      /\ info' = [info EXCEPT ![idx[b][1]].b = None]
      /\ idx' = [idx EXCEPT ![b] = <<>>]
      /\ write' = [write EXCEPT ![b] = FALSE]
      /\ pc' = [c \in Bufs |-> IF c = b THEN "idle"
                  ELSE IF pc[c] = "asleep_free" THEN "enter" ELSE pc[c]]
      /\ UNCHANGED <<data, platter>>
  BY Zenon, <1>2, FinishDoes
<1>4. idx[b][1] \in Desc
  BY <1>2, <1>3 DEF PcInv
<1>5. CallOf(b) = "done" /\ CallOf(b)' = "none"
  <2>1. info[idx[b][1]].status \in {0, 255}
    BY <1>2, <1>4 DEF TypeOK
  <2>2. info[idx[b][1]].status # 255
    BY Zenon, <1>2, <1>3 DEF ChainInv
  <2> QED
    BY Zenon, <1>3, <2>1, <2>2 DEF CallOf, Done
<1>6. ASSUME NEW c \in Bufs, c # b PROVE CallOf(c)' = CallOf(c)
  <2>1. DOMAIN idx = Bufs /\ DOMAIN write = Bufs /\ DOMAIN info = Desc
    BY Zenon, <1>2 DEF TypeOK
  <2>2. /\ idx'[c] = idx[c] /\ write'[c] = write[c] /\ (InRw(c)' <=> InRw(c))
        /\ pc'[c] = "idle" <=> pc[c] = "idle"
    BY Zenon, <1>3, <1>6, <2>1 DEF InRw
  <2>3. CASE InRw(c)
    <3>1. idx[c][1] \in Desc /\ idx[c][1] # idx[b][1]
      BY <1>2, <1>3, <1>6, <2>3 DEF PcInv, OwnInv
    <3>2. info'[idx[c][1]] = info[idx[c][1]]
      BY Zenon, <1>3, <2>1, <3>1
    <3> QED
      BY Zenon, <2>2, <3>2 DEF CallOf, Done
  <2>4. CASE ~InRw(c)
    BY Zenon, <2>2, <2>4 DEF CallOf, Done
  <2> QED
    BY Zenon, <2>3, <2>4
<1>7. CallStates' = [CallStates EXCEPT ![b] = "none"] /\ CallStates[b] = "done"
  BY Zenon, <1>1, <1>5, <1>6
<1>8. Abstract!Return(b)
  BY Zenon, <1>3, <1>7 DEF Abstract!Return
<1> QED
  BY Zenon, <1>8 DEF Abstract!Next

\* Taking descriptors and writing the chain does not show: the status byte
\* of the new request is not 0, and the others keep theirs.
LEMMA SubmitHidden ==
  ASSUME IInv, IInv', NEW b \in Bufs, Submit(b)
  PROVE  \A c \in Bufs : CallOf(c)' = CallOf(c)
<1>1. TypeOK /\ PcInv /\ OwnInv
  BY Zenon DEF IInv
<1> DEFINE h == Lowest3[1]
<1>2. /\ pc[b] = "enter" /\ Cardinality(free) >= 3
      /\ idx' = [idx EXCEPT ![b] = Lowest3]
      /\ info' = [info EXCEPT ![h] = [b |-> b, status |-> 255]]
      /\ pc' = [pc EXCEPT ![b] = "publish"] /\ UNCHANGED write
  BY Zenon DEF Submit, Goto
<1>3. h \in free /\ h \in Desc
  BY <1>1, <1>2, ThreeFree DEF TypeOK
<1>4. DOMAIN idx = Bufs /\ DOMAIN info = Desc /\ DOMAIN pc = Bufs
  BY Zenon, <1>1 DEF TypeOK
<1>5. idx'[b] = Lowest3 /\ pc'[b] = "publish" /\ info'[h].status = 255
  BY Zenon, <1>2, <1>3, <1>4
<1>6. CallOf(b)' = CallOf(b)
  <2>1. idx'[b][1] = h
    BY Zenon, <1>5
  <2>2. ~Done(b) /\ ~Done(b)'
    BY <1>2, <1>5, <2>1 DEF Done, InRw
  <2> QED
    BY Zenon, <1>2, <1>5, <2>2 DEF CallOf
<1>7. ASSUME NEW c \in Bufs, c # b PROVE CallOf(c)' = CallOf(c)
  <2>1. idx'[c] = idx[c] /\ pc'[c] = pc[c] /\ write'[c] = write[c]
    BY Zenon, <1>2, <1>4, <1>7
  <2>2. CASE InRw(c)
    <3>1. idx[c][1] \in Desc /\ idx[c][1] # h
      BY <1>1, <1>3, <2>2 DEF PcInv, OwnInv
    <3>2. info'[idx[c][1]] = info[idx[c][1]]
      BY Zenon, <1>2, <1>4, <3>1
    <3> QED
      BY Zenon, <2>1, <3>2 DEF CallOf, Done, InRw
  <2>3. CASE ~InRw(c)
    BY Zenon, <2>1, <2>3 DEF CallOf, Done, InRw
  <2> QED
    BY Zenon, <2>2, <2>3
<1> QED
  BY Zenon, <1>6, <1>7

\* The other steps of virtio_disk_rw(), and kill(), do not show.
LEMMA RwHidden ==
  ASSUME IInv, NEW b \in Bufs,
         \/ SubmitFails(b) \/ Publish(b) \/ Notify(b) \/ SleepAgain(b) \/ Kill(b)
  PROVE  /\ UNCHANGED <<data, platter>>
         /\ \A c \in Bufs : CallOf(c)' = CallOf(c)
<1>1. DOMAIN pc = Bufs
  BY Zenon DEF IInv, TypeOK
<1>2. UNCHANGED <<idx, info, write, data, platter>>
  BY Zenon DEF SubmitFails, Publish, Notify, SleepAgain, Kill, tables, bufs
<1>3. \A c \in Bufs : /\ pc'[c] = "idle" <=> pc[c] = "idle"
                      /\ InRw(c)' <=> InRw(c)
  <2>1. CASE SubmitFails(b)
    BY Zenon, <1>1, <2>1 DEF SubmitFails, GiveBack, WakeFreeAndGoto, Goto, InRw
  <2>2. CASE Publish(b) \/ Notify(b)
    BY Zenon, <1>1, <2>2 DEF Publish, Notify, Goto, InRw
  <2>3. CASE SleepAgain(b)
    BY Zenon, <1>1, <2>3 DEF SleepAgain, Goto, InRw
  <2>4. CASE Kill(b)
    BY Zenon, <1>1, <2>4 DEF Kill, Goto, InRw
  <2> QED
    BY Zenon, <2>1, <2>2, <2>3, <2>4
<1> QED
  BY Zenon, <1>2, <1>3, CallsSame

\* The handler, and the device before and after the transfer, do not show.
LEMMA IntrHidden ==
  ASSUME IInv, Intr \/ DevTake \/ DevRest \/ DevRaise
  PROVE  /\ UNCHANGED <<data, platter>>
         /\ \A c \in Bufs : CallOf(c)' = CallOf(c)
<1>1. DOMAIN pc = Bufs
  BY Zenon DEF IInv, TypeOK
<1>2. UNCHANGED <<idx, info, write, data, platter>>
  BY Zenon DEF Intr, IntrAck, IntrWalk, IntrReturn, DevTake, DevRest, DevRaise,
         tables, bufs, procs
<1>3. \A c \in Bufs : /\ pc'[c] = "idle" <=> pc[c] = "idle"
                      /\ InRw(c)' <=> InRw(c)
  <2>1. CASE IntrWalk
    BY Zenon, <1>1, <2>1 DEF IntrWalk, Complete, InRw
  <2>2. CASE ~IntrWalk
    <3>1. UNCHANGED pc
      BY Zenon, <2>2 DEF Intr, IntrAck, IntrReturn, DevTake, DevRest, DevRaise, procs
    <3> QED
      BY Zenon, <3>1 DEF InRw
  <2> QED
    BY Zenon, <2>1, <2>2
<1> QED
  BY Zenon, <1>2, <1>3, CallsSame

\* The driver promises the buffer cache what BlockDevice says: each call of
\* virtio_disk_rw() transfers its own block, exactly once, between the call and
\* the return, however requests overlap and in whatever order the device
\* completes them.
THEOREM VirtioRefines == Spec => RefinesBlockDevice
<1>1. Init => Abstract!Init
  <2> SUFFICES ASSUME Init PROVE Abstract!Init
    BY Zenon
  <2>1. platter \in [Bufs -> Vals]
    BY Zenon, VirtioInit DEF IInv, TypeOK
  <2>2. CallStates = [b \in Bufs |-> "none"]
    BY Zenon DEF Init, CallStates
  <2> QED
    BY Zenon, <2>1, <2>2 DEF Init, Abstract!Init
<1>2. IInv /\ IInv' /\ [Next]_vars => [Abstract!Next]_(Abstract!dvars)
  <2> SUFFICES ASSUME IInv, IInv', [Next]_vars
               PROVE  [Abstract!Next]_(Abstract!dvars)
    BY Zenon
  <2>1. ASSUME UNCHANGED <<data, platter>>,
               \A c \in Bufs : CallOf(c)' = CallOf(c)
        PROVE  UNCHANGED Abstract!dvars
    BY Zenon, <2>1, CallsAre DEF Abstract!dvars
  <2>2. ASSUME NEW b \in Bufs, \/ \E v \in Vals, w \in BOOLEAN : Call(b, v, w)
                               \/ Rw(b) \/ Kill(b)
        PROVE  [Abstract!Next]_(Abstract!dvars)
    <3>1. CASE \E v \in Vals, w \in BOOLEAN : Call(b, v, w)
      BY Zenon, <3>1, CallStarts
    <3>2. CASE Finish(b)
      BY Zenon, <3>2, FinishReturns
    <3>3. CASE Submit(b)
      <4>1. UNCHANGED <<data, platter>>
        BY Zenon, <3>3 DEF Submit
      <4> QED
        BY Zenon, <2>1, <3>3, <4>1, SubmitHidden
    <3>4. CASE \/ SubmitFails(b) \/ Publish(b) \/ Notify(b) \/ SleepAgain(b)
               \/ Kill(b)
      BY Zenon, <2>1, <3>4, RwHidden
    <3> QED
      BY Zenon, <2>2, <3>1, <3>2, <3>3, <3>4 DEF Rw
  <2>3. ASSUME NEW h \in Desc, DevDone(h)
        PROVE  [Abstract!Next]_(Abstract!dvars)
    BY Zenon, <2>3, DevDoneTransfers
  <2>4. CASE Intr \/ DevTake \/ DevRest \/ DevRaise
    BY Zenon, <2>1, <2>4, IntrHidden
  <2>5. CASE UNCHANGED vars
    BY Zenon, <2>5 DEF vars, tables, bufs, procs, Abstract!dvars, CallStates
  <2> QED
    BY Zenon, <2>2, <2>3, <2>4, <2>5 DEF Next, Device
<1>3. Spec => []IInv
  BY Zenon, VirtioInvariant
<1> QED
  BY <1>1, <1>2, <1>3, PTL DEF Spec, RefinesBlockDevice, Abstract!Spec
=============================================================================
