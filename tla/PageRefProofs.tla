--------------------------- MODULE PageRefProofs ---------------------------
(***************************************************************************)
(* IInv is an invariant of PageRef, for any numbers of processes, pages    *)
(* and slots.                                                              *)
(***************************************************************************)
EXTENDS PageRef, FiniteSetTheorems, TLAPS

\* The sets that the counts are about are finite.
LEMMA Finite ==
  ASSUME NEW pg
  PROVE  /\ IsFiniteSet(Mappings(pg)) /\ Cardinality(Mappings(pg)) \in Nat
         /\ IsFiniteSet(Holders(pg)) /\ Cardinality(Holders(pg)) \in Nat
         /\ IsFiniteSet(Pushers(pg)) /\ Cardinality(Pushers(pg)) \in Nat
<1>1. Mappings(pg) \in SUBSET Slots /\ Holders(pg) \in SUBSET Procs /\ Pushers(pg) \in SUBSET Procs
  BY DEF Mappings, Holders, Pushers
<1>2. IsFiniteSet(Mappings(pg)) BY <1>1, PageRefAssumption, FS_Subset
<1>3. IsFiniteSet(Holders(pg)) BY <1>1, PageRefAssumption, FS_Subset
<1>4. IsFiniteSet(Pushers(pg)) BY <1>1, PageRefAssumption, FS_Subset
<1> QED BY <1>2, <1>3, <1>4, FS_CardinalityType

\* One element more, one element less.
LEMMA PlusOne ==
  ASSUME NEW S, IsFiniteSet(S), NEW x, x \notin S
  PROVE  Cardinality(S \cup {x}) = Cardinality(S) + 1
BY FS_AddElement

LEMMA MinusOne ==
  ASSUME NEW S, IsFiniteSet(S), NEW x \in S
  PROVE  Cardinality(S \ {x}) = Cardinality(S) - 1 /\ Cardinality(S) # 0
<1>1. S # {} OBVIOUS
<1> QED BY <1>1, FS_RemoveElement, FS_EmptySet

\* A page with count 0 is referenced from nowhere, and is free once or being pushed.
LEMMA Unreferenced ==
  ASSUME IInv, NEW pg \in Pages, pgref[pg] = 0
  PROVE  Mappings(pg) = {} /\ Holders(pg) = {}
<1>1. Cardinality(Mappings(pg)) + Cardinality(Holders(pg)) = 0 BY DEF IInv, RefCountExact
<1>2. Cardinality(Mappings(pg)) = 0 /\ Cardinality(Holders(pg)) = 0 BY <1>1, Finite
<1> QED BY <1>2, Finite, FS_EmptySet

\* A page on the free list has count 0, is linked once, and is pushed by nobody.
LEMMA FreePage ==
  ASSUME IInv, NEW pg \in Pages, freelist[pg] > 0
  PROVE  /\ pgref[pg] = 0 /\ freelist[pg] = 1 /\ Cardinality(Pushers(pg)) = 0
         /\ Mappings(pg) = {} /\ Holders(pg) = {}
<1>1. freelist[pg] \in Nat /\ pgref[pg] \in Nat BY DEF IInv, TypeOK
<1>2. freelist[pg] + Cardinality(Pushers(pg)) = IF pgref[pg] = 0 THEN 1 ELSE 0
  BY DEF IInv, PageConserved
<1>3. pgref[pg] = 0 /\ freelist[pg] = 1 /\ Cardinality(Pushers(pg)) = 0 BY <1>1, <1>2, Finite
<1> QED BY <1>3, Unreferenced

\* A referenced page has a positive count, is not on the free list and not being
\* pushed.
LEMMA Referenced ==
  ASSUME IInv, NEW pg \in Pages, Mappings(pg) # {} \/ Holders(pg) # {}
  PROVE  /\ pgref[pg] \in Nat /\ pgref[pg] > 0
         /\ freelist[pg] = 0 /\ Cardinality(Pushers(pg)) = 0
<1>1. freelist[pg] \in Nat /\ pgref[pg] \in Nat BY DEF IInv, TypeOK
<1>2. pgref[pg] # 0 BY Unreferenced
<1>3. freelist[pg] + Cardinality(Pushers(pg)) = IF pgref[pg] = 0 THEN 1 ELSE 0
  BY DEF IInv, PageConserved
<1> QED BY <1>1, <1>2, <1>3, Finite

\* The initial state satisfies the invariant.
LEMMA InitInv == Init => IInv
<1> SUFFICES ASSUME NEW pg0 \in Pages, NEW s0 \in Slots,
                    pgref = [q \in Pages |-> IF q = pg0 THEN 1 ELSE 0],
                    freelist = [q \in Pages |-> IF q = pg0 THEN 0 ELSE 1],
                    map = [r \in Slots |-> IF r = s0 THEN pg0 ELSE NoPage],
                    writable = {s0},
                    op = [p \in Procs |-> Idle]
             PROVE  IInv
  BY DEF Init
<1>1. \A p \in Procs : op[p].mem = NoPage /\ op[p].old = NoPage /\ op[p].slot = NoSlot /\ op[p].src = NoSlot
  BY DEF Idle
<1>2. TypeOK BY DEF TypeOK, Op, Idle
<1>3. ASSUME NEW pg \in Pages
      PROVE  Holders(pg) = {} /\ Pushers(pg) = {} /\ Mappings(pg) = IF pg = pg0 THEN {s0} ELSE {}
  BY <1>1, <1>3, PageRefAssumption DEF Holders, Pushers, Mappings
<1>4. Cardinality({}) = 0 /\ Cardinality({s0}) = 1
  <2>1. {s0} = {} \cup {s0} OBVIOUS
  <2> QED BY <2>1, PlusOne, FS_EmptySet
<1>5. RefCountExact BY <1>3, <1>4 DEF RefCountExact
<1>6. PageConserved BY <1>3, <1>4 DEF PageConserved
<1>7. WritableIsPrivate BY <1>3 DEF WritableIsPrivate
<1>8. HeldIsPrivate BY <1>3 DEF HeldIsPrivate
<1>9. Discipline BY <1>1, <1>8, PageRefAssumption DEF Discipline, OneAtATime, SharingOK
<1> QED BY <1>2, <1>5, <1>6, <1>7, <1>9 DEF IInv

\* A held page is never being pushed and is not NoPage; the fields of an operation.
LEMMA Fields ==
  ASSUME IInv, NEW p \in Procs
  PROVE  /\ op[p] \in Op
         /\ op[p].mem \in Pages \cup {NoPage} /\ op[p].old \in Pages \cup {NoPage}
         /\ op[p].slot \in Slots \cup {NoSlot} /\ op[p].src \in Slots \cup {NoSlot}
         /\ (op[p] = Idle => op[p].mem = NoPage /\ op[p].old = NoPage /\ op[p].slot = NoSlot /\ op[p].src = NoSlot)
BY DEF IInv, TypeOK, Op, Idle

\* kalloc of a page that stays in a local variable.
LEMMA Alloc_keeps ==
  ASSUME IInv, NEW p \in Procs, NEW pg \in Pages, Alloc(p, pg)
  PROVE  IInv'
<1>0. TypeOK /\ pg # NoPage BY PageRefAssumption DEF IInv
<1>1. /\ pgref[pg] = 0 /\ freelist[pg] = 1 /\ Cardinality(Pushers(pg)) = 0
      /\ Mappings(pg) = {} /\ Holders(pg) = {}
  BY FreePage DEF Alloc, kalloc
<1>2. TypeOK' BY <1>0, <1>1 DEF TypeOK, Alloc, kalloc, Op
<1>3. op[p].mem = NoPage /\ op[p].slot = NoSlot /\ op[p].src = NoSlot BY DEF Alloc, Idle
<1>4. \A q \in Procs : /\ op'[q].slot = op[q].slot /\ op'[q].src = op[q].src /\ op'[q].old = op[q].old
                       /\ op'[q].mem = IF q = p THEN pg ELSE op[q].mem
  BY <1>0 DEF Alloc, TypeOK, Op
<1>5. map' = map /\ writable' = writable BY DEF Alloc
<1>6. ASSUME NEW g \in Pages
      PROVE  /\ Mappings(g)' = Mappings(g) /\ Pushers(g)' = Pushers(g)
             /\ Holders(g)' = IF g = pg THEN {p} ELSE Holders(g)
  <2>1. Mappings(g)' = Mappings(g) /\ Pushers(g)' = Pushers(g) BY <1>4, <1>5 DEF Mappings, Pushers
  <2>2. Holders(g)' = IF g = pg THEN Holders(g) \cup {p} ELSE Holders(g)
    BY <1>3, <1>4, PageRefAssumption DEF Holders
  <2> QED BY <1>1, <2>1, <2>2
<1>7. Cardinality({p}) = 1 /\ Cardinality({}) = 0 BY FS_Singleton, FS_EmptySet
<1>8. \A g \in Pages : /\ pgref'[g] = IF g = pg THEN 1 ELSE pgref[g]
                       /\ freelist'[g] = IF g = pg THEN 0 ELSE freelist[g]
  BY <1>0, <1>1 DEF Alloc, kalloc, TypeOK
<1>9. RefCountExact' BY <1>1, <1>6, <1>7, <1>8 DEF IInv, RefCountExact
<1>10. PageConserved' BY <1>1, <1>6, <1>8 DEF IInv, PageConserved
<1>11. WritableIsPrivate' BY <1>1, <1>5, <1>6 DEF IInv, WritableIsPrivate
<1>12. HeldIsPrivate' BY <1>1, <1>6 DEF IInv, Discipline, HeldIsPrivate
<1>13. OneAtATime' BY <1>4 DEF IInv, Discipline, OneAtATime
<1>14. SharingOK' BY <1>3, <1>4, <1>5 DEF IInv, Discipline, SharingOK
<1>15. Discipline' BY <1>5, <1>12, <1>13, <1>14 DEF IInv, Discipline
<1> QED BY <1>2, <1>9, <1>10, <1>11, <1>15 DEF IInv

\* kalloc and mappages in uvmalloc.
LEMMA AllocMap_keeps ==
  ASSUME IInv, NEW p \in Procs, NEW pg \in Pages, NEW s \in Slots, NEW w \in BOOLEAN, AllocMap(p, pg, s, w)
  PROVE  IInv'
<1>0. TypeOK /\ pg # NoPage /\ s # NoSlot BY PageRefAssumption DEF IInv
<1>1. /\ pgref[pg] = 0 /\ freelist[pg] = 1 /\ Cardinality(Pushers(pg)) = 0
      /\ Mappings(pg) = {} /\ Holders(pg) = {}
  BY FreePage DEF AllocMap, kalloc
<1>2. TypeOK' BY <1>0, <1>1 DEF TypeOK, AllocMap, kalloc
<1>3. map[s] = NoPage /\ \A q \in Procs : op[q].slot # s /\ op[q].src # s BY DEF AllocMap, Settled
<1>4. op' = op /\ \A r \in Slots : map'[r] = IF r = s THEN pg ELSE map[r]
  BY <1>0 DEF AllocMap, TypeOK
<1>5. s \notin writable /\ writable' \in {writable, writable \cup {s}}
  BY <1>3 DEF AllocMap, IInv, Discipline
<1>6. ASSUME NEW g \in Pages
      PROVE  /\ Holders(g)' = Holders(g) /\ Pushers(g)' = Pushers(g)
             /\ Mappings(g)' = IF g = pg THEN {s} ELSE Mappings(g)
  <2>1. Holders(g)' = Holders(g) /\ Pushers(g)' = Pushers(g) BY <1>4 DEF Holders, Pushers
  <2>2. Mappings(g)' = IF g = pg THEN Mappings(g) \cup {s} ELSE Mappings(g)
    BY <1>3, <1>4, PageRefAssumption DEF Mappings
  <2> QED BY <1>1, <2>1, <2>2
<1>7. Cardinality({s}) = 1 /\ Cardinality({}) = 0 BY FS_Singleton, FS_EmptySet
<1>8. \A g \in Pages : /\ pgref'[g] = IF g = pg THEN 1 ELSE pgref[g]
                       /\ freelist'[g] = IF g = pg THEN 0 ELSE freelist[g]
  BY <1>0, <1>1 DEF AllocMap, kalloc, TypeOK
<1>9. RefCountExact' BY <1>1, <1>6, <1>7, <1>8 DEF IInv, RefCountExact
<1>10. PageConserved' BY <1>1, <1>6, <1>8 DEF IInv, PageConserved
<1>11. WritableIsPrivate'
  <2>1. \A g \in Pages \ {pg} : s \notin Mappings(g) BY <1>3, PageRefAssumption DEF Mappings
  <2> QED BY <1>1, <1>5, <1>6, <2>1 DEF IInv, WritableIsPrivate
<1>12. HeldIsPrivate' BY <1>1, <1>6 DEF IInv, Discipline, HeldIsPrivate
<1>13. OneAtATime' BY <1>4 DEF IInv, Discipline, OneAtATime
<1>14. SharingOK'
  <2> SUFFICES ASSUME NEW q \in Procs, op[q].src # NoSlot
               PROVE  /\ op[q].mem = NoPage /\ op[q].old = NoPage /\ op[q].slot # NoSlot
                      /\ map'[op[q].src] # NoPage /\ map'[op[q].slot] = map'[op[q].src]
                      /\ op[q].src \notin writable' /\ op[q].slot \notin writable'
                      /\ \A r \in Procs : op[r].slot # op[q].src
    BY <1>4 DEF SharingOK
  <2>1. op[q].src \in Slots \ {s} BY <1>3, Fields
  <2>2. op[q].slot \in Slots \ {s} BY <1>3, Fields DEF IInv, Discipline, SharingOK
  <2> QED BY <1>4, <1>5, <2>1, <2>2 DEF IInv, Discipline, SharingOK
<1>15. Discipline' BY <1>0, <1>4, <1>5, <1>12, <1>13, <1>14 DEF IInv, Discipline, TypeOK
<1> QED BY <1>2, <1>9, <1>10, <1>11, <1>15 DEF IInv

\* What kfree does to the counts and to the operation of p.
LEMMA KfreeFacts ==
  ASSUME TypeOK, NEW p \in Procs, NEW pg \in Pages, NEW o \in Op, pgref[pg] > 0, kfree(p, pg, o)
  PROVE  /\ pgref' \in [Pages -> Nat]
         /\ \A g \in Pages : pgref'[g] = IF g = pg THEN pgref[g] - 1 ELSE pgref[g]
         /\ op' \in [Procs -> Op]
         /\ op'[p].mem = o.mem /\ op'[p].slot = o.slot /\ op'[p].src = o.src
         /\ op'[p].old = IF pgref[pg] = 1 THEN pg ELSE o.old
         /\ \A q \in Procs \ {p} : op'[q] = op[q]
<1>0. pgref[pg] \in Nat BY DEF TypeOK
<1>1. CASE pgref[pg] > 1
  <2>1. pgref' = [pgref EXCEPT ![pg] = @ - 1] /\ op' = [op EXCEPT ![p] = o] BY <1>1 DEF kfree
  <2> QED BY <1>0, <1>1, <2>1 DEF TypeOK
<1>2. CASE pgref[pg] = 1
  <2> DEFINE n == [o EXCEPT !.old = pg]
  <2>1. pgref' = [pgref EXCEPT ![pg] = 0] /\ op' = [op EXCEPT ![p] = n] BY <1>2 DEF kfree
  <2>2. n \in Op /\ n.mem = o.mem /\ n.slot = o.slot /\ n.src = o.src /\ n.old = pg BY DEF Op
  <2> HIDE DEF n
  <2> QED BY <1>2, <2>1, <2>2 DEF TypeOK
<1> QED BY <1>0, <1>1, <1>2

\* kfree of a mapped page: the slot drops out of the count, and the last reference puts
\* the page on its way to the free list.
LEMMA Release_keeps ==
  ASSUME IInv, NEW p \in Procs, NEW s \in Slots, Release(p, s)
  PROVE  IInv'
<1>p. PICK pg \in Pages : pg = map[s] BY DEF IInv, TypeOK, Release
<1> DEFINE last == pgref[pg] = 1
           o == [op[p] EXCEPT !.slot = s]
<1>0. TypeOK /\ pg = map[s] /\ pg # NoPage /\ s # NoSlot BY <1>p, PageRefAssumption DEF IInv
<1>1. op[p].slot = NoSlot /\ op[p].old = NoPage /\ \A q \in Procs : op[q].slot # s /\ op[q].src # s
  BY DEF Release, Settled
<1>2. op[p].src = NoSlot BY <1>1 DEF IInv, Discipline, SharingOK
<1>3. s \in Mappings(pg) BY <1>0, <1>1 DEF Mappings
<1>4. /\ pgref[pg] \in Nat /\ pgref[pg] > 0 /\ freelist[pg] = 0 /\ Cardinality(Pushers(pg)) = 0
  BY <1>0, <1>3, Referenced
<1>5. o \in Op /\ o.mem = op[p].mem /\ o.old = op[p].old /\ o.slot = s /\ o.src = op[p].src
  BY Fields DEF Op
<1>6. kfree(p, pg, o) /\ freelist' = freelist /\ map' = map /\ writable' = writable BY <1>0 DEF Release
<1> HIDE DEF o
<1>7. /\ pgref' \in [Pages -> Nat]
      /\ \A g \in Pages : pgref'[g] = IF g = pg THEN pgref[g] - 1 ELSE pgref[g]
      /\ op' \in [Procs -> Op]
      /\ op'[p].mem = op[p].mem /\ op'[p].slot = s /\ op'[p].src = op[p].src
      /\ op'[p].old = IF last THEN pg ELSE NoPage
      /\ \A q \in Procs \ {p} : op'[q] = op[q]
  BY <1>0, <1>1, <1>4, <1>5, <1>6, KfreeFacts
<1>t. TypeOK' BY <1>0, <1>6, <1>7 DEF TypeOK
<1> HIDE DEF last
<1>8. ASSUME NEW g \in Pages
      PROVE  /\ Holders(g)' = Holders(g)
             /\ Mappings(g)' = IF g = pg THEN Mappings(g) \ {s} ELSE Mappings(g)
             /\ Pushers(g)' = IF g = pg /\ last THEN Pushers(g) \cup {p} ELSE Pushers(g)
  <2>1. Holders(g)' = Holders(g) BY <1>7 DEF Holders
  <2>2. Mappings(g)' = IF g = pg THEN Mappings(g) \ {s} ELSE Mappings(g)
    <3>1. \A r \in Slots : (\A q \in Procs : op'[q].slot # r) <=> r # s /\ \A q \in Procs : op[q].slot # r
      BY <1>1, <1>7, PageRefAssumption
    <3> QED BY <1>0, <1>6, <3>1 DEF Mappings
  <2>3. Pushers(g)' = IF g = pg /\ last THEN Pushers(g) \cup {p} ELSE Pushers(g)
    BY <1>0, <1>1, <1>7, PageRefAssumption DEF Pushers
  <2> QED BY <2>1, <2>2, <2>3
<1>9. ASSUME NEW g \in Pages, g = pg
      PROVE  /\ Cardinality(Mappings(g) \ {s}) = Cardinality(Mappings(g)) - 1
             /\ Cardinality(Pushers(g)) = 0 /\ Cardinality(Pushers(g) \cup {p}) = 1
  <2>1. s \in Mappings(g) BY <1>0, <1>1, <1>9 DEF Mappings
  <2>2. p \notin Pushers(g) BY <1>0, <1>1, <1>9 DEF Pushers
  <2>3. Cardinality(Pushers(g)) = 0 BY <2>1, Referenced
  <2> QED BY <2>1, <2>2, <2>3, Finite, MinusOne, PlusOne
<1>11. RefCountExact'
  <2> SUFFICES ASSUME NEW g \in Pages
               PROVE  pgref'[g] = Cardinality(Mappings(g)') + Cardinality(Holders(g)')
    BY DEF RefCountExact
  <2>1. pgref[g] = Cardinality(Mappings(g)) + Cardinality(Holders(g)) BY DEF IInv, RefCountExact
  <2>a. Cardinality(Mappings(g)) \in Nat /\ Cardinality(Holders(g)) \in Nat BY Finite
  <2>2. CASE g = pg
    <3>1. pgref'[g] = pgref[g] - 1 BY <1>7, <2>2
    <3>2. Mappings(g)' = Mappings(g) \ {s} /\ Holders(g)' = Holders(g) BY <1>8, <2>2
    <3>3. Cardinality(Mappings(g) \ {s}) = Cardinality(Mappings(g)) - 1 BY <1>9, <2>2
    <3> QED BY <2>1, <2>a, <3>1, <3>2, <3>3
  <2>3. CASE g # pg BY <1>7, <1>8, <2>1, <2>3
  <2> QED BY <2>2, <2>3
<1>12. PageConserved'
  <2> SUFFICES ASSUME NEW g \in Pages
               PROVE  freelist'[g] + Cardinality(Pushers(g)') = IF pgref'[g] = 0 THEN 1 ELSE 0
    BY DEF PageConserved
  <2>1. freelist[g] + Cardinality(Pushers(g)) = IF pgref[g] = 0 THEN 1 ELSE 0 BY DEF IInv, PageConserved
  <2>2. CASE g = pg BY <1>4, <1>6, <1>7, <1>8, <1>9, <2>1, <2>2 DEF last
  <2>3. CASE g # pg BY <1>6, <1>7, <1>8, <2>1, <2>3
  <2> QED BY <2>2, <2>3
<1>13. WritableIsPrivate' BY <1>6, <1>8 DEF IInv, WritableIsPrivate
<1>14. HeldIsPrivate' BY <1>8 DEF IInv, Discipline, HeldIsPrivate
<1>15. OneAtATime' BY <1>1, <1>7 DEF IInv, Discipline, OneAtATime
<1>16. SharingOK' BY <1>1, <1>2, <1>6, <1>7 DEF IInv, Discipline, SharingOK
<1>17. Discipline' BY <1>6, <1>14, <1>15, <1>16 DEF IInv, Discipline
<1> QED BY <1>t, <1>11, <1>12, <1>13, <1>17 DEF IInv

\* kfree of the page in a local variable: it is the only reference.
LEMMA Discard_keeps ==
  ASSUME IInv, NEW p \in Procs, Discard(p)
  PROVE  IInv'
<1>p. PICK pg \in Pages : pg = op[p].mem BY Fields DEF Discard
<1> DEFINE o == [op[p] EXCEPT !.mem = NoPage]
<1>0. TypeOK /\ pg = op[p].mem /\ pg # NoPage BY <1>p, PageRefAssumption DEF IInv
<1>1. op[p].slot = NoSlot /\ op[p].old = NoPage BY DEF Discard
<1>2. op[p].src = NoSlot BY <1>0 DEF IInv, Discipline, SharingOK
<1>3. p \in Holders(pg) BY <1>0 DEF Holders
<1>4. Mappings(pg) = {} /\ Holders(pg) = {p} BY <1>0, <1>3 DEF IInv, Discipline, HeldIsPrivate
<1>5. pgref[pg] = 1
  <2>1. Cardinality({}) = 0 /\ Cardinality({p}) = 1 BY FS_EmptySet, FS_Singleton
  <2> QED BY <1>0, <1>4, <2>1 DEF IInv, RefCountExact
<1>6. freelist[pg] = 0 /\ Cardinality(Pushers(pg)) = 0 BY <1>0, <1>3, Referenced
<1>7. o \in Op /\ o.mem = NoPage /\ o.old = op[p].old /\ o.slot = op[p].slot /\ o.src = op[p].src
  BY Fields DEF Op
<1>8. kfree(p, pg, o) /\ freelist' = freelist /\ map' = map /\ writable' = writable BY <1>0 DEF Discard
<1> HIDE DEF o
<1>9. /\ pgref' \in [Pages -> Nat]
      /\ \A g \in Pages : pgref'[g] = IF g = pg THEN 0 ELSE pgref[g]
      /\ op' \in [Procs -> Op]
      /\ op'[p].mem = NoPage /\ op'[p].slot = op[p].slot /\ op'[p].src = op[p].src /\ op'[p].old = pg
      /\ \A q \in Procs \ {p} : op'[q] = op[q]
  BY <1>0, <1>5, <1>7, <1>8, KfreeFacts
<1>t. TypeOK' BY <1>0, <1>8, <1>9 DEF TypeOK
<1>10. ASSUME NEW g \in Pages
       PROVE  /\ Mappings(g)' = Mappings(g)
              /\ Holders(g)' = IF g = pg THEN {} ELSE Holders(g)
              /\ Pushers(g)' = IF g = pg THEN Pushers(g) \cup {p} ELSE Pushers(g)
  <2>1. Mappings(g)' = Mappings(g) BY <1>8, <1>9 DEF Mappings
  <2>2. Holders(g)' = IF g = pg THEN Holders(g) \ {p} ELSE Holders(g)
    BY <1>0, <1>9, PageRefAssumption DEF Holders
  <2>3. Pushers(g)' = IF g = pg THEN Pushers(g) \cup {p} ELSE Pushers(g)
    BY <1>0, <1>1, <1>9, PageRefAssumption DEF Pushers
  <2> QED BY <1>4, <2>1, <2>2, <2>3
<1>11. ASSUME NEW g \in Pages, g = pg
       PROVE  Mappings(g) = {} /\ freelist[g] = 0 /\ Cardinality(Pushers(g) \cup {p}) = 1
  <2>1. p \notin Pushers(g) BY <1>0, <1>1, <1>11 DEF Pushers
  <2>2. p \in Holders(g) BY <1>0, <1>11 DEF Holders
  <2>3. Mappings(g) = {} BY <2>2 DEF IInv, Discipline, HeldIsPrivate
  <2>4. freelist[g] = 0 /\ Cardinality(Pushers(g)) = 0 BY <2>2, Referenced
  <2> QED BY <2>1, <2>3, <2>4, Finite, PlusOne
<1>12. RefCountExact'
  <2> SUFFICES ASSUME NEW g \in Pages
               PROVE  pgref'[g] = Cardinality(Mappings(g)') + Cardinality(Holders(g)')
    BY DEF RefCountExact
  <2>1. pgref[g] = Cardinality(Mappings(g)) + Cardinality(Holders(g)) BY DEF IInv, RefCountExact
  <2>2. Cardinality({}) = 0 BY FS_EmptySet
  <2>3. CASE g = pg BY <1>9, <1>10, <1>11, <2>2, <2>3
  <2>4. CASE g # pg BY <1>9, <1>10, <2>1, <2>4
  <2> QED BY <2>3, <2>4
<1>13. PageConserved' BY <1>8, <1>9, <1>10, <1>11 DEF IInv, PageConserved
<1>14. WritableIsPrivate' BY <1>8, <1>10 DEF IInv, WritableIsPrivate
<1>15. HeldIsPrivate' BY <1>10 DEF IInv, Discipline, HeldIsPrivate
<1>16. OneAtATime' BY <1>9 DEF IInv, Discipline, OneAtATime
<1>17. SharingOK' BY <1>2, <1>8, <1>9 DEF IInv, Discipline, SharingOK
<1>18. Discipline' BY <1>8, <1>15, <1>16, <1>17 DEF IInv, Discipline
<1> QED BY <1>t, <1>12, <1>13, <1>14, <1>18 DEF IInv

\* The push onto the free list.
LEMMA Push_keeps ==
  ASSUME IInv, NEW p \in Procs, Push(p)
  PROVE  IInv'
<1>p. PICK pg \in Pages : pg = op[p].old BY Fields DEF Push
<1>0. TypeOK /\ pg = op[p].old /\ pg # NoPage BY <1>p, PageRefAssumption DEF IInv
<1>1. op[p].src = NoSlot BY <1>0 DEF IInv, Discipline, SharingOK
<1>2. \A q \in Procs : /\ op'[q].slot = op[q].slot /\ op'[q].src = op[q].src /\ op'[q].mem = op[q].mem
                       /\ op'[q].old = IF q = p THEN NoPage ELSE op[q].old
  BY <1>0 DEF Push, TypeOK, Op
<1>3. /\ pgref' = pgref /\ map' = map /\ writable' = writable
      /\ \A g \in Pages : freelist'[g] = IF g = pg THEN freelist[g] + 1 ELSE freelist[g]
  BY <1>0 DEF Push, TypeOK
<1>4. TypeOK' BY <1>0 DEF TypeOK, Push, Op
<1>5. ASSUME NEW g \in Pages
      PROVE  /\ Mappings(g)' = Mappings(g) /\ Holders(g)' = Holders(g)
             /\ Pushers(g)' = IF g = pg THEN Pushers(g) \ {p} ELSE Pushers(g)
  <2>1. Mappings(g)' = Mappings(g) BY <1>2, <1>3 DEF Mappings
  <2>2. Holders(g)' = Holders(g) BY <1>2 DEF Holders
  <2>3. Pushers(g)' = IF g = pg THEN Pushers(g) \ {p} ELSE Pushers(g)
    BY <1>0, <1>2, PageRefAssumption DEF Pushers
  <2> QED BY <2>1, <2>2, <2>3
<1>6. ASSUME NEW g \in Pages, g = pg
      PROVE  Cardinality(Pushers(g) \ {p}) = Cardinality(Pushers(g)) - 1
  <2>1. p \in Pushers(g) BY <1>0, <1>6 DEF Pushers
  <2> QED BY <2>1, Finite, MinusOne
<1>7. RefCountExact' BY <1>3, <1>5 DEF IInv, RefCountExact
<1>8. PageConserved'
  <2> SUFFICES ASSUME NEW g \in Pages
               PROVE  freelist'[g] + Cardinality(Pushers(g)') = IF pgref'[g] = 0 THEN 1 ELSE 0
    BY DEF PageConserved
  <2>1. freelist[g] + Cardinality(Pushers(g)) = IF pgref[g] = 0 THEN 1 ELSE 0 BY DEF IInv, PageConserved
  <2>2. freelist[g] \in Nat /\ Cardinality(Pushers(g)) \in Nat BY <1>0, Finite DEF TypeOK
  <2>3. CASE g = pg BY <1>3, <1>5, <1>6, <2>1, <2>2, <2>3
  <2>4. CASE g # pg BY <1>3, <1>5, <2>1, <2>4
  <2> QED BY <2>3, <2>4
<1>9. WritableIsPrivate' BY <1>3, <1>5 DEF IInv, WritableIsPrivate
<1>10. HeldIsPrivate' BY <1>5 DEF IInv, Discipline, HeldIsPrivate
<1>11. OneAtATime' BY <1>2 DEF IInv, Discipline, OneAtATime
<1>12. SharingOK' BY <1>1, <1>2, <1>3 DEF IInv, Discipline, SharingOK
<1>13. Discipline' BY <1>3, <1>10, <1>11, <1>12 DEF IInv, Discipline
<1> QED BY <1>4, <1>7, <1>8, <1>9, <1>13 DEF IInv

\* The processes other than p keep their part of SharingOK when p finishes with its slot
\* s and leaves the other slots alone.
LEMMA SharingOther ==
  ASSUME IInv, NEW p \in Procs, NEW s \in Slots, op[p].slot = s,
         \A q \in Procs \ {p} : op'[q] = op[q],
         op'[p].slot = NoSlot, op'[p].src = NoSlot,
         \A r \in Slots \ {s} : map'[r] = map[r] /\ (r \in writable' => r \in writable)
  PROVE  SharingOK'
<1> SUFFICES ASSUME NEW q \in Procs \ {p}, op[q].src # NoSlot
             PROVE  /\ op'[q].mem = NoPage /\ op'[q].old = NoPage /\ op'[q].slot # NoSlot
                    /\ map'[op'[q].src] # NoPage /\ map'[op'[q].slot] = map'[op'[q].src]
                    /\ op'[q].src \notin writable' /\ op'[q].slot \notin writable'
                    /\ \A r \in Procs : op'[r].slot # op'[q].src
  BY DEF SharingOK
<1>1. /\ op[q].mem = NoPage /\ op[q].old = NoPage /\ op[q].slot # NoSlot
      /\ map[op[q].src] # NoPage /\ map[op[q].slot] = map[op[q].src]
      /\ op[q].src \notin writable /\ op[q].slot \notin writable
      /\ \A r \in Procs : op[r].slot # op[q].src
  BY DEF IInv, Discipline, SharingOK
<1>2. op[q].src \in Slots \ {s} BY <1>1, Fields
<1>3. op[q].slot \in Slots \ {s}
  <2>1. op[q].slot # op[p].slot BY <1>1 DEF IInv, Discipline, OneAtATime
  <2> QED BY <1>1, <2>1, Fields
<1> QED BY <1>1, <1>2, <1>3

\* uvmunmap zeroes the PTE of a slot that is out of the count.
LEMMA Clear_keeps ==
  ASSUME IInv, NEW p \in Procs, Clear(p)
  PROVE  IInv'
<1>p. PICK s \in Slots : s = op[p].slot BY Fields DEF Clear
<1>0. TypeOK /\ s = op[p].slot /\ s # NoSlot /\ op[p].mem = NoPage /\ op[p].old = NoPage
  BY <1>p, PageRefAssumption DEF IInv, Clear
<1>1. /\ pgref' = pgref /\ freelist' = freelist /\ writable' = writable \ {s}
      /\ \A r \in Slots : map'[r] = IF r = s THEN NoPage ELSE map[r]
  BY <1>0 DEF Clear, TypeOK
<1>2. /\ op' \in [Procs -> Op] /\ op'[p] = Idle
      /\ op'[p].mem = NoPage /\ op'[p].old = NoPage /\ op'[p].slot = NoSlot /\ op'[p].src = NoSlot
      /\ \A q \in Procs \ {p} : op'[q] = op[q]
  BY <1>0 DEF Clear, TypeOK, Idle, Op
<1>3. TypeOK' BY <1>0, <1>1, <1>2 DEF TypeOK, Clear
<1>4. ASSUME NEW g \in Pages
      PROVE  Mappings(g)' = Mappings(g) /\ Holders(g)' = Holders(g) /\ Pushers(g)' = Pushers(g)
  <2>1. \A r \in Slots \ {s} : (\A q \in Procs : op'[q].slot # r) <=> (\A q \in Procs : op[q].slot # r)
    BY <1>0, <1>2, PageRefAssumption
  <2>2. Mappings(g)' = Mappings(g) BY <1>0, <1>1, <2>1, PageRefAssumption DEF Mappings
  <2>3. Holders(g)' = Holders(g) BY <1>0, <1>2 DEF Holders
  <2>4. Pushers(g)' = Pushers(g) BY <1>0, <1>2 DEF Pushers
  <2> QED BY <2>2, <2>3, <2>4
<1>5. RefCountExact' BY <1>1, <1>4 DEF IInv, RefCountExact
<1>6. PageConserved' BY <1>1, <1>4 DEF IInv, PageConserved
<1>7. WritableIsPrivate' BY <1>1, <1>4 DEF IInv, WritableIsPrivate
<1>8. HeldIsPrivate' BY <1>4 DEF IInv, Discipline, HeldIsPrivate
<1>9. OneAtATime' BY <1>2 DEF IInv, Discipline, OneAtATime
<1>10. SharingOK' BY <1>0, <1>1, <1>2, SharingOther
<1>11. Discipline' BY <1>0, <1>1, <1>8, <1>9, <1>10 DEF IInv, Discipline, TypeOK
<1> QED BY <1>3, <1>5, <1>6, <1>7, <1>11 DEF IInv

\* CowHandler installs the copy: the reference moves from the local variable to the
\* slot.
LEMMA Remap_keeps ==
  ASSUME IInv, NEW p \in Procs, Remap(p)
  PROVE  IInv'
<1>p. PICK s \in Slots : s = op[p].slot BY Fields DEF Remap
<1>g. PICK pg \in Pages : pg = op[p].mem BY Fields DEF Remap
<1>0. TypeOK /\ s = op[p].slot /\ s # NoSlot /\ pg = op[p].mem /\ pg # NoPage /\ op[p].old = NoPage
  BY <1>p, <1>g, PageRefAssumption DEF IInv, Remap
<1>1. /\ pgref' = pgref /\ freelist' = freelist /\ writable' = writable \cup {s}
      /\ \A r \in Slots : map'[r] = IF r = s THEN pg ELSE map[r]
  BY <1>0 DEF Remap, TypeOK
<1>2. /\ op' \in [Procs -> Op] /\ op'[p] = Idle
      /\ op'[p].mem = NoPage /\ op'[p].old = NoPage /\ op'[p].slot = NoSlot /\ op'[p].src = NoSlot
      /\ \A q \in Procs \ {p} : op'[q] = op[q]
  BY <1>0 DEF Remap, TypeOK, Idle, Op
<1>3. TypeOK' BY <1>0, <1>1, <1>2 DEF TypeOK, Remap
<1>4. \A q \in Procs \ {p} : op[q].slot # s BY <1>0 DEF IInv, Discipline, OneAtATime
<1>5. ASSUME NEW g \in Pages
      PROVE  /\ Mappings(g)' = (IF g = pg THEN {s} ELSE Mappings(g)) /\ Pushers(g)' = Pushers(g)
             /\ Holders(g)' = (IF g = pg THEN {} ELSE Holders(g))
             /\ g = pg => Mappings(g) = {} /\ Holders(g) = {p}
  <2>1. \A r \in Slots : (\A q \in Procs : op'[q].slot # r) <=> r = s \/ (\A q \in Procs : op[q].slot # r)
    BY <1>0, <1>2, <1>4, PageRefAssumption
  <2>2. Mappings(g)' = IF g = pg THEN Mappings(g) \cup {s} ELSE Mappings(g)
    BY <1>0, <1>1, <2>1 DEF Mappings
  <2>3. Holders(g)' = IF g = pg THEN Holders(g) \ {p} ELSE Holders(g)
    BY <1>0, <1>2, PageRefAssumption DEF Holders
  <2>4. Pushers(g)' = Pushers(g) BY <1>0, <1>2, PageRefAssumption DEF Pushers
  <2>5. g = pg => p \in Holders(g) BY <1>0 DEF Holders
  <2>6. g = pg => Mappings(g) = {} /\ Holders(g) = {p} BY <2>5 DEF IInv, Discipline, HeldIsPrivate
  <2> QED BY <2>2, <2>3, <2>4, <2>6
<1>6. Cardinality({}) = 0 /\ Cardinality({s}) = 1 /\ Cardinality({p}) = 1 BY FS_EmptySet, FS_Singleton
<1>7. RefCountExact' BY <1>1, <1>5, <1>6 DEF IInv, RefCountExact
<1>8. PageConserved' BY <1>1, <1>5 DEF IInv, PageConserved
<1>9. WritableIsPrivate'
  <2>1. \A g \in Pages : s \notin Mappings(g) BY <1>0 DEF Mappings
  <2> QED BY <1>1, <1>5, <2>1 DEF IInv, WritableIsPrivate
<1>10. HeldIsPrivate' BY <1>5 DEF IInv, Discipline, HeldIsPrivate
<1>11. OneAtATime' BY <1>2 DEF IInv, Discipline, OneAtATime
<1>12. SharingOK' BY <1>0, <1>1, <1>2, SharingOther
<1>13. Discipline' BY <1>0, <1>1, <1>10, <1>11, <1>12 DEF IInv, Discipline, TypeOK
<1> QED BY <1>3, <1>7, <1>8, <1>9, <1>13 DEF IInv

\* uvmcopy takes PTE_W away and gives up.
LEMMA Protect_keeps ==
  ASSUME IInv, NEW p \in Procs, NEW s \in Slots, Protect(p, s)
  PROVE  IInv'
<1>1. pgref' = pgref /\ freelist' = freelist /\ map' = map /\ op' = op /\ writable' = writable \ {s}
  BY DEF Protect
<1>2. TypeOK' BY <1>1 DEF IInv, TypeOK
<1>3. ASSUME NEW g \in Pages
      PROVE  Mappings(g)' = Mappings(g) /\ Holders(g)' = Holders(g) /\ Pushers(g)' = Pushers(g)
  BY <1>1 DEF Mappings, Holders, Pushers
<1>4. RefCountExact' BY <1>1, <1>3 DEF IInv, RefCountExact
<1>5. PageConserved' BY <1>1, <1>3 DEF IInv, PageConserved
<1>6. WritableIsPrivate' BY <1>1, <1>3 DEF IInv, WritableIsPrivate
<1>7. HeldIsPrivate' BY <1>3 DEF IInv, Discipline, HeldIsPrivate
<1>8. OneAtATime' /\ SharingOK' BY <1>1 DEF IInv, Discipline, OneAtATime, SharingOK
<1>9. Discipline' BY <1>1, <1>7, <1>8 DEF IInv, Discipline
<1> QED BY <1>2, <1>4, <1>5, <1>6, <1>9 DEF IInv

\* uvmcopy maps the parent's page in the child; the mapping is not counted yet.
LEMMA Share_keeps ==
  ASSUME IInv, NEW p \in Procs, NEW s \in Slots, NEW t \in Slots, Share(p, s, t)
  PROVE  IInv'
<1>0. /\ TypeOK /\ s # NoSlot /\ t # NoSlot /\ s # t /\ map[s] # NoPage /\ map[t] = NoPage
      /\ \A q \in Procs : op[q].slot # s /\ op[q].src # s /\ op[q].slot # t /\ op[q].src # t
  BY PageRefAssumption DEF IInv, Share, Settled
<1>1. op[p].mem = NoPage /\ op[p].old = NoPage /\ op[p].slot = NoSlot /\ op[p].src = NoSlot
  BY DEF Share, Idle
<1>2. /\ pgref' = pgref /\ freelist' = freelist /\ writable' = writable \ {s}
      /\ \A r \in Slots : map'[r] = IF r = t THEN map[s] ELSE map[r]
  BY <1>0 DEF Share, TypeOK
<1>3. \A q \in Procs : /\ op'[q].mem = op[q].mem /\ op'[q].old = op[q].old
                       /\ op'[q].slot = IF q = p THEN t ELSE op[q].slot
                       /\ op'[q].src = IF q = p THEN s ELSE op[q].src
  BY <1>0 DEF Share, TypeOK, Op
<1>4. TypeOK' BY <1>0 DEF TypeOK, Share, Op
<1>5. t \notin writable BY <1>0 DEF IInv, Discipline
<1>6. ASSUME NEW g \in Pages
      PROVE  Mappings(g)' = Mappings(g) /\ Holders(g)' = Holders(g) /\ Pushers(g)' = Pushers(g)
  <2>1. \A r \in Slots : (\A q \in Procs : op'[q].slot # r) <=> r # t /\ (\A q \in Procs : op[q].slot # r)
    BY <1>0, <1>1, <1>3, PageRefAssumption
  <2>2. Mappings(g)' = Mappings(g) BY <1>0, <1>2, <2>1, PageRefAssumption DEF Mappings
  <2>3. Holders(g)' = Holders(g) /\ Pushers(g)' = Pushers(g) BY <1>3 DEF Holders, Pushers
  <2> QED BY <2>2, <2>3
<1>7. RefCountExact' BY <1>2, <1>6 DEF IInv, RefCountExact
<1>8. PageConserved' BY <1>2, <1>6 DEF IInv, PageConserved
<1>9. WritableIsPrivate' BY <1>2, <1>6 DEF IInv, WritableIsPrivate
<1>10. HeldIsPrivate' BY <1>6 DEF IInv, Discipline, HeldIsPrivate
<1>11. OneAtATime' BY <1>0, <1>3 DEF IInv, Discipline, OneAtATime
<1>12. SharingOK'
  <2> SUFFICES ASSUME NEW q \in Procs, op'[q].src # NoSlot
               PROVE  /\ op'[q].mem = NoPage /\ op'[q].old = NoPage /\ op'[q].slot # NoSlot
                      /\ map'[op'[q].src] # NoPage /\ map'[op'[q].slot] = map'[op'[q].src]
                      /\ op'[q].src \notin writable' /\ op'[q].slot \notin writable'
                      /\ \A r \in Procs : op'[r].slot # op'[q].src
    BY DEF SharingOK
  <2>1. CASE q = p BY <1>0, <1>1, <1>2, <1>3, <1>5, <2>1
  <2>2. CASE q # p
    <3>1. op'[q].src = op[q].src /\ op'[q].slot = op[q].slot BY <1>3, <2>2
    <3>2. /\ op[q].mem = NoPage /\ op[q].old = NoPage /\ op[q].slot # NoSlot
          /\ map[op[q].src] # NoPage /\ map[op[q].slot] = map[op[q].src]
          /\ op[q].src \notin writable /\ op[q].slot \notin writable
          /\ \A r \in Procs : op[r].slot # op[q].src
      BY <3>1 DEF IInv, Discipline, SharingOK
    <3>3. op[q].src \in Slots \ {t} /\ op[q].slot \in Slots \ {t} BY <1>0, <3>1, <3>2, Fields
    <3> QED BY <1>0, <1>2, <1>3, <3>1, <3>2, <3>3
  <2> QED BY <2>1, <2>2
<1>13. Discipline' BY <1>0, <1>2, <1>10, <1>11, <1>12 DEF IInv, Discipline, TypeOK
<1> QED BY <1>4, <1>7, <1>8, <1>9, <1>13 DEF IInv

\* incref counts the child's mapping; the parent's has kept the page alive.
LEMMA incref_keeps ==
  ASSUME IInv, NEW p \in Procs, incref(p)
  PROVE  IInv'
<1>s. PICK s \in Slots : s = op[p].src BY Fields DEF incref
<1>f. /\ op[p].mem = NoPage /\ op[p].old = NoPage /\ op[p].slot # NoSlot
      /\ map[op[p].src] # NoPage /\ map[op[p].slot] = map[op[p].src]
      /\ op[p].src \notin writable /\ op[p].slot \notin writable
      /\ \A q \in Procs : op[q].slot # op[p].src
  BY DEF incref, IInv, Discipline, SharingOK
<1>t. PICK t \in Slots : t = op[p].slot BY <1>f, Fields
<1>g. PICK pg \in Pages : pg = map[s] BY <1>s, <1>f DEF IInv, TypeOK
<1>0. /\ TypeOK /\ s = op[p].src /\ t = op[p].slot /\ pg = map[s] /\ pg = map[t] /\ pg # NoPage /\ t # NoSlot
      /\ s \notin writable /\ t \notin writable /\ op[p].mem = NoPage /\ op[p].old = NoPage
      /\ \A q \in Procs : op[q].slot # s
  BY <1>s, <1>f, <1>t, <1>g, PageRefAssumption DEF IInv
<1>1. /\ freelist' = freelist /\ map' = map /\ writable' = writable
      /\ \A g \in Pages : pgref'[g] = IF g = pg THEN pgref[g] + 1 ELSE pgref[g]
  BY <1>0 DEF incref, TypeOK
<1>2. /\ op' \in [Procs -> Op] /\ op'[p] = Idle
      /\ op'[p].mem = NoPage /\ op'[p].old = NoPage /\ op'[p].slot = NoSlot /\ op'[p].src = NoSlot
      /\ \A q \in Procs \ {p} : op'[q] = op[q]
  BY <1>0 DEF incref, TypeOK, Idle, Op
<1>3. TypeOK' BY <1>0, <1>1, <1>2 DEF TypeOK, incref
<1>4. \A q \in Procs \ {p} : op[q].slot # t BY <1>0 DEF IInv, Discipline, OneAtATime
<1>5. ASSUME NEW g \in Pages
      PROVE  /\ Mappings(g)' = (IF g = pg THEN Mappings(g) \cup {t} ELSE Mappings(g))
             /\ Holders(g)' = Holders(g) /\ Pushers(g)' = Pushers(g)
             /\ t \notin Mappings(g) /\ (g = pg => s \in Mappings(g))
  <2>1. \A r \in Slots : (\A q \in Procs : op'[q].slot # r) <=> r = t \/ (\A q \in Procs : op[q].slot # r)
    BY <1>0, <1>2, <1>4, PageRefAssumption
  <2>2. Mappings(g)' = IF g = pg THEN Mappings(g) \cup {t} ELSE Mappings(g)
    BY <1>0, <1>1, <2>1 DEF Mappings
  <2>3. Holders(g)' = Holders(g) BY <1>0, <1>2 DEF Holders
  <2>4. Pushers(g)' = Pushers(g) BY <1>0, <1>2 DEF Pushers
  <2>5. t \notin Mappings(g) /\ (g = pg => s \in Mappings(g)) BY <1>0 DEF Mappings
  <2> QED BY <2>2, <2>3, <2>4, <2>5
<1>6. RefCountExact'
  <2> SUFFICES ASSUME NEW g \in Pages
               PROVE  pgref'[g] = Cardinality(Mappings(g)') + Cardinality(Holders(g)')
    BY DEF RefCountExact
  <2>1. pgref[g] = Cardinality(Mappings(g)) + Cardinality(Holders(g)) BY DEF IInv, RefCountExact
  <2>2. Cardinality(Mappings(g)) \in Nat /\ Cardinality(Holders(g)) \in Nat BY Finite
  <2>3. Cardinality(Mappings(g) \cup {t}) = Cardinality(Mappings(g)) + 1 BY <1>5, Finite, PlusOne
  <2>4. CASE g = pg BY <1>1, <1>5, <2>1, <2>2, <2>3, <2>4
  <2>5. CASE g # pg BY <1>1, <1>5, <2>1, <2>5
  <2> QED BY <2>4, <2>5
<1>7. PageConserved'
  <2> SUFFICES ASSUME NEW g \in Pages
               PROVE  freelist'[g] + Cardinality(Pushers(g)') = IF pgref'[g] = 0 THEN 1 ELSE 0
    BY DEF PageConserved
  <2>1. freelist[g] + Cardinality(Pushers(g)) = IF pgref[g] = 0 THEN 1 ELSE 0 BY DEF IInv, PageConserved
  <2>2. CASE g = pg
    <3>1. pgref[g] \in Nat /\ pgref[g] > 0 BY <1>5, <2>2, Referenced
    <3> QED BY <1>1, <1>5, <2>1, <2>2, <3>1
  <2>3. CASE g # pg BY <1>1, <1>5, <2>1, <2>3
  <2> QED BY <2>2, <2>3
<1>8. WritableIsPrivate'
  <2> SUFFICES ASSUME NEW g \in Pages, NEW r \in Mappings(g)', r \in writable
               PROVE  Mappings(g)' = {r} /\ Holders(g)' = {}
    BY <1>1 DEF WritableIsPrivate
  <2>1. r \in Mappings(g) BY <1>0, <1>5
  <2>2. Mappings(g) = {r} /\ Holders(g) = {} BY <2>1 DEF IInv, WritableIsPrivate
  <2>3. g # pg BY <1>0, <1>5, <2>2
  <2> QED BY <1>5, <2>2, <2>3
<1>9. HeldIsPrivate' BY <1>5 DEF IInv, Discipline, HeldIsPrivate
<1>10. OneAtATime' BY <1>2 DEF IInv, Discipline, OneAtATime
<1>11. SharingOK' BY <1>0, <1>1, <1>2, SharingOther
<1>12. Discipline' BY <1>1, <1>9, <1>10, <1>11 DEF IInv, Discipline
<1> QED BY <1>3, <1>6, <1>7, <1>8, <1>12 DEF IInv

\* A stuttering step keeps the invariant.
LEMMA Stutter == ASSUME IInv, UNCHANGED vars PROVE IInv'
<1>1. pgref' = pgref /\ freelist' = freelist /\ map' = map /\ op' = op /\ writable' = writable
  BY DEF vars
<1>2. ASSUME NEW g \in Pages
      PROVE  Mappings(g)' = Mappings(g) /\ Holders(g)' = Holders(g) /\ Pushers(g)' = Pushers(g)
  BY <1>1 DEF Mappings, Holders, Pushers
<1>3. TypeOK' /\ RefCountExact' /\ PageConserved' BY <1>1, <1>2 DEF IInv, TypeOK, RefCountExact, PageConserved
<1>4. WritableIsPrivate' BY <1>1, <1>2 DEF IInv, WritableIsPrivate
<1>5. HeldIsPrivate' BY <1>2 DEF IInv, Discipline, HeldIsPrivate
<1>6. Discipline' BY <1>1, <1>5 DEF IInv, Discipline, OneAtATime, SharingOK
<1> QED BY <1>3, <1>4, <1>6 DEF IInv

\* Every step of the allocator, of vm.c and of CowHandler keeps the invariant.
LEMMA NextInv == ASSUME IInv, [Next]_vars PROVE IInv'
<1>1. ASSUME NEW p \in Procs, NEW pg \in Pages, Alloc(p, pg) PROVE IInv' BY <1>1, Alloc_keeps
<1>2. ASSUME NEW p \in Procs, NEW pg \in Pages, NEW s \in Slots, NEW w \in BOOLEAN, AllocMap(p, pg, s, w)
      PROVE  IInv'
  BY <1>2, AllocMap_keeps
<1>3. ASSUME NEW p \in Procs, NEW s \in Slots, Release(p, s) PROVE IInv' BY <1>3, Release_keeps
<1>4. ASSUME NEW p \in Procs, Discard(p) PROVE IInv' BY <1>4, Discard_keeps
<1>5. ASSUME NEW p \in Procs, Push(p) PROVE IInv' BY <1>5, Push_keeps
<1>6. ASSUME NEW p \in Procs, Clear(p) PROVE IInv' BY <1>6, Clear_keeps
<1>7. ASSUME NEW p \in Procs, Remap(p) PROVE IInv' BY <1>7, Remap_keeps
<1>8. ASSUME NEW p \in Procs, NEW s \in Slots, Protect(p, s) PROVE IInv' BY <1>8, Protect_keeps
<1>9. ASSUME NEW p \in Procs, NEW s \in Slots, NEW t \in Slots, Share(p, s, t) PROVE IInv'
  BY <1>9, Share_keeps
<1>10. ASSUME NEW p \in Procs, incref(p) PROVE IInv' BY <1>10, incref_keeps
<1>11. CASE UNCHANGED vars BY <1>11, Stutter
<1> QED BY <1>1, <1>2, <1>3, <1>4, <1>5, <1>6, <1>7, <1>8, <1>9, <1>10, <1>11 DEF Next

\* IInv is an invariant of the ownership discipline.
LEMMA Inductive == Spec => []IInv
BY InitInv, NextInv, PTL DEF Spec

\* The counts, the free list, the PTEs and the operations keep their types.
THEOREM TypeSafe == Spec => []TypeOK
<1>1. IInv => TypeOK BY DEF IInv
<1> QED BY <1>1, Inductive, PTL

\* pgref[] counts the references to a page exactly, between any two critical sections
\* of kalloc, kfree and incref.
THEOREM CountSafe == Spec => []RefCountExact
<1>1. IInv => RefCountExact BY DEF IInv
<1> QED BY <1>1, Inductive, PTL

\* No page leaks, and kfree never links a page twice or while it is referenced.
THEOREM ConserveSafe == Spec => []PageConserved
<1>1. IInv => PageConserved BY DEF IInv
<1> QED BY <1>1, Inductive, PTL

\* A page that can be written through a PTE belongs to that PTE alone.
THEOREM PrivateSafe == Spec => []WritableIsPrivate
<1>1. IInv => WritableIsPrivate BY DEF IInv
<1> QED BY <1>1, Inductive, PTL
====
