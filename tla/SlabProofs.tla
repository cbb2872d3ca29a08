----------------------------- MODULE SlabProofs -----------------------------
(***************************************************************************)
(* Slab is correct for any number of threads, pages and items per page.    *)
(***************************************************************************)
EXTENDS Slab, FiniteSetTheorems, TLAPS

\* A thread works on an item exactly between taking and giving it.
HeadMatchesPc ==
  \A t \in Threads :
    head[t] # NoItem <=> pc[t] \in {"mark", "give", "free"}

\* The flag tells the owner's items from the rest: set while a client or
\* ey_zfree has the item, clear on a free list and before ZallocMark.
FlagMatchesOwner ==
  /\ held \subseteq flag
  /\ \A t \in Threads : pc[t] \in {"give", "free"} => head[t] \in flag
  /\ \A t \in Threads : pc[t] = "mark" => head[t] \notin flag
  /\ \A p \in mapped : \A s \in free_item[p] : <<p, s>> \notin flag

\* A page without an allocated item is the one its new owner's ey_zalloc is
\* about to use.
IdleOnlyWhileTaking ==
  \A p \in mapped :
    free_item[p] = Slots =>
      alloc_page_list = {p} /\ \E t \in Threads : pc[t] = "alloc"

SafetyInv ==
  /\ TypeOK /\ ListsSorted /\ OneHolder /\ NoFalseAlarm /\ LockDiscipline
  /\ HeadMatchesPc /\ FlagMatchesOwner

IInv == SafetyInv /\ CountersExact /\ IdleOnlyWhileTaking

-----------------------------------------------------------------------------
LEMMA ItemsFinite == IsFiniteSet(Items)
BY SlotsAssumption, PagesAssumption, FS_Product DEF Items

LEMMA CountIsNat ==
  ItemCountPerPage \in Nat /\ ItemCountPerPage >= 4
BY SlotsAssumption, FS_CardinalityType DEF ItemCountPerPage, MIN_PAGE_ITEMS

\* What LastItemOf, a comparison of counters, says of the free list.
LEMMA LastItem ==
  ASSUME TypeOK, CountersExact, NEW p \in Pages, NEW s \in Slots,
         s \notin free_item[p]
  PROVE  LastItemOf(p) <=> free_item[p] = Slots \ {s}
<1> DEFINE rest == Slots \ {s}
<1>1. IsFiniteSet(rest) /\ Cardinality(rest) = ItemCountPerPage - 1
  BY SlotsAssumption, FS_RemoveElement DEF ItemCountPerPage
<1>2. free_item[p] \in SUBSET rest
  BY DEF TypeOK
<1>3. free_count[p] = Cardinality(free_item[p])
  BY DEF CountersExact
<1>4. /\ IsFiniteSet(free_item[p])
      /\ Cardinality(rest) = Cardinality(free_item[p]) => rest = free_item[p]
  BY <1>1, <1>2, FS_Subset
<1>5. Cardinality(free_item[p]) \in Nat
  BY <1>4, FS_CardinalityType
<1>6. LastItemOf(p) => free_item[p] = rest
  BY <1>1, <1>3, <1>4, <1>5, CountIsNat DEF LastItemOf
<1>7. free_item[p] = rest => LastItemOf(p)
  BY <1>1, <1>3, CountIsNat DEF LastItemOf
<1> QED
  BY <1>6, <1>7

\* held is a function of owner.
LEMMA HeldUnchanged == owner' = owner => held' = held
BY DEF held

-----------------------------------------------------------------------------
(* One lemma per action: it preserves the part of the invariant that needs *)
(* no counting.                                                            *)

LEMMA WaitingStep ==
  ASSUME SafetyInv, NEW t \in Threads, ZallocCall(t) \/ ZallocLock(t) \/ ZfreeLock(t)
  PROVE  SafetyInv'
<1> USE NoThreadAssumption, HeldUnchanged DEF SafetyInv, Goto, slabVars, NoItem
<1>1. TypeOK'
  BY DEF TypeOK, Control, ZallocCall, ZallocLock, ZfreeLock
<1>2. /\ InFlight' = InFlight
      /\ Taken' = Taken
  BY DEF TypeOK, HeadMatchesPc, InFlight, Taken, ZallocCall, ZallocLock, ZfreeLock
<1>3. ListsSorted' /\ OneHolder'
  BY <1>2 DEF TypeOK, HeadMatchesPc, ListsSorted, OneHolder, ZallocCall, ZallocLock, ZfreeLock
<1>4. NoFalseAlarm' /\ LockDiscipline' /\ HeadMatchesPc' /\ FlagMatchesOwner'
  BY DEF TypeOK, NoFalseAlarm, LockDiscipline, HeadMatchesPc, FlagMatchesOwner,
         ZallocCall, ZallocLock, ZfreeLock
<1> QED
  BY <1>1, <1>3, <1>4

LEMMA TakeStep ==
  ASSUME SafetyInv, CountersExact, NEW t \in Threads, ZallocTake(t)
  PROVE  /\ SafetyInv'
         /\ \E p \in alloc_page_list : \E s \in free_item[p] :
              free_item' = [free_item EXCEPT ![p] = @ \ {s}]
<1> USE NoThreadAssumption, HeldUnchanged DEF SafetyInv, Goto, NoItem
<1>1. PICK p \in alloc_page_list, s \in Slots :
        /\ s \in free_item[p]
        /\ free_item' = [free_item EXCEPT ![p] = @ \ {s}]
        /\ free_count' = [free_count EXCEPT ![p] = @ - 1]
        /\ IF free_count[p] = 1
           THEN /\ alloc_page_list' = alloc_page_list \ {p}
                /\ full_page_list' = full_page_list \cup {p}
           ELSE UNCHANGED <<alloc_page_list, full_page_list>>
        /\ Goto(t, "mark", <<p, s>>)
  BY DEF ZallocTake, NowFull, WithoutSlot, TypeOK
<1>2. /\ p \in Pages /\ p \in mapped /\ s \in Slots
      /\ <<p, s>> \in Items
  BY DEF TypeOK, ListsSorted, Items
<1>3. /\ IsFiniteSet(free_item[p])
      /\ free_count[p] = Cardinality(free_item[p])
      /\ free_count[p] \in 0..Cardinality(Slots)
      /\ Cardinality(free_item[p]) \in Nat
      /\ Cardinality(free_item[p]) # 0
      /\ free_count[p] = 1 <=> free_item[p] = {s}
  <2>1. IsFiniteSet(free_item[p])
    BY <1>2, SlotsAssumption, FS_Subset DEF TypeOK
  <2>2. Cardinality(free_item[p]) = 1 <=> free_item[p] = {s}
    <3>1. Cardinality(free_item[p]) = 1 <=> \E x : free_item[p] = {x}
      BY <2>1, FS_Singleton
    <3>2. free_item[p] = {s} => \E x : free_item[p] = {x}
      OBVIOUS
    <3>3. ASSUME NEW x, free_item[p] = {x} PROVE free_item[p] = {s}
      BY <1>1, <3>3
    <3> QED
      BY <3>1, <3>2, <3>3
  <2>3. Cardinality(free_item[p]) \in Nat /\ Cardinality(free_item[p]) # 0
    BY <2>1, <1>1, FS_CardinalityType, FS_EmptySet
  <2>4. free_count[p] = Cardinality(free_item[p])
    BY <1>2 DEF CountersExact
  <2>5. free_count[p] \in 0..Cardinality(Slots)
    BY <1>2 DEF TypeOK
  <2> QED
    BY <2>1, <2>2, <2>3, <2>4, <2>5
<1>4. Cardinality(Slots) \in Nat
  BY SlotsAssumption, FS_CardinalityType
<1>5. TypeOK'
  <2>1. /\ free_item' \in [Pages -> SUBSET Slots]
        /\ free_count' \in [Pages -> 0..Cardinality(Slots)]
    BY <1>1, <1>2, <1>3, <1>4 DEF TypeOK
  <2>2. /\ full_page_list' \subseteq Pages /\ alloc_page_list' \subseteq Pages
        /\ lock' \in Threads \cup {NoThread}
        /\ page_count' \in Nat /\ alloc_item_count' \in Nat
        /\ flag' \subseteq Items /\ mapped' \subseteq Pages
        /\ owner' \in [Items -> Threads \cup {NoThread}]
    BY <1>1, <1>2 DEF TypeOK, ZallocTake
  <2>3. /\ pc' \in [Threads -> Control]
        /\ head' \in [Threads -> Items \cup {NoItem}]
    BY <1>1, <1>2 DEF TypeOK, Control
  <2> QED
    BY <2>1, <2>2, <2>3 DEF TypeOK
<1>6. ListsSorted'
  BY <1>1, <1>2, <1>3 DEF TypeOK, ListsSorted, ZallocTake
<1>7. <<p, s>> \notin Taken
  BY <1>1 DEF Taken
<1>8. Taken' = Taken \cup {<<p, s>>}
  BY <1>1, <1>2 DEF TypeOK, Taken, Items, ZallocTake
<1>9. InFlight' = InFlight \cup {<<p, s>>}
  BY <1>1 DEF TypeOK, HeadMatchesPc, InFlight, ZallocTake
<1>10. \A u \in Threads : u # t => head[u] # <<p, s>>
  BY <1>7 DEF OneHolder, HeadMatchesPc, InFlight
<1>11. OneHolder'
  <2>1. held' = held
    BY DEF ZallocTake
  <2>2. Taken' = held' \cup InFlight' /\ held' \cap InFlight' = {}
    BY <1>7, <1>8, <1>9, <2>1 DEF OneHolder
  <2>3. \A u, v \in Threads : u # v /\ head'[u] # NoItem => head'[u] # head'[v]
    BY <1>1, <1>10 DEF TypeOK, OneHolder
  <2> QED
    BY <2>2, <2>3 DEF OneHolder
<1>12. NoFalseAlarm' /\ LockDiscipline' /\ HeadMatchesPc'
  BY <1>1 DEF TypeOK, NoFalseAlarm, LockDiscipline, HeadMatchesPc, ZallocTake
<1>13. FlagMatchesOwner'
  BY <1>1, <1>2 DEF TypeOK, FlagMatchesOwner, ZallocTake
<1> QED
  BY <1>1, <1>5, <1>6, <1>11, <1>12, <1>13

LEMMA GetPageStep ==
  ASSUME SafetyInv, NEW t \in Threads, GetPage(t)
  PROVE  SafetyInv' /\ Taken' = Taken
<1> USE NoThreadAssumption, HeldUnchanged DEF SafetyInv
<1>1. PICK p \in Pages \ mapped :
        /\ mapped' = mapped \cup {p}
        /\ free_item' = [free_item EXCEPT ![p] = Slots]
        /\ free_count' = [free_count EXCEPT ![p] = ItemCountPerPage]
        /\ flag' = {i \in flag : i[1] # p}
        /\ alloc_page_list' = {p}
  BY DEF GetPage
<1>2. /\ Cardinality(Slots) \in Nat /\ ItemCountPerPage = Cardinality(Slots)
      /\ Slots # {}
  BY SlotsAssumption, FS_CardinalityType, FS_EmptySet
  DEF ItemCountPerPage, MIN_PAGE_ITEMS
<1>3. TypeOK'
  BY <1>1, <1>2 DEF TypeOK, GetPage
<1>4. ListsSorted'
  BY <1>1, <1>2 DEF TypeOK, ListsSorted, GetPage
<1>5. Taken' = Taken
  BY <1>1 DEF TypeOK, Taken, Items
<1>6. OneHolder'
  BY <1>5 DEF OneHolder, InFlight, GetPage
<1>7. NoFalseAlarm' /\ LockDiscipline' /\ HeadMatchesPc'
  BY DEF NoFalseAlarm, LockDiscipline, HeadMatchesPc, GetPage
<1>8. \A i \in Taken : i[1] \in mapped /\ i \in Items
  BY DEF Taken
<1>9. \A i \in held \cup InFlight : i \in flag' <=> i \in flag
  BY <1>1, <1>8 DEF OneHolder, TypeOK
<1>10. FlagMatchesOwner'
  <2>1. held' \subseteq flag'
    BY <1>9 DEF FlagMatchesOwner, GetPage
  <2>2. \A u \in Threads : pc[u] \in {"mark", "give", "free"} => head[u] \in InFlight
    BY DEF InFlight
  <2>3. /\ \A u \in Threads : pc'[u] \in {"give", "free"} => head'[u] \in flag'
        /\ \A u \in Threads : pc'[u] = "mark" => head'[u] \notin flag'
    BY <1>9, <2>2 DEF FlagMatchesOwner, GetPage
  <2>4. \A q \in mapped' : \A s \in free_item'[q] : <<q, s>> \notin flag'
    BY <1>1 DEF FlagMatchesOwner, TypeOK, Items
  <2> QED
    BY <2>1, <2>3, <2>4 DEF FlagMatchesOwner
<1> QED
  BY <1>3, <1>4, <1>5, <1>6, <1>7, <1>10

LEMMA NoMemoryStep ==
  ASSUME SafetyInv, NEW t \in Threads, ZallocNoMemory(t)
  PROVE  SafetyInv'
<1> USE NoThreadAssumption, HeldUnchanged DEF SafetyInv, Goto, slabVars, NoItem, ZallocNoMemory
<1>1. TypeOK' /\ ListsSorted'
  BY DEF TypeOK, Control, ListsSorted
<1>2. OneHolder'
  BY DEF TypeOK, HeadMatchesPc, OneHolder, InFlight, Taken
<1>3. NoFalseAlarm' /\ LockDiscipline' /\ HeadMatchesPc' /\ FlagMatchesOwner'
  BY DEF TypeOK, NoFalseAlarm, LockDiscipline, HeadMatchesPc, FlagMatchesOwner
<1> QED
  BY <1>1, <1>2, <1>3

LEMMA MarkStep ==
  ASSUME SafetyInv, NEW t \in Threads, ZallocMark(t)
  PROVE  /\ SafetyInv'
         /\ head[t] \in Items /\ owner[head[t]] = NoThread
         /\ owner' = [owner EXCEPT ![head[t]] = t]
<1> USE NoThreadAssumption DEF SafetyInv, Goto
<1>1. /\ head[t] \in InFlight /\ head[t] \in Taken /\ head[t] \notin held
      /\ head[t] \in Items /\ head[t][1] \in mapped
      /\ head[t][2] \notin free_item[head[t][1]]
      /\ head[t] \notin flag
  BY DEF ZallocMark, InFlight, OneHolder, Taken, FlagMatchesOwner
<1>2. /\ flag' = flag \cup {head[t]}
      /\ owner' = [owner EXCEPT ![head[t]] = t]
      /\ pc' = [pc EXCEPT ![t] = "idle"]
      /\ head' = [head EXCEPT ![t] = NoItem]
  BY <1>1 DEF ZallocMark
<1>a. held' = held \cup {head[t]} /\ owner[head[t]] = NoThread
  BY <1>1, <1>2 DEF TypeOK, held
<1>3. TypeOK' /\ ListsSorted'
  BY <1>1, <1>2 DEF TypeOK, Control, ListsSorted, ZallocMark
<1>4. InFlight' = InFlight \ {head[t]}
  <2>1. \A u \in Threads : u # t => head[u] # head[t]
    BY <1>1 DEF OneHolder, HeadMatchesPc, ZallocMark
  <2> QED
    BY <1>2, <2>1 DEF TypeOK, InFlight, HeadMatchesPc, ZallocMark
<1>5. Taken' = Taken
  BY DEF Taken, ZallocMark
<1>6. OneHolder'
  BY <1>1, <1>2, <1>a, <1>4, <1>5 DEF TypeOK, OneHolder
<1>7. NoFalseAlarm' /\ LockDiscipline' /\ HeadMatchesPc'
  BY <1>2 DEF TypeOK, NoFalseAlarm, LockDiscipline, HeadMatchesPc, ZallocMark
<1>8. FlagMatchesOwner'
  <2>1. held' \subseteq flag'
    BY <1>2, <1>a DEF TypeOK, FlagMatchesOwner
  <2>2. /\ \A u \in Threads : pc'[u] \in {"give", "free"} => head'[u] \in flag'
        /\ \A u \in Threads : pc'[u] = "mark" => head'[u] \notin flag'
    BY <1>1, <1>2 DEF TypeOK, FlagMatchesOwner, OneHolder, HeadMatchesPc
  <2>3. ASSUME NEW q \in mapped', NEW s \in free_item'[q]
        PROVE  <<q, s>> \notin flag'
    <3>1. <<q, s>> \notin flag
      BY DEF FlagMatchesOwner, ZallocMark
    <3>2. <<q, s>> # head[t]
      BY <1>1 DEF ZallocMark
    <3> QED
      BY <1>2, <3>1, <3>2
  <2> QED
    BY <2>1, <2>2, <2>3 DEF FlagMatchesOwner
<1> QED
  BY <1>1, <1>2, <1>a, <1>3, <1>6, <1>7, <1>8

\* What SafetyInv says of the item a thread is giving back.
LEMMA GivenItem ==
  ASSUME SafetyInv, NEW t \in Threads, pc[t] \in {"mark", "give", "free"}
  PROVE  /\ head[t] \in InFlight /\ head[t] \in Taken /\ head[t] \notin held
         /\ head[t] \in Items /\ head[t][1] \in mapped
         /\ head[t][1] \in Pages /\ head[t][2] \in Slots
         /\ head[t][2] \notin free_item[head[t][1]]
         /\ head[t] = <<head[t][1], head[t][2]>>
         /\ \A u \in Threads : u # t => head[u] # head[t]
BY DEF SafetyInv, InFlight, OneHolder, Taken, Items, HeadMatchesPc

\* A thread that lets go of its item leaves the set of items in flight.
LEMMA LetGo ==
  ASSUME SafetyInv, NEW t \in Threads, pc[t] \in {"mark", "give", "free"},
         Goto(t, "idle", NoItem)
  PROVE  InFlight' = InFlight \ {head[t]}
<1>1. \A u \in Threads : u # t => head[u] # head[t]
  BY GivenItem
<1> QED
  BY <1>1 DEF SafetyInv, TypeOK, InFlight, HeadMatchesPc, Goto

LEMMA CheckStep ==
  ASSUME SafetyInv, NEW t \in Threads, ZfreeCheck(t)
  PROVE  /\ SafetyInv'
         /\ \E i \in held : owner' = [owner EXCEPT ![i] = NoThread]
<1> USE NoThreadAssumption DEF SafetyInv, Goto, slabVars
<1>1. PICK i \in held :
        /\ owner' = [owner EXCEPT ![i] = NoThread]
        /\ IF i[1] \notin mapped \/ i \notin flag
           THEN Goto(t, "crash", NoItem)
           ELSE Goto(t, "give", i)
  BY DEF ZfreeCheck
<1>2. i \in Taken /\ i \in Items /\ i \in flag /\ i[1] \in mapped /\ i \notin InFlight
  BY DEF OneHolder, Taken, FlagMatchesOwner
<1>3. pc' = [pc EXCEPT ![t] = "give"] /\ head' = [head EXCEPT ![t] = i]
  BY <1>1, <1>2
<1>a. held' = held \ {i}
  BY <1>1 DEF TypeOK, held
<1>4. i # NoItem
  BY <1>2 DEF Items, NoItem
<1>5. TypeOK' /\ ListsSorted'
  BY <1>1, <1>2, <1>3 DEF TypeOK, Control, ListsSorted, ZfreeCheck
<1>6. InFlight' = InFlight \cup {i} /\ Taken' = Taken
  BY <1>3 DEF TypeOK, HeadMatchesPc, InFlight, Taken, ZfreeCheck, NoItem
<1>7. \A u \in Threads : u # t => head[u] # i
  BY <1>2, <1>4 DEF InFlight, HeadMatchesPc
<1>8. OneHolder'
  BY <1>1, <1>2, <1>a, <1>3, <1>6, <1>7 DEF TypeOK, OneHolder
<1>9. NoFalseAlarm' /\ LockDiscipline' /\ HeadMatchesPc' /\ FlagMatchesOwner'
  BY <1>1, <1>2, <1>a, <1>3, <1>4
  DEF TypeOK, NoFalseAlarm, LockDiscipline, HeadMatchesPc, FlagMatchesOwner, ZfreeCheck
<1> QED
  BY <1>1, <1>5, <1>8, <1>9

LEMMA FreePageStep ==
  ASSUME SafetyInv, CountersExact, NEW t \in Threads, ZfreePage(t)
  PROVE  /\ SafetyInv' /\ Taken' = Taken \ {head[t]}
         /\ Taken # {}
<1> USE NoThreadAssumption, HeldUnchanged DEF SafetyInv, Goto, NoItem, CountAfterFree
<1> DEFINE p == head[t][1]
           s == head[t][2]
<1>1. /\ head[t] \in InFlight /\ head[t] \in Taken /\ head[t] \notin held
      /\ head[t] \in Items /\ p \in mapped /\ p \in Pages /\ s \in Slots
      /\ s \notin free_item[p]
      /\ head[t] = <<p, s>>
      /\ \A u \in Threads : u # t => head[u] # head[t]
  BY GivenItem DEF ZfreePage
<1>2. free_item[p] = Slots \ {s}
  BY <1>1, LastItem DEF ZfreePage
<1>3. Slots \ {s} # {}
  <2>1. Cardinality({s}) = 1
    BY FS_Singleton
  <2>2. Slots # {s}
    BY <2>1, SlotsAssumption DEF MIN_PAGE_ITEMS
  <2> QED
    BY <1>1, <2>2
<1>4. p \notin full_page_list
  BY <1>2, <1>3 DEF ListsSorted
<1>5. /\ page_count \in Nat /\ page_count # 0
      /\ alloc_item_count \in Nat /\ alloc_item_count # 0
  <2>1. IsFiniteSet(mapped) /\ IsFiniteSet(Taken)
    BY PagesAssumption, ItemsFinite, FS_Subset DEF TypeOK, Taken
  <2> QED
    BY <1>1, <2>1, FS_EmptySet DEF CountersExact, TypeOK
<1>6. TypeOK'
  <2>1. Cardinality(Slots) \in Nat
    BY SlotsAssumption, FS_CardinalityType
  <2> QED
    BY <1>1, <1>5, <2>1 DEF TypeOK, Control, ZfreePage
<1>7. ListsSorted'
  BY <1>1, <1>4 DEF TypeOK, ListsSorted, ZfreePage
<1>8. Taken' = Taken \ {head[t]}
  <2>1. ASSUME NEW i \in Items PROVE i \in Taken' <=> i \in Taken /\ i # head[t]
    <3>1. i[1] \in Pages /\ i[2] \in Slots /\ (i = head[t] <=> i[1] = p /\ i[2] = s)
      BY <1>1 DEF Items
    <3>2. CASE i[1] = p
      <4>1. i \notin Taken'
        BY <3>2, <1>1 DEF Taken, ZfreePage
      <4>2. i \in Taken => i[2] = s
        BY <3>1, <3>2, <1>2 DEF Taken
      <4> QED
        BY <3>1, <3>2, <4>1, <4>2
    <3>3. CASE i[1] # p
      <4>1. i[1] \in mapped' <=> i[1] \in mapped
        BY <3>3 DEF ZfreePage
      <4>2. free_item'[i[1]] = free_item[i[1]]
        BY <3>1, <3>3 DEF TypeOK, ZfreePage
      <4> QED
        BY <3>1, <3>3, <4>1, <4>2 DEF Taken
    <3> QED
      BY <3>2, <3>3
  <2> QED
    BY <2>1 DEF Taken
<1>9. InFlight' = InFlight \ {head[t]}
  BY LetGo DEF ZfreePage
<1>10. OneHolder'
  BY <1>1, <1>8, <1>9 DEF TypeOK, OneHolder, ZfreePage
<1>11. NoFalseAlarm' /\ LockDiscipline' /\ HeadMatchesPc'
  BY <1>1 DEF TypeOK, NoFalseAlarm, LockDiscipline, HeadMatchesPc, ZfreePage
<1>12. \A i \in Taken' : i[1] # p
  BY <1>1 DEF Taken, ZfreePage
<1>13. FlagMatchesOwner'
  <2>1. held' \subseteq flag'
    BY <1>10, <1>12 DEF FlagMatchesOwner, OneHolder, ZfreePage
  <2>2. \A u \in Threads : pc'[u] \in {"mark", "give", "free"} =>
          u # t /\ head'[u] \in Taken' /\ head'[u] = head[u] /\ pc'[u] = pc[u]
    BY <1>10 DEF TypeOK, OneHolder, InFlight, ZfreePage
  <2>3. /\ \A u \in Threads : pc'[u] \in {"give", "free"} => head'[u] \in flag'
        /\ \A u \in Threads : pc'[u] = "mark" => head'[u] \notin flag'
    BY <1>12, <2>2 DEF FlagMatchesOwner, ZfreePage
  <2>4. \A q \in mapped' : \A r \in free_item'[q] : <<q, r>> \notin flag'
    BY <1>1 DEF TypeOK, FlagMatchesOwner, ZfreePage
  <2> QED
    BY <2>1, <2>3, <2>4 DEF FlagMatchesOwner
<1> QED
  BY <1>1, <1>6, <1>7, <1>8, <1>10, <1>11, <1>13

LEMMA FreeItemStep ==
  ASSUME SafetyInv, CountersExact, NEW t \in Threads, ZfreeItem(t)
  PROVE  /\ SafetyInv' /\ Taken' = Taken \ {head[t]}
         /\ Taken # {}
<1> USE NoThreadAssumption, HeldUnchanged DEF SafetyInv, Goto, NoItem, CountAfterFree
<1> DEFINE p == head[t][1]
           s == head[t][2]
<1>1. /\ head[t] \in InFlight /\ head[t] \in Taken /\ head[t] \notin held
      /\ head[t] \in Items /\ p \in mapped /\ p \in Pages /\ s \in Slots
      /\ s \notin free_item[p]
      /\ head[t] = <<p, s>>
      /\ \A u \in Threads : u # t => head[u] # head[t]
  BY GivenItem DEF ZfreeItem
<1>2. /\ IsFiniteSet(free_item[p]) /\ Cardinality(Slots) \in Nat
      /\ free_count[p] = Cardinality(free_item[p])
      /\ free_count[p] \in 0..Cardinality(Slots)
      /\ free_count[p] = 0 <=> free_item[p] = {}
      /\ free_count[p] # Cardinality(Slots)
  <2>1. free_item[p] \subseteq Slots
    BY <1>1 DEF TypeOK
  <2>2. /\ IsFiniteSet(free_item[p])
        /\ Cardinality(Slots) = Cardinality(free_item[p]) => Slots = free_item[p]
    BY <2>1, SlotsAssumption, FS_Subset
  <2>3. Cardinality(Slots) \in Nat
    BY SlotsAssumption, FS_CardinalityType
  <2>4. free_count[p] = Cardinality(free_item[p])
    BY <1>1 DEF CountersExact
  <2>5. free_count[p] \in 0..Cardinality(Slots)
    BY <1>1 DEF TypeOK
  <2>6. Cardinality(free_item[p]) = 0 <=> free_item[p] = {}
    BY <2>2, FS_EmptySet
  <2>7. Cardinality(Slots) # Cardinality(free_item[p])
    BY <1>1, <2>2
  <2> QED
    BY <2>2, <2>3, <2>4, <2>5, <2>6, <2>7
<1>3. alloc_item_count \in Nat /\ alloc_item_count # 0
  <2>1. IsFiniteSet(Taken)
    BY ItemsFinite, FS_Subset DEF Taken
  <2> QED
    BY <1>1, <2>1, FS_EmptySet DEF CountersExact, TypeOK
<1>4. TypeOK'
  BY <1>1, <1>2, <1>3 DEF TypeOK, Control, ZfreeItem, Unflagged
<1>5. ListsSorted'
  BY <1>1, <1>2 DEF TypeOK, ListsSorted, ZfreeItem
<1>6. Taken' = Taken \ {head[t]}
  <2>1. ASSUME NEW i \in Items PROVE i \in Taken' <=> i \in Taken /\ i # head[t]
    <3>1. i[1] \in Pages /\ i[2] \in Slots /\ (i = head[t] <=> i[1] = p /\ i[2] = s)
      BY <1>1 DEF Items
    <3>2. free_item'[i[1]] = IF i[1] = p THEN free_item[p] \cup {s} ELSE free_item[i[1]]
      BY <3>1, <1>1 DEF TypeOK, ZfreeItem
    <3>3. mapped' = mapped
      BY DEF ZfreeItem
    <3> QED
      BY <3>1, <3>2, <3>3, <1>1 DEF Taken
  <2> QED
    BY <2>1 DEF Taken
<1>7. InFlight' = InFlight \ {head[t]}
  BY LetGo DEF ZfreeItem
<1>8. OneHolder'
  BY <1>1, <1>6, <1>7 DEF TypeOK, OneHolder, ZfreeItem
<1>9. NoFalseAlarm' /\ LockDiscipline' /\ HeadMatchesPc'
  BY <1>1 DEF TypeOK, NoFalseAlarm, LockDiscipline, HeadMatchesPc, ZfreeItem
<1>10. FlagMatchesOwner'
  BY <1>1 DEF TypeOK, FlagMatchesOwner, HeadMatchesPc, ZfreeItem, Unflagged
<1> QED
  BY <1>1, <1>4, <1>5, <1>6, <1>8, <1>9, <1>10

LEMMA ClearStep ==
  ASSUME SafetyInv, Zclear
  PROVE  /\ SafetyInv' /\ mapped' = {} /\ Taken' = {}
<1> USE NoThreadAssumption DEF SafetyInv, Zclear
<1>1. mapped' = {} /\ Taken' = {} /\ InFlight' = {} /\ held' = {}
  BY DEF held, ListsSorted, Taken, InFlight
<1>2. TypeOK' /\ ListsSorted'
  <2>1. Cardinality(Slots) \in Nat
    BY SlotsAssumption, FS_CardinalityType
  <2> QED
    BY <1>1, <2>1 DEF TypeOK, ListsSorted
<1>3. OneHolder'
  BY <1>1 DEF OneHolder
<1>4. NoFalseAlarm' /\ LockDiscipline' /\ HeadMatchesPc' /\ FlagMatchesOwner'
  BY <1>1 DEF NoFalseAlarm, LockDiscipline, HeadMatchesPc, FlagMatchesOwner
<1> QED
  BY <1>1, <1>2, <1>3, <1>4

-----------------------------------------------------------------------------
(* The counters.                                                           *)

\* free_count and the free list of one page change together.
LEMMA FreeCountStep ==
  ASSUME TypeOK, CountersExact, NEW p \in Pages, NEW T \in SUBSET Slots, NEW n,
         n = Cardinality(T),
         free_item' = [free_item EXCEPT ![p] = T],
         free_count' = [free_count EXCEPT ![p] = n]
  PROVE  \A q \in Pages : free_count'[q] = Cardinality(free_item'[q])
BY DEF TypeOK, CountersExact

LEMMA CountersStep ==
  ASSUME IInv, [Next]_vars
  PROVE  CountersExact'
<1> USE DEF IInv
<1> DEFINE FreeCounts == \A q \in Pages : free_count[q] = Cardinality(free_item[q])
<1>1. /\ IsFiniteSet(mapped) /\ IsFiniteSet(Taken)
      /\ Cardinality(mapped) \in Nat /\ Cardinality(Taken) \in Nat
  <2>1. IsFiniteSet(mapped) /\ IsFiniteSet(Taken)
    BY PagesAssumption, ItemsFinite, FS_Subset DEF SafetyInv, TypeOK, Taken
  <2> QED
    BY <2>1, FS_CardinalityType
<1>2. ASSUME UNCHANGED <<free_item, free_count, page_count, alloc_item_count, mapped>>
      PROVE  CountersExact'
  BY <1>2 DEF CountersExact, Taken
<1>3. CASE UNCHANGED vars
  BY <1>2, <1>3 DEF vars, slabVars
<1>4. ASSUME NEW t \in Threads, ZallocTake(t) PROVE CountersExact'
  <2>1. PICK p \in alloc_page_list, s \in Slots :
          /\ s \in free_item[p]
          /\ free_item' = [free_item EXCEPT ![p] = @ \ {s}]
          /\ free_count' = [free_count EXCEPT ![p] = @ - 1]
    BY <1>4 DEF ZallocTake, WithoutSlot, SafetyInv, TypeOK
  <2>2. p \in Pages /\ p \in mapped
    BY DEF SafetyInv, TypeOK, ListsSorted
  <2>3. free_item[p] \in SUBSET Slots
    BY <2>2 DEF SafetyInv, TypeOK
  <2>4. Cardinality(free_item[p] \ {s}) = free_count[p] - 1
    <3>1. IsFiniteSet(free_item[p])
      BY <2>3, SlotsAssumption, FS_Subset
    <3> QED
      BY <2>1, <2>2, <3>1, FS_RemoveElement DEF CountersExact
  <2>5. FreeCounts'
    <3> DEFINE T == free_item[p] \ {s}
    <3>1. T \in SUBSET Slots /\ free_count[p] - 1 = Cardinality(T)
      BY <2>3, <2>4
    <3>2. /\ free_item' = [free_item EXCEPT ![p] = T]
          /\ free_count' = [free_count EXCEPT ![p] = free_count[p] - 1]
      BY <2>1
    <3> HIDE DEF T
    <3> QED
      BY <2>2, <3>1, <3>2, FreeCountStep DEF SafetyInv
  <2>6. Taken' = Taken \cup {<<p, s>>} /\ <<p, s>> \notin Taken
    BY <1>4, <2>1, <2>2 DEF SafetyInv, TypeOK, Taken, Items, ZallocTake
  <2>7. alloc_item_count' = Cardinality(Taken')
    BY <1>1, <1>4, <2>6, FS_AddElement DEF CountersExact, ZallocTake
  <2> QED
    BY <1>4, <2>5, <2>7 DEF CountersExact, ZallocTake
<1>5. ASSUME NEW t \in Threads, GetPage(t) PROVE CountersExact'
  <2>1. PICK p \in Pages \ mapped :
          /\ mapped' = mapped \cup {p}
          /\ free_item' = [free_item EXCEPT ![p] = Slots]
          /\ free_count' = [free_count EXCEPT ![p] = ItemCountPerPage]
    BY <1>5 DEF GetPage
  <2>2. FreeCounts'
    BY <2>1, FreeCountStep DEF SafetyInv, ItemCountPerPage
  <2>3. Cardinality(mapped') = Cardinality(mapped) + 1
    BY <1>1, <2>1, FS_AddElement
  <2>4. Taken' = Taken
    BY <1>5, GetPageStep
  <2> QED
    BY <1>5, <2>2, <2>3, <2>4 DEF CountersExact, GetPage
<1>6. ASSUME NEW t \in Threads, ZfreePage(t) PROVE CountersExact'
  <2>1. head[t][1] \in mapped /\ head[t][1] \in Pages /\ head[t] \in Taken
    BY <1>6, GivenItem DEF ZfreePage
  <2>2. Cardinality({}) = 0
    BY FS_EmptySet
  <2>3. FreeCounts'
    BY <1>6, <2>1, <2>2, FreeCountStep DEF ZfreePage, SafetyInv
  <2>4. Cardinality(mapped') = Cardinality(mapped) - 1
    BY <1>1, <1>6, <2>1, FS_RemoveElement DEF ZfreePage
  <2>5. Cardinality(Taken') = Cardinality(Taken) - 1
    BY <1>1, <1>6, <2>1, FreePageStep, FS_RemoveElement
  <2> QED
    BY <1>6, <2>3, <2>4, <2>5 DEF CountersExact, ZfreePage, CountAfterFree
<1>7. ASSUME NEW t \in Threads, ZfreeItem(t) PROVE CountersExact'
  <2> DEFINE p == head[t][1]
             T == free_item[p] \cup {head[t][2]}
  <2>1. /\ p \in Pages /\ head[t] \in Taken
        /\ head[t][2] \in Slots /\ head[t][2] \notin free_item[p]
    BY <1>7, GivenItem DEF ZfreeItem
  <2>2. T \in SUBSET Slots /\ IsFiniteSet(free_item[p])
    <3>1. free_item[p] \in SUBSET Slots
      BY <2>1 DEF SafetyInv, TypeOK
    <3> QED
      BY <2>1, <3>1, SlotsAssumption, FS_Subset
  <2>3. free_count[p] + 1 = Cardinality(T)
    <3>1. free_count[p] = Cardinality(free_item[p])
      BY <2>1 DEF CountersExact
    <3>2. Cardinality(T) = Cardinality(free_item[p]) + 1
      BY <2>1, <2>2, FS_AddElement
    <3> QED
      BY <3>1, <3>2
  <2>4. /\ free_item' = [free_item EXCEPT ![p] = T]
        /\ free_count' = [free_count EXCEPT ![p] = free_count[p] + 1]
    BY <1>7 DEF ZfreeItem
  <2>5. FreeCounts'
    <3> HIDE DEF T
    <3> QED
      BY <2>1, <2>2, <2>3, <2>4, FreeCountStep DEF SafetyInv
  <2>6. Cardinality(Taken') = Cardinality(Taken) - 1
    BY <1>1, <1>7, <2>1, FreeItemStep, FS_RemoveElement
  <2> QED
    BY <1>7, <2>5, <2>6 DEF CountersExact, ZfreeItem, CountAfterFree
<1>8. CASE Zclear
  BY <1>8, ClearStep, FS_EmptySet DEF CountersExact, Zclear
<1>9. ASSUME NEW t \in Threads,
             ZallocCall(t) \/ ZallocLock(t) \/ ZallocNoMemory(t)
               \/ ZallocMark(t) \/ ZfreeCheck(t) \/ ZfreeLock(t)
      PROVE  CountersExact'
  BY <1>2, <1>9 DEF slabVars, ZallocCall, ZallocLock, ZallocNoMemory,
                    ZallocMark, ZfreeCheck, ZfreeLock
<1> QED
  BY <1>3, <1>4, <1>5, <1>6, <1>7, <1>8, <1>9 DEF Next, ThreadStep, Critical

-----------------------------------------------------------------------------
(* No page stays empty.                                                    *)

LEMMA IdleStep ==
  ASSUME IInv, [Next]_vars
  PROVE  IdleOnlyWhileTaking'
<1> USE DEF IInv, Goto
<1>1. CASE UNCHANGED vars
  BY <1>1 DEF vars, slabVars, IdleOnlyWhileTaking
<1>2. ASSUME NEW t \in Threads, ZallocTake(t) PROVE IdleOnlyWhileTaking'
  <2>1. PICK p \in alloc_page_list, s \in Slots :
          /\ s \in free_item[p]
          /\ free_item' = [free_item EXCEPT ![p] = @ \ {s}]
    BY <1>2 DEF ZallocTake, WithoutSlot, SafetyInv, TypeOK
  <2>2. ASSUME NEW q \in mapped' PROVE free_item'[q] # Slots
    <3>1. q \in Pages /\ q \in mapped
      BY <1>2 DEF SafetyInv, TypeOK, ZallocTake
    <3>2. CASE q = p
      BY <2>1, <3>1, <3>2 DEF SafetyInv, TypeOK
    <3>3. CASE q # p
      BY <2>1, <3>1, <3>3 DEF SafetyInv, TypeOK, IdleOnlyWhileTaking
    <3> QED
      BY <3>2, <3>3
  <2> QED
    BY <2>2 DEF IdleOnlyWhileTaking
<1>3. ASSUME NEW t \in Threads, GetPage(t) PROVE IdleOnlyWhileTaking'
  BY <1>3 DEF SafetyInv, TypeOK, IdleOnlyWhileTaking, GetPage
<1>4. ASSUME NEW t \in Threads, ZfreePage(t) PROVE IdleOnlyWhileTaking'
  <2>1. \A u \in Threads : pc[u] # "alloc"
    BY <1>4 DEF SafetyInv, LockDiscipline, ZfreePage
  <2>2. \A q \in mapped : free_item[q] # Slots
    BY <2>1 DEF IdleOnlyWhileTaking
  <2> QED
    BY <1>4, <2>2 DEF SafetyInv, TypeOK, IdleOnlyWhileTaking, ZfreePage
<1>5. ASSUME NEW t \in Threads, ZfreeItem(t) PROVE IdleOnlyWhileTaking'
  <2>1. \A u \in Threads : pc[u] # "alloc"
    BY <1>5 DEF SafetyInv, LockDiscipline, ZfreeItem
  <2>2. \A q \in mapped : free_item[q] # Slots
    BY <2>1 DEF IdleOnlyWhileTaking
  <2>3. /\ head[t][1] \in Pages /\ head[t][2] \in Slots
        /\ head[t][2] \notin free_item[head[t][1]]
    BY <1>5, GivenItem DEF ZfreeItem
  <2>4. free_item[head[t][1]] # Slots \ {head[t][2]}
    BY <1>5, <2>3, LastItem DEF SafetyInv, ZfreeItem
  <2>5. free_item[head[t][1]] \cup {head[t][2]} # Slots
    BY <2>3, <2>4
  <2> QED
    BY <1>5, <2>2, <2>3, <2>5 DEF SafetyInv, TypeOK, IdleOnlyWhileTaking, ZfreeItem
<1>6. CASE Zclear
  BY <1>6, ClearStep DEF IdleOnlyWhileTaking
<1>7. ASSUME NEW t \in Threads, ZallocNoMemory(t) PROVE IdleOnlyWhileTaking'
  <2>1. \A q \in mapped : free_item[q] # Slots
    BY <1>7 DEF IdleOnlyWhileTaking, ZallocNoMemory
  <2> QED
    BY <1>7, <2>1 DEF IdleOnlyWhileTaking, ZallocNoMemory, slabVars
<1>8. ASSUME NEW t \in Threads,
             ZallocCall(t) \/ ZallocLock(t) \/ ZallocMark(t) \/ ZfreeCheck(t) \/ ZfreeLock(t)
      PROVE  IdleOnlyWhileTaking'
  <2>1. pc[t] # "alloc"
    BY <1>8 DEF ZallocCall, ZallocLock, ZallocMark, ZfreeCheck, ZfreeLock
  <2>2. /\ UNCHANGED <<free_item, alloc_page_list, mapped>>
        /\ \A u \in Threads : u # t => pc'[u] = pc[u]
    BY <1>8 DEF ZallocCall, ZallocLock, ZallocMark, ZfreeCheck, ZfreeLock, slabVars,
                SafetyInv, TypeOK
  <2> QED
    BY <2>1, <2>2 DEF IdleOnlyWhileTaking
<1> QED
  BY <1>1, <1>2, <1>3, <1>4, <1>5, <1>6, <1>7, <1>8 DEF Next, ThreadStep, Critical

-----------------------------------------------------------------------------
(* The theorems.                                                           *)

LEMMA InitInv == Init => IInv
<1> SUFFICES ASSUME Init PROVE IInv
  OBVIOUS
<1> USE NoThreadAssumption DEF Init, SafetyInv
<1>1. Cardinality({}) = 0 /\ Cardinality(Slots) \in Nat
  BY SlotsAssumption, FS_EmptySet, FS_CardinalityType
<1>2. TypeOK /\ ListsSorted
  BY <1>1 DEF TypeOK, Control, ListsSorted
<1>3. Taken = {} /\ InFlight = {} /\ held = {}
  BY DEF held, Taken, InFlight
<1>4. OneHolder
  BY <1>3 DEF OneHolder, NoItem
<1>5. NoFalseAlarm /\ LockDiscipline /\ HeadMatchesPc /\ FlagMatchesOwner
  BY <1>3 DEF NoFalseAlarm, LockDiscipline, HeadMatchesPc, FlagMatchesOwner, NoItem
<1>6. CountersExact
  BY <1>1, <1>3 DEF CountersExact
<1>7. IdleOnlyWhileTaking
  BY DEF IdleOnlyWhileTaking
<1> QED
  BY <1>2, <1>4, <1>5, <1>6, <1>7 DEF IInv

LEMMA SafetyStep ==
  ASSUME IInv, [Next]_vars
  PROVE  SafetyInv'
<1> USE DEF IInv
<1>1. CASE UNCHANGED vars
  BY <1>1, HeldUnchanged DEF vars, slabVars, SafetyInv, TypeOK, ListsSorted, OneHolder, InFlight, Taken,
              NoFalseAlarm, LockDiscipline, HeadMatchesPc, FlagMatchesOwner
<1>2. CASE Zclear
  BY <1>2, ClearStep
<1>3. ASSUME NEW t \in Threads, ThreadStep(t) PROVE SafetyInv'
  BY <1>3, WaitingStep, TakeStep, GetPageStep, NoMemoryStep, MarkStep, CheckStep,
     FreePageStep, FreeItemStep DEF ThreadStep, Critical
<1> QED
  BY <1>1, <1>2, <1>3 DEF Next

\* The inductive invariant: it holds initially and every step of ey_slab.c
\* keeps it.
THEOREM SlabInvariant == Spec => []IInv
<1>1. IInv /\ [Next]_vars => IInv'
  BY SafetyStep, CountersStep, IdleStep DEF IInv
<1> QED
  BY InitInv, <1>1, PTL DEF Spec

\* The lists, counters, lock and ownership of a slab stay right under every
\* interleaving of ey_zalloc and ey_zfree.
THEOREM SlabSafety ==
  Spec => [](PagesConsistent /\ OneHolder /\ LockDiscipline)
<1>1. IInv => PagesConsistent /\ OneHolder /\ LockDiscipline
  BY DEF IInv, SafetyInv, PagesConsistent
<1> QED
  BY <1>1, SlabInvariant, PTL

\* The pages are on the list their free items call for, and counted.
THEOREM SlabPages == Spec => []PagesConsistent
<1>1. IInv => PagesConsistent
  BY DEF IInv, SafetyInv, PagesConsistent
<1> QED
  BY <1>1, SlabInvariant, PTL

\* No legal client meets the diagnostics of ey_zalloc and ey_zfree.
THEOREM SlabNoFalseAlarm == Spec => []NoFalseAlarm
<1>1. IInv => NoFalseAlarm
  BY DEF IInv, SafetyInv
<1> QED
  BY <1>1, SlabInvariant, PTL

\* A page is given back with its last item.
THEOREM SlabNoIdlePage == Spec => []NoIdlePage
<1>1. IInv => NoIdlePage
  BY NoThreadAssumption
  DEF IInv, SafetyInv, TypeOK, LockDiscipline, IdleOnlyWhileTaking, NoIdlePage
<1> QED
  BY <1>1, SlabInvariant, PTL

\* A slab implements Allocator: an item is handed out only while no client
\* owns it.
THEOREM SlabImplementsAllocator == Spec => ImplementsAllocator
<1> USE NoThreadAssumption DEF Abstract!Next, Abstract!Alloc, Abstract!Free, Abstract!Clear
<1>1. Init => Abstract!Init
  BY DEF Init, Abstract!Init
<1>2. ASSUME IInv, [Next]_vars PROVE [Abstract!Next]_owner
  <2> USE DEF IInv
  <2>1. CASE UNCHANGED vars
    BY <2>1 DEF vars
  <2>2. CASE Zclear
    BY <2>2 DEF Zclear
  <2>3. ASSUME NEW t \in Threads, ZallocMark(t) PROVE Abstract!Next
    <3>1. head[t] \in Items /\ Abstract!Alloc(t, head[t])
      BY <1>2, <2>3, MarkStep
    <3> QED
      BY <3>1
  <2>4. ASSUME NEW t \in Threads, ZfreeCheck(t) PROVE Abstract!Next
    <3>1. PICK i \in held : owner' = [owner EXCEPT ![i] = NoThread]
      BY <1>2, <2>4, CheckStep
    <3>2. i \in Items /\ Abstract!Free(i)
      BY <1>2, <3>1 DEF held
    <3> QED
      BY <3>2
  <2>5. ASSUME NEW t \in Threads,
               ZallocCall(t) \/ ZallocLock(t) \/ ZfreeLock(t) \/ Critical(t)
        PROVE  owner' = owner
    BY <2>5 DEF ZallocCall, ZallocLock, ZfreeLock, Critical, ZallocTake, GetPage,
                ZallocNoMemory, ZfreePage, ZfreeItem
  <2> QED
    BY <1>2, <2>1, <2>2, <2>3, <2>4, <2>5 DEF Next, ThreadStep
<1> QED
  BY <1>1, <1>2, SlabInvariant, PTL DEF Spec, ImplementsAllocator, Abstract!Spec
=============================================================================
