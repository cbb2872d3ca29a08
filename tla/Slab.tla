-------------------------------- MODULE Slab --------------------------------
(***************************************************************************)
(* The slab allocator of libmemory/ey_slab.c, one slab used by several     *)
(* threads.  A step is what one thread does between two points where       *)
(* another thread can be seen: taking the slab's lock, the critical        *)
(* section (which ends by dropping the lock), and the two accesses the     *)
(* code makes to an item's flag without the lock, the check and set at the *)
(* end of ey_zalloc and the check at the start of ey_zfree.                *)
(*                                                                         *)
(* Clients are legal: they free an item they were given once, from any     *)
(* thread.                                                                 *)
(* The order of the items in a page and of the pages in a list only        *)
(* chooses among equals, so lists are sets and the choice is left open.    *)
(***************************************************************************)
EXTENDS Naturals, FiniteSets

CONSTANTS Threads,         \* threads that use the slab
          Pages,           \* page addresses the memory handler can return
          Slots,           \* places of items in a page
          NoThread         \* the lock's owner when it is free

MIN_PAGE_ITEMS == 4

ItemCountPerPage == Cardinality(Slots)

\* ey_zinit refuses an item size of which a page holds fewer than
\* MIN_PAGE_ITEMS.
ASSUME SlotsAssumption ==
  IsFiniteSet(Slots) /\ Cardinality(Slots) >= MIN_PAGE_ITEMS
ASSUME PagesAssumption == IsFiniteSet(Pages)
ASSUME NoThreadAssumption == NoThread \notin Threads

Items == Pages \X Slots
NoItem == <<>>

VARIABLES
  lock,              \* owner of z->lock
  full_page_list,    \* pages without a free item
  alloc_page_list,   \* pages with a free item
  page_count, alloc_item_count,
  free_item,         \* per page, the slots on its free list
  free_count,        \* per page, the counter kept beside that list
  flag,              \* the items whose ITEM_ALLOCTED flag is set
  mapped,            \* pages obtained from the memory handler, not yet freed
  pc, head,          \* per thread, where it is and the item it works on
  owner              \* per item, the client thread it was given to

slabVars == <<full_page_list, alloc_page_list, page_count, alloc_item_count,
              free_item, free_count, flag, mapped>>
vars == <<lock, slabVars, pc, head, owner>>

\* The items clients own; any thread may free one, whoever was given it.
held == {i \in Items : owner[i] # NoThread}

\* "want" and "give" wait for the lock, "alloc" and "free" own it, "mark"
\* has an item but has not set its flag; "crash" is the deliberate fault.
Control == {"idle", "want", "alloc", "mark", "give", "free", "crash"}

Init ==
  /\ lock = NoThread
  /\ full_page_list = {} /\ alloc_page_list = {}
  /\ page_count = 0 /\ alloc_item_count = 0
  /\ free_item = [p \in Pages |-> {}]
  /\ free_count = [p \in Pages |-> 0]
  /\ flag = {}
  /\ mapped = {}
  /\ pc = [t \in Threads |-> "idle"]
  /\ head = [t \in Threads |-> NoItem]
  /\ owner = [i \in Items |-> NoThread]

Goto(t, where, item) ==
  /\ pc' = [pc EXCEPT ![t] = where]
  /\ head' = [head EXCEPT ![t] = item]

-----------------------------------------------------------------------------
(* ey_zalloc                                                               *)

ZallocCall(t) ==
  /\ pc[t] = "idle"
  /\ Goto(t, "want", NoItem)
  /\ UNCHANGED <<lock, slabVars, owner>>

ZallocLock(t) ==
  /\ pc[t] = "want" /\ lock = NoThread
  /\ lock' = t
  /\ Goto(t, "alloc", NoItem)
  /\ UNCHANGED <<slabVars, owner>>

\* What the critical sections test and write, named for the proofs.
NowFull_Late(p) == free_count[p] = 0           \* a faulty variant of NowFull
NowFull(p) == free_count[p] = 1
WithoutSlot_Kept(p, s) == free_item            \* a faulty variant
WithoutSlot(p, s) == [free_item EXCEPT ![p] = @ \ {s}]

\* The first item of the first page that has one; a page without any other
\* moves to the full list.
ZallocTake(t) ==
  /\ pc[t] = "alloc"
  /\ \E p \in alloc_page_list : \E s \in free_item[p] :
       /\ free_item' = WithoutSlot(p, s)
       /\ free_count' = [free_count EXCEPT ![p] = @ - 1]
       /\ IF NowFull(p)
          THEN /\ alloc_page_list' = alloc_page_list \ {p}
               /\ full_page_list' = full_page_list \cup {p}
          ELSE UNCHANGED <<alloc_page_list, full_page_list>>
       /\ Goto(t, "mark", <<p, s>>)
  /\ alloc_item_count' = alloc_item_count + 1
  /\ lock' = NoThread
  /\ UNCHANGED <<page_count, flag, mapped, owner>>

\* get_page: a page from the handler, all of its items free.
GetPage(t) ==
  /\ pc[t] = "alloc" /\ alloc_page_list = {}
  /\ \E p \in Pages \ mapped :
       /\ mapped' = mapped \cup {p}
       /\ free_item' = [free_item EXCEPT ![p] = Slots]
       /\ free_count' = [free_count EXCEPT ![p] = ItemCountPerPage]
       /\ flag' = {i \in flag : i[1] # p}
       /\ alloc_page_list' = {p}
  /\ page_count' = page_count + 1
  /\ UNCHANGED <<lock, full_page_list, alloc_item_count, pc, head, owner>>

\* A faulty variant: trying again for ever when the handler has no page.
ZallocNoMemory_Retries(t) ==
  pc[t] = "alloc" /\ alloc_page_list = {} /\ UNCHANGED vars

\* The handler has no page: unlock and return NULL.
ZallocNoMemory(t) ==
  /\ pc[t] = "alloc" /\ alloc_page_list = {}
  /\ lock' = NoThread
  /\ Goto(t, "idle", NoItem)
  /\ UNCHANGED <<slabVars, owner>>

\* After the unlock: "item has been allocated" or set the flag and return.
ZallocMark(t) ==
  /\ pc[t] = "mark"
  /\ IF head[t][1] \notin mapped \/ head[t] \in flag
     THEN /\ Goto(t, "crash", NoItem)
          /\ UNCHANGED <<flag, owner>>
     ELSE /\ Goto(t, "idle", NoItem)
          /\ flag' = flag \cup {head[t]}
          /\ owner' = [owner EXCEPT ![head[t]] = t]
  /\ UNCHANGED <<lock, full_page_list, alloc_page_list, page_count,
                 alloc_item_count, free_item, free_count, mapped>>

-----------------------------------------------------------------------------
(* ey_zfree                                                                *)

\* Before the lock: the page's magic and the item's flag are read; "Slab
\* memory overwrite" and "Slab memory double free" end the process.
ZfreeCheck(t) ==
  /\ pc[t] = "idle"
  /\ \E i \in held :
       /\ owner' = [owner EXCEPT ![i] = NoThread]
       /\ IF i[1] \notin mapped \/ i \notin flag
          THEN Goto(t, "crash", NoItem)
          ELSE Goto(t, "give", i)
  /\ UNCHANGED <<lock, slabVars>>

ZfreeLock(t) ==
  /\ pc[t] = "give" /\ lock = NoThread
  /\ lock' = t
  /\ Goto(t, "free", head[t])
  /\ UNCHANGED <<slabVars, owner>>

\* Would freeing one more item leave page p without an allocated one?
\* Faulty variants: one item too late, and one too early.
LastItemOf_Late(p) == free_count[p] = ItemCountPerPage
LastItemOf_Early(p) == free_count[p] + 2 >= ItemCountPerPage
LastItemOf(p) == free_count[p] + 1 = ItemCountPerPage

Unflagged_Kept(i) == flag                                \* a faulty variant
Unflagged(i) == flag \ {i}

CountAfterFree(p) == alloc_item_count - 1

\* The page goes back to the handler, the item's flag with it.
ZfreePage(t) ==
  /\ pc[t] = "free"
  /\ LET p == head[t][1] IN
       /\ LastItemOf(p)
       /\ alloc_page_list' = alloc_page_list \ {p}
       /\ mapped' = mapped \ {p}
       /\ free_item' = [free_item EXCEPT ![p] = {}]
       /\ free_count' = [free_count EXCEPT ![p] = 0]
       /\ flag' = {i \in flag : i[1] # p}
  /\ page_count' = page_count - 1
  /\ alloc_item_count' = CountAfterFree(head[t][1])
  /\ lock' = NoThread
  /\ Goto(t, "idle", NoItem)
  /\ UNCHANGED <<full_page_list, owner>>

\* The item goes back on its page's list; a page that was full can serve
\* again and moves to the tail of the other list.
ZfreeItem(t) ==
  /\ pc[t] = "free"
  /\ LET p == head[t][1] IN
       /\ ~LastItemOf(p)
       /\ free_item' = [free_item EXCEPT ![p] = @ \cup {head[t][2]}]
       /\ free_count' = [free_count EXCEPT ![p] = @ + 1]
       /\ IF free_count[p] = 0
          THEN /\ full_page_list' = full_page_list \ {p}
               /\ alloc_page_list' = alloc_page_list \cup {p}
          ELSE UNCHANGED <<full_page_list, alloc_page_list>>
  /\ flag' = Unflagged(head[t])
  /\ alloc_item_count' = CountAfterFree(head[t][1])
  /\ lock' = NoThread
  /\ Goto(t, "idle", NoItem)
  /\ UNCHANGED <<page_count, mapped, owner>>

-----------------------------------------------------------------------------
\* ey_zclear: every page goes back.  The lock does not protect a thread that
\* holds an item it took before, so callers clear a slab nobody is using.
Zclear ==
  /\ \A t \in Threads : pc[t] = "idle"
  /\ lock = NoThread
  /\ mapped' = mapped \ (full_page_list \cup alloc_page_list)
  /\ full_page_list' = {} /\ alloc_page_list' = {}
  /\ page_count' = 0 /\ alloc_item_count' = 0
  /\ free_item' = [p \in Pages |-> {}]
  /\ free_count' = [p \in Pages |-> 0]
  /\ flag' = {}
  /\ owner' = [i \in Items |-> NoThread]
  /\ UNCHANGED <<lock, pc, head>>

\* The steps of a thread inside its critical section.
Critical(t) ==
  \/ ZallocTake(t) \/ GetPage(t) \/ ZallocNoMemory(t)
  \/ ZfreePage(t) \/ ZfreeItem(t)

ThreadStep(t) ==
  \/ ZallocCall(t) \/ ZallocLock(t) \/ ZallocMark(t)
  \/ ZfreeCheck(t) \/ ZfreeLock(t)
  \/ Critical(t)

Next == (\E t \in Threads : ThreadStep(t)) \/ Zclear

Spec == Init /\ [][Next]_vars

\* A thread that owns a mutex keeps running: it never waits for another.
FairSpec == Spec /\ \A t \in Threads : WF_vars(Critical(t))

-----------------------------------------------------------------------------
(* Properties                                                              *)

TypeOK ==
  /\ lock \in Threads \cup {NoThread}
  /\ full_page_list \subseteq Pages /\ alloc_page_list \subseteq Pages
  /\ page_count \in Nat /\ alloc_item_count \in Nat
  /\ free_item \in [Pages -> SUBSET Slots]
  /\ free_count \in [Pages -> 0..Cardinality(Slots)]
  /\ flag \subseteq Items
  /\ mapped \subseteq Pages
  /\ pc \in [Threads -> Control]
  /\ head \in [Threads -> Items \cup {NoItem}]
  /\ owner \in [Items -> Threads \cup {NoThread}]

\* The items threads are working on, between taking and giving.
InFlight == {head[t] : t \in {u \in Threads : pc[u] \in {"mark", "give", "free"}}}

\* The items that are on no free list of a mapped page.
Taken == {i \in Items : i[1] \in mapped /\ i[2] \notin free_item[i[1]]}

\* The two lists split the pages obtained from the handler by whether they
\* have a free item: ey_zalloc never meets a page without one, ey_zfree
\* unlinks a page from the list it is on, and no page is lost.
ListsSorted ==
  /\ mapped = full_page_list \cup alloc_page_list
  /\ \A p \in full_page_list : free_item[p] = {}
  /\ \A p \in alloc_page_list : free_item[p] # {}

\* The counters say what the lists hold: a page's free_count, by which the
\* code knows an empty list (the list itself has no terminator), page_count,
\* and alloc_item_count.
CountersExact ==
  /\ \A p \in Pages : free_count[p] = Cardinality(free_item[p])
  /\ page_count = Cardinality(mapped)
  /\ alloc_item_count = Cardinality(Taken)

\* What every critical section finds and leaves: variables of their types, the
\* lists sorted by whether a page has a free item, the counters equal to what
\* they count (ey_zalloc 93-118, ey_zfree 140-170).
PagesConsistent == TypeOK /\ ListsSorted /\ CountersExact

\* Every taken item has exactly one holder, a client or one thread inside
\* ey_zalloc or ey_zfree, and no page with such an item has been given back.
OneHolder ==
  /\ Taken = held \cup InFlight
  /\ held \cap InFlight = {}
  /\ \A t, u \in Threads :
       t # u /\ head[t] # NoItem => head[t] # head[u]

\* A client that frees each item once never sees "item has been allocated",
\* "Slab memory double free" or a fault, although the flag is read and
\* written without the lock.
NoFalseAlarm == \A t \in Threads : pc[t] # "crash"

\* Outside the critical sections every page has an allocated item: a page
\* goes back to the handler with its last item.
NoIdlePage ==
  lock = NoThread => \A p \in mapped : free_item[p] # Slots

\* The lock is owned exactly inside the critical sections.
LockDiscipline ==
  \A t \in Threads : lock = t <=> pc[t] \in {"alloc", "free"}

\* Whoever gets the lock drops it: the retry loop of ey_zalloc ends.
LockReleased == \A t \in Threads : lock = t ~> lock # t

\* The slab is an allocator: what a client is given nobody else owns.
Abstract == INSTANCE Allocator WITH Blocks <- Items, Clients <- Threads, Nobody <- NoThread
ImplementsAllocator == Abstract!Spec
=============================================================================
