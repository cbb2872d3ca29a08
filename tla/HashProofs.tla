---------------------------- MODULE HashProofs ----------------------------
(***************************************************************************)
(* HashTable is correct for any number of threads, lines, keys and entries *)
(* and any limit.                                                          *)
(***************************************************************************)
EXTENDS HashTable, FiniteSetTheorems, TLAPS

\* A thread in one of those places has the lock.
LockHeld == \A t \in Threads : pc[t] \in Locked => writer[cur[t]] = t

\* An insertion works with an entry for its key on the key's line.
InsertReady ==
  \A t \in Threads : pc[t] \in {"i_lock", "i_scan", "i_count", "i_link"} =>
    /\ ent[t] \in Entries
    /\ KeyOf[value[ent[t]]] = key[t]
    /\ cur[t] = LineOf[key[t]]

\* Once the line has been scanned nothing on it has the key.
NoneEqual ==
  \A t \in Threads : pc[t] \in {"i_count", "i_link"} =>
    \A e \in linked[cur[t]] : KeyOf[value[e]] # key[t]

\* A removal's entry stays on the line until the removal unlinks it.
StillLinked ==
  \A t \in Threads : pc[t] \in {"r_count", "r_unlink", "a_count", "a_unlink"} =>
    ent[t] \in linked[cur[t]]

TableInv ==
  /\ TypeOK /\ LockHeld /\ InsertReady /\ NoneEqual /\ StillLinked
  /\ UniqueKeys /\ EntriesAccounted

-----------------------------------------------------------------------------
(* One lemma per kind of step: it preserves the part of the invariant that *)
(* needs no counting.                                                      *)

LEMMA InsertCallStep ==
  ASSUME TableInv, NEW t \in Threads, InsertCall(t)
  PROVE  TableInv'
<1> USE NoThreadAssumption, NoEntryAssumption, KeyAssumption, LineAssumption DEF TableInv, Goto, SetEnt, Lines
<1>1. PICK v \in Values, e \in Entries \ allocated :
        /\ key' = [key EXCEPT ![t] = KeyOf[v]]
        /\ cur' = [cur EXCEPT ![t] = LineOf[KeyOf[v]]]
        /\ allocated' = allocated \cup {e}
        /\ value' = [value EXCEPT ![e] = v]
        /\ ent' = [ent EXCEPT ![t] = e]
  BY DEF InsertCall
<1>2. /\ pc[t] = "idle" /\ pc' = [pc EXCEPT ![t] = "i_lock"]
      /\ UNCHANGED <<writer, readers, linked, count, match>>
  BY DEF InsertCall
<1>3. TypeOK'
  BY <1>1, <1>2 DEF TypeOK, Control
<1>4. \A l \in 0..(NLines - 1) : \A d \in linked[l] : d # e /\ d \in Entries /\ value'[d] = value[d]
  BY <1>1, <1>2 DEF TypeOK, EntriesAccounted
<1>5. LockHeld' /\ NoneEqual' /\ StillLinked'
  BY <1>1, <1>2, <1>4 DEF TypeOK, LockHeld, NoneEqual, StillLinked, Locked
<1>6. UniqueKeys'
  BY <1>1, <1>2, <1>4 DEF UniqueKeys
<1>7. \A u \in Owning : ent[u] # e /\ u # t
  BY <1>1, <1>2 DEF EntriesAccounted, Owning, At
<1>8. InsertReady'
  BY <1>1, <1>2, <1>7 DEF TypeOK, InsertReady, Owning, At
<1>9. Owning' = Owning \cup {t} /\ AllLinked' = AllLinked
  BY <1>2 DEF TypeOK, Owning, At, AllLinked
<1>10. EntriesAccounted'
  <2>1. e \notin AllLinked
    BY <1>4 DEF AllLinked, Lines
  <2> QED
    BY <1>1, <1>2, <1>7, <1>9, <2>1 DEF TypeOK, EntriesAccounted, Owning, At
<1> QED
  BY <1>3, <1>5, <1>6, <1>8, <1>10

\* The steps that leave the lists, the values and the slab alone.
InsertQuiet(t) ==
  \/ InsertLock(t) \/ InsertConflict(t) \/ InsertNew(t) \/ InsertLimit(t)
  \/ InsertCount(t)
FindQuiet(t) ==
  \/ FindCall(t) \/ FindLock(t) \/ FindFound(t) \/ FindNone(t) \/ FindRead(t)
RemoveQuiet(t) ==
  \/ RemoveCall(t) \/ RemoveLock(t) \/ RemoveNone(t) \/ RemoveFound(t) \/ RemoveCount(t)
RemoveAllQuiet(t) ==
  \/ RemoveAllCall(t) \/ RemoveAllLock(t) \/ RemoveAllFound(t) \/ RemoveAllCount(t)
  \/ RemoveAllNext(t)

LEMMA DiscountType ==
  ASSUME TypeOK, NEW t \in Threads, NEW where \in Control, Discount(t, where)
  PROVE  pc' \in [Threads -> Control] /\ count' \in Nat
<1>1. CASE count = 0
  BY <1>1 DEF TypeOK, Control, Discount, Goto
<1>2. CASE count # 0
  BY <1>2 DEF TypeOK, Control, Discount, Goto
<1> QED
  BY <1>1, <1>2

LEMMA InsertQuietStep ==
  ASSUME TableInv, NEW t \in Threads, InsertQuiet(t)
  PROVE  TableInv'
<1> USE NoThreadAssumption, NoEntryAssumption, LineAssumption
    DEF TableInv, Goto, tblVars, opVars, WtLock, WtUnlock, Equal, Lines
<1>1. UNCHANGED <<linked, value, allocated>>
  BY DEF InsertQuiet, InsertLock, InsertConflict, InsertNew, InsertLimit,
         InsertCount
<1>2. UniqueKeys'
  BY <1>1 DEF UniqueKeys
<1>3. TypeOK'
  <2>1. CASE InsertLock(t)
    BY <2>1 DEF TypeOK, Control, InsertLock
  <2>2. CASE InsertConflict(t)
    BY <2>2 DEF TypeOK, Control, InsertConflict
  <2>3. CASE InsertNew(t)
    BY <2>3 DEF TypeOK, Control, InsertNew
  <2>4. CASE InsertLimit(t)
    BY <2>4 DEF TypeOK, Control, InsertLimit
  <2>5. CASE InsertCount(t)
    BY <2>5 DEF TypeOK, Control, InsertCount
  <2> QED
    BY <2>1, <2>2, <2>3, <2>4, <2>5 DEF InsertQuiet
<1>4. LockHeld'
  BY DEF TypeOK, LockHeld, Locked, InsertQuiet, InsertLock, InsertConflict, InsertNew, InsertLimit,
         InsertCount
<1>5. InsertReady' /\ NoneEqual'
  <2>1. CASE InsertLock(t)
    BY <2>1 DEF TypeOK, InsertReady, NoneEqual, InsertLock
  <2>2. CASE InsertConflict(t)
    BY <2>2 DEF TypeOK, InsertReady, NoneEqual, InsertConflict
  <2>3. CASE InsertNew(t)
    BY <2>3 DEF TypeOK, InsertReady, NoneEqual, InsertNew
  <2>4. CASE InsertLimit(t)
    BY <2>4 DEF TypeOK, InsertReady, NoneEqual, InsertLimit
  <2>5. CASE InsertCount(t)
    BY <2>5 DEF TypeOK, InsertReady, NoneEqual, InsertCount
  <2> QED
    BY <2>1, <2>2, <2>3, <2>4, <2>5 DEF InsertQuiet
<1>6. StillLinked'
  BY DEF TypeOK, StillLinked, InsertQuiet, InsertLock, InsertConflict, InsertNew, InsertLimit,
         InsertCount
<1>7. Owning' = Owning /\ \A u \in Owning : ent'[u] = ent[u]
  BY DEF TypeOK, Owning, At, InsertQuiet, InsertLock, InsertConflict, InsertNew, InsertLimit,
         InsertCount
<1>8. EntriesAccounted'
  BY <1>1, <1>7 DEF EntriesAccounted, AllLinked
<1> QED
  BY <1>2, <1>3, <1>4, <1>5, <1>6, <1>8

LEMMA FindQuietStep ==
  ASSUME TableInv, NEW t \in Threads, FindQuiet(t)
  PROVE  TableInv'
<1> USE NoThreadAssumption, NoEntryAssumption, LineAssumption
    DEF TableInv, Goto, SetEnt, tblVars, opVars, KeyedCall, RdUnlock, Equal, Lines
<1>1. UNCHANGED <<linked, value, allocated>>
  BY DEF FindQuiet, FindCall, FindLock, FindFound, FindNone, FindRead
<1>2. UniqueKeys'
  BY <1>1 DEF UniqueKeys
<1>3. TypeOK'
  <2>1. CASE FindCall(t)
    BY <2>1 DEF TypeOK, Control, FindCall
  <2>2. CASE FindLock(t)
    BY <2>2 DEF TypeOK, Control, FindLock
  <2>3. CASE FindFound(t)
    BY <2>3 DEF TypeOK, Control, FindFound
  <2>4. CASE FindNone(t)
    BY <2>4 DEF TypeOK, Control, FindNone
  <2>5. CASE FindRead(t)
    BY <2>5 DEF TypeOK, Control, FindRead
  <2> QED
    BY <2>1, <2>2, <2>3, <2>4, <2>5 DEF FindQuiet
<1>4. LockHeld'
  BY DEF TypeOK, LockHeld, Locked, FindQuiet, FindCall, FindLock, FindFound, FindNone, FindRead
<1>5. InsertReady' /\ NoneEqual'
  <2>1. CASE FindCall(t)
    BY <2>1 DEF TypeOK, InsertReady, NoneEqual, FindCall
  <2>2. CASE FindLock(t)
    BY <2>2 DEF TypeOK, InsertReady, NoneEqual, FindLock
  <2>3. CASE FindFound(t)
    BY <2>3 DEF TypeOK, InsertReady, NoneEqual, FindFound
  <2>4. CASE FindNone(t)
    BY <2>4 DEF TypeOK, InsertReady, NoneEqual, FindNone
  <2>5. CASE FindRead(t)
    BY <2>5 DEF TypeOK, InsertReady, NoneEqual, FindRead
  <2> QED
    BY <2>1, <2>2, <2>3, <2>4, <2>5 DEF FindQuiet
<1>6. StillLinked'
  BY DEF TypeOK, StillLinked, FindQuiet, FindCall, FindLock, FindFound, FindNone, FindRead
<1>7. Owning' = Owning /\ \A u \in Owning : ent'[u] = ent[u]
  BY DEF TypeOK, Owning, At, FindQuiet, FindCall, FindLock, FindFound, FindNone, FindRead
<1>8. EntriesAccounted'
  BY <1>1, <1>7 DEF EntriesAccounted, AllLinked
<1> QED
  BY <1>2, <1>3, <1>4, <1>5, <1>6, <1>8

LEMMA RemoveQuietStep ==
  ASSUME TableInv, NEW t \in Threads, RemoveQuiet(t)
  PROVE  TableInv'
<1> USE NoThreadAssumption, NoEntryAssumption, LineAssumption
    DEF TableInv, Goto, SetEnt, tblVars, opVars, KeyedCall, WtLock, WtUnlock, Discount, Equal, Lines
<1>1. UNCHANGED <<linked, value, allocated>>
  BY DEF RemoveQuiet, RemoveCall, RemoveLock, RemoveNone, RemoveFound,
         RemoveCount
<1>2. UniqueKeys'
  BY <1>1 DEF UniqueKeys
<1>3. TypeOK'
  <2>1. CASE RemoveCall(t)
    BY <2>1 DEF TypeOK, Control, RemoveCall
  <2>2. CASE RemoveLock(t)
    BY <2>2 DEF TypeOK, Control, RemoveLock
  <2>3. CASE RemoveNone(t)
    BY <2>3 DEF TypeOK, Control, RemoveNone
  <2>4. CASE RemoveFound(t)
    BY <2>4 DEF TypeOK, Control, RemoveFound
  <2>5. CASE RemoveCount(t)
    <3>1. Discount(t, "r_unlink") /\ "r_unlink" \in Control
      BY <2>5 DEF RemoveCount, Control
    <3> QED
      BY <3>1, DiscountType DEF TypeOK
  <2> QED
    BY <2>1, <2>2, <2>3, <2>4, <2>5 DEF RemoveQuiet
<1>4. LockHeld'
  BY DEF TypeOK, LockHeld, Locked, RemoveQuiet, RemoveCall, RemoveLock, RemoveNone, RemoveFound,
         RemoveCount
<1>5. InsertReady' /\ NoneEqual'
  <2>1. CASE RemoveCall(t)
    BY <2>1 DEF TypeOK, InsertReady, NoneEqual, RemoveCall
  <2>2. CASE RemoveLock(t)
    BY <2>2 DEF TypeOK, InsertReady, NoneEqual, RemoveLock
  <2>3. CASE RemoveNone(t)
    BY <2>3 DEF TypeOK, InsertReady, NoneEqual, RemoveNone
  <2>4. CASE RemoveFound(t)
    BY <2>4 DEF TypeOK, InsertReady, NoneEqual, RemoveFound
  <2>5. CASE RemoveCount(t)
    BY <2>5 DEF TypeOK, InsertReady, NoneEqual, RemoveCount
  <2> QED
    BY <2>1, <2>2, <2>3, <2>4, <2>5 DEF RemoveQuiet
<1>6. StillLinked'
  BY DEF TypeOK, StillLinked, RemoveQuiet, RemoveCall, RemoveLock, RemoveNone, RemoveFound,
         RemoveCount
<1>7. Owning' = Owning /\ \A u \in Owning : ent'[u] = ent[u]
  BY DEF TypeOK, Owning, At, RemoveQuiet, RemoveCall, RemoveLock, RemoveNone, RemoveFound,
         RemoveCount
<1>8. EntriesAccounted'
  BY <1>1, <1>7 DEF EntriesAccounted, AllLinked
<1> QED
  BY <1>2, <1>3, <1>4, <1>5, <1>6, <1>8

LEMMA RemoveAllQuietStep ==
  ASSUME TableInv, NEW t \in Threads, RemoveAllQuiet(t)
  PROVE  TableInv'
<1> USE NoThreadAssumption, NoEntryAssumption, LineAssumption, MatchAssumption
    DEF TableInv, Goto, SetEnt, tblVars, opVars, WtLock, WtUnlock, Discount, Matching, Lines
<1>1. UNCHANGED <<linked, value, allocated>>
  BY DEF RemoveAllQuiet, RemoveAllCall, RemoveAllLock, RemoveAllFound,
         RemoveAllCount, RemoveAllNext
<1>2. UniqueKeys'
  BY <1>1 DEF UniqueKeys
<1>3. TypeOK'
  <2>1. CASE RemoveAllCall(t)
    BY <2>1 DEF TypeOK, Control, RemoveAllCall
  <2>2. CASE RemoveAllLock(t)
    BY <2>2 DEF TypeOK, Control, RemoveAllLock
  <2>3. CASE RemoveAllFound(t)
    BY <2>3 DEF TypeOK, Control, RemoveAllFound
  <2>4. CASE RemoveAllCount(t)
    <3>1. Discount(t, "a_unlink") /\ "a_unlink" \in Control
      BY <2>4 DEF RemoveAllCount, Control
    <3> QED
      BY <3>1, DiscountType DEF TypeOK
  <2>5. CASE RemoveAllNext(t)
    BY <2>5 DEF TypeOK, Control, RemoveAllNext
  <2> QED
    BY <2>1, <2>2, <2>3, <2>4, <2>5 DEF RemoveAllQuiet
<1>4. LockHeld'
  BY DEF TypeOK, LockHeld, Locked, RemoveAllQuiet, RemoveAllCall, RemoveAllLock, RemoveAllFound,
         RemoveAllCount, RemoveAllNext
<1>5. InsertReady' /\ NoneEqual'
  <2>1. CASE RemoveAllCall(t)
    BY <2>1 DEF TypeOK, InsertReady, NoneEqual, RemoveAllCall
  <2>2. CASE RemoveAllLock(t)
    BY <2>2 DEF TypeOK, InsertReady, NoneEqual, RemoveAllLock
  <2>3. CASE RemoveAllFound(t)
    BY <2>3 DEF TypeOK, InsertReady, NoneEqual, RemoveAllFound
  <2>4. CASE RemoveAllCount(t)
    BY <2>4 DEF TypeOK, InsertReady, NoneEqual, RemoveAllCount
  <2>5. CASE RemoveAllNext(t)
    BY <2>5 DEF TypeOK, InsertReady, NoneEqual, RemoveAllNext
  <2> QED
    BY <2>1, <2>2, <2>3, <2>4, <2>5 DEF RemoveAllQuiet
<1>6. StillLinked'
  BY DEF TypeOK, StillLinked, RemoveAllQuiet, RemoveAllCall, RemoveAllLock, RemoveAllFound,
         RemoveAllCount, RemoveAllNext
<1>7. Owning' = Owning /\ \A u \in Owning : ent'[u] = ent[u]
  BY DEF TypeOK, Owning, At, RemoveAllQuiet, RemoveAllCall, RemoveAllLock, RemoveAllFound,
         RemoveAllCount, RemoveAllNext
<1>8. EntriesAccounted'
  BY <1>1, <1>7 DEF EntriesAccounted, AllLinked
<1> QED
  BY <1>2, <1>3, <1>4, <1>5, <1>6, <1>8

LEMMA InsertLinkStep ==
  ASSUME TableInv, NEW t \in Threads, InsertLink(t)
  PROVE  TableInv'
<1> USE NoThreadAssumption, NoEntryAssumption, KeyAssumption, LineAssumption
    DEF TableInv, Goto, SetEnt, opVars, WtUnlock, Lines
<1>1. /\ pc[t] = "i_link" /\ cur[t] \in Lines /\ ent[t] \in Entries
      /\ KeyOf[value[ent[t]]] = key[t] /\ cur[t] = LineOf[key[t]]
      /\ t \in Owning /\ ent[t] \notin AllLinked
      /\ linked' = [linked EXCEPT ![cur[t]] = @ \cup {ent[t]}]
      /\ UNCHANGED <<value, allocated>>
  BY DEF InsertLink, TypeOK, InsertReady, EntriesAccounted, Owning, At
<1>2. TypeOK'
  BY DEF TypeOK, Control, InsertLink, InsertReady
<1>3. LockHeld'
  BY DEF TypeOK, LockHeld, Locked, InsertLink
<1>4. InsertReady'
  BY DEF TypeOK, InsertReady, InsertLink
<1>5. NoneEqual' /\ StillLinked'
  <2>1. \A u \in Threads \ {t} : pc[u] \in Locked => cur[u] # cur[t]
    BY <1>1 DEF LockHeld, Locked
  <2> QED
    BY <1>1, <2>1 DEF TypeOK, NoneEqual, StillLinked, Locked, InsertLink
<1>6. UniqueKeys'
  <2>1. \A l \in Lines : \A e \in linked[l] : KeyOf[value[e]] # key[t]
    BY <1>1 DEF UniqueKeys, NoneEqual
  <2> QED
    BY <1>1, <2>1 DEF TypeOK, UniqueKeys
<1>7. Owning' = Owning \ {t} /\ \A u \in Owning' : ent'[u] = ent[u]
  BY DEF TypeOK, Owning, At, InsertLink
<1>8. AllLinked' = AllLinked \cup {ent[t]}
  BY <1>1 DEF TypeOK, AllLinked
<1>9. EntriesAccounted'
  <2>1. \A l \in Lines : ent[t] \notin linked[l]
    BY <1>1 DEF AllLinked
  <2>2. \A e \in allocated' : e \in AllLinked' \/ \E u \in Owning' : ent'[u] = e
    BY <1>1, <1>7, <1>8 DEF EntriesAccounted
  <2>3. \A l \in Lines : \A e \in linked'[l] :
          e \in allocated' /\ \A m \in Lines : e \in linked'[m] => l = m
    BY <1>1, <2>1 DEF TypeOK, EntriesAccounted
  <2>4. \A u \in Owning' :
          /\ ent'[u] \in allocated' /\ ent'[u] \notin AllLinked'
          /\ \A w \in Owning' : ent'[w] = ent'[u] => w = u
    BY <1>1, <1>7, <1>8 DEF EntriesAccounted
  <2> QED
    BY <2>2, <2>3, <2>4 DEF EntriesAccounted
<1> QED
  BY <1>2, <1>3, <1>4, <1>5, <1>6, <1>9

\* An entry that its only owner gives back.
LEMMA GiveBackStep ==
  ASSUME TableInv, NEW t \in Threads, InsertGiveBack(t) \/ RemoveFree(t)
  PROVE  TableInv'
<1> USE NoThreadAssumption, NoEntryAssumption
    DEF TableInv, Goto, SetEnt, opVars, Lines, GivenBack
<1>1. /\ t \in Owning /\ ent[t] \notin AllLinked
      /\ pc[t] \in {"i_giveback", "r_free"} /\ pc' = [pc EXCEPT ![t] = "idle"]
      /\ ent' = [ent EXCEPT ![t] = NoEntry]
      /\ allocated' = allocated \ {ent[t]}
      /\ UNCHANGED <<writer, readers, linked, value, count, key, match, cur>>
  BY DEF InsertGiveBack, RemoveFree, EntriesAccounted, Owning, At
<1>2. TypeOK'
  BY <1>1 DEF TypeOK, Control
<1>3. LockHeld' /\ InsertReady' /\ NoneEqual' /\ StillLinked'
  BY <1>1 DEF TypeOK, LockHeld, Locked, InsertReady, NoneEqual, StillLinked
<1>4. UniqueKeys'
  BY <1>1 DEF UniqueKeys
<1>5. Owning' = Owning \ {t} /\ \A u \in Owning' : ent'[u] = ent[u]
  BY <1>1 DEF TypeOK, Owning, At
<1>6. EntriesAccounted'
  <2>1. AllLinked' = AllLinked /\ \A l \in Lines : ent[t] \notin linked[l]
    BY <1>1 DEF AllLinked
  <2> QED
    BY <1>1, <1>5, <2>1 DEF EntriesAccounted
<1> QED
  BY <1>2, <1>3, <1>4, <1>6

LEMMA UnlinkStep ==
  ASSUME TableInv, NEW t \in Threads, RemoveUnlink(t) \/ RemoveAllUnlink(t)
  PROVE  /\ TableInv'
         /\ ent[t] \in AllLinked
         /\ AllLinked' = AllLinked \ {ent[t]}
<1> USE NoThreadAssumption, NoEntryAssumption, LineAssumption
    DEF TableInv, Goto, SetEnt, opVars, WtUnlock, Lines, GivenBack
<1>1. /\ pc[t] \in {"r_unlink", "a_unlink"}
      /\ cur[t] \in Lines /\ ent[t] \in linked[cur[t]] /\ ent[t] \in AllLinked
      /\ linked' = [linked EXCEPT ![cur[t]] = @ \ {ent[t]}]
      /\ UNCHANGED <<value, count, key, match, cur>>
  BY DEF RemoveUnlink, RemoveAllUnlink, TypeOK, StillLinked, AllLinked
<1>2. TypeOK'
  <2>1. CASE RemoveUnlink(t)
    BY <1>1, <2>1 DEF TypeOK, Control, RemoveUnlink
  <2>2. CASE RemoveAllUnlink(t)
    BY <1>1, <2>2 DEF TypeOK, Control, RemoveAllUnlink
  <2> QED
    BY <2>1, <2>2
<1>3. LockHeld'
  BY DEF TypeOK, LockHeld, Locked, RemoveUnlink, RemoveAllUnlink
<1>4. InsertReady'
  BY DEF TypeOK, InsertReady, RemoveUnlink, RemoveAllUnlink
<1>5. NoneEqual'
  BY <1>1 DEF TypeOK, NoneEqual, RemoveUnlink, RemoveAllUnlink
<1>6. StillLinked'
  <2>1. \A u \in Threads \ {t} : pc[u] \in Locked => cur[u] # cur[t]
    BY <1>1 DEF LockHeld, Locked
  <2> QED
    BY <1>1, <2>1 DEF TypeOK, StillLinked, Locked, RemoveUnlink, RemoveAllUnlink
<1>7. UniqueKeys'
  BY <1>1 DEF TypeOK, UniqueKeys
<1>8. /\ AllLinked' = AllLinked \ {ent[t]}
      /\ \A l \in Lines : ent[t] \in linked[l] => l = cur[t]
      /\ \A l \in Lines : ent[t] \notin linked'[l]
  BY <1>1 DEF TypeOK, AllLinked, EntriesAccounted
<1>9. \A u \in Owning : ent[u] # ent[t] /\ u # t
  BY <1>1 DEF EntriesAccounted, Owning, At
<1>10. EntriesAccounted'
  <2>1. CASE RemoveUnlink(t)
    <3>1. /\ Owning' = Owning \cup {t} /\ UNCHANGED <<ent, allocated>>
          /\ ent[t] \in allocated
      BY <1>1, <2>1 DEF TypeOK, Owning, At, RemoveUnlink, EntriesAccounted
    <3> QED
      BY <1>1, <1>8, <1>9, <3>1 DEF TypeOK, EntriesAccounted
  <2>2. CASE RemoveAllUnlink(t)
    <3>1. /\ Owning' = Owning /\ \A u \in Owning : ent'[u] = ent[u]
          /\ allocated' = allocated \ {ent[t]}
      BY <1>1, <2>2 DEF TypeOK, Owning, At, RemoveAllUnlink
    <3> QED
      BY <1>1, <1>8, <1>9, <3>1 DEF TypeOK, EntriesAccounted
  <2> QED
    BY <2>1, <2>2
<1> QED
  BY <1>1, <1>2, <1>3, <1>4, <1>5, <1>6, <1>7, <1>8, <1>10

LEMMA TableInit == Init => TableInv
<1> SUFFICES ASSUME Init PROVE TableInv
  OBVIOUS
<1>1. NLines \in Nat /\ NLines > 0 /\ 0 \in 0..(NLines - 1)
  BY LineAssumption
<1>2. TypeOK
  BY <1>1 DEF Init, TypeOK, Control, Lines
<1>3. /\ LockHeld /\ InsertReady /\ NoneEqual /\ StillLinked
      /\ Owning = {} /\ AllLinked = {}
  BY DEF Init, LockHeld, Locked, InsertReady, NoneEqual, StillLinked, Owning, At, AllLinked
<1>4. UniqueKeys /\ EntriesAccounted
  BY <1>3 DEF Init, UniqueKeys, EntriesAccounted
<1> QED
  BY <1>2, <1>3, <1>4 DEF TableInv

LEMMA TableStutter == TableInv /\ UNCHANGED vars => TableInv'
BY DEF TableInv, vars, tblVars, opVars, TypeOK, LockHeld, InsertReady, NoneEqual, StillLinked,
       UniqueKeys, EntriesAccounted, AllLinked, Owning, At

\* The disjuncts of Next by what they do to the table.
LEMMA StepKinds ==
  ASSUME Next
  PROVE  \E t \in Threads :
           \/ InsertCall(t)
           \/ InsertQuiet(t) \/ FindQuiet(t) \/ RemoveQuiet(t) \/ RemoveAllQuiet(t)
           \/ InsertLink(t)
           \/ InsertGiveBack(t) \/ RemoveFree(t)
           \/ RemoveUnlink(t) \/ RemoveAllUnlink(t)
BY DEF Next, WriterStep, OtherStep, InsertQuiet, FindQuiet, RemoveQuiet, RemoveAllQuiet

LEMMA TableStep == TableInv /\ [Next]_vars => TableInv'
BY StepKinds, TableStutter, InsertCallStep, InsertQuietStep, FindQuietStep, RemoveQuietStep,
   RemoveAllQuietStep, InsertLinkStep, GiveBackStep, UnlinkStep

-----------------------------------------------------------------------------
(* Counting                                                                *)

InHand == {"r_count", "r_unlink", "a_count", "a_unlink"}

\* Two removals never have the same entry in hand: it is on one line only,
\* and both would hold that line's lock.
LEMMA InHandDistinct ==
  ASSUME TableInv, NEW t \in At(InHand), NEW u \in At(InHand), ent[t] = ent[u]
  PROVE  t = u
<1>1. /\ ent[t] \in linked[cur[t]] /\ ent[t] \in linked[cur[u]]
      /\ cur[t] \in Lines /\ cur[u] \in Lines
  BY DEF TableInv, TypeOK, StillLinked, At, InHand
<1>2. cur[t] = cur[u]
  BY <1>1 DEF TableInv, EntriesAccounted
<1> QED
  BY <1>2 DEF TableInv, LockHeld, Locked, At, InHand

LEMMA FiniteSets ==
  ASSUME TableInv
  PROVE  /\ IsFiniteSet(AllLinked) /\ Cardinality(AllLinked) \in Nat
         /\ \A controls : IsFiniteSet(At(controls)) /\ Cardinality(At(controls)) \in Nat
<1>1. AllLinked \subseteq Entries
  BY DEF TableInv, TypeOK, AllLinked
<1>2. \A controls : At(controls) \subseteq Threads
  BY DEF At
<1> QED
  BY <1>1, <1>2, FiniteAssumption, FS_Subset, FS_CardinalityType

\* A removal with an entry in hand that it has not counted out yet finds the
\* count positive: the counted-out ones have other entries.
LEMMA CountPositive ==
  ASSUME TableInv, CountExact, NEW t \in Threads, pc[t] \in {"r_count", "a_count"}
  PROVE  count > 0
<1> DEFINE R == At(Removing)
           S == R \cup {t}
           f == [u \in S |-> ent[u]]
<1>1. S \subseteq At(InHand) /\ t \notin R
  BY DEF At, Removing, InHand
<1>2. f \in [S -> AllLinked]
  BY <1>1 DEF TableInv, TypeOK, StillLinked, At, InHand, AllLinked
<1>3. \A u, v \in S : f[u] = f[v] => u = v
  BY <1>1, InHandDistinct
<1>4. IsFiniteSet(S) /\ Cardinality(S) = Cardinality(R) + 1
  BY <1>1, FiniteSets, FS_AddElement
<1>5. ~(Cardinality(AllLinked) < Cardinality(S))
  <2> HIDE DEF S, f
  <2> QED
    BY <1>2, <1>3, <1>4, FiniteSets, FS_PigeonHole
<1>6. /\ Cardinality(R) \in Nat /\ Cardinality(AllLinked) \in Nat
      /\ Cardinality(At({"i_link"})) \in Nat /\ count \in Nat
  BY FiniteSets DEF TableInv, TypeOK
<1> QED
  BY <1>4, <1>5, <1>6 DEF CountExact

CountInv == TableInv /\ CountExact /\ WithinLimit /\ NoUnderflow

\* Steps that move no entry and do not count.
LEMMA UncountedStep ==
  ASSUME CountInv, AllLinked' = AllLinked, At(Removing)' = At(Removing),
         At({"i_link"})' = At({"i_link"}), At({"crash"})' = At({"crash"}), count' = count
  PROVE  CountExact' /\ WithinLimit' /\ NoUnderflow'
BY DEF CountInv, CountExact, WithinLimit, NoUnderflow

\* The steps that neither count nor link nor unlink.
LEMMA OtherStepUncounted ==
  ASSUME TableInv, NEW t \in Threads,
         \/ InsertCall(t) \/ InsertLock(t) \/ InsertConflict(t) \/ InsertNew(t) \/ InsertLimit(t)
         \/ FindQuiet(t) \/ InsertGiveBack(t) \/ RemoveFree(t)
         \/ RemoveCall(t) \/ RemoveLock(t) \/ RemoveNone(t) \/ RemoveFound(t)
         \/ RemoveAllCall(t) \/ RemoveAllLock(t) \/ RemoveAllFound(t) \/ RemoveAllNext(t)
  PROVE  /\ AllLinked' = AllLinked /\ At(Removing)' = At(Removing)
         /\ At({"i_link"})' = At({"i_link"}) /\ At({"crash"})' = At({"crash"})
         /\ count' = count
         /\ \A u \in At(Removing) : ent'[u] = ent[u]
<1> USE DEF TableInv, TypeOK, Goto, SetEnt, tblVars, opVars
<1>1. linked' = linked /\ count' = count
  BY DEF FindQuiet, InsertCall, InsertLock, InsertConflict, InsertNew, InsertLimit,
         FindCall, FindLock, FindFound, FindNone, FindRead, InsertGiveBack, RemoveFree,
         RemoveCall, RemoveLock, RemoveNone, RemoveFound, KeyedCall,
         RemoveAllCall, RemoveAllLock, RemoveAllFound, RemoveAllNext
<1>2. /\ pc[t] \notin {"r_unlink", "a_unlink", "i_link", "crash"}
      /\ \E where \in {"idle", "i_lock", "i_scan", "i_count", "i_giveback", "f_lock", "f_scan",
                       "f_read", "r_lock", "r_scan", "r_count", "a_lock", "a_scan", "a_count"} :
           pc' = [pc EXCEPT ![t] = where]
  BY DEF FindQuiet, InsertCall, InsertLock, InsertConflict, InsertNew, InsertLimit,
         FindCall, FindLock, FindFound, FindNone, FindRead, InsertGiveBack, RemoveFree,
         RemoveCall, RemoveLock, RemoveNone, RemoveFound, KeyedCall,
         RemoveAllCall, RemoveAllLock, RemoveAllFound, RemoveAllNext
<1>3. \A u \in Threads \ {t} : ent'[u] = ent[u]
  BY DEF FindQuiet, InsertCall, InsertLock, InsertConflict, InsertNew, InsertLimit,
         FindCall, FindLock, FindFound, FindNone, FindRead, InsertGiveBack, RemoveFree,
         RemoveCall, RemoveLock, RemoveNone, RemoveFound, KeyedCall,
         RemoveAllCall, RemoveAllLock, RemoveAllFound, RemoveAllNext
<1> QED
  BY <1>1, <1>2, <1>3 DEF AllLinked, At, Removing

LEMMA CountStep == CountInv /\ [Next]_vars => CountInv'
<1> SUFFICES ASSUME CountInv, [Next]_vars PROVE CountExact' /\ WithinLimit' /\ NoUnderflow'
  BY TableStep DEF CountInv
<1> USE DEF CountInv
<1>0. /\ Cardinality(AllLinked) \in Nat /\ IsFiniteSet(AllLinked) /\ count \in Nat
      /\ Cardinality(At(Removing)) \in Nat /\ IsFiniteSet(At(Removing))
      /\ Cardinality(At({"i_link"})) \in Nat /\ IsFiniteSet(At({"i_link"}))
  BY FiniteSets DEF TableInv, TypeOK
<1>1. CASE UNCHANGED vars
  BY <1>1, UncountedStep DEF vars, tblVars, AllLinked, At
<1>2. ASSUME NEW t \in Threads, InsertCount(t)
      PROVE  CountExact' /\ WithinLimit' /\ NoUnderflow'
  <2>1. /\ AllLinked' = AllLinked /\ At(Removing)' = At(Removing)
        /\ At({"i_link"})' = At({"i_link"}) \cup {t} /\ t \notin At({"i_link"})
        /\ At({"crash"})' = At({"crash"}) /\ count' = count + 1 /\ ~(count >= Limit)
    BY <1>2 DEF TableInv, TypeOK, InsertCount, Goto, AllLinked, At, Removing, AtLimit, opVars
  <2> QED
    <3>1. Cardinality(At({"i_link"}))' = Cardinality(At({"i_link"})) + 1
      BY <1>0, <2>1, FS_AddElement
    <3>2. Cardinality(AllLinked)' = Cardinality(AllLinked) /\ Cardinality(At(Removing))' = Cardinality(At(Removing))
      BY <2>1
    <3> QED
      BY <1>0, <2>1, <3>1, <3>2, LimitAssumption DEF CountExact, WithinLimit, NoUnderflow
<1>3. ASSUME NEW t \in Threads, InsertLink(t)
      PROVE  CountExact' /\ WithinLimit' /\ NoUnderflow'
  <2>1. /\ At(Removing)' = At(Removing) /\ At({"crash"})' = At({"crash"}) /\ count' = count
        /\ At({"i_link"})' = At({"i_link"}) \ {t} /\ t \in At({"i_link"})
        /\ AllLinked' = AllLinked \cup {ent[t]} /\ ent[t] \notin AllLinked
    BY <1>3 DEF TableInv, TypeOK, InsertLink, Goto, AllLinked, At, Removing, opVars,
                EntriesAccounted, Owning
  <2> QED
    <3>1. Cardinality(AllLinked)' = Cardinality(AllLinked) + 1
      BY <1>0, <2>1, FS_AddElement
    <3>2. Cardinality(At({"i_link"}))' = Cardinality(At({"i_link"})) - 1
      BY <1>0, <2>1, FS_RemoveElement
    <3>3. Cardinality(At(Removing))' = Cardinality(At(Removing))
      BY <2>1
    <3> QED
      BY <1>0, <2>1, <3>1, <3>2, <3>3 DEF CountExact, WithinLimit, NoUnderflow
<1>4. ASSUME NEW t \in Threads, RemoveCount(t) \/ RemoveAllCount(t)
      PROVE  CountExact' /\ WithinLimit' /\ NoUnderflow'
  <2>1. count > 0
    BY <1>4, CountPositive DEF RemoveCount, RemoveAllCount
  <2>2. /\ AllLinked' = AllLinked /\ count' = count - 1
        /\ At(Removing)' = At(Removing) \cup {t} /\ t \notin At(Removing)
        /\ At({"i_link"})' = At({"i_link"}) /\ At({"crash"})' = At({"crash"})
    BY <1>4, <2>1 DEF TableInv, TypeOK, RemoveCount, RemoveAllCount, Discount, Goto, AllLinked,
                      At, Removing, opVars
  <2> QED
    <3>1. Cardinality(At(Removing))' = Cardinality(At(Removing)) + 1
      BY <1>0, <2>2, FS_AddElement
    <3>2. Cardinality(AllLinked)' = Cardinality(AllLinked) /\ Cardinality(At({"i_link"}))' = Cardinality(At({"i_link"}))
      BY <2>2
    <3> QED
      BY <1>0, <2>1, <2>2, <3>1, <3>2, LimitAssumption DEF CountExact, WithinLimit, NoUnderflow
<1>5. ASSUME NEW t \in Threads, RemoveUnlink(t) \/ RemoveAllUnlink(t)
      PROVE  CountExact' /\ WithinLimit' /\ NoUnderflow'
  <2>1. /\ At(Removing)' = At(Removing) \ {t} /\ t \in At(Removing) /\ count' = count
        /\ At({"i_link"})' = At({"i_link"}) /\ At({"crash"})' = At({"crash"})
    BY <1>5 DEF TableInv, TypeOK, RemoveUnlink, RemoveAllUnlink, Goto, At, Removing, opVars
  <2>2. AllLinked' = AllLinked \ {ent[t]} /\ ent[t] \in AllLinked
    BY <1>5, UnlinkStep
  <2> QED
    <3>1. Cardinality(At(Removing))' = Cardinality(At(Removing)) - 1
      BY <1>0, <2>1, FS_RemoveElement
    <3>2. Cardinality(AllLinked)' = Cardinality(AllLinked) - 1
      BY <1>0, <2>2, FS_RemoveElement
    <3>3. Cardinality(At({"i_link"}))' = Cardinality(At({"i_link"}))
      BY <2>1
    <3> QED
      BY <1>0, <2>1, <3>1, <3>2, <3>3 DEF CountExact, WithinLimit, NoUnderflow
<1> QED
  BY <1>1, <1>2, <1>3, <1>4, <1>5, OtherStepUncounted, UncountedStep, StepKinds
  DEF InsertQuiet, RemoveQuiet, RemoveAllQuiet

-----------------------------------------------------------------------------
\* The invariant of the table, for every number of threads, entries and lines.
THEOREM HashInvariant == Spec => []CountInv
<1>1. Init => CountInv
  <2>1. ASSUME Init PROVE AllLinked = {} /\ count = 0
    BY <2>1 DEF Init, AllLinked
  <2>2. ASSUME Init PROVE At(Removing) = {} /\ At({"i_link"}) = {} /\ At({"crash"}) = {}
    BY <2>2 DEF Init, At, Removing
  <2>3. ASSUME Init PROVE CountExact
    BY <2>1, <2>2, <2>3, FS_EmptySet DEF CountExact
  <2> QED
    BY <2>1, <2>2, <2>3, TableInit, LimitAssumption DEF CountInv, WithinLimit, NoUnderflow
<1> QED
  BY <1>1, CountStep, PTL DEF Spec

\* However operations interleave, a key has one entry, on its own line, and no
\* entry is lost or shared.
THEOREM HashSafety == Spec => [](TypeOK /\ UniqueKeys /\ EntriesAccounted)
<1>1. CountInv => TypeOK /\ UniqueKeys /\ EntriesAccounted
  BY DEF CountInv, TableInv
<1> QED
  BY <1>1, HashInvariant, PTL

\* Entries are neither lost when an insertion is refused nor freed while linked.
THEOREM HashEntries == Spec => []EntriesAccounted
<1>1. CountInv => EntriesAccounted
  BY DEF CountInv, TableInv
<1> QED
  BY <1>1, HashInvariant, PTL

\* The count accounts for every entry.
THEOREM HashCount == Spec => []CountExact
<1>1. CountInv => CountExact
  BY DEF CountInv
<1> QED
  BY <1>1, HashInvariant, PTL

\* The count is exact and stays within the limit, and a removal never meets the
\* deliberate fault.
THEOREM HashTableSound == Spec => []TableSound
<1>1. CountInv => TableSound
  BY DEF CountInv, TableInv, TableSound
<1> QED
  BY <1>1, HashInvariant, PTL

-----------------------------------------------------------------------------
(* The locks of the lines.                                                 *)

\* The steps that take no lock and drop none.
SteadyStep(t) ==
  \/ InsertCall(t) \/ InsertNew(t) \/ InsertCount(t) \/ InsertGiveBack(t)
  \/ FindCall(t) \/ FindLock(t) \/ FindFound(t) \/ FindNone(t) \/ FindRead(t)
  \/ RemoveCall(t) \/ RemoveFound(t) \/ RemoveCount(t) \/ RemoveFree(t)
  \/ RemoveAllCall(t) \/ RemoveAllFound(t) \/ RemoveAllCount(t) \/ RemoveAllUnlink(t)
LockStep(t) == InsertLock(t) \/ RemoveLock(t) \/ RemoveAllLock(t)
UnlockStep(t) ==
  \/ InsertConflict(t) \/ InsertLimit(t) \/ InsertLink(t) \/ RemoveNone(t) \/ RemoveUnlink(t)
  \/ RemoveAllNext(t)

LEMMA SteadyLines ==
  ASSUME TypeOK, LinesReleased, NEW t \in Threads, SteadyStep(t)
  PROVE  LinesReleased'
<1>1. /\ writer' = writer
      /\ pc[t] \in Locked => pc'[t] \in Locked \cup {"crash"} /\ cur'[t] = cur[t]
      /\ pc[t] # "crash"
      /\ \A u \in Threads \ {t} : pc'[u] = pc[u] /\ cur'[u] = cur[u]
  <2> USE DEF TypeOK, Locked, Goto, tblVars, opVars
  <2>1. CASE InsertCall(t) \/ InsertNew(t) \/ InsertCount(t) \/ InsertGiveBack(t)
    BY <2>1 DEF InsertCall, InsertNew, InsertCount, InsertGiveBack
  <2>2. CASE FindCall(t) \/ FindLock(t) \/ FindFound(t) \/ FindNone(t) \/ FindRead(t)
    BY <2>2 DEF FindCall, KeyedCall, FindLock, FindFound, FindNone, FindRead
  <2>3. CASE RemoveCall(t) \/ RemoveFound(t) \/ RemoveCount(t) \/ RemoveFree(t)
    BY <2>3 DEF RemoveCall, KeyedCall, RemoveFound, RemoveCount, Discount, RemoveFree
  <2>4. CASE RemoveAllCall(t) \/ RemoveAllFound(t) \/ RemoveAllCount(t) \/ RemoveAllUnlink(t)
    BY <2>4 DEF RemoveAllCall, RemoveAllFound, RemoveAllCount, Discount, RemoveAllUnlink
  <2> QED  BY <2>1, <2>2, <2>3, <2>4 DEF SteadyStep
<1>2. \A l \in Lines : writer[l] # NoThread => writer[l] \in Threads
  BY DEF TypeOK
<1> QED  BY <1>1, <1>2 DEF LinesReleased

LEMMA LockLines ==
  ASSUME TypeOK, LinesReleased, NEW t \in Threads, LockStep(t)
  PROVE  LinesReleased'
<1>1. /\ cur[t] \in Lines /\ writer' = [writer EXCEPT ![cur[t]] = t]
      /\ pc[t] \notin Locked \cup {"crash"} /\ pc'[t] \in Locked /\ cur' = cur
      /\ \A u \in Threads \ {t} : pc'[u] = pc[u]
  BY DEF LockStep, InsertLock, RemoveLock, RemoveAllLock, WtLock, Goto, opVars, TypeOK, Locked
<1>2. writer \in [Lines -> Threads \cup {NoThread}]
  BY DEF TypeOK
<1> QED  BY <1>1, <1>2 DEF LinesReleased

LEMMA UnlockLines ==
  ASSUME TypeOK, LinesReleased, NEW t \in Threads, UnlockStep(t)
  PROVE  LinesReleased'
<1>1. /\ cur[t] \in Lines /\ writer' = [writer EXCEPT ![cur[t]] = NoThread]
      /\ \A u \in Threads \ {t} : pc'[u] = pc[u] /\ cur'[u] = cur[u]
  <2> USE DEF WtUnlock, Goto, opVars, TypeOK
  <2>1. CASE RemoveAllNext(t)
    BY <2>1 DEF RemoveAllNext
  <2>2. CASE ~RemoveAllNext(t)
    BY <2>2 DEF UnlockStep, InsertConflict, InsertLimit, InsertLink, RemoveNone, RemoveUnlink
  <2> QED  BY <2>1, <2>2
<1>2. writer \in [Lines -> Threads \cup {NoThread}]
  BY DEF TypeOK
<1>3. \A l \in Lines : writer'[l] # NoThread => writer'[l] = writer[l] /\ writer[l] # t
  BY <1>1, <1>2 DEF LinesReleased
<1> QED  BY <1>1, <1>2, <1>3 DEF LinesReleased

\* No path out of an operation keeps a line's write lock, and a thread never
\* holds two.
THEOREM HashLines == Spec => []LinesReleased
<1>1. Init => LinesReleased
  BY DEF Init, LinesReleased
<1>2. ASSUME TypeOK, LinesReleased, [Next]_vars PROVE LinesReleased'
  <2>1. CASE UNCHANGED vars
    BY <1>2, <2>1 DEF LinesReleased, vars, tblVars, opVars
  <2>2. ASSUME NEW t \in Threads, WriterStep(t) \/ OtherStep(t) PROVE LinesReleased'
    <3>1. SteadyStep(t) \/ LockStep(t) \/ UnlockStep(t)
      BY <2>2 DEF WriterStep, OtherStep, SteadyStep, LockStep, UnlockStep
    <3> QED  BY <1>2, <3>1, SteadyLines, LockLines, UnlockLines
  <2> QED  BY <1>2, <2>1, <2>2 DEF Next
<1>3. CountInv => TypeOK
  BY DEF CountInv, TableInv
<1> QED  BY <1>1, <1>2, <1>3, HashInvariant, PTL DEF Spec

-----------------------------------------------------------------------------
(* The table implements KeyMap.                                            *)

Live == AllLinked \ Leaving

\* At a key with a live entry the map holds that entry's value, at any other
\* nothing.
MapOfLive ==
  /\ Mapped \in [Keys -> Values \cup {Absent}]
  /\ \A e \in Live :
       /\ KeyOf[value[e]] \in Keys /\ value[e] \in Values
       /\ Mapped[KeyOf[value[e]]] = value[e]
  /\ \A k \in Keys : Mapped[k] # Absent => \E e \in Live : KeyOf[value[e]] = k

LEMMA MappedAt == TableInv => MapOfLive
<1> SUFFICES ASSUME TableInv PROVE MapOfLive
  OBVIOUS
<1> DEFINE at(k) == {value[e] : e \in {d \in Live : KeyOf[value[d]] = k}}
<1>1. Mapped = [k \in Keys |-> IF at(k) = {} THEN Absent ELSE CHOOSE v \in at(k) : TRUE]
  BY DEF Mapped, Live
<1>2. \A e \in Live : e \in Entries /\ value[e] \in Values /\ KeyOf[value[e]] \in Keys
  BY KeyAssumption DEF TableInv, TypeOK, Live, AllLinked
<1>3. \A k \in Keys : at(k) # {} => (CHOOSE v \in at(k) : TRUE) \in at(k)
  OBVIOUS
<1>4. \A k \in Keys : at(k) \subseteq Values
  BY <1>2
<1>5. \A k \in Keys : at(k) # {} => Mapped[k] \in at(k)
  <2> HIDE DEF at
  <2> QED
    BY <1>1, <1>3
<1>6. \A k \in Keys : at(k) = {} => Mapped[k] = Absent
  <2> HIDE DEF at
  <2> QED
    BY <1>1
<1>7. Mapped \in [Keys -> Values \cup {Absent}]
  <2> HIDE DEF at
  <2> QED
    BY <1>1, <1>3, <1>4
<1>8. ASSUME NEW e \in Live PROVE Mapped[KeyOf[value[e]]] = value[e]
  <2>1. value[e] \in at(KeyOf[value[e]]) /\ KeyOf[value[e]] \in Keys
    BY <1>2, <1>8
  <2>2. \A v \in at(KeyOf[value[e]]) : v = value[e]
    <3>1. \A d \in Live : KeyOf[value[d]] = KeyOf[value[e]] => d = e
      BY <1>8 DEF TableInv, UniqueKeys, Live, AllLinked
    <3> QED
      BY <3>1
  <2> HIDE DEF at
  <2> QED
    BY <1>5, <2>1, <2>2
<1>9. ASSUME NEW k \in Keys, Mapped[k] # Absent PROVE \E e \in Live : KeyOf[value[e]] = k
  <2>1. at(k) # {}
    <3> HIDE DEF at
    <3> QED
      BY <1>6, <1>9
  <2> QED
    BY <2>1
<1> QED
  BY <1>2, <1>7, <1>8, <1>9 DEF MapOfLive

LEMMA MappedAtNext == TableInv' => MapOfLive'
BY MappedAt, PTL

LEMMA MappedSame ==
  ASSUME Live' = Live, \A e \in Live : value'[e] = value[e]
  PROVE  Mapped' = Mapped
<1>1. \A k \in Keys : {value'[e] : e \in {d \in Live' : KeyOf[value'[d]] = k}}
                     = {value[e] : e \in {d \in Live : KeyOf[value[d]] = k}}
  OBVIOUS
<1> QED
  BY <1>1 DEF Mapped, Live

\* While an insertion has counted and not linked there is room in the map.
LEMMA RoomInMap ==
  ASSUME CountInv, NEW t \in Threads, pc[t] = "i_link"
  PROVE  Cardinality(Map!Present) < Limit
<1> USE DEF CountInv
<1> DEFINE R == At(Removing)
           f == [u \in R |-> ent[u]]
           P == Map!Present
           g == [k \in P |-> CHOOSE e \in Live : KeyOf[value[e]] = k]
<1>1. IsFiniteSet(Leaving) /\ Cardinality(Leaving) = Cardinality(R)
  <2>1. f \in Surjection(R, Leaving)
    BY DEF Surjection, Leaving
  <2>2. \A u, v \in R : f[u] = f[v] => u = v
    BY InHandDistinct DEF At, Removing, InHand
  <2>3. f \in Injection(R, Leaving)
    <3> HIDE DEF f
    <3> QED
      BY <2>1, <2>2 DEF Injection, IsInjective, Surjection
  <2> QED
    BY <2>1, <2>3, FiniteSets, FS_Surjection
<1>2. Leaving \subseteq AllLinked
  BY DEF TableInv, TypeOK, StillLinked, Leaving, At, Removing, AllLinked
<1>3. IsFiniteSet(Live) /\ Cardinality(Live) = Cardinality(AllLinked) - Cardinality(R)
  <2>1. AllLinked \cap Leaving = Leaving
    BY <1>2
  <2>2. /\ IsFiniteSet(AllLinked \ Leaving)
        /\ Cardinality(AllLinked \ Leaving) = Cardinality(AllLinked) - Cardinality(AllLinked \cap Leaving)
    BY FiniteSets, FS_Difference
  <2> QED
    BY <1>1, <2>1, <2>2 DEF Live
<1>4. IsFiniteSet(P) /\ Cardinality(P) <= Cardinality(Live)
  <2>1. \A k \in P : k \in Keys /\ g[k] \in Live /\ KeyOf[value[g[k]]] = k
    BY MappedAt DEF MapOfLive, Map!Present
  <2>2. g \in Injection(P, Live)
    <3>1. g \in [P -> Live] /\ \A j, k \in P : g[j] = g[k] => j = k
      BY <2>1
    <3> HIDE DEF P, g
    <3> QED
      BY <3>1 DEF Injection, IsInjective
  <2> QED
    BY <1>3, <2>2, FS_Injection
<1>5. Cardinality(At({"i_link"})) > 0
  <2>1. t \in At({"i_link"})
    BY DEF At
  <2> QED
    BY <2>1, FiniteSets, FS_EmptySet
<1>6. /\ Cardinality(AllLinked) \in Nat /\ Cardinality(R) \in Nat /\ count \in Nat
      /\ Cardinality(At({"i_link"})) \in Nat /\ Cardinality(P) \in Nat
  BY <1>4, FiniteSets, FS_CardinalityType DEF TableInv, TypeOK
<1> QED
  BY <1>3, <1>4, <1>5, <1>6, LimitAssumption DEF CountExact, WithinLimit

\* Steps that leave every live entry and its value alone.
LEMMA StutterStep ==
  ASSUME CountInv, NEW t \in Threads,
         \/ InsertCall(t) \/ InsertQuiet(t) \/ FindQuiet(t) \/ InsertGiveBack(t) \/ RemoveFree(t)
         \/ RemoveCall(t) \/ RemoveLock(t) \/ RemoveNone(t) \/ RemoveFound(t)
         \/ RemoveAllCall(t) \/ RemoveAllLock(t) \/ RemoveAllFound(t) \/ RemoveAllNext(t)
  PROVE  Mapped' = Mapped
<1> USE DEF CountInv
<1>1. \A e \in Live : value'[e] = value[e]
  <2>1. CASE InsertCall(t)
    BY <2>1 DEF InsertCall, TableInv, TypeOK, EntriesAccounted, Live, AllLinked
  <2>2. CASE ~InsertCall(t)
    BY <2>2 DEF InsertQuiet, InsertLock, InsertConflict, InsertNew, InsertLimit, InsertCount,
       FindQuiet, FindCall, FindLock, FindFound, FindNone, FindRead, InsertGiveBack, RemoveFree,
       RemoveCall, RemoveLock, RemoveNone, RemoveFound, KeyedCall, RemoveAllCall, RemoveAllLock,
       RemoveAllFound, RemoveAllNext, tblVars
  <2> QED
    BY <2>1, <2>2
<1>2. Live' = Live
  <2>1. CASE InsertCount(t)
    <3>1. AllLinked' = AllLinked /\ At(Removing)' = At(Removing) /\ ent' = ent
      BY <2>1 DEF TableInv, TypeOK, InsertCount, Goto, AllLinked, At, Removing, opVars
    <3> QED
      BY <3>1 DEF Live, Leaving
  <2>2. CASE ~InsertCount(t)
    <3>1. /\ AllLinked' = AllLinked /\ At(Removing)' = At(Removing)
          /\ \A u \in At(Removing) : ent'[u] = ent[u]
      BY <2>2, OtherStepUncounted DEF InsertQuiet
    <3> QED
      BY <3>1 DEF Live, Leaving
  <2> QED
    BY <2>1, <2>2
<1> QED
  BY <1>1, <1>2, MappedSame

\* Linking an entry puts its value at its key.
LEMMA LinkPuts ==
  ASSUME CountInv, CountInv', NEW t \in Threads, InsertLink(t)
  PROVE  \E k \in Keys, v \in Values : Map!Put(k, v)
<1> USE DEF CountInv
<1> DEFINE e == ent[t]
           k == KeyOf[value[e]]
<1>1. /\ e \in Entries /\ pc[t] = "i_link" /\ value' = value /\ e \notin AllLinked
      /\ k = key[t] /\ cur[t] = LineOf[k] /\ k \in Keys /\ value[e] \in Values
      /\ \A u \in At(Removing) : ent'[u] = ent[u]
      /\ At(Removing)' = At(Removing) /\ AllLinked' = AllLinked \cup {e}
  BY KeyAssumption DEF InsertLink, TableInv, TypeOK, InsertReady, EntriesAccounted, Owning, At, Removing,
                       Goto, SetEnt, opVars, AllLinked
<1>2. Leaving' = Leaving /\ Leaving \subseteq AllLinked
  BY <1>1 DEF Leaving, TableInv, TypeOK, StillLinked, At, Removing, AllLinked
<1>3. Live' = Live \cup {e} /\ e \notin Live
  BY <1>1, <1>2 DEF Live
<1>4. \A d \in Live : KeyOf[value[d]] # k
  BY <1>1 DEF TableInv, UniqueKeys, NoneEqual, Live, AllLinked
<1>5. Mapped[k] = Absent
  BY <1>1, <1>4, MappedAt DEF MapOfLive
<1>6. Mapped' = [Mapped EXCEPT ![k] = value[e]]
  <2> DEFINE M == Mapped
             N == Mapped'
  <2>1. /\ M \in [Keys -> Values \cup {Absent}] /\ N \in [Keys -> Values \cup {Absent}]
    BY MappedAt, MappedAtNext DEF MapOfLive
  <2>2. N[k] = value[e]
    BY <1>1, <1>3, MappedAtNext DEF MapOfLive
  <2>3. ASSUME NEW j \in Keys, j # k PROVE N[j] = M[j]
    <3>1. CASE M[j] # Absent
      <4>1. PICK d \in Live : KeyOf[value[d]] = j
        BY <3>1, MappedAt DEF MapOfLive
      <4> QED
        BY <1>1, <1>3, <4>1, MappedAt, MappedAtNext DEF MapOfLive
    <3>2. CASE M[j] = Absent
      <4>1. \A d \in Live' : KeyOf[value'[d]] # j
        BY <1>1, <1>3, <2>3, <3>2, MappedAt, AbsentAssumption DEF MapOfLive
      <4> QED
        BY <3>2, <4>1, MappedAtNext DEF MapOfLive
    <3> QED
      BY <3>1, <3>2
  <2> HIDE DEF M, N
  <2>4. N = [M EXCEPT ![k] = value[e]]
    BY <1>1, <2>1, <2>2, <2>3
  <2> QED
    BY <2>4 DEF M, N
<1>7. Cardinality(Map!Present) < Limit
  BY <1>1, RoomInMap
<1>8. Map!Cardinality(Map!Present) = Cardinality(Map!Present)
  BY DEF Cardinality, Map!Cardinality
<1>9. Map!Put(k, value[e])
  <2> HIDE DEF k
  <2> QED
    BY <1>5, <1>6, <1>7, <1>8 DEF Map!Put
<1> QED
  BY <1>1, <1>9

\* Counting an entry out deletes its key.
LEMMA CountDeletes ==
  ASSUME CountInv, CountInv', NEW t \in Threads, RemoveCount(t) \/ RemoveAllCount(t)
  PROVE  \E k \in Keys : Map!Del(k)
<1> USE DEF CountInv
<1> DEFINE e == ent[t]
           k == KeyOf[value[e]]
<1>1. count > 0
  BY CountPositive DEF RemoveCount, RemoveAllCount
<1>2. /\ value' = value /\ ent' = ent /\ AllLinked' = AllLinked
      /\ At(Removing)' = At(Removing) \cup {t} /\ t \notin At(Removing)
  BY <1>1 DEF TableInv, TypeOK, RemoveCount, RemoveAllCount, Discount, Goto, AllLinked,
              At, Removing, opVars
<1>3. e \in AllLinked
  BY DEF TableInv, TypeOK, StillLinked, RemoveCount, RemoveAllCount, AllLinked
<1>4. e \notin Leaving
  BY <1>2, InHandDistinct DEF Leaving, At, Removing, InHand, RemoveCount, RemoveAllCount
<1>5. e \in Live /\ Live' = Live \ {e}
  BY <1>2, <1>3, <1>4 DEF Live, Leaving
<1>6. k \in Keys /\ Mapped[k] = value[e] /\ Mapped[k] # Absent
  BY <1>5, MappedAt, AbsentAssumption DEF MapOfLive
<1>7. \A d \in Live' : KeyOf[value'[d]] # k
  BY <1>2, <1>5 DEF TableInv, UniqueKeys, Live, AllLinked
<1>8. Mapped' = [Mapped EXCEPT ![k] = Absent]
  <2> DEFINE M == Mapped
             N == Mapped'
  <2>1. /\ M \in [Keys -> Values \cup {Absent}] /\ N \in [Keys -> Values \cup {Absent}]
    BY MappedAt, MappedAtNext DEF MapOfLive
  <2>2. N[k] = Absent
    BY <1>6, <1>7, MappedAtNext DEF MapOfLive
  <2>3. ASSUME NEW j \in Keys, j # k PROVE N[j] = M[j]
    <3>1. CASE M[j] # Absent
      <4>1. PICK d \in Live : KeyOf[value[d]] = j
        BY <3>1, MappedAt DEF MapOfLive
      <4>2. d \in Live'
        BY <1>5, <2>3, <4>1
      <4> QED
        BY <1>2, <4>1, <4>2, MappedAt, MappedAtNext DEF MapOfLive
    <3>2. CASE M[j] = Absent
      <4>1. \A d \in Live' : KeyOf[value'[d]] # j
        BY <1>2, <1>5, <2>3, <3>2, MappedAt, AbsentAssumption DEF MapOfLive
      <4> QED
        BY <3>2, <4>1, MappedAtNext DEF MapOfLive
    <3> QED
      BY <3>1, <3>2
  <2> HIDE DEF M, N
  <2>4. N = [M EXCEPT ![k] = Absent]
    BY <1>6, <2>1, <2>2, <2>3
  <2> QED
    BY <2>4 DEF M, N
<1> QED
  BY <1>6, <1>8 DEF Map!Del

\* Unlinking an entry that is already counted out changes nothing more.
LEMMA UnlinkStutters ==
  ASSUME CountInv, NEW t \in Threads, RemoveUnlink(t) \/ RemoveAllUnlink(t)
  PROVE  Mapped' = Mapped
<1> USE DEF CountInv
<1>1. AllLinked' = AllLinked \ {ent[t]} /\ ent[t] \in AllLinked
  BY UnlinkStep
<1>2. /\ At(Removing)' = At(Removing) \ {t} /\ t \in At(Removing)
      /\ \A u \in At(Removing) \ {t} : ent'[u] = ent[u]
      /\ value' = value
  BY DEF TableInv, TypeOK, RemoveUnlink, RemoveAllUnlink, Goto, SetEnt, At, Removing, opVars
<1>3. \A u \in At(Removing) \ {t} : ent[u] # ent[t]
  BY <1>2, InHandDistinct DEF At, Removing, InHand
<1>4. Leaving' = Leaving \ {ent[t]} /\ ent[t] \in Leaving
  BY <1>2, <1>3 DEF Leaving
<1>5. Live' = Live
  BY <1>1, <1>4 DEF Live
<1> QED
  BY <1>2, <1>5, MappedSame

\* A hash table implements KeyMap: insert, remove and remove_all change the
\* map of its live entries by single Puts within the limit and single Dels.
THEOREM HashImplementsMap == Spec => ImplementsMap
<1>1. Init => Map!Init
  <2>1. ASSUME Init PROVE Live = {} /\ Mapped \in [Keys -> Values \cup {Absent}]
    BY <2>1, TableInit, MappedAt DEF MapOfLive, Init, Live, AllLinked
  <2>2. ASSUME Init, NEW k \in Keys PROVE Mapped[k] = Absent
    BY <2>1, <2>2, TableInit, MappedAt DEF MapOfLive
  <2>3. ASSUME Init PROVE Mapped = [k \in Keys |-> Absent]
    <3> DEFINE M == Mapped
    <3>1. M \in [Keys -> Values \cup {Absent}] /\ \A k \in Keys : M[k] = Absent
      BY <2>1, <2>2, <2>3
    <3> HIDE DEF M
    <3>2. M = [k \in Keys |-> Absent]
      BY <3>1
    <3> QED
      BY <3>2 DEF M
  <2> QED
    BY <2>3 DEF Map!Init
<1>2. ASSUME CountInv, CountInv', [Next]_vars PROVE [Map!Next]_Mapped
  <2>1. CASE UNCHANGED vars
    <3>1. Live' = Live /\ value' = value
      BY <2>1 DEF vars, tblVars, Live, AllLinked, Leaving, At
    <3> QED
      BY <3>1, MappedSame
  <2>2. ASSUME NEW t \in Threads, InsertLink(t) PROVE Map!Next
    BY <1>2, <2>2, LinkPuts DEF Map!Next
  <2>3. ASSUME NEW t \in Threads, RemoveCount(t) \/ RemoveAllCount(t) PROVE Map!Next
    BY <1>2, <2>3, CountDeletes DEF Map!Next
  <2>4. ASSUME NEW t \in Threads, RemoveUnlink(t) \/ RemoveAllUnlink(t) PROVE Mapped' = Mapped
    BY <1>2, <2>4, UnlinkStutters
  <2> QED
    BY <1>2, <2>1, <2>2, <2>3, <2>4, StutterStep, StepKinds DEF RemoveQuiet, RemoveAllQuiet
<1> QED
  BY <1>1, <1>2, HashInvariant, PTL DEF Spec, ImplementsMap, Map!Spec
=============================================================================
