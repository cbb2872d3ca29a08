----------------------------- MODULE HashTable -----------------------------
(***************************************************************************)
(* The hash table of libmemory/ey_hash.c under concurrent use: a rwlock    *)
(* per line, a count with a lock of its own, entries from a slab.  A step  *)
(* is what one thread does between two points where another can be seen;   *)
(* the hash_lock section touches the count alone and is one step.          *)
(*                                                                         *)
(* ey_hash_find_ex and ey_hash_find differ only in whose comparison they   *)
(* use, so one set of actions stands for both.  The order of a line's      *)
(* entries only says which of several matches is met first, so a line is a *)
(* set and the choice is open.                                             *)
(***************************************************************************)
EXTENDS Naturals, FiniteSets

CONSTANTS Threads, NoThread,
          Keys, Values, KeyOf,     \* the key of each value
          NLines, LineOf,          \* mask & gen_fn(key)
          Entries, NoEntry,        \* slab items the table can get
          Limit,                   \* tbl->limit
          MatchSets                \* what ey_hash_remove_all may be asked for

Lines == 0..(NLines - 1)

ASSUME NoThreadAssumption == NoThread \notin Threads
ASSUME NoEntryAssumption == NoEntry \notin Entries
ASSUME FiniteAssumption == IsFiniteSet(Threads) /\ IsFiniteSet(Entries)
ASSUME KeyAssumption == KeyOf \in [Values -> Keys]
ASSUME LineAssumption ==
  NLines \in Nat /\ NLines > 0 /\ LineOf \in [Keys -> 0..(NLines - 1)]
ASSUME LimitAssumption == Limit \in Nat /\ Limit > 0
ASSUME MatchAssumption == MatchSets \subseteq SUBSET Values

VARIABLES
  writer, readers,   \* per line, who holds its rwlock
  linked,            \* per line, the entries on its list
  value,             \* per entry, the value it points to
  allocated,         \* entries obtained from the slab
  count,             \* tbl->count
  pc,                \* per thread, where it is
  key,               \* per thread, the key it inserts or looks for
  match,             \* per thread, the values remove_all removes
  cur,               \* per thread, the line it works on
  ent                \* per thread, the entry it works on

tblVars == <<writer, readers, linked, value, allocated, count>>
opVars == <<key, match, cur>>
vars == <<tblVars, pc, opVars, ent>>

Control ==
  {"idle", "i_lock", "i_scan", "i_count", "i_link", "i_giveback",
   "f_lock", "f_scan", "f_read",
   "r_lock", "r_scan", "r_count", "r_unlink", "r_free",
   "a_lock", "a_scan", "a_count", "a_unlink", "crash"}

Init ==
  /\ writer = [l \in Lines |-> NoThread]
  /\ readers = [l \in Lines |-> {}]
  /\ linked = [l \in Lines |-> {}]
  /\ value \in [Entries -> Values]
  /\ allocated = {}
  /\ count = 0
  /\ pc = [t \in Threads |-> "idle"]
  /\ key \in [Threads -> Keys]
  /\ match = [t \in Threads |-> {}]
  /\ cur = [t \in Threads |-> 0]
  /\ ent = [t \in Threads |-> NoEntry]

Goto(t, where) == pc' = [pc EXCEPT ![t] = where]
SetEnt(t, e) == ent' = [ent EXCEPT ![t] = e]

\* The entries of t's line that compare equal to its key.
Equal(t) == {e \in linked[cur[t]] : KeyOf[value[e]] = key[t]}
Matching(t) == {e \in linked[cur[t]] : value[e] \in match[t]}

WtLock(t) ==
  /\ writer[cur[t]] = NoThread /\ readers[cur[t]] = {}
  /\ writer' = [writer EXCEPT ![cur[t]] = t]
WtUnlock(t) == writer' = [writer EXCEPT ![cur[t]] = NoThread]

-----------------------------------------------------------------------------
(* ey_hash_insert                                                          *)

\* The entry comes from the slab before any lock; no entry, EY_HASH_NO_MEM.
InsertCall(t) ==
  /\ pc[t] = "idle"
  /\ \E v \in Values, e \in Entries \ allocated :
       /\ key' = [key EXCEPT ![t] = KeyOf[v]]
       /\ cur' = [cur EXCEPT ![t] = LineOf[KeyOf[v]]]
       /\ allocated' = allocated \cup {e}
       /\ value' = [value EXCEPT ![e] = v]
       /\ SetEnt(t, e)
  /\ Goto(t, "i_lock")
  /\ UNCHANGED <<writer, readers, linked, count, match>>

InsertLock_Shared(t) ==                    \* a faulty variant: a read lock
  /\ pc[t] = "i_lock" /\ writer' = [writer EXCEPT ![cur[t]] = t]
  /\ Goto(t, "i_scan")
  /\ UNCHANGED <<readers, linked, value, allocated, count, opVars, ent>>

InsertLock(t) ==
  /\ pc[t] = "i_lock" /\ WtLock(t)
  /\ Goto(t, "i_scan")
  /\ UNCHANGED <<readers, linked, value, allocated, count, opVars, ent>>

\* An entry with the key: unlock, give the new entry back, EY_HASH_CONFLICT.
InsertConflict(t) ==
  /\ pc[t] = "i_scan" /\ Equal(t) # {}
  /\ WtUnlock(t)
  /\ Goto(t, "i_giveback")
  /\ UNCHANGED <<readers, linked, value, allocated, count, opVars, ent>>

InsertNew(t) ==
  /\ pc[t] = "i_scan" /\ Equal(t) = {}
  /\ Goto(t, "i_count")
  /\ UNCHANGED <<tblVars, opVars, ent>>

AtLimit_Beyond == count > Limit            \* a faulty variant
AtLimit == count >= Limit

\* No room: both locks are dropped, the entry goes back, EY_HASH_LIMIT.
InsertLimit(t) ==
  /\ pc[t] = "i_count" /\ AtLimit
  /\ WtUnlock(t)
  /\ Goto(t, "i_giveback")
  /\ UNCHANGED <<readers, linked, value, allocated, count, opVars, ent>>

InsertCount(t) ==
  /\ pc[t] = "i_count" /\ ~AtLimit
  /\ count' = count + 1
  /\ Goto(t, "i_link")
  /\ UNCHANGED <<writer, readers, linked, value, allocated, opVars, ent>>

InsertLink(t) ==
  /\ pc[t] = "i_link"
  /\ linked' = [linked EXCEPT ![cur[t]] = @ \cup {ent[t]}]
  /\ WtUnlock(t)
  /\ SetEnt(t, NoEntry)
  /\ Goto(t, "idle")
  /\ UNCHANGED <<readers, value, allocated, count, opVars>>

GivenBack_Kept(e) == allocated             \* a faulty variant
GivenBack(e) == allocated \ {e}

InsertGiveBack(t) ==
  /\ pc[t] = "i_giveback"
  /\ allocated' = GivenBack(ent[t])
  /\ SetEnt(t, NoEntry)
  /\ Goto(t, "idle")
  /\ UNCHANGED <<writer, readers, linked, value, count, opVars>>

-----------------------------------------------------------------------------
(* ey_hash_find and ey_hash_find_ex                                        *)

KeyedCall(t, where) ==
  /\ pc[t] = "idle"
  /\ \E k \in Keys :
       /\ key' = [key EXCEPT ![t] = k]
       /\ cur' = [cur EXCEPT ![t] = LineOf[k]]
  /\ Goto(t, where)
  /\ UNCHANGED <<tblVars, match, ent>>

FindCall(t) == KeyedCall(t, "f_lock")

FindLock(t) ==
  /\ pc[t] = "f_lock" /\ writer[cur[t]] = NoThread
  /\ readers' = [readers EXCEPT ![cur[t]] = @ \cup {t}]
  /\ Goto(t, "f_scan")
  /\ UNCHANGED <<writer, linked, value, allocated, count, opVars, ent>>

RdUnlock(t) == readers' = [readers EXCEPT ![cur[t]] = @ \ {t}]

\* Found: the lock is dropped, and only then the entry's value read.
FindFound(t) ==
  /\ pc[t] = "f_scan"
  /\ \E e \in Equal(t) : SetEnt(t, e)
  /\ RdUnlock(t)
  /\ Goto(t, "f_read")
  /\ UNCHANGED <<writer, linked, value, allocated, count, opVars>>

FindNone(t) ==
  /\ pc[t] = "f_scan" /\ Equal(t) = {}
  /\ RdUnlock(t)
  /\ Goto(t, "idle")
  /\ UNCHANGED <<writer, linked, value, allocated, count, opVars, ent>>

FindRead(t) ==
  /\ pc[t] = "f_read"
  /\ SetEnt(t, NoEntry)
  /\ Goto(t, "idle")
  /\ UNCHANGED <<tblVars, opVars>>

-----------------------------------------------------------------------------
(* ey_hash_remove                                                          *)

RemoveCall(t) == KeyedCall(t, "r_lock")

RemoveLock(t) ==
  /\ pc[t] = "r_lock" /\ WtLock(t)
  /\ Goto(t, "r_scan")
  /\ UNCHANGED <<readers, linked, value, allocated, count, opVars, ent>>

\* EY_HASH_NO_KEY
RemoveNone(t) ==
  /\ pc[t] = "r_scan" /\ Equal(t) = {}
  /\ WtUnlock(t)
  /\ Goto(t, "idle")
  /\ UNCHANGED <<readers, linked, value, allocated, count, opVars, ent>>

RemoveFound(t) ==
  /\ pc[t] = "r_scan"
  /\ \E e \in Equal(t) : SetEnt(t, e)
  /\ Goto(t, "r_count")
  /\ UNCHANGED <<tblVars, opVars>>

\* A count of 0 with an entry in hand is the deliberate fault.
Discount(t, next) ==
  /\ IF count = 0
     THEN Goto(t, "crash") /\ UNCHANGED count
     ELSE Goto(t, next) /\ count' = count - 1
  /\ UNCHANGED <<writer, readers, linked, value, allocated, opVars, ent>>

RemoveCount(t) == pc[t] = "r_count" /\ Discount(t, "r_unlink")

RemoveUnlink(t) ==
  /\ pc[t] = "r_unlink"
  /\ linked' = [linked EXCEPT ![cur[t]] = @ \ {ent[t]}]
  /\ WtUnlock(t)
  /\ Goto(t, "r_free")
  /\ UNCHANGED <<readers, value, allocated, count, opVars, ent>>

\* Outside the lock: the value is destroyed or returned, the entry freed.
RemoveFree(t) ==
  /\ pc[t] = "r_free"
  /\ allocated' = GivenBack(ent[t])
  /\ SetEnt(t, NoEntry)
  /\ Goto(t, "idle")
  /\ UNCHANGED <<writer, readers, linked, value, count, opVars>>

-----------------------------------------------------------------------------
(* ey_hash_remove_all: the lines in order, each under its write lock       *)

RemoveAllCall(t) ==
  /\ pc[t] = "idle"
  /\ \E m \in MatchSets : match' = [match EXCEPT ![t] = m]
  /\ cur' = [cur EXCEPT ![t] = 0]
  /\ Goto(t, "a_lock")
  /\ UNCHANGED <<tblVars, key, ent>>

RemoveAllLock(t) ==
  /\ pc[t] = "a_lock" /\ WtLock(t)
  /\ Goto(t, "a_scan")
  /\ UNCHANGED <<readers, linked, value, allocated, count, opVars, ent>>

RemoveAllFound(t) ==
  /\ pc[t] = "a_scan"
  /\ \E e \in Matching(t) : SetEnt(t, e)
  /\ Goto(t, "a_count")
  /\ UNCHANGED <<tblVars, opVars>>

RemoveAllCount_Missing(t) ==               \* a faulty variant
  /\ pc[t] = "a_count" /\ Goto(t, "a_unlink")
  /\ UNCHANGED <<tblVars, opVars, ent>>
RemoveAllCount(t) == pc[t] = "a_count" /\ Discount(t, "a_unlink")

\* Unlinked, destroyed and freed with the line still locked.
RemoveAllUnlink(t) ==
  /\ pc[t] = "a_unlink"
  /\ linked' = [linked EXCEPT ![cur[t]] = @ \ {ent[t]}]
  /\ allocated' = GivenBack(ent[t])
  /\ SetEnt(t, NoEntry)
  /\ Goto(t, "a_scan")
  /\ UNCHANGED <<writer, readers, value, count, opVars>>

RemoveAllNext_KeepsLast(t) ==              \* a faulty variant
  /\ pc[t] = "a_scan" /\ Matching(t) = {}
  /\ IF cur[t] + 1 \in Lines
     THEN WtUnlock(t) /\ Goto(t, "a_lock") /\ cur' = [cur EXCEPT ![t] = @ + 1]
     ELSE Goto(t, "idle") /\ UNCHANGED <<writer, cur>>
  /\ UNCHANGED <<readers, linked, value, allocated, count, key, match, ent>>
RemoveAllNext(t) ==
  /\ pc[t] = "a_scan" /\ Matching(t) = {}
  /\ WtUnlock(t)
  /\ IF cur[t] + 1 \in Lines
     THEN Goto(t, "a_lock") /\ cur' = [cur EXCEPT ![t] = @ + 1]
     ELSE Goto(t, "idle") /\ UNCHANGED cur
  /\ UNCHANGED <<readers, linked, value, allocated, count, key, match, ent>>

-----------------------------------------------------------------------------
\* The steps of a thread that holds a line's write lock.
WriterStep(t) ==
  \/ InsertConflict(t) \/ InsertNew(t) \/ InsertLimit(t) \/ InsertCount(t) \/ InsertLink(t)
  \/ RemoveNone(t) \/ RemoveFound(t) \/ RemoveCount(t) \/ RemoveUnlink(t)
  \/ RemoveAllFound(t) \/ RemoveAllCount(t) \/ RemoveAllUnlink(t) \/ RemoveAllNext(t)

OtherStep(t) ==
  \/ InsertCall(t) \/ InsertLock(t) \/ InsertGiveBack(t)
  \/ FindCall(t) \/ FindLock(t) \/ FindFound(t) \/ FindNone(t) \/ FindRead(t)
  \/ RemoveCall(t) \/ RemoveLock(t) \/ RemoveFree(t)
  \/ RemoveAllCall(t) \/ RemoveAllLock(t)

Next == \E t \in Threads : WriterStep(t) \/ OtherStep(t)

Spec == Init /\ [][Next]_vars

-----------------------------------------------------------------------------
(* Properties                                                              *)

\* Every variable has its type.
TypeOK ==
  /\ writer \in [Lines -> Threads \cup {NoThread}]
  /\ readers \in [Lines -> SUBSET Threads]
  /\ linked \in [Lines -> SUBSET Entries]
  /\ value \in [Entries -> Values]
  /\ allocated \in SUBSET Entries
  /\ count \in Nat
  /\ pc \in [Threads -> Control]
  /\ key \in [Threads -> Keys]
  /\ match \in [Threads -> SUBSET Values]
  /\ cur \in [Threads -> Lines]
  /\ ent \in [Threads -> Entries \cup {NoEntry}]

\* However insertions interleave, no two entries of the table have the same
\* key, and an entry is on the line its key hashes to (lines 180, 189-197).
UniqueKeys ==
  \A l, m \in Lines : \A d \in linked[l], e \in linked[m] :
    /\ LineOf[KeyOf[value[e]]] = m
    /\ KeyOf[value[d]] = KeyOf[value[e]] => d = e

AllLinked == UNION {linked[l] : l \in Lines}
At(controls) == {t \in Threads : pc[t] \in controls}
Removing == {"r_unlink", "a_unlink"}

\* The count is the number of entries on the lines, plus the insertions that
\* have counted and not yet linked, less the removals that have counted and
\* not yet unlinked (lines 198-208, 230-235, 266-271).
CountExact ==
  count + Cardinality(At(Removing)) = Cardinality(AllLinked) + Cardinality(At({"i_link"}))

\* Insertions on different lines never take the count past the limit
\* (lines 198-207).
WithinLimit == count <= Limit

\* A removal that has found an entry never finds the count 0: the deliberate
\* fault of lines 231-232 and 267-268 does not happen.
NoUnderflow == At({"crash"}) = {}

\* The variables have their types, and whatever the interleaving the count is
\* exact and within the limit and no removal has met a count of 0
\* (lines 198-208, 230-235, 266-271).
TableSound == TypeOK /\ CountExact /\ WithinLimit /\ NoUnderflow

\* Where a thread has the write lock of its line.
Locked ==
  {"i_scan", "i_count", "i_link", "r_scan", "r_count", "r_unlink",
   "a_scan", "a_count", "a_unlink"}

\* A line's write lock belongs to a thread that is between the locking and the
\* unlocking of that line: no path out of insert, remove or remove_all keeps it
\* (lines 193, 202, 209, 236, 245, 277), and remove_all never holds two.
LinesReleased ==
  \A l \in Lines : writer[l] # NoThread =>
    pc[writer[l]] \in Locked \cup {"crash"} /\ cur[writer[l]] = l

\* The threads that own an entry that is not on a line.
Owning == At({"i_lock", "i_scan", "i_count", "i_link", "i_giveback", "r_free"})

\* Every entry taken from the slab is on exactly one line or in the hands of
\* exactly one thread, and no other is: nothing leaks when an insertion is
\* refused, nothing freed stays linked (lines 182-210, 235-241, 271-274).
EntriesAccounted ==
  /\ \A e \in allocated : e \in AllLinked \/ \E t \in Owning : ent[t] = e
  /\ \A l \in Lines : \A e \in linked[l] :
       /\ e \in allocated
       /\ \A m \in Lines : e \in linked[m] => l = m
  /\ \A t \in Owning :
       /\ ent[t] \in allocated /\ ent[t] \notin AllLinked
       /\ \A u \in Owning : ent[u] = ent[t] => u = t

\* The table is a map of at most Limit keys that changes one key at a time.
\* An entry is in the map from its linking to the removal that counts it out.
CONSTANT Absent
ASSUME AbsentAssumption == Absent \notin Values

Leaving == {ent[t] : t \in At(Removing)}
Mapped ==
  LET live == AllLinked \ Leaving
      at(k) == {value[e] : e \in {d \in live : KeyOf[value[d]] = k}}
  IN [k \in Keys |-> IF at(k) = {} THEN Absent ELSE CHOOSE v \in at(k) : TRUE]

Map == INSTANCE KeyMap WITH map <- Mapped

\* ey_hash_insert, remove and remove_all change the abstract map by at most
\* one Put or Del at each step, whatever the interleaving.
ImplementsMap == Map!Spec

\* ey_hash_destroy says of itself "NO LOCK HERE, so NOT safe in multi-thread"
\* (line 113) and no other operation does: a find that dropped the line's
\* lock should still read the entry that it matched (lines 144-145, 166-167).
FindReadsItsMatch ==
  \A t \in At({"f_read"}) : ent[t] \in allocated /\ KeyOf[value[ent[t]]] = key[t]
=============================================================================
