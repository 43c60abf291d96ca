------------------------------ MODULE EntityCache ------------------------------
(***************************************************************************)
(* The cache in front of the database (lib/cache.ts): the in-memory LRU    *)
(* store, cacheAside, which reads through it, and handlers that commit a   *)
(* row and then invalidate its key.                                        *)
(*                                                                         *)
(* A reader is at an await between the miss, the query and the store; a    *)
(* writer is between its commit and the invalidation, and may die there.   *)
(* Of a value only this is kept: whether it is the one in the database.    *)
(* Of time the entries' ages are kept; namespaces, patterns of keys,       *)
(* metrics and the Redis store are left out.                               *)
(***************************************************************************)
EXTENDS Naturals, FiniteSets

CONSTANTS Keys,        \* cached rows
          Readers,     \* calls of cacheAside in flight at the same time
          Writers,     \* handlers in flight that write rows
          MaxEntries,  \* maxSize of the store
          Ttl          \* lifetime of an entry, in ticks

ASSUME CacheAssumption ==
  MaxEntries \in Nat \ {0} /\ Ttl \in Nat \ {0} /\ "none" \notin Keys

VARIABLES entry,       \* the entry of each key: whether it has the row's present
                       \* value, ticks until it expires and since its access
          reader,      \* what each call of cacheAside is doing
          writer,      \* the key each writer has still to invalidate
          excused      \* keys whose stale entry was stored by a reader that a
                       \* writer overtook, or left by a writer that died (history)

cacheVars == <<entry, reader, writer, excused>>

NoEntry == [current |-> FALSE, left |-> 0, idle |-> Ttl + 1]
NewEntry(isCurrent) == [current |-> isCurrent, left |-> Ttl, idle |-> 0]
EntryRow == [current : BOOLEAN, left : 0..Ttl, idle : 0..Ttl]

NoReader == [op |-> "none", key |-> "none", current |-> FALSE]
ReaderRow == [op : {"none", "fetch", "store"}, key : Keys \cup {"none"}, current : BOOLEAN]

-----------------------------------------------------------------------------
(* The store *)

Stored == {k \in Keys : entry[k] # NoEntry}

\* An expired entry, else one that was accessed the longest ago.
Victims ==
  LET expired == {k \in Stored : entry[k].left = 0}
  IN  IF expired # {} THEN expired
      ELSE {k \in Stored : \A j \in Stored : entry[j].idle <= entry[k].idle}

\* Mutant of Full: the store grows by one too many.
OverFull(k) == k \notin Stored /\ Cardinality(Stored) > MaxEntries

Full(k) == k \notin Stored /\ Cardinality(Stored) >= MaxEntries

\* LRUCache.set
Put(k, isCurrent) ==
  IF Full(k)
  THEN \E victim \in Victims :
         entry' = [entry EXCEPT ![victim] = NoEntry, ![k] = NewEntry(isCurrent)]
  ELSE entry' = [entry EXCEPT ![k] = NewEntry(isCurrent)]

-----------------------------------------------------------------------------
(* cacheAside *)

\* LRUCache.get finds the entry, and cacheAside returns its value.
Hit(r, k) ==
  /\ reader[r] = NoReader
  /\ entry[k].left > 0
  /\ entry' = [entry EXCEPT ![k].idle = 0]
  /\ UNCHANGED <<reader, writer, excused>>

\* It finds nothing, or an expired entry, which it deletes.
Miss(r, k) ==
  /\ reader[r] = NoReader
  /\ entry[k].left = 0
  /\ entry' = [entry EXCEPT ![k] = NoEntry]
  /\ excused' = excused \ {k}
  /\ reader' = [reader EXCEPT ![r] = [op |-> "fetch", key |-> k, current |-> FALSE]]
  /\ UNCHANGED writer

\* The query.
Fetch(r) ==
  /\ reader[r].op = "fetch"
  /\ reader' = [reader EXCEPT ![r] = [op |-> "store", key |-> @.key, current |-> TRUE]]
  /\ UNCHANGED <<entry, writer, excused>>

Store(r) ==
  LET k == reader[r].key
  IN  /\ reader[r].op = "store"
      /\ Put(k, reader[r].current)
      /\ excused' = IF reader[r].current THEN excused \ {k} ELSE excused \cup {k}
      /\ reader' = [reader EXCEPT ![r] = NoReader]
      /\ UNCHANGED writer

\* The fetcher throws or finds no row: nothing is stored.
Fetchless(r) ==
  /\ reader[r].op # "none"
  /\ reader' = [reader EXCEPT ![r] = NoReader]
  /\ UNCHANGED <<entry, writer, excused>>

-----------------------------------------------------------------------------
(* Writers *)

\* The transaction: every value read before it is out of date.
Commit(w, k) ==
  /\ writer[w] = "none"
  /\ writer' = [writer EXCEPT ![w] = k]
  /\ entry' = [entry EXCEPT ![k] = [current |-> FALSE, left |-> @.left, idle |-> @.idle]]
  /\ reader' = [r \in Readers |-> IF reader[r].key = k THEN [reader[r] EXCEPT !.current = FALSE]
                                  ELSE reader[r]]
  /\ UNCHANGED excused

\* Mutant of Invalidate: the handler does not know the key it has written.
InvalidateOther(w) ==
  /\ writer[w] # "none"
  /\ writer' = [writer EXCEPT ![w] = "none"]
  /\ UNCHANGED <<entry, reader, excused>>

\* CacheInvalidation: cache.delete
Invalidate(w) ==
  /\ writer[w] # "none"
  /\ entry' = [entry EXCEPT ![writer[w]] = NoEntry]
  /\ excused' = excused \ {writer[w]}
  /\ writer' = [writer EXCEPT ![w] = "none"]
  /\ UNCHANGED reader

WriterDies(w) ==
  /\ writer[w] # "none"
  /\ excused' = excused \cup {writer[w]}
  /\ writer' = [writer EXCEPT ![w] = "none"]
  /\ UNCHANGED <<entry, reader>>

-----------------------------------------------------------------------------
(* Time *)

\* Mutant of Older: an entry in use does not expire.
OlderUnlessUsed(e) ==
  [current |-> e.current,
   left |-> IF e.left = 0 \/ e.idle = 0 THEN e.left ELSE e.left - 1,
   idle |-> IF e.idle = Ttl THEN Ttl ELSE e.idle + 1]

Older(e) ==
  [current |-> e.current,
   left |-> IF e.left = 0 THEN 0 ELSE e.left - 1,
   idle |-> IF e.idle = Ttl THEN Ttl ELSE e.idle + 1]

Tick ==
  /\ entry' = [k \in Keys |-> IF k \in Stored THEN Older(entry[k]) ELSE NoEntry]
  /\ UNCHANGED <<reader, writer, excused>>

-----------------------------------------------------------------------------
CacheInit ==
  /\ entry = [k \in Keys |-> NoEntry]
  /\ reader = [r \in Readers |-> NoReader]
  /\ writer = [w \in Writers |-> "none"]
  /\ excused = {}

CacheNext ==
  \/ \E r \in Readers : \/ \E k \in Keys : Hit(r, k) \/ Miss(r, k)
                        \/ Fetch(r)
                        \/ Store(r)
                        \/ Fetchless(r)
  \/ \E w \in Writers : \/ \E k \in Keys : Commit(w, k)
                        \/ Invalidate(w)
                        \/ WriterDies(w)
  \/ Tick

CacheSpec == CacheInit /\ [][CacheNext]_cacheVars

\* Time passes, and a writer gets to its invalidation or dies.
CacheFairness ==
  /\ WF_cacheVars(Tick)
  /\ \A w \in Writers : WF_cacheVars(Invalidate(w) \/ WriterDies(w))

FairCacheSpec == CacheSpec /\ CacheFairness

-----------------------------------------------------------------------------
(* What the cache promises *)

\* The store, readers and writers hold values of their types.
CacheTypeOK ==
  /\ entry \in [Keys -> EntryRow \cup {NoEntry}]
  /\ reader \in [Readers -> ReaderRow]
  /\ writer \in [Writers -> Keys \cup {"none"}]
  /\ excused \subseteq Keys

\* The store never has more than maxSize entries, whoever stores at once.
SizeBounded == Cardinality(Stored) <= MaxEntries

Served(k) == entry[k].left > 0

\* A stale value is served only until the writer invalidates it, or because a
\* reader had queried before the commit and stored after the invalidation, or
\* because the writer died between the two.
StaleExplained ==
  \A k \in Keys : Served(k) /\ ~entry[k].current =>
    k \in excused \/ \E w \in Writers : writer[w] = k

\* And not for ever: no access prolongs its life.
StaleGoes == \A k \in Keys : (Served(k) /\ ~entry[k].current) ~> (~Served(k) \/ entry[k].current)
=============================================================================
