-------------------------------- MODULE Pin ---------------------------------
(***************************************************************************)
(* AIMPin (aim_nats_sdk.py): which messages an agent has already seen, in  *)
(* memory and in a file that a restart reads.  A mark is the number of     *)
(* ticks since it was made; past the time to live its age no longer        *)
(* matters.                                                                *)
(***************************************************************************)
EXTENDS Naturals, FiniteSetsExt

CONSTANTS
    Messages,
    Ttl,          \* pin_ttl
    MaxMemory,    \* max_memory
    None

Age == 0 .. Ttl + 1
Mark == Age \union {None}

ASSUME PinAssumption ==
    /\ IsFiniteSet(Messages)
    /\ Ttl \in Nat \ {0} /\ MaxMemory \in Nat \ {0} /\ None \notin Nat

VARIABLES
    cache,       \* _cache: the marks in memory
    persisted,   \* _persisted: ids known to be in the file
    db           \* the table pins

pin == <<cache, persisted, db>>

PinInit ==
    /\ cache = [m \in Messages |-> None]
    /\ persisted = {}
    /\ db = [m \in Messages |-> None]

InCache(m) == cache[m] # None /\ cache[m] <= Ttl
InFile(m) == db[m] # None /\ db[m] < Ttl

(* Fault: the file is not asked. *)
DuplicateInMemory(m, readable) == InCache(m) \/ m \in persisted

(* is_duplicate.  An id once known to be in the file is a duplicate as     *)
(* long as the process lives; a file that cannot be read says nothing.     *)
Duplicate(m, readable) ==
    InCache(m) \/ m \in persisted \/ (readable /\ InFile(m))

(* What looking leaves behind: the expired mark is gone, and a row that    *)
(* was found is known.                                                     *)
Looked(m) == IF InCache(m) THEN cache ELSE [cache EXCEPT ![m] = None]

Found(m, readable) ==
    IF ~InCache(m) /\ readable /\ InFile(m) THEN persisted \union {m} ELSE persisted

Held(marks) == {m \in Messages : marks[m] # None}

(* Over the capacity the oldest mark goes, any of them if several are of   *)
(* one tick, but m's, which is the newest.                                 *)
Evict(marks, m) ==
    IF Cardinality(Held(marks)) <= MaxMemory THEN {marks}
    ELSE {[marks EXCEPT ![n] = None] :
            n \in {n \in Held(marks) \ {m} :
                      \A o \in Held(marks) \ {m} : marks[o] <= marks[n]}}

(* mark, with the cache as looking has left it. *)
MarkIn(marks, m) == cache' \in Evict([marks EXCEPT ![m] = 0], m)

(* check_and_mark of a message that is new. *)
CheckAndMark(m, readable) ==
    /\ ~Duplicate(m, readable)
    /\ MarkIn(Looked(m), m)
    /\ UNCHANGED <<persisted, db>>

IsNew(m, readable) ==
    /\ ~Duplicate(m, readable)
    /\ cache' = Looked(m)
    /\ UNCHANGED <<persisted, db>>

IsDuplicate(m, readable) ==
    /\ Duplicate(m, readable)
    /\ cache' = Looked(m) /\ persisted' = Found(m, readable)
    /\ UNCHANGED db

(* _persist_batch: a row that is there already keeps its time. *)
Written(m) == IF m \in Held(cache) \ persisted /\ db[m] = None THEN cache[m] ELSE db[m]

PersistBatch ==
    /\ db' = [m \in Messages |-> Written(m)]
    /\ persisted' = persisted \union Held(cache)
    /\ UNCHANGED cache

(* clear: the marks in memory go in any case. *)
ClearPin ==
    /\ cache' = [m \in Messages |-> None] /\ persisted' = {}
    /\ db' \in {[m \in Messages |-> None], db}

(* A new process reads nothing but deletes the rows that have expired.     *)
ReopenPin ==
    /\ cache' = [m \in Messages |-> None] /\ persisted' = {}
    /\ db' = [m \in Messages |-> IF db[m] # None /\ db[m] > Ttl THEN None ELSE db[m]]

Older(mark) == IF mark = None \/ mark > Ttl THEN mark ELSE mark + 1

AgePin ==
    /\ cache' = [m \in Messages |-> Older(cache[m])]
    /\ db' = [m \in Messages |-> Older(db[m])]
    /\ UNCHANGED persisted

PinTypeOK ==
    /\ cache \in [Messages -> Mark] /\ db \in [Messages -> Mark]
    /\ persisted \subseteq Messages
    /\ Cardinality(Held(cache)) <= MaxMemory
=============================================================================
