------------------------------ MODULE AuditLog ------------------------------
(* The hash chain of the audit log (postgres/audit, pkg/audit/chain.go):     *)
(* every writer extends the chain from the newest row in a transaction of    *)
(* its own, under an advisory lock that lasts until the transaction ends;    *)
(* VerifyChain walks one snapshot of the table.                              *)
(*                                                                           *)
(* Ids come from a sequence that no rollback gives back.  The hash is free   *)
(* of collisions: it is the pair of what it is computed from.                *)
(*                                                                           *)
(* An action stands for all that is recorded besides the time, metadata      *)
(* included.  The metadata the callers record are strings, booleans and one  *)
(* small count; their JSON, which is what is hashed, is the same after       *)
(* JSONB and json.Unmarshal (the count comes back as a float64 and is        *)
(* printed alike).  A nested struct or an integer above 2^53 would not come  *)
(* back the same; no caller records one.                                     *)
EXTENDS Naturals

CONSTANTS
    Writers, \* transactions of RecordEvent
    Actions, \* what is recorded
    None,    \* no writer
    Clock,   \* instants, to the microsecond
    Nanos,   \* what a clock may show below a microsecond
    MaxId    \* bound: ids the sequence gives

VARIABLES
    log,     \* the committed rows, by id
    lock,    \* the writer that holds the advisory lock
    appends, \* the transactions under way
    nextId   \* the sequence

vars == <<log, lock, appends, nextId>>

Genesis == <<>>
Entries == [action: Actions, micros: Clock, nanos: Nanos]

(* What is below a microsecond is cut off: by canonicalJSON before the hash  *)
(* is computed, and by the column.                                           *)
Truncate(e) == [e EXCEPT !.nanos = 0]
Canonical(e) == Truncate(e)

(* Mutant of Stored: the column keeps what is below a microsecond.           *)
StoredWhole(e) == e

Stored(e) == Truncate(e)

ComputeChainHash(prev, e) == <<prev, Canonical(e)>>

(* ORDER BY id DESC LIMIT 1 among some ids.                                  *)
HashAt(ids) ==
    IF ids = {} THEN Genesis
    ELSE log[CHOOSE i \in ids : \A j \in ids : j <= i].hash

Types ==
    /\ \A i \in DOMAIN log : i \in 1..MaxId /\ log[i].entry \in [action: Actions, micros: Clock, nanos: {0}]
    /\ lock \in Writers \cup {None}
    /\ DOMAIN appends \subseteq Writers
    /\ \A w \in DOMAIN appends :
          /\ appends[w].at \in {"lock", "read", "insert", "commit"}
          /\ appends[w].entry \in Entries
    /\ nextId \in 1..(MaxId + 1)

Init ==
    /\ log = <<>> /\ lock = None /\ appends = <<>> /\ nextId = 1

Put(f, k, v) == [x \in DOMAIN f \cup {k} |-> IF x = k THEN v ELSE f[x]]
Drop(f, k) == [x \in DOMAIN f \ {k} |-> f[x]]
At(w, place) == w \in DOMAIN appends /\ appends[w].at = place

Begin(w, e) ==
    /\ w \notin DOMAIN appends
    /\ appends' = Put(appends, w,
           [at |-> "lock", entry |-> e, prev |-> Genesis, id |-> 0])
    /\ UNCHANGED <<log, lock, nextId>>

(* Mutant of Free: writers do not wait for one another.                      *)
FreeAlways == TRUE

Free == lock = None

Lock(w) ==
    /\ At(w, "lock") /\ Free
    /\ lock' = w
    /\ appends' = [appends EXCEPT ![w].at = "read"]
    /\ UNCHANGED <<log, nextId>>

(* A new statement: it sees what was committed before the lock was given.    *)
ReadPrev(w) ==
    /\ At(w, "read")
    /\ appends' = [appends EXCEPT ![w].at = "insert", ![w].prev = HashAt(DOMAIN log)]
    /\ UNCHANGED <<log, lock, nextId>>

Insert(w) ==
    /\ At(w, "insert") /\ nextId <= MaxId
    /\ appends' = [appends EXCEPT ![w].at = "commit", ![w].id = nextId]
    /\ nextId' = nextId + 1
    /\ UNCHANGED <<log, lock>>

RowOf(a) ==
    [entry |-> Stored(a.entry), prev |-> a.prev,
     hash |-> ComputeChainHash(a.prev, a.entry)]

Released(w) == IF lock = w THEN None ELSE lock

Commit(w) ==
    /\ At(w, "commit")
    /\ log' = Put(log, appends[w].id, RowOf(appends[w]))
    /\ lock' = Released(w)
    /\ appends' = Drop(appends, w)
    /\ UNCHANGED nextId

(* Any statement may fail, and the process or its connection may die.        *)
Rollback(w) ==
    /\ w \in DOMAIN appends
    /\ lock' = Released(w)
    /\ appends' = Drop(appends, w)
    /\ UNCHANGED <<log, nextId>>

Next ==
    \E w \in Writers :
       \/ \E e \in Entries : Begin(w, e)
       \/ Lock(w) \/ ReadPrev(w) \/ Insert(w) \/ Commit(w) \/ Rollback(w)

Spec == Init /\ [][Next]_vars

-----------------------------------------------------------------------------
(* VerifyChain at a row: it continues the row before it, and the hash        *)
(* recomputed from what the columns hold is the one stored.                  *)
Verifies(i) ==
    /\ log[i].prev = HashAt({j \in DOMAIN log : j < i})
    /\ log[i].hash = ComputeChainHash(log[i].prev, log[i].entry)

(* A log that nobody tampered with verifies at every moment, whatever        *)
(* writers run at once, fail or die (audit_postgres.go, VerifyChain).        *)
ChainVerifies == \A i \in DOMAIN log : Verifies(i)
=============================================================================
