----------------------------- MODULE Migrations -----------------------------
(* The migration runs of a deployment (cmd/migration): the platform's own    *)
(* files first (core/datasources/migration), then those of the modules in    *)
(* the order of modules/sources.go (kernel/data/migrate), either run or, in  *)
(* a database that already has a users table, only recorded.  Two deployed   *)
(* replicas may run at once and any run may stop anywhere; a release may     *)
(* bring files that the one before did not have.                             *)
(*                                                                           *)
(* A file is <<module, number>>.  executed is history: how often the SQL of  *)
(* a file ran, also under the engine that came before this one.              *)
EXTENDS Naturals, Sequences, FiniteSets

CONSTANTS
    Order,    \* the platform, then the modules in the order they are run
    Users,    \* the module whose first file creates the users table
    Releases, \* the releases, in order of time
    Ships,    \* how many files a release has of a module
    Runners,  \* processes that run migrations
    None,     \* no process
    MaxRuns   \* bound: how many runs are started

VARIABLES
    executed, \* how often the SQL of a file was committed
    recorded, \* the files in the bookkeeping tables
    lock,     \* the holder of a module's advisory lock
    runs,     \* what a runner is at
    newest,   \* the newest release deployed so far
    started   \* runs so far

vars == <<executed, recorded, lock, runs, newest, started>>

Sources == {Order[i] : i \in DOMAIN Order}
Files(m, r) == {<<m, n>> : n \in 1..Ships[r][m]}
AllFiles == UNION {Files(m, r) : m \in Sources, r \in Releases}
CoreSource == Order[1]
UsersTable == <<Users, 1>>

Ran == {f \in AllFiles : executed[f] > 0}

Run == [at: {"wait", "run", "ask"}, release: Releases, place: DOMAIN Order,
        adopt: BOOLEAN, todo: SUBSET AllFiles]

TypeOK ==
    /\ executed \in [AllFiles -> 0..2]
    /\ recorded \subseteq AllFiles
    /\ lock \in [Sources -> Runners \cup {None}]
    /\ DOMAIN runs \subseteq Runners /\ \A p \in DOMAIN runs : runs[p] \in Run
    /\ newest \in Releases /\ started \in 0..MaxRuns

(* An empty database, or one that the engine before this one set up: the     *)
(* files of the modules ran there, but only the platform's are in a table    *)
(* that is read now.                                                         *)
Init ==
    /\ \E old \in BOOLEAN :
          LET first == UNION {Files(m, 1) : m \in Sources} IN
          /\ executed = [f \in AllFiles |-> IF old /\ f \in first THEN 1 ELSE 0]
          /\ recorded = IF old THEN Files(CoreSource, 1) ELSE {}
    /\ lock = [m \in Sources |-> None]
    /\ runs = <<>> /\ newest = 1 /\ started = 0

Put(f, k, v) == [x \in DOMAIN f \cup {k} |-> IF x = k THEN v ELSE f[x]]
Drop(f, k) == [x \in DOMAIN f \ {k} |-> f[x]]
At(p, place) == p \in DOMAIN runs /\ runs[p].at = place
Module(p) == Order[runs[p].place]

(* Mutant of Free: a run does not wait for the one that holds the lock.      *)
FreeAlways(m) == TRUE

Free(m) == lock[m] = None

(* cmd/migration -up of some release.  Older than the newest is a rollback.  *)
Start(p, r) ==
    /\ p \notin DOMAIN runs /\ started < MaxRuns
    /\ started' = started + 1
    /\ newest' = IF r > newest THEN r ELSE newest
    /\ runs' = Put(runs, p, [at |-> "wait", release |-> r, place |-> 1,
                             adopt |-> FALSE, todo |-> {}])
    /\ UNCHANGED <<executed, recorded, lock>>

(* withLock, ensureTable, applied and list: what is not recorded is to do;   *)
(* AdoptAll records every file, again if need be.                            *)
Todo(p) ==
    LET files == Files(Module(p), runs[p].release) IN
    IF runs[p].adopt THEN files ELSE files \ recorded

Lock(p) ==
    /\ At(p, "wait") /\ Free(Module(p))
    /\ lock' = [lock EXCEPT ![Module(p)] = p]
    /\ runs' = [runs EXCEPT ![p].at = "run", ![p].todo = Todo(p)]
    /\ UNCHANGED <<executed, recorded, newest, started>>

First(todo) == CHOOSE f \in todo : \A g \in todo : f[2] <= g[2]

(* exec and applyFile: the SQL and the record of a file are one transaction; *)
(* Adopt: the record alone.                                                  *)
Apply(p) ==
    /\ At(p, "run") /\ runs[p].todo # {}
    /\ LET f == First(runs[p].todo) IN
       /\ executed' = IF runs[p].adopt THEN executed
                      ELSE [executed EXCEPT ![f] = IF @ = 2 THEN 2 ELSE @ + 1]
       /\ recorded' = recorded \cup {f}
       /\ runs' = [runs EXCEPT ![p].todo = @ \ {f}]
    /\ UNCHANGED <<lock, newest, started>>

(* Every file is done: the lock is given back and the next module is waited  *)
(* for.  After the platform's files, ShouldAdopt comes first; after the last *)
(* module the process ends.                                                  *)
Unlock(p) ==
    /\ At(p, "run") /\ runs[p].todo = {}
    /\ lock' = [lock EXCEPT ![Module(p)] = None]
    /\ runs' = IF runs[p].place = Len(Order) THEN Drop(runs, p)
               ELSE [runs EXCEPT ![p].place = @ + 1,
                                 ![p].at = IF runs[p].place = 1 THEN "ask" ELSE "wait"]
    /\ UNCHANGED <<executed, recorded, newest, started>>

(* ShouldAdopt: is there a users table?                                      *)
Sentinel == UsersTable \in Ran

ShouldAdopt(p) ==
    /\ At(p, "ask")
    /\ runs' = [runs EXCEPT ![p].at = "wait", ![p].adopt = Sentinel]
    /\ UNCHANGED <<executed, recorded, lock, newest, started>>

(* A statement fails, or the process or its connection dies: the transaction *)
(* is rolled back, the process ends and the session's locks go with it.      *)
Stop(p) ==
    /\ p \in DOMAIN runs
    /\ runs' = Drop(runs, p)
    /\ lock' = [m \in Sources |-> IF lock[m] = p THEN None ELSE lock[m]]
    /\ UNCHANGED <<executed, recorded, newest, started>>

Next ==
    \/ \E p \in Runners, r \in Releases : Start(p, r)
    \/ \E p \in Runners :
          Lock(p) \/ Apply(p) \/ Unlock(p) \/ ShouldAdopt(p) \/ Stop(p)

Spec == Init /\ [][Next]_vars

-----------------------------------------------------------------------------
(* migration.go, migrate.go: no file is run where it ran before, not even by *)
(* the engine that came before, however many processes deploy at once and    *)
(* wherever they stop; and by the books a module's files are run in order.   *)
MigrationsRunOnce ==
    /\ \A f \in AllFiles : executed[f] <= 1
    /\ \A f, g \in AllFiles :
          f[1] = g[1] /\ f[2] < g[2] /\ executed[g] > 0 => f \in Ran \cup recorded

(* adopt.go:37, docs/MIGRATIONS.md: the decision is made once per database,  *)
(* so no half-migrated state arises: what is recorded as applied ran.  The   *)
(* code asks on every run.                                                   *)
RecordedHasRun == recorded \subseteq Ran
=============================================================================
