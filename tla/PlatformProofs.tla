--------------------------- MODULE PlatformProofs ---------------------------
(* Machine-checked theorems about the parts of Platform, for all values of   *)
(* their constants: the updater, the audit log, the migrations, the members  *)
(* of an organization, the second step of a sign-in, the roles, the wizard   *)
(* of super administrators, and the types of all of them together.           *)
EXTENDS Platform, ModuleRegistryProofs, FiniteSetTheorems, WellFoundedInduction, TLAPS

-----------------------------------------------------------------------------
(* That the updater records only releases that came up and takes back those  *)
(* that did not, for any releases, any order of publication and any faults.  *)
(* The argument: the checkout that update.sh remembers is the release that   *)
(* worked before, and the file is written only after the probe of the very   *)
(* release it names.                                                         *)

(* What runs is what was checked out, it works, and the file does not differ.*)
Steady ==
    /\ running \in Working /\ head = running /\ file \in {running, U!Zero}

(* The saved checkout works, and the file still speaks of it.                *)
Saved ==
    /\ prev \in Working /\ file \in {prev, U!Zero}

(* Where the release being applied has got to, whatever failed before.       *)
Applying ==
    /\ at \in {"up", "probe", "write", "record"} => head = target
    /\ at \in {"probe", "write", "record"} => running = target
    /\ at \in {"write", "record"} => target \in Working

(* What holds as long as nothing failed outside the script.                  *)
Undisturbed ==
    /\ at # "down"
    /\ at \in {"idle", "save"} => Steady
    /\ at = "checkout" => Steady /\ prev = head
    /\ at = "up" => Saved /\ running = prev
    /\ at \in {"probe", "backup"} => Saved
    /\ at = "back" => IF prev = U!Zero THEN Steady ELSE Saved
    /\ at = "backup" => head = prev

(* The script is given a release.                                            *)
Aimed == at \in {"save", "checkout"} => target \in Versions

(* The inductive invariant.                                                  *)
UpdaterInv ==
    /\ U!TypeOK /\ Aimed
    /\ config.probes =>
          /\ file \in Working \cup {U!Zero}
          /\ Applying
          /\ faults = 0 => Undisturbed

-----------------------------------------------------------------------------
LEMMA UpdaterInit ==
    ASSUME U!Init
    PROVE  UpdaterInv
BY UpdaterAssumption DEF U!Init, UpdaterInv, Aimed, U!TypeOK, U!Places, Applying, Undisturbed,
   Steady

(* A value of every variable is of its type after every step.                *)
LEMMA UpdaterTypes ==
    ASSUME U!TypeOK, Aimed, [U!Next]_(U!vars)
    PROVE  U!TypeOK' /\ Aimed'
<1> USE DEF U!TypeOK, Aimed, U!Places, U!host
<1>1. CASE U!Publish \/ U!CheckOnce \/ U!SavePrev \/ U!Checkout
  BY <1>1 DEF U!Publish, U!CheckOnce, U!SavePrev, U!Checkout
<1>2. CASE \/ U!ComposeUp \/ U!ScriptFails \/ U!ScriptNotStarted
            \/ U!Healthy \/ U!Unhealthy
  BY <1>2, UpdaterAssumption
     DEF U!ComposeUp, U!AfterScript, U!ScriptFails, U!ScriptNotStarted, U!AfterFailure,
         U!Healthy, U!Unhealthy
<1>3. CASE U!Truncate \/ U!Record \/ U!RollbackCheckout \/ U!RollbackRefused \/ U!RollbackUp
  BY <1>3 DEF U!Truncate, U!Record, U!RollbackCheckout, U!RollbackRefused, U!RollbackUp
<1>4. CASE U!Fails \/ U!Stop \/ U!Restart
  BY <1>4, UpdaterAssumption DEF U!Fails, U!Stop, U!Restart, U!Gone
<1>5. CASE UNCHANGED U!vars
  BY <1>5 DEF U!vars
<1> QED
  BY <1>1, <1>2, <1>3, <1>4, <1>5 DEF U!Next

(* A step after which something has failed owes no more than Applying.       *)
LEMMA UpdaterStep ==
    ASSUME UpdaterInv, [U!Next]_(U!vars)
    PROVE  UpdaterInv'
<1> SUFFICES ASSUME config'.probes
             PROVE  /\ file' \in Working \cup {U!Zero}
                    /\ Applying'
                    /\ faults' = 0 => Undisturbed'
  BY UpdaterTypes DEF UpdaterInv
<1>1. config' = config
  BY DEF U!Next, U!vars, U!host, U!Publish, U!CheckOnce, U!SavePrev, U!Checkout, U!ComposeUp,
         U!ScriptFails, U!ScriptNotStarted, U!Healthy, U!Unhealthy, U!Truncate, U!Record,
         U!RollbackCheckout, U!RollbackRefused, U!RollbackUp, U!Fails, U!Stop, U!Restart
<1>2. /\ U!TypeOK /\ config.probes
      /\ file \in Working \cup {U!Zero} /\ Applying
      /\ faults = 0 => Undisturbed
  BY <1>1 DEF UpdaterInv
<1> USE <1>2 DEF U!TypeOK, Applying, Undisturbed, Steady, Saved, U!host
<1>3. CASE U!Publish \/ U!CheckOnce
  BY <1>3 DEF U!Publish, U!CheckOnce
<1>4. CASE U!SavePrev \/ U!Checkout
  BY <1>4 DEF U!SavePrev, U!Checkout
<1>5. CASE U!ComposeUp
  BY <1>5 DEF U!ComposeUp, U!AfterScript
<1>6. CASE U!ScriptFails
  BY <1>6, UpdaterAssumption DEF U!ScriptFails, U!AfterFailure
<1>14. CASE U!ScriptNotStarted
  BY <1>14, UpdaterAssumption DEF U!ScriptNotStarted, U!AfterFailure
<1>7. CASE U!Healthy \/ U!Unhealthy
  BY <1>7, UpdaterAssumption DEF U!Healthy, U!Unhealthy, U!AfterFailure
<1>8. CASE U!Truncate \/ U!Record
  BY <1>8 DEF U!Truncate, U!Record
<1>9. CASE U!RollbackCheckout \/ U!RollbackRefused
  BY <1>9 DEF U!RollbackCheckout, U!RollbackRefused
<1>10. CASE U!RollbackUp
  BY <1>10 DEF U!RollbackUp
<1>11. CASE U!Fails \/ U!Stop
  BY <1>11 DEF U!Fails, U!Stop, U!Gone
<1>12. CASE U!Restart
  BY <1>12 DEF U!Restart
<1>13. CASE UNCHANGED U!vars
  BY <1>13 DEF U!vars
<1> QED
  BY <1>3, <1>4, <1>5, <1>6, <1>7, <1>8, <1>9, <1>10, <1>11, <1>12, <1>13, <1>14
     DEF U!Next

(* The strengthened invariant, at every moment.                              *)
THEOREM UpdaterInvariant == U!Spec => []UpdaterInv
<1>1. U!Init => UpdaterInv
  BY UpdaterInit
<1>2. UpdaterInv /\ [U!Next]_(U!vars) => UpdaterInv'
  BY UpdaterStep
<1> QED
  BY <1>1, <1>2, PTL DEF U!Spec

(* A release whose API does not come up is never recorded, and between       *)
(* updates that nothing disturbed what runs works (updater.go, Apply).       *)
THEOREM RecordedReleasesWork == U!Spec => []RunsProven
<1>1. UpdaterInv => RunsProven
  BY DEF UpdaterInv, RunsProven, U!RunsProven, Undisturbed, Steady
<1> QED
  BY <1>1, UpdaterInvariant, PTL

-----------------------------------------------------------------------------
(* That the audit log verifies at every moment, for any number of writers,   *)
(* rows and clocks.  The argument: only the holder of the advisory lock is   *)
(* past it, so what it read is still the newest row when it commits, and its *)
(* id, taken under the lock, is above every committed one.                   *)

(* The hash of the newest of some rows of any table.                         *)
HashOf(l, ids) ==
    IF ids = {} THEN A!Genesis
    ELSE l[CHOOSE i \in ids : \A j \in ids : j <= i].hash

IdsBelow == \A i \in DOMAIN log : i < nextId

(* Past the lock is only the one that holds it.                              *)
HoldersOnly == \A w \in DOMAIN appends : appends[w].at # "lock" => holder = w

(* What the holder read is still the end of the chain.                       *)
ReadIsFresh ==
    \A w \in DOMAIN appends :
       appends[w].at \in {"insert", "commit"} => appends[w].prev = A!HashAt(DOMAIN log)

(* The id of an inserted row is above every committed one.                   *)
IdIsNewest ==
    \A w \in DOMAIN appends :
       appends[w].at = "commit" =>
          /\ appends[w].id \in 1..MaxId /\ appends[w].id < nextId
          /\ \A i \in DOMAIN log : i < appends[w].id

(* The inductive invariant.                                                  *)
AuditInv ==
    /\ A!Types
    /\ IdsBelow /\ HoldersOnly /\ ReadIsFresh /\ IdIsNewest
    /\ A!ChainVerifies

-----------------------------------------------------------------------------
(* A set of ids has a newest one.                                            *)
LEMMA NewestExists ==
    ASSUME NEW n \in Nat, NEW ids \in SUBSET (1..n), ids # {}
    PROVE  \E i \in ids : \A j \in ids : j <= i
<1> DEFINE T == {n - i : i \in ids}
<1>1. T \subseteq Nat /\ T # {}
  <2>1. ids \subseteq 1..n
    OBVIOUS
  <2>2. \A i \in ids : n - i \in Nat
    BY <2>1
  <2> QED
    BY <2>2
<1>2. PICK x \in T : \A y \in T : <<y, x>> \notin OpToRel(<, Nat)
  <2> HIDE DEF T
  <2> QED
    BY <1>1, NatLessThanWellFounded, WFMin
<1>3. \A y \in T : ~(y < x)
  BY <1>1, <1>2 DEF OpToRel
<1>4. PICK i \in ids : x = n - i
  OBVIOUS
<1>5. \A j \in ids : j <= i
  BY <1>3, <1>4
<1> QED
  BY <1>5

(* What is appended does not change the hash of the rows that were there.    *)
LEMMA HashOfSame ==
    ASSUME NEW n \in Nat, NEW ids \in SUBSET (1..n), NEW l, NEW m,
           \A i \in ids : l[i] = m[i]
    PROVE  HashOf(l, ids) = HashOf(m, ids)
<1>1. CASE ids = {}
  BY <1>1 DEF HashOf
<1>2. CASE ids # {}
  <2>1. \E i \in ids : \A j \in ids : j <= i
    BY <1>2, NewestExists
  <2>2. (CHOOSE i \in ids : \A j \in ids : j <= i) \in ids
    BY <2>1
  <2> QED
    BY <2>2 DEF HashOf
<1> QED
  BY <1>1, <1>2

(* A clock reading is cut off once.                                          *)
LEMMA TruncateTwice ==
    ASSUME NEW e \in A!Entries
    PROVE  /\ A!Truncate(e) \in [action: Actions, micros: Clock, nanos: {0}]
           /\ A!Truncate(A!Truncate(e)) = A!Truncate(e)
BY DEF A!Entries, A!Truncate

LEMMA AuditInit ==
    ASSUME A!Init
    PROVE  AuditInv
<1>1. DOMAIN <<>> = {}
  OBVIOUS
<1> QED
  BY <1>1, AuditAssumption DEF A!Init, AuditInv, A!Types, IdsBelow, HoldersOnly, ReadIsFresh,
     IdIsNewest, A!ChainVerifies

(* A step that does not change the table leaves it verified.                 *)
LEMMA TableUnchanged ==
    ASSUME A!ChainVerifies, UNCHANGED log
    PROVE  A!ChainVerifies' /\ A!HashAt(DOMAIN log)' = A!HashAt(DOMAIN log)
BY DEF A!ChainVerifies, A!Verifies, A!HashAt

(* A commit appends one verified row and leaves the others verified.         *)
LEMMA CommitVerifies ==
    ASSUME AuditInv, NEW w \in Writers, A!Commit(w)
    PROVE  A!ChainVerifies'
<1> DEFINE old == DOMAIN log
<1> PICK id : id = appends[w].id
  OBVIOUS
<1>1. /\ w \in DOMAIN appends /\ id \in 1..MaxId /\ \A i \in old : i < id
      /\ appends[w].prev = A!HashAt(old) /\ appends[w].entry \in A!Entries
  BY DEF AuditInv, A!Types, A!Commit, A!At, ReadIsFresh, IdIsNewest
<1>2. /\ DOMAIN log' = old \cup {id} /\ log'[id] = A!RowOf(appends[w])
      /\ \A i \in old : log'[i] = log[i]
  BY <1>1 DEF A!Commit, A!Put, AuditInv, A!Types
<1>3. old \subseteq 1..MaxId
  BY DEF AuditInv, A!Types
<1>4. \A ids \in SUBSET old : HashOf(log', ids) = HashOf(log, ids)
  <2>1. TAKE ids \in SUBSET old
  <2>2. ids \in SUBSET (1..MaxId) /\ \A i \in ids : log'[i] = log[i]
    BY <1>2, <1>3
  <2> QED
    BY <2>2, HashOfSame, AuditAssumption
<1>5. ASSUME NEW i \in old
      PROVE  A!Verifies(i)'
  <2> DEFINE before == {j \in old : j < i}
  <2>1. {j \in DOMAIN log' : j < i} = before
    BY <1>1, <1>2, <1>3
  <2>2. HashOf(log', before) = HashOf(log, before)
    BY <1>4
  <2>3. /\ log[i].prev = HashOf(log, before)
        /\ log[i].hash = A!ComputeChainHash(log[i].prev, log[i].entry)
    BY DEF AuditInv, A!ChainVerifies, A!Verifies, A!HashAt, HashOf
  <2>4. /\ log'[i].prev = HashOf(log', {j \in DOMAIN log' : j < i})
        /\ log'[i].hash = A!ComputeChainHash(log'[i].prev, log'[i].entry)
    BY <1>2, <2>1, <2>2, <2>3
  <2> QED
    BY <2>4 DEF A!Verifies, A!HashAt, HashOf
<1>6. A!Verifies(id)'
  <2>1. {j \in DOMAIN log' : j < id} = old
    BY <1>1, <1>2, <1>3
  <2>2. HashOf(log', old) = HashOf(log, old)
    BY <1>4
  <2>3. log'[id].prev = HashOf(log', {j \in DOMAIN log' : j < id})
    <3>1. A!HashAt(old) = HashOf(log, old)
      BY DEF A!HashAt, HashOf
    <3>2. log'[id].prev = HashOf(log, old)
      BY <1>1, <1>2, <3>1 DEF A!RowOf
    <3> QED
      BY <2>1, <2>2, <3>2
  <2>4. log'[id].hash = A!ComputeChainHash(log'[id].prev, log'[id].entry)
    BY <1>1, <1>2, TruncateTwice DEF A!RowOf, A!ComputeChainHash, A!Canonical, A!Stored
  <2> QED
    BY <2>3, <2>4 DEF A!Verifies, A!HashAt, HashOf
<1> QED
  BY <1>2, <1>5, <1>6 DEF A!ChainVerifies

(* Every step keeps the invariant.                                           *)
LEMMA AuditStep ==
    ASSUME AuditInv, [A!Next]_(A!vars)
    PROVE  AuditInv'
<1> USE DEF AuditInv
<1>1. ASSUME NEW w \in Writers, NEW e \in A!Entries, A!Begin(w, e)
      PROVE  AuditInv'
  <2>1. A!Types'
    BY <1>1 DEF A!Types, A!Begin, A!Put
  <2>2. HoldersOnly' /\ IdsBelow' /\ IdIsNewest'
    BY <1>1 DEF A!Begin, A!Put, HoldersOnly, IdsBelow, IdIsNewest
  <2>3. ReadIsFresh'
    BY <1>1, TableUnchanged DEF A!Begin, A!Put, ReadIsFresh
  <2> QED
    BY <1>1, <2>1, <2>2, <2>3, TableUnchanged DEF A!Begin
<1>2. ASSUME NEW w \in Writers, A!Lock(w)
      PROVE  AuditInv'
  <2>1. A!Types'
    BY <1>2 DEF A!Types, A!Lock, A!At
  <2>2. HoldersOnly' /\ IdsBelow' /\ IdIsNewest'
    BY <1>2, AuditAssumption DEF A!Types, A!Lock, A!At, A!Free, HoldersOnly, IdsBelow,
       IdIsNewest
  <2>3. ReadIsFresh'
    BY <1>2, TableUnchanged DEF A!Lock, A!At, ReadIsFresh
  <2> QED
    BY <1>2, <2>1, <2>2, <2>3, TableUnchanged DEF A!Lock
<1>3. ASSUME NEW w \in Writers, A!ReadPrev(w)
      PROVE  AuditInv'
  <2>1. A!Types'
    BY <1>3 DEF A!Types, A!ReadPrev, A!At
  <2>2. HoldersOnly' /\ IdsBelow' /\ IdIsNewest'
    BY <1>3 DEF A!Types, A!ReadPrev, A!At, HoldersOnly, IdsBelow, IdIsNewest
  <2>3. ReadIsFresh'
    BY <1>3, TableUnchanged DEF A!ReadPrev, A!At, ReadIsFresh
  <2> QED
    BY <1>3, <2>1, <2>2, <2>3, TableUnchanged DEF A!ReadPrev
<1>4. ASSUME NEW w \in Writers, A!Insert(w)
      PROVE  AuditInv'
  <2>1. A!Types'
    BY <1>4, AuditAssumption DEF A!Types, A!Insert, A!At
  <2>2. HoldersOnly' /\ IdsBelow'
    BY <1>4 DEF A!Types, A!Insert, A!At, HoldersOnly, IdsBelow
  <2>3. IdIsNewest'
    BY <1>4 DEF A!Types, A!Insert, A!At, IdsBelow, IdIsNewest
  <2>4. ReadIsFresh'
    BY <1>4, TableUnchanged DEF A!Insert, A!At, ReadIsFresh
  <2> QED
    BY <1>4, <2>1, <2>2, <2>3, <2>4, TableUnchanged DEF A!Insert
<1>5. ASSUME NEW w \in Writers, A!Commit(w)
      PROVE  AuditInv'
  <2>1. holder = w /\ w \in DOMAIN appends
    BY <1>5 DEF A!Commit, A!At, HoldersOnly
  <2>2. \A v \in DOMAIN appends' : v \in DOMAIN appends /\ appends'[v] = appends[v] /\ appends[v].at = "lock"
    BY <1>5, <2>1 DEF A!Commit, A!Drop, HoldersOnly
  <2>3. A!Types'
    <3>1. appends[w].id \in 1..MaxId /\ appends[w].entry \in A!Entries
      BY <1>5, <2>1 DEF A!Commit, A!At, A!Types, IdIsNewest
    <3>2. \A i \in DOMAIN log' : i \in 1..MaxId /\ log'[i].entry \in [action: Actions, micros: Clock, nanos: {0}]
      BY <1>5, <3>1, TruncateTwice DEF A!Commit, A!Put, A!Types, A!RowOf, A!Stored
    <3> QED
      BY <1>5, <2>1, <2>2, <3>2 DEF A!Commit, A!Drop, A!Released, A!Types
  <2>4. HoldersOnly' /\ IdIsNewest' /\ ReadIsFresh'
    BY <2>2 DEF HoldersOnly, IdIsNewest, ReadIsFresh
  <2>5. IdsBelow'
    BY <1>5, <2>1 DEF A!Commit, A!At, A!Put, IdsBelow, IdIsNewest
  <2> QED
    BY <1>5, <2>3, <2>4, <2>5, CommitVerifies
<1>6. ASSUME NEW w \in Writers, A!Rollback(w)
      PROVE  AuditInv'
  <2>1. A!Types'
    BY <1>6 DEF A!Types, A!Rollback, A!Drop, A!Released
  <2>2. HoldersOnly' /\ IdsBelow' /\ IdIsNewest'
    BY <1>6 DEF A!Types, A!Rollback, A!Drop, A!Released, HoldersOnly, IdsBelow, IdIsNewest
  <2>3. ReadIsFresh'
    BY <1>6, TableUnchanged DEF A!Rollback, A!Drop, ReadIsFresh
  <2> QED
    BY <1>6, <2>1, <2>2, <2>3, TableUnchanged DEF A!Rollback
<1>7. CASE UNCHANGED A!vars
  <2>1. A!Types' /\ HoldersOnly' /\ IdsBelow' /\ IdIsNewest'
    BY <1>7 DEF A!vars, A!Types, HoldersOnly, IdsBelow, IdIsNewest
  <2> QED
    BY <1>7, <2>1, TableUnchanged DEF A!vars, ReadIsFresh
<1> QED
  BY <1>1, <1>2, <1>3, <1>4, <1>5, <1>6, <1>7 DEF A!Next

(* The strengthened invariant, at every moment.                              *)
THEOREM AuditInvariant == A!Spec => []AuditInv
<1>1. A!Init => AuditInv
  BY AuditInit
<1>2. AuditInv /\ [A!Next]_(A!vars) => AuditInv'
  BY AuditStep
<1> QED
  BY <1>1, <1>2, PTL DEF A!Spec

(* VerifyChain finds nothing in a log that nobody tampered with, however     *)
(* many writers Append at once, fail or die (audit_postgres.go).             *)
THEOREM LogVerifies == A!Spec => []ChainVerifies
<1>1. AuditInv => ChainVerifies
  BY DEF AuditInv, ChainVerifies
<1> QED
  BY <1>1, AuditInvariant, PTL

-----------------------------------------------------------------------------
(* That no migration file is run where it ran before, and each after the     *)
(* ones before it, for any modules, releases and concurrent runs.  The       *)
(* argument: what a run still has to do under a module's lock is not in the  *)
(* books; and a file that ran without being in the books is one of the       *)
(* engine before this one, whose users table makes every run adopt.          *)

(* A run that applies files holds the lock of their module.                  *)
Locked == \A p \in DOMAIN runs : runs[p].at = "run" => holders[M!Module(p)] = p

(* What it has to do is what the books miss.                                 *)
TodoIsMissing ==
    \A p \in DOMAIN runs :
       runs[p].at = "run" =>
          /\ runs[p].todo \subseteq M!Files(M!Module(p), runs[p].release)
          /\ M!Files(M!Module(p), runs[p].release) \subseteq runs[p].todo \cup recorded
          /\ ~runs[p].adopt => runs[p].todo \cap recorded = {}

(* Files that ran and are not in the books came with the engine before: they *)
(* are no files of the platform, and every run adopts the modules.           *)
Unbooked == {f \in M!AllFiles : executed[f] > 0 /\ f \notin recorded}

LegacyIsAdopted ==
    Unbooked # {} =>
       /\ \A f \in Unbooked : f[1] # M!CoreSource
       /\ M!Sentinel
       /\ \A p \in DOMAIN runs :
             runs[p].place > 1 /\ runs[p].at # "ask" => runs[p].adopt

(* The inductive invariant.                                                  *)
MigrationsInv ==
    /\ M!TypeOK
    /\ Locked /\ TodoIsMissing /\ LegacyIsAdopted
    /\ M!MigrationsRunOnce

-----------------------------------------------------------------------------
(* The files of a module in a release.                                       *)
LEMMA FilesOf ==
    ASSUME NEW m \in M!Sources, NEW r \in Releases
    PROVE  /\ M!Files(m, r) \subseteq M!AllFiles
           /\ \A f \in M!Files(m, r) : f[1] = m /\ f[2] \in Nat
           /\ \A f \in M!AllFiles, g \in M!Files(m, r) :
                 f[1] = m /\ f[2] < g[2] => f \in M!Files(m, r)
<1>1. Ships[r][m] \in Nat
  BY MigrationsAssumption
<1>2. M!Files(m, r) \subseteq M!AllFiles
  BY DEF M!AllFiles
<1>3. \A f \in M!Files(m, r) : f[1] = m /\ f[2] \in Nat
  BY <1>1 DEF M!Files
<1>4. ASSUME NEW f \in M!AllFiles, NEW g \in M!Files(m, r), f[1] = m, f[2] < g[2]
      PROVE  f \in M!Files(m, r)
  <2>1. PICK k \in M!Sources, s \in Releases : f \in M!Files(k, s)
    BY DEF M!AllFiles
  <2> Ships[s][k] \in Nat
    BY MigrationsAssumption
  <2>2. PICK n \in 1..Ships[s][k] : f = <<k, n>>
    BY <2>1 DEF M!Files
  <2>3. g[2] \in 1..Ships[r][m]
    BY DEF M!Files
  <2> QED
    BY <1>1, <1>4, <2>2, <2>3 DEF M!Files
<1> QED
  BY <1>2, <1>3, <1>4

(* A module has a place, the first one being the platform's.                 *)
LEMMA Places ==
    /\ 1 \in DOMAIN Order /\ M!CoreSource \in M!Sources
           /\ DOMAIN Order = 1..Len(Order) /\ Len(Order) \in Nat
           /\ \A i \in DOMAIN Order : Order[i] \in M!Sources
<1>1. Order \in Seq(M!Sources) /\ Order # <<>>
  BY MigrationsAssumption
<1>2. DOMAIN Order = 1..Len(Order) /\ Len(Order) \in Nat /\ Len(Order) # 0
  BY <1>1
<1> QED
  BY <1>2 DEF M!CoreSource, M!Sources

LEMMA UsersTableIsAFile ==
    M!UsersTable \in M!Files(UsersSource, 1) /\ M!UsersTable \in M!AllFiles
<1>1. M!UsersTable \in M!Files(UsersSource, 1)
  BY MigrationsAssumption DEF M!UsersTable, M!Files
<1> QED
  BY <1>1, FilesOf, MigrationsAssumption

(* What is left to do has a first file.                                      *)
LEMMA FirstOfTodo ==
    ASSUME NEW todo, todo # {}, \A f \in todo : f[2] \in Nat
    PROVE  /\ M!First(todo) \in todo
           /\ \A g \in todo : M!First(todo)[2] <= g[2]
<1> DEFINE T == {f[2] : f \in todo}
<1>1. T \subseteq Nat /\ T # {}
  OBVIOUS
<1>2. PICK x \in T : \A y \in T : <<y, x>> \notin OpToRel(<, Nat)
  <2> HIDE DEF T
  <2> QED
    BY <1>1, NatLessThanWellFounded, WFMin
<1>3. \A y \in T : ~(y < x)
  BY <1>1, <1>2 DEF OpToRel
<1>4. PICK f \in todo : x = f[2]
  OBVIOUS
<1>5. \A g \in todo : f[2] <= g[2]
  BY <1>3, <1>4
<1> QED
  BY <1>5 DEF M!First

(* An empty database, or one of the engine before.                           *)
LEMMA MigrationsInit ==
    ASSUME M!Init
    PROVE  MigrationsInv
<1> DEFINE first == UNION {M!Files(m, 1) : m \in M!Sources}
<1>1. PICK old \in BOOLEAN :
         /\ executed = [f \in M!AllFiles |-> IF old /\ f \in first THEN 1 ELSE 0]
         /\ recorded = IF old THEN M!Files(M!CoreSource, 1) ELSE {}
  BY DEF M!Init
<1>2. DOMAIN runs = {}
  BY DEF M!Init
<1>3. M!Files(M!CoreSource, 1) \subseteq M!AllFiles
  BY FilesOf, Places, MigrationsAssumption
<1>4. M!TypeOK
  BY <1>1, <1>2, <1>3, MigrationsAssumption DEF M!Init, M!TypeOK
<1>5. LegacyIsAdopted
  <2> SUFFICES ASSUME Unbooked # {}
               PROVE  (\A f \in Unbooked : f[1] # M!CoreSource) /\ M!Sentinel
    BY <1>2 DEF LegacyIsAdopted
  <2>1. old
    BY <1>1 DEF Unbooked
  <2>2. M!Sentinel
    BY <1>1, <2>1, UsersTableIsAFile, MigrationsAssumption DEF M!Sentinel, M!Ran
  <2>3. ASSUME NEW f \in Unbooked
        PROVE  f[1] # M!CoreSource
    <3>1. f \in first /\ f \notin M!Files(M!CoreSource, 1)
      BY <1>1, <2>1 DEF Unbooked
    <3>2. PICK m \in M!Sources : f \in M!Files(m, 1)
      BY <3>1
    <3>3. f[1] = m
      BY <3>2, FilesOf, MigrationsAssumption
    <3> QED
      BY <3>1, <3>2, <3>3
  <2> QED
    BY <2>2, <2>3
<1>6. M!MigrationsRunOnce
  <2>1. ASSUME NEW f \in M!AllFiles, NEW g \in M!AllFiles, f[1] = g[1], f[2] < g[2], executed[g] > 0
        PROVE  f \in M!Ran
    <3>1. old /\ g \in first
      BY <1>1, <2>1
    <3>2. PICK m \in M!Sources : g \in M!Files(m, 1)
      BY <3>1
    <3>3. g[1] = m /\ f \in M!Files(m, 1)
      BY <2>1, <3>2, FilesOf, MigrationsAssumption
    <3> QED
      BY <1>1, <3>1, <3>3 DEF M!Ran
  <2> QED
    BY <1>1, <2>1 DEF M!MigrationsRunOnce
<1> QED
  BY <1>2, <1>4, <1>5, <1>6 DEF MigrationsInv, Locked, TodoIsMissing

(* A process starts, and owes nothing yet.                                   *)
LEMMA StartKeeps ==
    ASSUME MigrationsInv, NEW p \in Runners, NEW r \in Releases, M!Start(p, r)
    PROVE  MigrationsInv'
<1> USE DEF MigrationsInv, M!Start, M!Put
<1>1. M!TypeOK'
  <2>1. newest' \in Releases /\ started' \in 0..MaxRuns
    BY MigrationsAssumption DEF M!TypeOK
  <2>2. [at |-> "wait", release |-> r, place |-> 1, adopt |-> FALSE, todo |-> {}] \in M!Run
    BY Places DEF M!Run
  <2>3. DOMAIN runs' \subseteq Runners /\ \A q \in DOMAIN runs' : runs'[q] \in M!Run
    BY <2>2 DEF M!TypeOK
  <2> QED
    BY <2>1, <2>3 DEF M!TypeOK
<1>2. \A q \in DOMAIN runs' :
         IF q = p THEN runs'[q].at = "wait" /\ runs'[q].place = 1
         ELSE q \in DOMAIN runs /\ runs'[q] = runs[q]
  OBVIOUS
<1>3. Locked'
  BY <1>2 DEF Locked, M!Module
<1>4. TodoIsMissing'
  BY <1>2 DEF TodoIsMissing, M!Module
<1>5. LegacyIsAdopted'
  BY <1>2 DEF LegacyIsAdopted, Unbooked, M!Sentinel, M!Ran
<1> QED
  BY <1>1, <1>3, <1>4, <1>5 DEF M!MigrationsRunOnce, M!Ran

(* A step that changes neither the files nor the books, and after which the  *)
(* runs that apply files are some of those of before.                        *)
LEMMA BooksUnchanged ==
    ASSUME MigrationsInv, UNCHANGED <<executed, recorded>>,
           \A q \in DOMAIN runs' :
              /\ q \in DOMAIN runs
              /\ runs'[q].at = "run" => runs'[q] = runs[q]
              /\ runs'[q].place > 1 /\ runs'[q].at # "ask" =>
                    \/ runs'[q].adopt
                    \/ runs'[q].adopt = runs[q].adopt /\ runs[q].place > 1 /\ runs[q].at # "ask"
    PROVE  TodoIsMissing' /\ LegacyIsAdopted' /\ M!MigrationsRunOnce'
<1>1. TodoIsMissing'
  BY DEF MigrationsInv, TodoIsMissing, M!Module
<1>2. LegacyIsAdopted'
  BY DEF MigrationsInv, LegacyIsAdopted, Unbooked, M!Sentinel, M!Ran
<1> QED
  BY <1>1, <1>2 DEF MigrationsInv, M!MigrationsRunOnce, M!Ran

(* The lock of a module is given: nobody else applies its files.             *)
LEMMA LockKeeps ==
    ASSUME MigrationsInv, NEW p \in Runners, M!Lock(p)
    PROVE  MigrationsInv'
<1> USE DEF MigrationsInv
<1>1. /\ p \in DOMAIN runs /\ runs[p].at = "wait" /\ runs[p] \in M!Run
      /\ runs' = [runs EXCEPT ![p].at = "run", ![p].todo = M!Todo(p)]
      /\ holders[M!Module(p)] = None /\ holders' = [holders EXCEPT ![M!Module(p)] = p]
      /\ UNCHANGED <<executed, recorded, newest, started>>
  BY DEF M!Lock, M!At, M!Free, M!TypeOK
<1>2. M!Module(p) \in M!Sources /\ runs[p].release \in Releases
  BY <1>1, Places DEF M!Run, M!Module
<1> DEFINE files == M!Files(M!Module(p), runs[p].release)
<1>3. /\ M!Todo(p) \subseteq files /\ files \subseteq M!Todo(p) \cup recorded
      /\ ~runs[p].adopt => M!Todo(p) \cap recorded = {}
      /\ files \subseteq M!AllFiles
  BY <1>2, FilesOf DEF M!Todo
<1>4. M!TypeOK'
  <2>1. runs'[p] \in M!Run
    BY <1>1, <1>3 DEF M!Run
  <2> QED
    BY <1>1, <1>2, <2>1 DEF M!TypeOK
<1>5. /\ DOMAIN runs' = DOMAIN runs
      /\ \A q \in DOMAIN runs : q # p => runs'[q] = runs[q]
      /\ runs'[p].at = "run" /\ runs'[p].todo = M!Todo(p) /\ runs'[p].place = runs[p].place
      /\ runs'[p].release = runs[p].release /\ runs'[p].adopt = runs[p].adopt
  BY <1>1 DEF M!Run
<1>6. Locked'
  <2>1. ASSUME NEW q \in DOMAIN runs', runs'[q].at = "run"
        PROVE  (holders[M!Module(q)] = q)'
    <3>1. CASE q = p
      BY <1>1, <1>2, <1>5, <3>1 DEF M!TypeOK, M!Module
    <3>2. CASE q # p
      <4>1. holders[M!Module(q)] = q /\ q # None
        BY <1>5, <2>1, <3>2, MigrationsAssumption DEF Locked, M!TypeOK
      <4> QED
        BY <1>1, <1>5, <3>2, <4>1 DEF M!Module
    <3> QED
      BY <3>1, <3>2
  <2> QED
    BY <2>1 DEF Locked
<1>7. TodoIsMissing'
  <2>1. ASSUME NEW q \in DOMAIN runs', runs'[q].at = "run"
        PROVE  /\ runs'[q].todo \subseteq M!Files(M!Module(q)', runs'[q].release)
               /\ M!Files(M!Module(q)', runs'[q].release) \subseteq runs'[q].todo \cup recorded'
               /\ ~runs'[q].adopt => runs'[q].todo \cap recorded' = {}
    <3>1. M!Module(q)' = M!Module(q)
      BY <1>5 DEF M!Module
    <3>2. CASE q = p
      BY <1>1, <1>3, <1>5, <3>1, <3>2
    <3>3. CASE q # p
      BY <1>1, <1>5, <2>1, <3>1, <3>3 DEF TodoIsMissing
    <3> QED
      BY <3>2, <3>3
  <2> QED
    BY <2>1 DEF TodoIsMissing, M!Files
<1>8. LegacyIsAdopted'
  BY <1>1, <1>5 DEF LegacyIsAdopted, Unbooked, M!Sentinel, M!Ran
<1> QED
  BY <1>1, <1>4, <1>6, <1>7, <1>8 DEF M!MigrationsRunOnce, M!Ran

(* A module is done: its lock is free, and the run asks or waits.            *)
LEMMA UnlockKeeps ==
    ASSUME MigrationsInv, NEW p \in Runners, M!Unlock(p)
    PROVE  MigrationsInv'
<1> USE DEF MigrationsInv
<1>1. /\ p \in DOMAIN runs /\ runs[p].at = "run" /\ runs[p] \in M!Run
      /\ holders[M!Module(p)] = p /\ holders' = [holders EXCEPT ![M!Module(p)] = None]
      /\ UNCHANGED <<executed, recorded, newest, started>>
  BY DEF M!Unlock, M!At, M!TypeOK, Locked
<1>2. /\ DOMAIN runs' \subseteq DOMAIN runs
      /\ \A q \in DOMAIN runs' : q # p => runs'[q] = runs[q]
  BY DEF M!Unlock, M!Drop
<1>3. ASSUME p \in DOMAIN runs'
      PROVE  /\ runs'[p] \in M!Run /\ runs'[p].adopt = runs[p].adopt
             /\ runs'[p].at = IF runs[p].place = 1 THEN "ask" ELSE "wait"
  <2>1. runs[p].place \in 1..Len(Order) /\ runs[p].place # Len(Order)
    BY <1>1, <1>3, Places DEF M!Unlock, M!Drop, M!Run
  <2>2. runs[p].place + 1 \in DOMAIN Order
    BY <2>1, Places
  <2> QED
    BY <1>1, <2>1, <2>2 DEF M!Unlock, M!Run
<1>4. M!TypeOK'
  BY <1>1, <1>2, <1>3 DEF M!TypeOK
<1>5. Locked'
  <2>1. ASSUME NEW q \in DOMAIN runs', runs'[q].at = "run"
        PROVE  (holders[M!Module(q)] = q)'
    <3>1. q # p
      BY <1>3, <2>1
    <3>2. holders[M!Module(q)] = q
      BY <1>2, <2>1, <3>1 DEF Locked
    <3> QED
      BY <1>1, <1>2, <3>1, <3>2 DEF M!Module
  <2> QED
    BY <2>1 DEF Locked
<1>6. \A q \in DOMAIN runs' :
         /\ q \in DOMAIN runs
         /\ runs'[q].at = "run" => runs'[q] = runs[q]
         /\ runs'[q].place > 1 /\ runs'[q].at # "ask" =>
               \/ runs'[q].adopt
               \/ runs'[q].adopt = runs[q].adopt /\ runs[q].place > 1 /\ runs[q].at # "ask"
  <2>1. ASSUME p \in DOMAIN runs', runs'[p].at # "ask"
        PROVE  runs'[p].adopt = runs[p].adopt /\ runs[p].place > 1
    BY <1>1, <1>3, <2>1, Places DEF M!Run
  <2> QED
    BY <1>1, <1>2, <1>3, <2>1
<1> QED
  BY <1>1, <1>4, <1>5, <1>6, BooksUnchanged

(* ShouldAdopt sees the users table: what ran unbooked is then adopted.      *)
LEMMA ShouldAdoptKeeps ==
    ASSUME MigrationsInv, NEW p \in Runners, M!ShouldAdopt(p)
    PROVE  MigrationsInv'
<1> USE DEF MigrationsInv, M!ShouldAdopt, M!At
<1>1. M!TypeOK'
  BY DEF M!TypeOK, M!Run, M!Sentinel
<1>2. /\ DOMAIN runs' = DOMAIN runs /\ runs[p] \in M!Run
      /\ \A q \in DOMAIN runs : q # p => runs'[q] = runs[q]
      /\ runs'[p].at = "wait" /\ runs'[p].adopt = M!Sentinel
  BY DEF M!TypeOK, M!Run
<1>3. Locked'
  BY <1>2 DEF Locked, M!Module
<1>4. TodoIsMissing'
  BY <1>2 DEF TodoIsMissing, M!Module
<1>5. LegacyIsAdopted'
  BY <1>2 DEF LegacyIsAdopted, Unbooked, M!Sentinel, M!Ran
<1> QED
  BY <1>1, <1>3, <1>4, <1>5 DEF M!MigrationsRunOnce, M!Ran

(* A process ends: its locks go with it.                                     *)
LEMMA StopKeeps ==
    ASSUME MigrationsInv, NEW p \in Runners, M!Stop(p)
    PROVE  MigrationsInv'
<1> USE DEF MigrationsInv, M!Stop, M!Drop
<1>1. M!TypeOK'
  BY DEF M!TypeOK
<1>2. Locked'
  <2>1. ASSUME NEW q \in DOMAIN runs', runs'[q].at = "run"
        PROVE  (holders[M!Module(q)] = q)'
    <3>1. q # p /\ q \in DOMAIN runs /\ runs'[q] = runs[q]
      OBVIOUS
    <3>2. holders[M!Module(q)] = q /\ M!Module(q) \in M!Sources
      BY <2>1, <3>1, Places DEF Locked, M!Module, M!TypeOK, M!Run
    <3> QED
      BY <3>1, <3>2 DEF M!Module
  <2> QED
    BY <2>1 DEF Locked
<1> QED
  BY <1>1, <1>2, BooksUnchanged

(* A file is applied: it was in no book and had not run, unless it is only   *)
(* recorded; no other run was about to apply it; those before it are done.   *)
LEMMA ApplyKeeps ==
    ASSUME MigrationsInv, NEW p \in Runners, M!Apply(p)
    PROVE  MigrationsInv'
<1> USE DEF MigrationsInv
<1> PICK f : f = M!First(runs[p].todo)
  OBVIOUS
<1> DEFINE m == M!Module(p)
           files == M!Files(m, runs[p].release)
<1>1. /\ p \in DOMAIN runs /\ runs[p].at = "run" /\ runs[p] \in M!Run /\ runs[p].todo # {}
      /\ executed' = IF runs[p].adopt THEN executed
                     ELSE [executed EXCEPT ![f] = IF @ = 2 THEN 2 ELSE @ + 1]
      /\ recorded' = recorded \cup {f}
      /\ runs' = [runs EXCEPT ![p].todo = @ \ {f}]
      /\ UNCHANGED <<holders, newest, started>>
  BY DEF M!Apply, M!At, M!TypeOK
<1>2. m \in M!Sources /\ runs[p].release \in Releases
  BY <1>1, Places DEF M!Run, M!Module
<1>3. /\ runs[p].todo \subseteq files /\ files \subseteq runs[p].todo \cup recorded
      /\ ~runs[p].adopt => runs[p].todo \cap recorded = {}
      /\ files \subseteq M!AllFiles /\ \A g \in files : g[1] = m /\ g[2] \in Nat
  BY <1>1, <1>2, FilesOf DEF TodoIsMissing
<1>4. f \in runs[p].todo /\ \A g \in runs[p].todo : f[2] <= g[2]
  BY <1>1, <1>3, FirstOfTodo
<1>5. f \in files /\ f \in M!AllFiles /\ f[1] = m /\ f[2] \in Nat
  BY <1>3, <1>4
<1>6. ~runs[p].adopt => executed[f] = 0
  <2> SUFFICES ASSUME ~runs[p].adopt, executed[f] > 0
               PROVE  FALSE
    BY <1>5 DEF M!TypeOK
  <2>1. f \in Unbooked
    BY <1>3, <1>4, <1>5 DEF Unbooked
  <2>2. runs[p].place = 1 /\ m # M!CoreSource
    BY <1>1, <1>5, <2>1, Places DEF LegacyIsAdopted, M!Run
  <2> QED
    BY <2>2 DEF M!Module, M!CoreSource
<1>7. /\ executed' \in [M!AllFiles -> 0..2]
      /\ \A g \in M!AllFiles : g # f => executed'[g] = executed[g]
      /\ executed'[f] = IF runs[p].adopt THEN executed[f] ELSE 1
  BY <1>1, <1>5, <1>6 DEF M!TypeOK
<1>8. /\ DOMAIN runs' = DOMAIN runs
      /\ \A q \in DOMAIN runs : q # p => runs'[q] = runs[q]
      /\ runs'[p].at = "run" /\ runs'[p].todo = runs[p].todo \ {f}
      /\ runs'[p].place = runs[p].place /\ runs'[p].release = runs[p].release
      /\ runs'[p].adopt = runs[p].adopt /\ runs'[p] \in M!Run
  BY <1>1 DEF M!Run
<1>9. M!TypeOK'
  BY <1>1, <1>5, <1>7, <1>8 DEF M!TypeOK
<1>10. Locked'
  BY <1>1, <1>8 DEF Locked, M!Module
<1>11. TodoIsMissing'
  <2>1. ASSUME NEW q \in DOMAIN runs', runs'[q].at = "run"
        PROVE  /\ runs'[q].todo \subseteq M!Files(M!Module(q)', runs'[q].release)
               /\ M!Files(M!Module(q)', runs'[q].release) \subseteq runs'[q].todo \cup recorded'
               /\ ~runs'[q].adopt => runs'[q].todo \cap recorded' = {}
    <3>1. M!Module(q)' = M!Module(q)
      BY <1>8 DEF M!Module
    <3>2. CASE q = p
      BY <1>1, <1>3, <1>8, <3>1, <3>2
    <3>3. CASE q # p
      <4>1. runs'[q] = runs[q] /\ runs[q] \in M!Run
        BY <1>8, <2>1, <3>3 DEF M!TypeOK
      <4>2. M!Module(q) # m
        BY <1>1, <2>1, <3>3, <4>1 DEF Locked
      <4>3. M!Module(q) \in M!Sources /\ runs[q].release \in Releases
        BY <4>1, Places DEF M!Run, M!Module
      <4>4. f \notin M!Files(M!Module(q), runs[q].release)
        BY <1>5, <4>2, <4>3, FilesOf
      <4>5. /\ runs[q].todo \subseteq M!Files(M!Module(q), runs[q].release)
            /\ M!Files(M!Module(q), runs[q].release) \subseteq runs[q].todo \cup recorded
            /\ ~runs[q].adopt => runs[q].todo \cap recorded = {}
        BY <1>8, <2>1, <4>1 DEF TodoIsMissing
      <4> QED
        BY <1>1, <3>1, <4>1, <4>4, <4>5
    <3> QED
      BY <3>2, <3>3
  <2> QED
    BY <2>1 DEF TodoIsMissing, M!Files
<1>12. Unbooked' \subseteq Unbooked /\ M!Ran \subseteq M!Ran'
  BY <1>1, <1>7 DEF Unbooked, M!Ran, M!TypeOK
<1>13. LegacyIsAdopted'
  BY <1>1, <1>8, <1>12 DEF LegacyIsAdopted, M!Sentinel
<1>14. M!MigrationsRunOnce'
  <2>1. \A g \in M!AllFiles : executed'[g] <= 1
    BY <1>7 DEF M!MigrationsRunOnce
  <2>2. ASSUME NEW g \in M!AllFiles, NEW h \in M!AllFiles, g[1] = h[1], g[2] < h[2], executed'[h] > 0
        PROVE  g \in M!Ran' \cup recorded'
    <3>1. CASE executed[h] > 0
      BY <1>1, <1>12, <2>2, <3>1 DEF M!MigrationsRunOnce
    <3>2. CASE executed[h] = 0
      <4>1. h = f
        BY <1>7, <2>2, <3>2
      <4>2. g \in files
        BY <1>2, <1>5, <2>2, <4>1, FilesOf
      <4>3. g \notin runs[p].todo
        BY <1>3, <1>4, <1>5, <2>2, <4>1, <4>2
      <4> QED
        BY <1>1, <1>3, <4>2, <4>3
    <3> QED
      BY <3>1, <3>2 DEF M!TypeOK
  <2> QED
    BY <2>1, <2>2 DEF M!MigrationsRunOnce
<1> QED
  BY <1>9, <1>10, <1>11, <1>13, <1>14

LEMMA MigrationsStep ==
    ASSUME MigrationsInv, [M!Next]_(M!vars)
    PROVE  MigrationsInv'
<1>1. CASE \E p \in Runners, r \in Releases : M!Start(p, r)
  BY <1>1, StartKeeps
<1>2. CASE \E p \in Runners : M!Lock(p) \/ M!Apply(p) \/ M!Unlock(p) \/ M!ShouldAdopt(p) \/ M!Stop(p)
  BY <1>2, LockKeeps, ApplyKeeps, UnlockKeeps, ShouldAdoptKeeps, StopKeeps
<1>3. CASE UNCHANGED M!vars
  BY <1>3 DEF M!vars, MigrationsInv, M!TypeOK, Locked, M!Module, TodoIsMissing,
     LegacyIsAdopted, Unbooked,
              M!Sentinel, M!Ran, M!MigrationsRunOnce
<1> QED
  BY <1>1, <1>2, <1>3 DEF M!Next

(* The strengthened invariant, at every moment.                              *)
THEOREM MigrationsInvariant ==
    M!Spec => []MigrationsInv
<1>1. M!Init => MigrationsInv
  BY MigrationsInit
<1>2. MigrationsInv /\ [M!Next]_(M!vars) => MigrationsInv'
  BY MigrationsStep
<1> QED
  BY <1>1, <1>2, PTL DEF M!Spec

(* However many processes migrate at once and wherever they stop, no file    *)
(* runs twice or before an earlier one (migrate.go, migration.go).           *)
THEOREM FilesRunOnce ==
    M!Spec => []MigrationsRunOnce
<1>1. MigrationsInv => MigrationsRunOnce
  BY DEF MigrationsInv, MigrationsRunOnce
<1> QED
  BY <1>1, MigrationsInvariant, PTL

-----------------------------------------------------------------------------
(* That an organization keeps its owners, for any users and requests.  The   *)
(* argument: the row of the one who made it was never anything but "owner",  *)
(* so whoever looks at it is refused; and who looked at another row before   *)
(* that one became an owner is counted among the overtaken.                  *)

(* A request that is about to demote or remove somebody.                     *)
Unseats(r) == demands[r].op \in {"role", "remove"} /\ demands[r].at = "write"

Begun ==
    IF creator = None
    THEN members = [u \in Users |-> None] /\ DOMAIN demands = {}
    ELSE members[creator] = "owner"

LookedBefore ==
    \A r \in DOMAIN demands :
       Unseats(r) => /\ demands[r].user # creator
                     /\ members[demands[r].user] = "owner" => r \in overtaken

(* The inductive invariant.                                                  *)
OrgInv == G!Types /\ Begun /\ LookedBefore

(* What the property says of one step.                                       *)
Stays ==
    \A u \in Users : members[u] = "owner" /\ members'[u] # "owner" =>
       u # creator /\ \E r \in overtaken : demands[r].user = u /\ r \notin DOMAIN demands'

-----------------------------------------------------------------------------
LEMMA OrgInit ==
    ASSUME G!Init
    PROVE  OrgInv
<1>1. DOMAIN <<>> = {}
  OBVIOUS
<1> QED
  BY <1>1 DEF G!Init, OrgInv, G!Types, Begun, LookedBefore

(* A request that writes a role, or None, for a member who may change.       *)
LEMMA WriteKeeps ==
    ASSUME OrgInv, NEW r \in DOMAIN demands, NEW role \in G!MemberRoles \cup {None},
           demands[r].user # creator, creator # None, G!Writes(r, role),
           members[demands[r].user] = "owner" => Unseats(r)
    PROVE  OrgInv' /\ Stays
<1> PICK u \in Users : u = demands[r].user
  BY DEF OrgInv, G!Types, G!Call
<1>1. /\ members' = [members EXCEPT ![u] = role] /\ creator' = creator
      /\ DOMAIN demands' = DOMAIN demands \ {r} /\ \A q \in DOMAIN demands' : demands'[q] = demands[q]
      /\ overtaken' = (overtaken \cup {q \in DOMAIN demands :
                         role = "owner" /\ demands[q].user = u /\ demands[q].at = "write"}) \ {r}
  BY DEF G!Writes, G!Drop
<1>2. G!Types'
  BY <1>1 DEF OrgInv, G!Types
<1>3. Begun'
  BY <1>1 DEF OrgInv, G!Types, Begun
<1>4. LookedBefore'
  BY <1>1 DEF OrgInv, G!Types, LookedBefore, Unseats
<1>5. Stays
  BY <1>1 DEF OrgInv, G!Types, LookedBefore, Stays
<1> QED
  BY <1>2, <1>3, <1>4, <1>5 DEF OrgInv

LEMMA OrgStep ==
    ASSUME OrgInv, [G!Next]_(G!vars)
    PROVE  OrgInv' /\ Stays
<1>1. ASSUME NEW u \in Users, G!CreateOrganization(u)
      PROVE  OrgInv' /\ Stays
  BY <1>1, OrgAssumption DEF G!CreateOrganization, OrgInv, G!Types, Begun, LookedBefore,
     G!MemberRoles, Stays
<1>2. ASSUME NEW r \in OrgRequests, NEW caller \in Users, NEW user \in Users,
             NEW op \in {"add", "role", "remove"}, NEW role \in G!MemberRoles \cup {None},
             op = "remove" <=> role = None, G!RequireManager(r, op, caller, user, role)
      PROVE  OrgInv' /\ Stays
  <2>1. creator # None
    BY <1>2, OrgAssumption DEF G!RequireManager, G!CanManageMembers, OrgInv, Begun, G!MemberRoles
  <2>2. /\ DOMAIN demands' = DOMAIN demands \cup {r} /\ r \in OrgRequests \ DOMAIN demands
        /\ \A q \in DOMAIN demands : demands'[q] = demands[q]
        /\ demands'[r] \in G!Call /\ ~(Unseats(r)')
    BY <1>2 DEF G!RequireManager, G!Put, G!Call, Unseats, G!MemberRoles
  <2>3. G!Types'
    BY <1>2, <2>2 DEF G!RequireManager, OrgInv, G!Types
  <2>4. LookedBefore'
    BY <1>2, <2>2 DEF G!RequireManager, OrgInv, LookedBefore, Unseats
  <2> QED
    BY <1>2, <2>1, <2>3, <2>4 DEF G!RequireManager, OrgInv, Begun, Stays
<1>3. ASSUME NEW r \in OrgRequests, G!ReadTarget(r)
      PROVE  OrgInv' /\ Stays
  <2>1. G!Types'
    BY <1>3 DEF G!ReadTarget, OrgInv, G!Types, G!Call
  <2>2. LookedBefore'
    BY <1>3 DEF G!ReadTarget, G!Touchable, OrgInv, G!Types, Begun, LookedBefore, Unseats
  <2> QED
    BY <1>3, <2>1, <2>2 DEF G!ReadTarget, OrgInv, Begun, Stays
<1>4. ASSUME NEW r \in OrgRequests, G!AddMember(r) \/ G!UpdateMemberRole(r) \/ G!RemoveMember(r)
      PROVE  OrgInv' /\ Stays
  <2>1. r \in DOMAIN demands /\ creator # None
    BY <1>4 DEF G!AddMember, G!UpdateMemberRole, G!RemoveMember, G!At, OrgInv, Begun
  <2>2. CASE G!AddMember(r)
    <3>1. demands[r].role \in G!MemberRoles /\ members[demands[r].user] = None
      BY <2>2 DEF G!AddMember, G!At, OrgInv, G!Types, G!Call
    <3> QED
      BY <2>1, <2>2, <3>1, WriteKeeps, OrgAssumption DEF G!AddMember, OrgInv, Begun, G!MemberRoles
  <2>3. CASE G!UpdateMemberRole(r)
    <3>1. demands[r].role \in G!MemberRoles /\ Unseats(r)
      BY <2>3 DEF G!UpdateMemberRole, G!At, OrgInv, G!Types, G!Call, Unseats
    <3> QED
      BY <2>1, <2>3, <3>1, WriteKeeps DEF G!UpdateMemberRole, OrgInv, LookedBefore
  <2>4. CASE G!RemoveMember(r)
    <3>1. Unseats(r)
      BY <2>4 DEF G!RemoveMember, G!At, Unseats
    <3> QED
      BY <2>1, <2>4, <3>1, WriteKeeps DEF G!RemoveMember, OrgInv, LookedBefore
  <2> QED
    BY <1>4, <2>2, <2>3, <2>4
<1>5. ASSUME NEW r \in OrgRequests, G!Fails(r)
      PROVE  OrgInv' /\ Stays
  BY <1>5 DEF G!Fails, G!Drop, OrgInv, G!Types, Begun, LookedBefore, Unseats, Stays
<1>6. CASE UNCHANGED G!vars
  BY <1>6 DEF G!vars, OrgInv, G!Types, Begun, LookedBefore, Unseats, Stays
<1>7. None \notin G!MemberRoles
  BY OrgAssumption
<1>8. CASE \E r \in OrgRequests, caller \in Users, user \in Users :
          \/ \E op \in {"add", "role"}, role \in G!MemberRoles : G!RequireManager(r, op, caller, user, role)
          \/ G!RequireManager(r, "remove", caller, user, None)
  <2>1. PICK r \in OrgRequests, caller \in Users, user \in Users :
          \/ \E op \in {"add", "role"}, role \in G!MemberRoles : G!RequireManager(r, op, caller, user, role)
          \/ G!RequireManager(r, "remove", caller, user, None)
    BY <1>8
  <2>2. CASE G!RequireManager(r, "remove", caller, user, None)
    BY <1>2, <2>2
  <2>3. CASE \E op \in {"add", "role"}, role \in G!MemberRoles : G!RequireManager(r, op, caller, user, role)
    <3>1. PICK op \in {"add", "role"}, role \in G!MemberRoles : G!RequireManager(r, op, caller, user, role)
      BY <2>3
    <3>2. (op = "remove" <=> role = None) /\ op \in {"add", "role", "remove"}
      BY <1>7
    <3> QED
      BY <1>2, <3>1, <3>2
  <2> QED
    BY <2>1, <2>2, <2>3
<1> QED
  BY <1>1, <1>3, <1>4, <1>5, <1>6, <1>8 DEF G!Next

(* An organization never loses the owner who made it, nor another one but to *)
(* a request that looked before he was one (RemoveMember, UpdateMemberRole). *)
THEOREM OwnersAreSafe == G!Spec => OwnersStay
<1>1. G!Init => OrgInv
  BY OrgInit
<1>2. OrgInv /\ [G!Next]_(G!vars) => OrgInv' /\ [Stays]_(G!vars)
  BY OrgStep
<1> QED
  BY <1>1, <1>2, PTL DEF G!Spec, OwnersStay, G!OwnersStay, Stays

-----------------------------------------------------------------------------
(* That the second step of a sign-in lets a token try few codes.  The        *)
(* argument: while the token is there, every request that is about to forget *)
(* the counter has paid for a round of tries with a deletion that was lost;  *)
(* once it is gone, only the requests that have it in hand can still try,    *)
(* and one of them is needed to forget a counter that has run out.           *)

CountAt(S) == Cardinality({r \in DOMAIN tries : tries[r].at \in S})

(* Tries that were let pass, requests not yet counted, and the tries that    *)
(* requests about to forget the counter will open again.                     *)
Deciding == CountAt({"read", "verify"})
Waiting == CountAt({"incr"})
Reopened == MFAMaxAttempts * CountAt({"forget", "clear"})
Left == IF counter < MFAMaxAttempts THEN MFAMaxAttempts - counter ELSE 0

Crowd == Cardinality(MFARequests) - 1
Round == MFAMaxAttempts + Cardinality(MFARequests) - 1
MFABudget == Round * (failed.tokens + 1) + failed.counts

Open == guesses + Deciding + Left + Reopened + Crowd <= MFABudget

Closed ==
    \/ guesses + Deciding + Waiting <= MFABudget
    \/ /\ counter >= MFAMaxAttempts /\ DOMAIN tries # {}
       /\ \A r \in DOMAIN tries : tries[r].at = "incr"
       /\ guesses + Waiting <= MFABudget + 1

(* The inductive invariant.                                                  *)
MFAInv == F!Types /\ (token => Open) /\ (~token => Closed)

-----------------------------------------------------------------------------
LEMMA MFATypes ==
    ASSUME F!Types, [F!Next]_(F!vars)
    PROVE  F!Types'
<1> USE MFAAssumption DEF F!Types, F!Places
<1>1. ASSUME NEW r \in MFARequests, F!GetToken(r) PROVE F!Types'
  BY <1>1 DEF F!GetToken, F!Put
<1>2. ASSUME NEW r \in MFARequests, NEW place \in F!Places, F!Goes(r, place)
      PROVE  /\ DOMAIN tries' \subseteq MFARequests
             /\ \A q \in DOMAIN tries' : tries'[q] \in [at: F!Places, code: Codes \cup {None}]
  BY <1>2 DEF F!Goes
<1>3. ASSUME NEW r \in MFARequests, F!Ends(r)
      PROVE  /\ DOMAIN tries' \subseteq MFARequests
             /\ \A q \in DOMAIN tries' : tries'[q] \in [at: F!Places, code: Codes \cup {None}]
  BY <1>3 DEF F!Ends, F!Drop
<1>4. F!MayFail => /\ [failed EXCEPT !.counts = @ + 1] \in [counts: 0..MaxLosses, tokens: 0..MaxLosses]
                   /\ [failed EXCEPT !.tokens = @ + 1] \in [counts: 0..MaxLosses, tokens: 0..MaxLosses]
  BY DEF F!MayFail
<1>5. ASSUME NEW r \in MFARequests, F!Incr(r) PROVE F!Types'
  BY <1>2, <1>5 DEF F!Incr
<1>6. ASSUME NEW r \in MFARequests, F!IncrFails(r) PROVE F!Types'
  BY <1>2, <1>4, <1>6 DEF F!IncrFails
<1>7. ASSUME NEW r \in MFARequests, F!DelToken(r) PROVE F!Types'
  BY <1>2, <1>4, <1>7 DEF F!DelToken
<1>8. ASSUME NEW r \in MFARequests, F!DelCounter(r) PROVE F!Types'
  BY <1>3, <1>8 DEF F!DelCounter
<1>9. ASSUME NEW r \in MFARequests, F!ReadUser(r) PROVE F!Types'
  BY <1>2, <1>9 DEF F!ReadUser
<1>10. ASSUME NEW r \in MFARequests, F!Refuse(r) PROVE F!Types'
  BY <1>3, <1>4, <1>10 DEF F!Refuse
<1>11. ASSUME NEW r \in MFARequests, F!RightCode(r) PROVE F!Types'
  BY <1>2, <1>11 DEF F!RightCode
<1>12. ASSUME NEW r \in MFARequests, F!MarkRecovery(r) PROVE F!Types'
  BY <1>2, <1>12 DEF F!MarkRecovery
<1>13. ASSUME NEW r \in MFARequests, F!WrongCode(r) \/ F!Fails(r) PROVE F!Types'
  BY <1>3, <1>13 DEF F!WrongCode, F!Fails
<1>14. ASSUME NEW r \in MFARequests, NEW c \in Codes, F!PickRecovery(r, c) PROVE F!Types'
  BY <1>14 DEF F!PickRecovery
<1>15. CASE F!TokenExpires \/ F!CounterExpires \/ F!Demote
  <2>1. CASE F!TokenExpires
    BY <2>1 DEF F!TokenExpires
  <2>2. CASE F!CounterExpires
    BY <2>2 DEF F!CounterExpires
  <2>3. CASE F!Demote
    BY <2>3 DEF F!Demote
  <2> QED
    BY <1>15, <2>1, <2>2, <2>3
<1>16. CASE UNCHANGED F!vars
  BY <1>16 DEF F!vars
<1> QED
  BY <1>1, <1>5, <1>6, <1>7, <1>8, <1>9, <1>10, <1>11, <1>12, <1>13, <1>14, <1>15, <1>16
  DEF F!Next

LEMMA MFANumbers ==
    ASSUME F!Types
    PROVE  /\ MFAMaxAttempts \in Nat /\ Crowd \in Nat /\ Round \in Nat
           /\ Round = MFAMaxAttempts + Crowd
           /\ Deciding \in Nat /\ Waiting \in Nat /\ Reopened \in Nat /\ Left \in Nat
           /\ MFABudget \in Nat /\ guesses \in Nat /\ counter \in Nat
           /\ Waiting <= Crowd + 1
           /\ \A r \in MFARequests :
                 (r \in DOMAIN tries => tries[r].at # "incr") => Waiting <= Crowd
<1>1. \A S : IsFiniteSet({r \in DOMAIN tries : tries[r].at \in S})
  <2>1. IsFiniteSet(DOMAIN tries)
    BY FS_Subset, MFAAssumption DEF F!Types
  <2> QED
    BY <2>1, FS_Subset
<1>2. \A S : CountAt(S) \in Nat
  BY <1>1, FS_CardinalityType DEF CountAt
<1>3. Cardinality(MFARequests) \in Nat \ {0}
  BY MFAAssumption, FS_CardinalityType, FS_EmptySet
<1>4. MFAMaxAttempts \in Nat /\ Crowd \in Nat /\ Round \in Nat /\ Round = MFAMaxAttempts + Crowd
  BY <1>3, MFAAssumption DEF Crowd, Round
<1>5. Deciding \in Nat /\ Waiting \in Nat /\ Reopened \in Nat
  BY <1>2, <1>4 DEF Deciding, Waiting, Reopened
<1>6. counter \in Nat /\ guesses \in Nat /\ failed.tokens \in Nat /\ failed.counts \in Nat
  BY MFAAssumption DEF F!Types
<1>7. Left \in Nat
  BY <1>4, <1>6 DEF Left
<1>8. MFABudget \in Nat
  BY <1>4, <1>6 DEF MFABudget
<1>9. Waiting <= Cardinality(MFARequests)
  <2>1. {r \in DOMAIN tries : tries[r].at \in {"incr"}} \subseteq MFARequests
    BY DEF F!Types
  <2> QED
    BY <2>1, FS_Subset, MFAAssumption DEF Waiting, CountAt
<1>10. ASSUME NEW r \in MFARequests, r \in DOMAIN tries => tries[r].at # "incr"
       PROVE  Waiting <= Crowd
  <2>1. {q \in DOMAIN tries : tries[q].at \in {"incr"}} \subseteq MFARequests \ {r}
    BY <1>10 DEF F!Types
  <2>2. /\ IsFiniteSet(MFARequests \ {r})
        /\ Cardinality(MFARequests \ {r}) = Cardinality(MFARequests) - 1
    BY FS_RemoveElement, MFAAssumption
  <2> QED
    BY <2>1, <2>2, FS_Subset DEF Waiting, CountAt, Crowd
<1>11. Waiting <= Crowd + 1
  BY <1>3, <1>5, <1>9 DEF Crowd
<1> QED
  BY <1>4, <1>5, <1>6, <1>7, <1>8, <1>10, <1>11

(* Where a request is.                                                       *)
Where(r) == IF r \in DOMAIN tries THEN tries[r].at ELSE "out"

LEMMA Recount ==
    ASSUME F!Types, F!Types', NEW r \in MFARequests,
           \A q \in MFARequests \ {r} :
              /\ q \in DOMAIN tries' <=> q \in DOMAIN tries
              /\ q \in DOMAIN tries => tries'[q] = tries[q],
           NEW S, "out" \notin S
    PROVE  /\ CountAt(S) \in Nat /\ CountAt(S)' \in Nat
           /\ (Where(r) \in S <=> Where(r)' \in S) => CountAt(S)' = CountAt(S)
           /\ Where(r) \in S /\ Where(r)' \notin S => CountAt(S)' = CountAt(S) - 1
           /\ Where(r) \notin S /\ Where(r)' \in S => CountAt(S)' = CountAt(S) + 1
<1> PICK T, V : /\ T = {q \in DOMAIN tries : tries[q].at \in S}
                /\ V = {q \in DOMAIN tries : tries[q].at \in S}'
  OBVIOUS
<1>1. IsFiniteSet(T) /\ IsFiniteSet(V)
  BY FS_Subset, MFAAssumption DEF F!Types
<1>2. \A q \in MFARequests \ {r} : q \in T <=> q \in V
  OBVIOUS
<1>3. (r \in T <=> Where(r) \in S) /\ (r \in V <=> Where(r)' \in S)
  BY DEF Where
<1>4. T \subseteq MFARequests /\ V \subseteq MFARequests
  BY DEF F!Types
<1>5. CountAt(S) = Cardinality(T) /\ CountAt(S)' = Cardinality(V)
  BY DEF CountAt
<1>6. Cardinality(T) \in Nat /\ Cardinality(V) \in Nat
  BY <1>1, FS_CardinalityType
<1>7. CASE r \in T <=> r \in V
  <2>1. T = V
    BY <1>2, <1>4, <1>7
  <2> QED
    BY <1>3, <1>5, <1>6, <1>7, <2>1
<1>8. CASE r \in T /\ r \notin V
  <2>1. V = T \ {r}
    BY <1>2, <1>4, <1>8
  <2>2. Cardinality(V) = Cardinality(T) - 1
    BY <1>1, <1>8, <2>1, FS_RemoveElement
  <2> QED
    BY <1>3, <1>5, <1>6, <1>8, <2>2
<1>9. CASE r \notin T /\ r \in V
  <2>1. V = T \cup {r}
    BY <1>2, <1>4, <1>9
  <2>2. Cardinality(V) = Cardinality(T) + 1
    BY <1>1, <1>9, <2>1, FS_AddElement
  <2> QED
    BY <1>3, <1>5, <1>6, <1>9, <2>2
<1> QED
  BY <1>7, <1>8, <1>9

(* What one request's move does to the counts.                               *)
LEMMA Accounts ==
    ASSUME F!Types, F!Types', NEW r \in MFARequests,
           \A q \in MFARequests \ {r} :
              /\ q \in DOMAIN tries' <=> q \in DOMAIN tries
              /\ q \in DOMAIN tries => tries'[q] = tries[q],
           NEW from, NEW to, from = Where(r), to = Where(r)'
    PROVE  /\ Deciding' = Deciding + (IF to \in {"read", "verify"} THEN 1 ELSE 0)
                                   - (IF from \in {"read", "verify"} THEN 1 ELSE 0)
           /\ Waiting' = Waiting + (IF to = "incr" THEN 1 ELSE 0)
                                 - (IF from = "incr" THEN 1 ELSE 0)
           /\ Reopened' = Reopened + (IF to \in {"forget", "clear"} THEN MFAMaxAttempts ELSE 0)
                                   - (IF from \in {"forget", "clear"} THEN MFAMaxAttempts ELSE 0)
<1>1. /\ Deciding \in Nat /\ Deciding' \in Nat
      /\ (from \in {"read", "verify"} <=> to \in {"read", "verify"}) => Deciding' = Deciding
      /\ from \in {"read", "verify"} /\ to \notin {"read", "verify"} => Deciding' = Deciding - 1
      /\ from \notin {"read", "verify"} /\ to \in {"read", "verify"} => Deciding' = Deciding + 1
  BY Recount DEF Deciding
<1>2. /\ Waiting \in Nat /\ Waiting' \in Nat
      /\ (from \in {"incr"} <=> to \in {"incr"}) => Waiting' = Waiting
      /\ from \in {"incr"} /\ to \notin {"incr"} => Waiting' = Waiting - 1
      /\ from \notin {"incr"} /\ to \in {"incr"} => Waiting' = Waiting + 1
  BY Recount DEF Waiting
<1> PICK n, m : n = CountAt({"forget", "clear"}) /\ m = CountAt({"forget", "clear"})'
  OBVIOUS
<1>3. /\ n \in Nat /\ m \in Nat
      /\ (from \in {"forget", "clear"} <=> to \in {"forget", "clear"}) => m = n
      /\ from \in {"forget", "clear"} /\ to \notin {"forget", "clear"} => m = n - 1
      /\ from \notin {"forget", "clear"} /\ to \in {"forget", "clear"} => m = n + 1
  BY Recount
<1>4. Reopened = MFAMaxAttempts * n /\ Reopened' = MFAMaxAttempts * m
  BY DEF Reopened
<1>5. /\ MFAMaxAttempts * (n + 1) = MFAMaxAttempts * n + MFAMaxAttempts
      /\ MFAMaxAttempts * (n - 1) = MFAMaxAttempts * n - MFAMaxAttempts
      /\ MFAMaxAttempts * n \in Nat /\ MFAMaxAttempts \in Nat
  BY <1>3, MFAAssumption
<1>6. Reopened' = Reopened + (IF to \in {"forget", "clear"} THEN MFAMaxAttempts ELSE 0)
                           - (IF from \in {"forget", "clear"} THEN MFAMaxAttempts ELSE 0)
  <2>1. CASE from \in {"forget", "clear"} <=> to \in {"forget", "clear"}
    BY <1>3, <1>4, <1>5, <2>1
  <2>2. CASE from \in {"forget", "clear"} /\ to \notin {"forget", "clear"}
    BY <1>3, <1>4, <1>5, <2>2
  <2>3. CASE from \notin {"forget", "clear"} /\ to \in {"forget", "clear"}
    BY <1>3, <1>4, <1>5, <2>3
  <2> QED
    BY <2>1, <2>2, <2>3
<1> QED
  BY <1>1, <1>2, <1>6

(* What a lost call is worth.                                                *)
LEMMA Losses ==
    ASSUME F!Types
    PROVE  /\ failed' = failed => MFABudget' = MFABudget
           /\ failed' = [failed EXCEPT !.counts = @ + 1] => MFABudget' = MFABudget + 1
           /\ failed' = [failed EXCEPT !.tokens = @ + 1] => MFABudget' = MFABudget + Round
<1> PICK n, m, k : n = failed.tokens /\ m = failed.counts /\ k = Round
  OBVIOUS
<1>1. n \in Nat /\ m \in Nat /\ k \in Nat
  BY MFANumbers, MFAAssumption DEF F!Types
<1>2. k * ((n + 1) + 1) = k * (n + 1) + k /\ k * (n + 1) \in Nat
  BY <1>1
<1>3. MFABudget = k * (n + 1) + m
  BY DEF MFABudget
<1>4. MFABudget' = k * (failed'.tokens + 1) + failed'.counts
  BY DEF MFABudget, Round
<1>5. CASE failed' = [failed EXCEPT !.counts = @ + 1]
  <2>1. failed'.tokens = n /\ failed'.counts = m + 1
    BY <1>5 DEF F!Types
  <2>2. failed' # [failed EXCEPT !.tokens = @ + 1] /\ failed' # failed
    BY <1>1, <2>1 DEF F!Types
  <2> QED
    BY <1>1, <1>2, <1>3, <1>4, <2>1, <2>2
<1>6. CASE failed' = [failed EXCEPT !.tokens = @ + 1]
  <2>1. failed'.tokens = n + 1 /\ failed'.counts = m
    BY <1>6 DEF F!Types
  <2>2. failed' # [failed EXCEPT !.counts = @ + 1] /\ failed' # failed
    BY <1>1, <2>1 DEF F!Types
  <2> QED
    BY <1>1, <1>2, <1>3, <1>4, <2>1, <2>2
<1>7. failed' = failed => MFABudget' = MFABudget
  BY <1>3, <1>4
<1> QED
  BY <1>5, <1>6, <1>7

Others(r) ==
    \A q \in MFARequests \ {r} :
       /\ q \in DOMAIN tries' <=> q \in DOMAIN tries
       /\ q \in DOMAIN tries => tries'[q] = tries[q]

LEMMA GoesTo ==
    ASSUME F!Types, NEW r \in DOMAIN tries, NEW place, F!Goes(r, place)
    PROVE  r \in MFARequests /\ Others(r) /\ Where(r) = tries[r].at /\ Where(r)' = place
  BY DEF F!Types, F!Goes, Others, Where

LEMMA EndsAt ==
    ASSUME F!Types, NEW r \in DOMAIN tries, F!Ends(r)
    PROVE  r \in MFARequests /\ Others(r) /\ Where(r) = tries[r].at /\ Where(r)' = "out"
  BY DEF F!Types, F!Ends, F!Drop, Others, Where

(* When all requests wait to be counted, none has been let pass.             *)
LEMMA AllWait ==
    ASSUME \A r \in DOMAIN tries : tries[r].at = "incr"
    PROVE  Deciding = 0
<1>1. {r \in DOMAIN tries : tries[r].at \in {"read", "verify"}} = {}
  OBVIOUS
<1> QED
  BY <1>1, FS_EmptySet DEF Deciding, CountAt

LEMMA SomebodyDoesNot ==
    ASSUME Closed, NEW r \in DOMAIN tries, tries[r].at # "incr"
    PROVE  guesses + Deciding + Waiting <= MFABudget
  BY DEF Closed

-----------------------------------------------------------------------------
LEMMA GetTokenKeeps ==
    ASSUME MFAInv, F!Types', NEW r \in MFARequests, F!GetToken(r)
    PROVE  MFAInv'
<1>1. /\ r \notin DOMAIN tries /\ token /\ token' = token
      /\ tries' = F!Put(tries, r, [at |-> "incr", code |-> None])
      /\ counter' = counter /\ guesses' = guesses /\ failed' = failed
  BY DEF F!GetToken
<1>2. Others(r) /\ Where(r) = "out" /\ Where(r)' = "incr"
  BY <1>1 DEF Others, Where, F!Put
<1>3. Deciding' = Deciding /\ Reopened' = Reopened
  BY <1>2, Accounts, MFANumbers DEF MFAInv, Others
<1>4. MFABudget' = MFABudget
  BY <1>1, Losses DEF MFAInv
<1>5. Open'
  BY <1>1, <1>3, <1>4 DEF MFAInv, Open, Left, Crowd
<1> QED
  BY <1>1, <1>5 DEF MFAInv

LEMMA IncrKeeps ==
    ASSUME MFAInv, F!Types', NEW r \in MFARequests, F!Incr(r)
    PROVE  MFAInv'
<1> PICK to : to = IF counter' > MFAMaxAttempts THEN "revoke" ELSE "read"
  OBVIOUS
<1>1. /\ r \in DOMAIN tries /\ tries[r].at = "incr" /\ F!Goes(r, to)
      /\ counter' = IF counter > MFAMaxAttempts THEN counter ELSE counter + 1
      /\ token' = token /\ guesses' = guesses /\ failed' = failed
  BY DEF F!Incr, F!At
<1>2. Others(r) /\ Where(r) = "incr" /\ Where(r)' = to
  BY <1>1, GoesTo DEF MFAInv
<1>3. /\ Waiting' = Waiting - 1 /\ Reopened' = Reopened
      /\ Deciding' = IF to = "read" THEN Deciding + 1 ELSE Deciding
  BY <1>2, Accounts, MFANumbers DEF MFAInv, Others
<1>4. MFABudget' = MFABudget
  BY <1>1, Losses DEF MFAInv
<1>5. /\ MFAMaxAttempts \in Nat /\ counter \in Nat /\ guesses \in Nat /\ Crowd \in Nat
      /\ Deciding \in Nat /\ Waiting \in Nat /\ Reopened \in Nat /\ MFABudget \in Nat
  BY MFANumbers DEF MFAInv
<1>6. \/ to = "read" /\ counter < MFAMaxAttempts /\ Left' = Left - 1 /\ Left \in Nat
      \/ to = "revoke" /\ counter >= MFAMaxAttempts /\ Left' = 0 /\ Left = 0
  BY <1>1, <1>5 DEF Left
<1>7. CASE token
  <2>1. guesses + Deciding + Left + Reopened + Crowd <= MFABudget
    BY <1>7 DEF MFAInv, Open
  <2>2. guesses' + Deciding' + Left' + Reopened' + Crowd <= MFABudget'
    BY <1>1, <1>3, <1>4, <1>5, <1>6, <2>1
  <2> QED
    BY <1>1, <1>7, <2>2 DEF MFAInv, Open, Crowd
<1>8. CASE ~token
  <2>1. CASE guesses + Deciding + Waiting <= MFABudget
    <3>1. guesses' + Deciding' + Waiting' <= MFABudget'
      BY <1>1, <1>3, <1>4, <1>5, <2>1
    <3> QED
      BY <1>1, <1>8, <3>1 DEF MFAInv, Closed
  <2>2. CASE /\ counter >= MFAMaxAttempts
             /\ \A q \in DOMAIN tries : tries[q].at = "incr"
             /\ guesses + Waiting <= MFABudget + 1
    <3>1. Deciding = 0 /\ to = "revoke"
      BY <1>5, <1>6, <2>2, AllWait
    <3>2. guesses' + Deciding' + Waiting' <= MFABudget'
      BY <1>1, <1>3, <1>4, <1>5, <2>2, <3>1
    <3> QED
      BY <1>1, <1>8, <3>2 DEF MFAInv, Closed
  <2> QED
    BY <1>8, <2>1, <2>2 DEF MFAInv, Closed
<1> QED
  BY <1>7, <1>8 DEF F!Types, MFAInv

LEMMA Shift ==
    ASSUME NEW x \in Int, NEW y \in Int, NEW c \in Int, NEW k \in Int, NEW m \in Int,
           y + k <= x + m, x + c <= k
    PROVE  y + c <= m
  OBVIOUS

LEMMA ShiftClosed ==
    ASSUME NEW x \in Int, NEW y \in Int, NEW k \in Int, NEW m \in Int,
           y + k <= x + m, x <= k + 1, x <= k \/ y + k + 1 <= x + m
    PROVE  y <= m
  OBVIOUS

(* A step in which the token stays and nothing more may be tried.            *)
LEMMA MFAQuiet ==
    ASSUME MFAInv, F!Types', token' = token,
           Deciding' \in Nat, Waiting' \in Nat, Left' \in Nat, Reopened' \in Nat,
           guesses' + Deciding' + Left' + Reopened' + MFABudget
              <= guesses + Deciding + Left + Reopened + MFABudget',
           guesses' + Deciding' + Waiting' + MFABudget
              <= guesses + Deciding + Waiting + MFABudget',
           \/ token
           \/ guesses + Deciding + Waiting <= MFABudget
           \/ guesses' + Deciding' + Waiting' + MFABudget + 1
                 <= guesses + Deciding + Waiting + MFABudget'
    PROVE  MFAInv'
<1>1. /\ Crowd \in Nat /\ guesses \in Nat /\ guesses' \in Nat /\ MFABudget \in Nat
      /\ MFABudget' \in Nat
      /\ Deciding \in Nat /\ Waiting \in Nat /\ Reopened \in Nat /\ Left \in Nat
  <2>1. MFABudget' \in Nat /\ guesses' \in Nat
    <3>1. Round \in Nat /\ failed'.tokens \in Nat /\ failed'.counts \in Nat
      BY MFANumbers, MFAAssumption DEF MFAInv, F!Types
    <3> QED
      BY <3>1 DEF MFABudget, Round, F!Types
  <2> QED
    BY <2>1, MFANumbers DEF MFAInv
<1>2. CASE token
  <2>1. guesses + Deciding + Left + Reopened + Crowd <= MFABudget
    BY <1>2 DEF MFAInv, Open
  <2>2. /\ guesses + Deciding + Left + Reopened \in Int
        /\ guesses' + Deciding' + Left' + Reopened' \in Int
    BY <1>1
  <2>3. MFABudget \in Int /\ MFABudget' \in Int /\ Crowd \in Int
    BY <1>1
  <2>4. guesses' + Deciding' + Left' + Reopened' + Crowd <= MFABudget'
    BY <2>1, <2>2, <2>3, Shift, Zenon
  <2> QED
    BY <1>2, <2>4 DEF MFAInv, Open, Crowd
<1>3. CASE ~token
  <2>1. guesses + Deciding + Waiting <= MFABudget + 1
    <3>1. CASE guesses + Deciding + Waiting <= MFABudget
      BY <1>1, <3>1
    <3>2. CASE /\ \A q \in DOMAIN tries : tries[q].at = "incr"
               /\ guesses + Waiting <= MFABudget + 1
      BY <1>1, <3>2, AllWait
    <3> QED
      BY <1>3, <3>1, <3>2 DEF MFAInv, Closed
  <2>2. /\ guesses + Deciding + Waiting \in Int
        /\ guesses' + Deciding' + Waiting' \in Int
    BY <1>1
  <2>3. MFABudget \in Int /\ MFABudget' \in Int
    BY <1>1
  <2>4. guesses' + Deciding' + Waiting' <= MFABudget'
    BY <1>3, <2>1, <2>2, <2>3, ShiftClosed, Zenon
  <2> QED
    BY <1>3, <2>4 DEF MFAInv, Closed
<1> QED
  BY <1>2, <1>3

LEMMA IncrFailsKeeps ==
    ASSUME MFAInv, F!Types', NEW r \in MFARequests, F!IncrFails(r)
    PROVE  MFAInv'
<1>1. /\ r \in DOMAIN tries /\ tries[r].at = "incr" /\ F!Goes(r, "read")
      /\ failed' = [failed EXCEPT !.counts = @ + 1]
      /\ token' = token /\ guesses' = guesses /\ counter' = counter
  BY DEF F!IncrFails, F!At
<1>2. Others(r) /\ Where(r) = "incr" /\ Where(r)' = "read"
  BY <1>1, GoesTo DEF MFAInv
<1>3. Deciding' = Deciding + 1 /\ Waiting' = Waiting - 1 /\ Reopened' = Reopened
  BY <1>2, Accounts, MFANumbers DEF MFAInv, Others
<1>4. MFABudget' = MFABudget + 1 /\ Left' = Left
  BY <1>1, Losses DEF MFAInv, Left
<1>5. /\ Deciding \in Nat /\ Waiting \in Nat /\ Reopened \in Nat /\ Left \in Nat
      /\ guesses \in Nat /\ MFABudget \in Nat
  BY MFANumbers DEF MFAInv
<1>6. Waiting' \in Nat
  BY <1>2, Recount DEF Waiting, MFAInv, Others
<1> QED
  BY <1>1, <1>3, <1>4, <1>5, <1>6, MFAQuiet

(* A request that nothing is left to count of ends, guesses, or goes on.     *)
LEMMA OnwardKeeps ==
    ASSUME MFAInv, F!Types', NEW r \in DOMAIN tries, NEW from, from = tries[r].at,
           \/ F!Ends(r)
           \/ /\ from \in {"read", "verify"}
              /\ \E place \in {"verify", "spend", "mark"} :
                    /\ Others(r) /\ Where(r)' = place
                    /\ place = "verify" => guesses' = guesses
           \/ from = "mark" /\ F!Goes(r, "spend"),
           guesses' = guesses \/ (guesses' = guesses + 1 /\ from = "verify"),
           token' = token, failed' = failed, counter' = counter
    PROVE  MFAInv'
<1>1. PICK to : /\ Others(r) /\ Where(r)' = to /\ Where(r) = from /\ r \in MFARequests
                /\ \/ to = "out"
                   \/ from \in {"read", "verify"} /\ to \in {"verify", "spend", "mark"}
                   \/ from = "mark" /\ to = "spend"
                /\ to = "verify" => guesses' = guesses
  BY EndsAt, GoesTo DEF MFAInv, Where, F!Types
<1>2. /\ Deciding' = Deciding + (IF to \in {"read", "verify"} THEN 1 ELSE 0)
                              - (IF from \in {"read", "verify"} THEN 1 ELSE 0)
      /\ Waiting' = Waiting + (IF to = "incr" THEN 1 ELSE 0)
                            - (IF from = "incr" THEN 1 ELSE 0)
      /\ Reopened' = Reopened + (IF to \in {"forget", "clear"} THEN MFAMaxAttempts ELSE 0)
                              - (IF from \in {"forget", "clear"} THEN MFAMaxAttempts ELSE 0)
  BY <1>1, Accounts DEF MFAInv, Others
<1>3. MFABudget' = MFABudget /\ Left' = Left
  BY Losses DEF MFAInv, Left
<1>4. /\ Deciding \in Nat /\ Waiting \in Nat /\ Reopened \in Nat /\ Left \in Nat
      /\ guesses \in Nat /\ MFABudget \in Nat /\ MFAMaxAttempts \in Nat
  BY MFANumbers DEF MFAInv
<1>5. Deciding' \in Nat /\ Waiting' \in Nat /\ Reopened' \in Nat
  <2>1. /\ CountAt({"read", "verify"})' \in Nat /\ CountAt({"incr"})' \in Nat
        /\ CountAt({"forget", "clear"})' \in Nat
    BY <1>1, Recount DEF MFAInv, Others
  <2> QED
    BY <1>4, <2>1 DEF Deciding, Waiting, Reopened
<1>6. guesses' + Deciding' <= guesses + Deciding
  BY <1>1, <1>2, <1>4
<1>7. Reopened' <= Reopened /\ Waiting' <= Waiting /\ (from = "incr" => Waiting' = Waiting - 1)
  BY <1>1, <1>2, <1>4
<1>8. guesses' \in Nat
  BY <1>4
<1>c. guesses' + Deciding' \in Int /\ guesses + Deciding \in Int
  BY <1>4, <1>5, <1>8
<1>d. /\ Reopened' \in Int /\ Reopened \in Int /\ Waiting' \in Int /\ Waiting \in Int
      /\ MFABudget \in Int /\ Left \in Int
  BY <1>4, <1>5
<1> PICK x, y, u, v, w, z, k, l :
       /\ x = guesses' + Deciding' /\ y = guesses + Deciding
       /\ u = Reopened' /\ v = Reopened /\ w = Waiting' /\ z = Waiting
       /\ k = MFABudget /\ l = Left
  OBVIOUS
<1>a. /\ x \in Int /\ y \in Int /\ u \in Int /\ v \in Int /\ w \in Int /\ z \in Int
      /\ k \in Int /\ l \in Int /\ x <= y /\ u <= v /\ w <= z
  BY <1>6, <1>7, <1>c, <1>d, Zenon
<1>b. x + l + u + k <= y + l + v + k /\ x + w + k <= y + z + k
  BY <1>a
<1>9. guesses' + Deciding' + Left' + Reopened' + MFABudget
         <= guesses + Deciding + Left + Reopened + MFABudget'
  BY <1>3, <1>b
<1>10. guesses' + Deciding' + Waiting' + MFABudget <= guesses + Deciding + Waiting + MFABudget'
  BY <1>3, <1>b
<1>11. \/ token
       \/ guesses + Deciding + Waiting <= MFABudget
       \/ guesses' + Deciding' + Waiting' + MFABudget + 1 <= guesses + Deciding + Waiting + MFABudget'
  <2>1. CASE from = "incr"
    <3>1. Waiting' = Waiting - 1
      BY <1>7, <2>1
    <3> QED
      BY <1>3, <1>4, <1>5, <1>6, <1>8, <3>1
  <2>2. CASE from # "incr" /\ ~token
    BY <2>2, SomebodyDoesNot DEF MFAInv
  <2> QED
    BY <2>1, <2>2
<1>12. Left' \in Nat
  BY <1>3, <1>4
<1> QED
  BY <1>5, <1>9, <1>10, <1>11, <1>12, MFAQuiet

(* The token is deleted by a request that no longer waits to be counted.     *)
LEMMA Shut ==
    ASSUME MFAInv, F!Types', NEW r \in DOMAIN tries, r \in MFARequests, tries[r].at # "incr",
           token' = FALSE, failed' = failed, guesses' = guesses,
           Deciding' \in Nat, Deciding' <= Deciding, Waiting' = Waiting
    PROVE  MFAInv'
<1>1. /\ Deciding \in Nat /\ Waiting \in Nat /\ Reopened \in Nat /\ Left \in Nat
      /\ guesses \in Nat /\ MFABudget \in Nat /\ Crowd \in Nat /\ Waiting <= Crowd
  BY MFANumbers DEF MFAInv
<1>2. guesses + Deciding + Waiting <= MFABudget
  <2>1. CASE token
    <3>1. guesses + Deciding + Left + Reopened + Crowd <= MFABudget
      BY <2>1 DEF MFAInv, Open
    <3> QED
      BY <1>1, <3>1
  <2>2. CASE ~token
    BY <2>2, SomebodyDoesNot DEF MFAInv
  <2> QED
    BY <2>1, <2>2
<1>3. MFABudget' = MFABudget
  BY Losses DEF MFAInv
<1>4. guesses' + Deciding' + Waiting' <= MFABudget'
  BY <1>1, <1>2, <1>3
<1> QED
  BY <1>4 DEF MFAInv, Closed

(* A deletion that is lost pays for the round of tries it lets begin.        *)
LEMMA Lost ==
    ASSUME MFAInv, F!Types', NEW r \in DOMAIN tries, tries[r].at # "incr",
           token' = token, failed' = [failed EXCEPT !.tokens = @ + 1],
           guesses' = guesses, counter' = counter,
           Deciding' \in Nat, Deciding' <= Deciding, Waiting' = Waiting,
           Reopened' \in {Reopened, Reopened + MFAMaxAttempts}
    PROVE  MFAInv'
<1>1. /\ Deciding \in Nat /\ Waiting \in Nat /\ Reopened \in Nat /\ Left \in Nat
      /\ guesses \in Nat /\ MFABudget \in Nat /\ Crowd \in Nat /\ MFAMaxAttempts \in Nat
      /\ Round \in Nat /\ Round = MFAMaxAttempts + Crowd
  BY MFANumbers DEF MFAInv
<1>2. MFABudget' = MFABudget + Round /\ Left' = Left
  BY Losses DEF MFAInv, Left
<1> PICK g, d, e, w, p, q, l, k, n :
       /\ g = guesses /\ d = Deciding' /\ e = Deciding /\ w = Waiting
       /\ p = Reopened' /\ q = Reopened /\ l = Left /\ k = MFABudget /\ n = Round
  OBVIOUS
<1>3. /\ g \in Nat /\ d \in Nat /\ e \in Nat /\ w \in Nat /\ p \in Nat /\ q \in Nat
      /\ l \in Nat /\ k \in Nat /\ n \in Nat /\ d <= e /\ p <= q + n
  BY <1>1
<1>4. g + d + l + p + k <= g + e + l + q + (k + n) /\ g + d + w + k <= g + e + w + (k + n)
  BY <1>3
<1>5. guesses' + Deciding' + Left' + Reopened' + MFABudget
         <= guesses + Deciding + Left + Reopened + MFABudget'
  BY <1>2, <1>4
<1>6. guesses' + Deciding' + Waiting' + MFABudget <= guesses + Deciding + Waiting + MFABudget'
  BY <1>2, <1>4
<1>7. token \/ guesses + Deciding + Waiting <= MFABudget
  BY SomebodyDoesNot DEF MFAInv
<1>8. Waiting' \in Nat /\ Left' \in Nat /\ Reopened' \in Nat
  BY <1>1, <1>2
<1> QED
  BY <1>5, <1>6, <1>7, <1>8, MFAQuiet

LEMMA DelTokenKeeps ==
    ASSUME MFAInv, F!Types', NEW r \in MFARequests, F!DelToken(r)
    PROVE  MFAInv'
<1>1. PICK from, to : /\ r \in DOMAIN tries /\ tries[r].at = from /\ F!Goes(r, to)
                      /\ from \in {"revoke", "spend"} /\ to \in {"forget", "clear"}
                      /\ guesses' = guesses /\ counter' = counter
                      /\ \/ token' = FALSE /\ failed' = failed
                         \/ token' = token /\ failed' = [failed EXCEPT !.tokens = @ + 1]
  BY DEF F!DelToken, F!Deleting, F!At
<1>2. Others(r) /\ Where(r) = from /\ Where(r)' = to
  BY <1>1, GoesTo DEF MFAInv
<1>3. Deciding' = Deciding /\ Waiting' = Waiting /\ Reopened' = Reopened + MFAMaxAttempts
  BY <1>1, <1>2, Accounts, MFANumbers DEF MFAInv, Others
<1>4. tries[r].at # "incr" /\ Deciding \in Nat
  BY <1>1, MFANumbers DEF MFAInv
<1>5. CASE token' = FALSE /\ failed' = failed
  <2>1. Deciding' \in Nat /\ Deciding' <= Deciding
    BY <1>3, <1>4
  <2> QED
    BY <1>1, <1>3, <1>4, <1>5, <2>1, Shut
<1>6. CASE token' = token /\ failed' = [failed EXCEPT !.tokens = @ + 1]
  BY <1>1, <1>3, <1>4, <1>6, Lost
<1> QED
  BY <1>1, <1>5, <1>6

LEMMA RefuseKeeps ==
    ASSUME MFAInv, F!Types', NEW r \in MFARequests, F!Refuse(r)
    PROVE  MFAInv'
<1>1. /\ r \in DOMAIN tries /\ tries[r].at = "read" /\ F!Ends(r)
      /\ guesses' = guesses /\ counter' = counter
      /\ \/ token' = FALSE /\ failed' = failed
         \/ token' = token /\ failed' = [failed EXCEPT !.tokens = @ + 1]
  BY DEF F!Refuse, F!At
<1>2. Others(r) /\ Where(r) = "read" /\ Where(r)' = "out"
  BY <1>1, EndsAt DEF MFAInv
<1>3. Deciding' = Deciding - 1 /\ Waiting' = Waiting /\ Reopened' = Reopened
  BY <1>2, Accounts, MFANumbers DEF MFAInv, Others
<1>4. Deciding' \in Nat /\ Deciding \in Nat
  BY <1>2, Recount DEF Deciding, MFAInv, Others
<1>5. Deciding' <= Deciding
  BY <1>3, <1>4
<1>6. CASE token' = FALSE /\ failed' = failed
  BY <1>1, <1>3, <1>4, <1>5, <1>6, Shut
<1>7. CASE token' = token /\ failed' = [failed EXCEPT !.tokens = @ + 1]
  BY <1>1, <1>3, <1>4, <1>5, <1>7, Lost
<1> QED
  BY <1>1, <1>6, <1>7

(* The counter is forgotten: what it had left begins anew.                   *)
LEMMA DelCounterKeeps ==
    ASSUME MFAInv, F!Types', NEW r \in MFARequests, F!DelCounter(r)
    PROVE  MFAInv'
<1>1. PICK from : /\ r \in DOMAIN tries /\ tries[r].at = from /\ F!Ends(r)
                  /\ from \in {"forget", "clear"}
                  /\ guesses' = guesses /\ counter' = 0 /\ token' = token /\ failed' = failed
  BY DEF F!DelCounter, F!At
<1>2. Others(r) /\ Where(r) = from /\ Where(r)' = "out"
  BY <1>1, EndsAt DEF MFAInv
<1>3. Deciding' = Deciding /\ Waiting' = Waiting /\ Reopened' = Reopened - MFAMaxAttempts
  BY <1>1, <1>2, Accounts, MFANumbers DEF MFAInv, Others
<1>4. /\ Deciding \in Nat /\ Waiting \in Nat /\ Reopened \in Nat /\ Left \in Nat
      /\ guesses \in Nat /\ MFABudget \in Nat /\ MFAMaxAttempts \in Nat
  BY MFANumbers DEF MFAInv
<1>5. Reopened' \in Nat
  <2>1. CountAt({"forget", "clear"})' \in Nat
    BY <1>2, Recount DEF MFAInv, Others
  <2> QED
    BY <1>4, <2>1 DEF Reopened
<1>6. Left' = MFAMaxAttempts /\ MFABudget' = MFABudget
  <2>1. Left' = MFAMaxAttempts
    BY <1>1, <1>4 DEF Left
  <2> QED
    BY <1>1, <2>1, Losses DEF MFAInv
<1>7. Left' + Reopened' <= Left + Reopened
  BY <1>3, <1>4, <1>6
<1>8. guesses' + Deciding' + Left' + Reopened' + MFABudget
         <= guesses + Deciding + Left + Reopened + MFABudget'
  BY <1>1, <1>3, <1>4, <1>5, <1>6, <1>7
<1>9. guesses' + Deciding' + Waiting' + MFABudget <= guesses + Deciding + Waiting + MFABudget'
  BY <1>1, <1>3, <1>4, <1>6
<1>10. token \/ guesses + Deciding + Waiting <= MFABudget
  BY <1>1, SomebodyDoesNot DEF MFAInv
<1>11. Deciding' \in Nat /\ Waiting' \in Nat /\ Left' \in Nat
  BY <1>3, <1>4, <1>6
<1> QED
  BY <1>1, <1>5, <1>8, <1>9, <1>10, <1>11, MFAQuiet

(* The token expires: all may be waiting, and one then finds no tries left.  *)
LEMMA TokenExpiresKeeps ==
    ASSUME MFAInv, F!Types', F!TokenExpires
    PROVE  MFAInv'
<1>1. /\ token /\ token' = FALSE
      /\ UNCHANGED <<counter, tries, guesses, failed>>
  BY DEF F!TokenExpires
<1>2. /\ Deciding \in Nat /\ Waiting \in Nat /\ Reopened \in Nat /\ Left \in Nat
      /\ guesses \in Nat /\ MFABudget \in Nat /\ Crowd \in Nat /\ Waiting <= Crowd + 1
      /\ MFAMaxAttempts \in Nat /\ counter \in Nat
  BY MFANumbers DEF MFAInv
<1>3. guesses + Deciding + Left + Reopened + Crowd <= MFABudget
  BY <1>1 DEF MFAInv, Open
<1>4. Closed
  <2>1. CASE Waiting <= Crowd
    <3>1. guesses + Deciding + Waiting <= MFABudget
      BY <1>2, <1>3, <2>1
    <3> QED
      BY <3>1 DEF Closed
  <2>2. CASE ~(Waiting <= Crowd)
    <3>1. Waiting = Crowd + 1
      BY <1>2, <2>2
    <3>2. \A r \in DOMAIN tries : tries[r].at = "incr"
      BY <2>2, MFANumbers DEF MFAInv, F!Types
    <3>3. DOMAIN tries # {}
      BY <2>2, MFANumbers, MFAAssumption DEF MFAInv
    <3>4. CASE counter >= MFAMaxAttempts
      <4>1. guesses + Waiting <= MFABudget + 1
        BY <1>2, <1>3, <3>1
      <4> QED
        BY <3>2, <3>3, <3>4, <4>1 DEF Closed
    <3>5. CASE ~(counter >= MFAMaxAttempts)
      <4>1. Left >= 1
        BY <1>2, <3>5 DEF Left
      <4>2. guesses + Deciding + Waiting <= MFABudget
        BY <1>2, <1>3, <3>1, <4>1
      <4> QED
        BY <4>2 DEF Closed
    <3> QED
      BY <3>4, <3>5
  <2> QED
    BY <2>1, <2>2
<1>5. Closed'
  BY <1>1, <1>4 DEF Closed, Deciding, Waiting, CountAt, MFABudget, Round
<1> QED
  BY <1>1, <1>5 DEF MFAInv

LEMMA MFAInit ==
    ASSUME F!Init
    PROVE  MFAInv
<1>1. /\ token = TRUE /\ counter = 0 /\ guesses = 0 /\ DOMAIN tries = {}
      /\ failed.counts = 0 /\ failed.tokens = 0
  BY DEF F!Init
<1>2. F!Types
  BY MFAAssumption DEF F!Init, F!Types
<1>3. Deciding = 0 /\ Reopened = 0
  <2>1. \A S : {r \in DOMAIN tries : tries[r].at \in S} = {}
    BY <1>1
  <2>2. \A S : CountAt(S) = 0
    BY <2>1, FS_EmptySet DEF CountAt
  <2> QED
    BY <2>2, MFAAssumption DEF Deciding, Reopened
<1>4. /\ MFAMaxAttempts \in Nat /\ Crowd \in Nat /\ Round \in Nat
      /\ Round = MFAMaxAttempts + Crowd
  BY <1>2, MFANumbers
<1>5. MFABudget = Round /\ Left = MFAMaxAttempts
  BY <1>1, <1>4 DEF MFABudget, Left
<1>6. Open
  BY <1>1, <1>3, <1>4, <1>5 DEF Open
<1> QED
  BY <1>1, <1>2, <1>6 DEF MFAInv

LEMMA MFAStep ==
    ASSUME MFAInv, [F!Next]_(F!vars)
    PROVE  MFAInv'
<1>1. F!Types'
  BY MFATypes DEF MFAInv
<1>2. ASSUME NEW r \in MFARequests,
             F!ReadUser(r) \/ F!RightCode(r) \/ F!MarkRecovery(r) \/ F!WrongCode(r) \/ F!Fails(r)
      PROVE  MFAInv'
  <2>1. CASE F!ReadUser(r) \/ F!RightCode(r)
    <3>1. PICK from, to :
             /\ r \in DOMAIN tries /\ tries[r].at = from /\ F!Goes(r, to)
             /\ from \in {"read", "verify"} /\ to \in {"verify", "spend"}
             /\ to = "verify" => guesses' = guesses
             /\ guesses' = guesses \/ (guesses' = guesses + 1 /\ from = "verify")
             /\ token' = token /\ failed' = failed /\ counter' = counter
      BY <2>1 DEF F!ReadUser, F!RightCode, F!At
    <3>2. Others(r) /\ Where(r)' = to
      BY <3>1, GoesTo DEF MFAInv
    <3> QED
      BY <1>1, <3>1, <3>2, OnwardKeeps
  <2>2. CASE F!MarkRecovery(r)
    BY <1>1, <2>2, OnwardKeeps DEF F!MarkRecovery, F!At
  <2>3. CASE F!WrongCode(r)
    BY <1>1, <2>3, OnwardKeeps DEF F!WrongCode, F!At
  <2>4. CASE F!Fails(r)
    BY <1>1, <2>4, OnwardKeeps DEF F!Fails
  <2> QED
    BY <1>2, <2>1, <2>2, <2>3, <2>4
<1>3. ASSUME NEW r \in MFARequests, NEW c \in Codes, F!PickRecovery(r, c) PROVE MFAInv'
  <2>1. /\ r \in DOMAIN tries /\ tries[r].at = "verify"
        /\ guesses' = guesses + 1
        /\ token' = token /\ failed' = failed /\ counter' = counter
        /\ tries' = [tries EXCEPT ![r].at = "mark", ![r].code = c]
    BY <1>3 DEF F!PickRecovery, F!At
  <2>2. Others(r) /\ Where(r)' = "mark"
    BY <2>1 DEF Others, Where, MFAInv, F!Types
  <2> QED
    BY <1>1, <2>1, <2>2, OnwardKeeps
<1>4. ASSUME UNCHANGED <<token, tries, guesses, failed>>,
             counter' = counter \/ (DOMAIN tries = {} /\ ~token)
      PROVE  MFAInv'
  BY <1>1, <1>4 DEF MFAInv, Open, Closed, Deciding, Waiting, Reopened, Left, CountAt,
     MFABudget, Round, Crowd
<1>5. CASE F!CounterExpires \/ F!Demote \/ UNCHANGED F!vars
  BY <1>4, <1>5 DEF F!CounterExpires, F!Outlived, F!Demote, F!vars
<1> QED
  BY <1>1, <1>2, <1>3, <1>5, GetTokenKeeps, IncrKeeps, IncrFailsKeeps, DelTokenKeeps,
     DelCounterKeeps, RefuseKeeps, TokenExpiresKeeps
  DEF F!Next

(* The strengthened invariant, at every moment.                              *)
THEOREM MFAInvariant == F!Spec => []MFAInv
<1>1. F!Init => MFAInv
  BY MFAInit
<1>2. MFAInv /\ [F!Next]_(F!vars) => MFAInv'
  BY MFAStep
<1> QED
  BY <1>1, <1>2, PTL DEF F!Spec

(* However many requests share a token, and whatever Redis loses, the codes  *)
(* tried with it are bounded by the limit, the requests at once and what was *)
(* lost (onboarding_mfa.go, SuperadminMFA).                                  *)
THEOREM GuessesAreBounded == F!Spec => []GuessesBounded
<1>1. MFAInv => GuessesBounded
  <2>a. F!Cardinality(MFARequests) = Cardinality(MFARequests)
    BY DEF F!Cardinality, Cardinality
  <2> SUFFICES ASSUME MFAInv PROVE GuessesBounded
    OBVIOUS
  <2>1. /\ Deciding \in Nat /\ Waiting \in Nat /\ Reopened \in Nat /\ Left \in Nat
        /\ guesses \in Nat /\ MFABudget \in Nat /\ Crowd \in Nat
    BY MFANumbers DEF MFAInv
  <2>2. CASE token
    <3>1. guesses + Deciding + Left + Reopened + Crowd <= MFABudget
      BY <2>2 DEF MFAInv, Open
    <3>2. guesses <= MFABudget
      BY <2>1, <3>1
    <3> QED
      BY <2>a, <3>2 DEF GuessesBounded, F!GuessesBounded, MFABudget, Round
  <2>3. CASE ~token
    <3>1. CASE guesses + Deciding + Waiting <= MFABudget
      <4>1. guesses <= MFABudget
        BY <2>1, <3>1
      <4> QED
        BY <2>a, <4>1 DEF GuessesBounded, F!GuessesBounded, MFABudget, Round
    <3>2. CASE /\ DOMAIN tries # {} /\ \A r \in DOMAIN tries : tries[r].at = "incr"
               /\ guesses + Waiting <= MFABudget + 1
      <4>1. Waiting # 0
        <5>1. IsFiniteSet({r \in DOMAIN tries : tries[r].at \in {"incr"}})
          BY FS_Subset, MFAAssumption DEF MFAInv, F!Types
        <5>2. {r \in DOMAIN tries : tries[r].at \in {"incr"}} # {}
          BY <3>2
        <5> QED
          BY <5>1, <5>2, FS_EmptySet DEF Waiting, CountAt
      <4>2. guesses <= MFABudget
        BY <2>1, <3>2, <4>1
      <4> QED
        BY <2>a, <4>2 DEF GuessesBounded, F!GuessesBounded, MFABudget, Round
    <3> QED
      BY <2>3, <3>1, <3>2 DEF MFAInv, Closed
  <2> QED
    BY <2>2, <2>3
<1> QED
  BY <1>1, MFAInvariant, PTL

-----------------------------------------------------------------------------
(* That a permission which was taken away lapses, on any number of replicas. *)
(* The argument: an answer is kept until the time to live after it was kept, *)
(* it was read no longer than Hold before that, and what was read was true   *)
(* then, so the history of the permission bounds when the answer expires.    *)
(* Deletion and assignment meet in the rows of users, under the foreign key. *)

(* The roles of the system are never without their row, nobody has a role    *)
(* without one, and what a role has now it has, by the history, now.         *)
RowsTrue ==
    /\ System \subseteq DOMAIN perms /\ held \subseteq DOMAIN perms
    /\ last = [p \in DOMAIN last |-> last[p]]
    /\ \A p \in DOMAIN last : last[p] \in Nat /\ last[p] <= clock
    /\ \A r \in DOMAIN perms : \A k \in R!Granted(r) :
          <<r, k>> \in DOMAIN last /\ last[<<r, k>>] = clock

(* A look-up with its answer in hand has not had it for long.                *)
LookupsFresh ==
    \A q \in DOMAIN resolving : resolving[q].at = "fill" =>
       /\ resolving[q].read <= clock /\ clock <= resolving[q].read + Hold
       /\ \A k \in resolving[q].keys : /\ <<resolving[q].role, k>> \in DOMAIN last
                                       /\ resolving[q].read <= last[<<resolving[q].role, k>>]

(* An answer that is kept expires soon after the role last had what it says. *)
AnswersExpire ==
    \A n \in Nodes : \A r \in DOMAIN cache[n] : \A k \in cache[n][r].keys :
       /\ <<r, k>> \in DOMAIN last
       /\ cache[n][r].exp <= last[<<r, k>>] + Hold + CacheTTL

ListsGiven == \A c \in DOMAIN changing : changing[c].at = "set" => changing[c].keys # None

RolesInv == R!Types /\ RowsTrue /\ LookupsFresh /\ AnswersExpire /\ ListsGiven

(* Whatever is written of a role, what the history said stays said.          *)
Remembered ==
    /\ DOMAIN last \subseteq DOMAIN last' /\ last' = [p \in DOMAIN last' |-> last'[p]]
    /\ \A p \in DOMAIN last' : last'[p] \in Nat /\ last'[p] <= clock'
    /\ \A p \in DOMAIN last : last[p] <= last'[p]

LEMMA HistoryStays ==
    ASSUME RolesInv, UNCHANGED <<last, clock>>
    PROVE  Remembered
  BY DEF Remembered, RolesInv, RowsTrue

(* Answers only grow old.                                                    *)
LEMMA AnswersOld ==
    ASSUME RolesInv, R!Types', Remembered,
           \A n \in Nodes : \A r \in DOMAIN cache'[n] :
              r \in DOMAIN cache[n] /\ cache'[n][r] = cache[n][r]
    PROVE  AnswersExpire'
<1> SUFFICES ASSUME NEW n \in Nodes, NEW r \in DOMAIN cache'[n], NEW k \in cache'[n][r].keys
             PROVE  /\ <<r, k>> \in DOMAIN last'
                    /\ cache'[n][r].exp <= last'[<<r, k>>] + Hold + CacheTTL
  BY DEF AnswersExpire
<1>1. /\ r \in DOMAIN cache[n] /\ cache'[n][r] = cache[n][r]
      /\ <<r, k>> \in DOMAIN last /\ cache[n][r].exp <= last[<<r, k>>] + Hold + CacheTTL
  BY DEF RolesInv, AnswersExpire
<1>2. /\ last[<<r, k>>] \in Nat /\ last'[<<r, k>>] \in Nat /\ last[<<r, k>>] <= last'[<<r, k>>]
      /\ <<r, k>> \in DOMAIN last'
  BY <1>1 DEF Remembered, RolesInv, RowsTrue
<1>3. cache[n][r].exp \in Nat
  BY <1>1 DEF RolesInv, R!Types, R!Entry
<1>4. Hold \in Nat /\ CacheTTL \in Nat
  BY RolesAssumption
<1> QED
  BY <1>1, <1>2, <1>3, <1>4

(* Look-ups that go on as they were, while the clock stands.                 *)
LEMMA LookupsStay ==
    ASSUME RolesInv, R!Types', Remembered, clock' = clock,
           \A q \in DOMAIN resolving' : resolving'[q].at = "fill" =>
              q \in DOMAIN resolving /\ resolving'[q] = resolving[q]
    PROVE  LookupsFresh'
<1> SUFFICES ASSUME NEW q \in DOMAIN resolving', resolving'[q].at = "fill"
             PROVE  /\ resolving'[q].read <= clock /\ clock <= resolving'[q].read + Hold
                    /\ \A k \in resolving'[q].keys :
                         /\ <<resolving'[q].role, k>> \in DOMAIN last'
                         /\ resolving'[q].read <= last'[<<resolving'[q].role, k>>]
  BY DEF LookupsFresh
<1>1. q \in DOMAIN resolving /\ resolving'[q] = resolving[q] /\ resolving[q].at = "fill"
  OBVIOUS
<1>2. /\ resolving[q].read <= clock /\ clock <= resolving[q].read + Hold
      /\ \A k \in resolving[q].keys : /\ <<resolving[q].role, k>> \in DOMAIN last
                                      /\ resolving[q].read <= last[<<resolving[q].role, k>>]
  BY <1>1 DEF RolesInv, LookupsFresh
<1>3. resolving[q].read \in Nat
  BY <1>1 DEF RolesInv, R!Types, R!Resolve
<1>4. ASSUME NEW k \in resolving'[q].keys
      PROVE  /\ <<resolving'[q].role, k>> \in DOMAIN last'
             /\ resolving'[q].read <= last'[<<resolving'[q].role, k>>]
  <2> DEFINE p == <<resolving[q].role, k>>
  <2>1. p \in DOMAIN last /\ resolving[q].read <= last[p]
    BY <1>1, <1>2
  <2>2. last[p] \in Nat /\ last'[p] \in Nat /\ last[p] <= last'[p] /\ p \in DOMAIN last'
    BY <2>1 DEF Remembered, RolesInv, RowsTrue
  <2>3. resolving[q].read <= last'[p]
    BY <1>3, <2>1, <2>2
  <2> QED
    BY <1>1, <2>2, <2>3
<1> QED
  BY <1>1, <1>2, <1>4

(* The steps of the look-ups leave the rows alone.                           *)
LEMMA LookupKeeps ==
    ASSUME RolesInv, NEW q \in Resolves,
           \/ \E n \in Nodes, r \in Roles : R!Miss(q, n, r)
           \/ R!GetRole(q) \/ R!GetRolePermissions(q) \/ R!Fill(q)
    PROVE  RolesInv'
<1>1. /\ UNCHANGED <<clock, perms, gone, last, held, referenced, changing>>
  BY DEF R!Miss, R!GetRole, R!GetRolePermissions, R!Fill, R!rows, R!userRows
<1>2. RowsTrue' /\ ListsGiven' /\ Remembered
  BY <1>1, HistoryStays DEF RolesInv, RowsTrue, ListsGiven, R!Granted
<1>3. ASSUME NEW n \in Nodes, NEW r \in Roles, R!Miss(q, n, r) PROVE RolesInv'
  <2>1. /\ DOMAIN resolving' = DOMAIN resolving \cup {q} /\ cache' = cache
        /\ \A x \in DOMAIN resolving : x # q => resolving'[x] = resolving[x]
        /\ resolving'[q] = [replica |-> n, role |-> r, at |-> "role", keys |-> {}, read |-> clock]
    BY <1>3 DEF R!Miss, R!Put
  <2>2. resolving'[q] \in R!Resolve
    BY <2>1 DEF RolesInv, R!Types, R!Resolve
  <2>3. R!Types'
    BY <1>1, <2>1, <2>2 DEF RolesInv, R!Types, R!Entry
  <2>4. LookupsFresh'
    BY <1>1, <1>2, <2>1, <2>3, LookupsStay
  <2> QED
    BY <1>2, <2>1, <2>3, <2>4, AnswersOld DEF RolesInv
<1>4. CASE R!GetRole(q)
  <2>1. /\ DOMAIN resolving' = DOMAIN resolving /\ q \in DOMAIN resolving /\ cache' = cache
        /\ \A x \in DOMAIN resolving : x # q => resolving'[x] = resolving[x]
        /\ resolving'[q] = [resolving[q] EXCEPT !.at = "keys"]
    BY <1>4 DEF R!GetRole, RolesInv, R!Types
  <2>2. resolving'[q] \in R!Resolve /\ resolving'[q].at = "keys"
    BY <2>1 DEF RolesInv, R!Types, R!Resolve
  <2>3. R!Types'
    BY <1>1, <2>1, <2>2 DEF RolesInv, R!Types, R!Entry
  <2>4. LookupsFresh'
    BY <1>1, <1>2, <2>1, <2>2, <2>3, LookupsStay
  <2> QED
    BY <1>2, <2>1, <2>3, <2>4, AnswersOld DEF RolesInv
<1>5. CASE R!GetRolePermissions(q)
  <2>1. /\ DOMAIN resolving' = DOMAIN resolving /\ q \in DOMAIN resolving /\ cache' = cache
        /\ \A x \in DOMAIN resolving : x # q => resolving'[x] = resolving[x]
        /\ resolving'[q] = [resolving[q] EXCEPT !.at = "fill", !.read = clock,
                                                !.keys = R!Granted(resolving[q].role)]
    BY <1>5 DEF R!GetRolePermissions, RolesInv, R!Types
  <2>a. PICK old \in R!Resolve : old = resolving[q]
    BY <2>1 DEF RolesInv, R!Types
  <2>b. PICK new : new = resolving'[q]
    OBVIOUS
  <2>2. /\ new.replica = old.replica /\ new.role = old.role /\ new.at = "fill"
        /\ new.read = clock /\ new.keys = R!Granted(old.role)
        /\ new = [replica |-> old.replica, role |-> old.role, at |-> "fill",
                  keys |-> R!Granted(old.role), read |-> clock]
    BY <2>1, <2>a, <2>b DEF R!Resolve
  <2>3. R!Granted(old.role) \subseteq Perms /\ clock \in Nat /\ old.replica \in Nodes /\ old.role \in Roles
    BY <2>a DEF R!Granted, RolesInv, R!Types, R!Resolve
  <2>4. new \in R!Resolve
    BY <2>2, <2>3 DEF R!Resolve
  <2>5. R!Types'
    BY <1>1, <2>1, <2>4, <2>b DEF RolesInv, R!Types, R!Entry
  <2>6. \A k \in new.keys : <<new.role, k>> \in DOMAIN last /\ last[<<new.role, k>>] = clock
    <3>1. old.role \in DOMAIN perms \/ R!Granted(old.role) = {}
      BY RolesAssumption DEF R!Granted, RolesInv, RowsTrue
    <3> QED
      BY <2>2, <3>1 DEF RolesInv, RowsTrue
  <2>7. \A k \in new.keys : <<new.role, k>> \in DOMAIN last' /\ new.read <= last'[<<new.role, k>>]
    BY <1>1, <2>2, <2>3, <2>6
  <2>8. LookupsFresh'
    <3> SUFFICES ASSUME NEW x \in DOMAIN resolving', resolving'[x].at = "fill"
                 PROVE  /\ resolving'[x].read <= clock' /\ clock' <= resolving'[x].read + Hold
                        /\ \A k \in resolving'[x].keys :
                              /\ <<resolving'[x].role, k>> \in DOMAIN last'
                              /\ resolving'[x].read <= last'[<<resolving'[x].role, k>>]
      BY DEF LookupsFresh
    <3>1. CASE x = q
      <4>1. clock <= clock /\ clock <= clock + Hold
        BY <2>3, RolesAssumption
      <4> QED
        BY <1>1, <2>2, <2>7, <2>b, <3>1, <4>1
    <3>2. CASE x # q
      <4>1. x \in DOMAIN resolving /\ resolving'[x] = resolving[x]
        BY <2>1, <3>2
      <4> QED
        BY <1>1, <4>1 DEF RolesInv, LookupsFresh
    <3> QED
      BY <3>1, <3>2
  <2> QED
    BY <1>2, <2>1, <2>5, <2>8, AnswersOld DEF RolesInv
<1>6. CASE R!Fill(q)
  <2>a. PICK old \in R!Resolve : old = resolving[q] /\ q \in DOMAIN resolving /\ old.at = "fill"
    BY <1>6 DEF R!Fill, RolesInv, R!Types
  <2>b. PICK new : new = [keys |-> old.keys, exp |-> clock + CacheTTL]
    OBVIOUS
  <2>1. /\ DOMAIN resolving' = DOMAIN resolving \ {q}
        /\ \A x \in DOMAIN resolving' : resolving'[x] = resolving[x]
    BY <1>6 DEF R!Fill, R!Drop
  <2>2. cache' = [cache EXCEPT ![old.replica] = R!Put(cache[old.replica], old.role, new)]
    BY <1>6, <2>a, <2>b DEF R!Fill
  <2>3. old.replica \in Nodes /\ old.role \in Roles /\ old.keys \in SUBSET Perms /\ old.read \in Nat
        /\ clock \in Nat /\ CacheTTL \in Nat /\ Hold \in Nat
    BY <2>a, RolesAssumption DEF R!Resolve, RolesInv, R!Types
  <2>4. new \in R!Entry
    BY <2>3, <2>b DEF R!Entry
  <2>5. /\ DOMAIN cache' = Nodes
        /\ \A n \in Nodes : n # old.replica => cache'[n] = cache[n]
        /\ cache'[old.replica] = R!Put(cache[old.replica], old.role, new)
    BY <2>2, <2>3 DEF RolesInv, R!Types
  <2>6. /\ DOMAIN cache'[old.replica] = DOMAIN cache[old.replica] \cup {old.role}
        /\ cache'[old.replica][old.role] = new
        /\ \A r \in DOMAIN cache[old.replica] :
              r # old.role => cache'[old.replica][r] = cache[old.replica][r]
        /\ cache'[old.replica] = [r \in DOMAIN cache'[old.replica] |-> cache'[old.replica][r]]
    BY <2>5 DEF R!Put
  <2>7. /\ DOMAIN cache'[old.replica] \subseteq Roles
        /\ cache'[old.replica] \in [DOMAIN cache'[old.replica] -> R!Entry]
    <3>1. \A r \in DOMAIN cache'[old.replica] : cache'[old.replica][r] \in R!Entry
      BY <2>3, <2>4, <2>6 DEF RolesInv, R!Types
    <3> QED
      BY <2>3, <2>6, <3>1 DEF RolesInv, R!Types
  <2>8. \A n \in Nodes : DOMAIN cache'[n] \subseteq Roles /\ cache'[n] \in [DOMAIN cache'[n] -> R!Entry]
    BY <2>5, <2>7 DEF RolesInv, R!Types
  <2>9. R!Types'
    BY <1>1, <2>1, <2>5, <2>8 DEF RolesInv, R!Types
  <2>10. LookupsFresh'
    BY <1>1, <1>2, <2>1, <2>9, LookupsStay
  <2>11. \A k \in old.keys : /\ <<old.role, k>> \in DOMAIN last
                             /\ new.exp <= last[<<old.role, k>>] + Hold + CacheTTL
    <3> SUFFICES ASSUME NEW k \in old.keys
                 PROVE  /\ <<old.role, k>> \in DOMAIN last
                        /\ new.exp <= last[<<old.role, k>>] + Hold + CacheTTL
      OBVIOUS
    <3>1. /\ clock <= old.read + Hold
          /\ <<old.role, k>> \in DOMAIN last /\ old.read <= last[<<old.role, k>>]
      BY <2>a DEF RolesInv, LookupsFresh
    <3>2. last[<<old.role, k>>] \in Nat
      BY <3>1 DEF RolesInv, RowsTrue
    <3>3. new.exp = clock + CacheTTL
      BY <2>b
    <3> QED
      BY <2>3, <3>1, <3>2, <3>3
  <2>12. AnswersExpire'
    <3> SUFFICES ASSUME NEW n \in Nodes, NEW r \in DOMAIN cache'[n], NEW k \in cache'[n][r].keys
                 PROVE  /\ <<r, k>> \in DOMAIN last'
                        /\ cache'[n][r].exp <= last'[<<r, k>>] + Hold + CacheTTL
      BY DEF AnswersExpire
    <3>1. CASE n = old.replica /\ r = old.role
      <4>1. cache'[n][r] = new /\ new.keys = old.keys
        BY <2>6, <2>b, <3>1
      <4> QED
        BY <1>1, <2>11, <3>1, <4>1
    <3>2. CASE ~(n = old.replica /\ r = old.role)
      <4>1. r \in DOMAIN cache[n] /\ cache'[n][r] = cache[n][r]
        BY <2>5, <2>6, <3>2
      <4> QED
        BY <1>1, <4>1 DEF RolesInv, AnswersExpire
    <3> QED
      BY <3>1, <3>2
  <2> QED
    BY <1>2, <2>9, <2>10, <2>12 DEF RolesInv
<1> QED
  BY <1>3, <1>4, <1>5, <1>6

(* A change under way leaves the look-ups and the answers alone.             *)
LEMMA ChangeKeeps ==
    ASSUME RolesInv, R!Types', RowsTrue', Remembered, ListsGiven',
           UNCHANGED <<clock, cache, resolving>>
    PROVE  RolesInv'
<1>1. LookupsFresh'
  BY LookupsStay
<1>2. AnswersExpire'
  BY AnswersOld
<1> QED
  BY <1>1, <1>2 DEF RolesInv

(* A change that begins has the list it will set.                            *)
LEMMA BeginsWell ==
    ASSUME RolesInv, NEW c \in Changes, NEW n \in Nodes, NEW r \in Roles,
           NEW place, NEW keys \in (SUBSET Perms) \cup {None},
           place \in {"set", "delete", "invalidate"}, place = "set" => keys # None,
           R!Begins(c, n, r, place, keys)
    PROVE  /\ ListsGiven' /\ DOMAIN changing' \subseteq Changes
           /\ \A x \in DOMAIN changing' : changing'[x] \in R!Change
<1>1. /\ DOMAIN changing' = DOMAIN changing \cup {c} /\ c \notin DOMAIN changing
      /\ \A x \in DOMAIN changing : changing'[x] = changing[x]
      /\ changing'[c] = [replica |-> n, role |-> r, at |-> place, keys |-> keys]
  BY DEF R!Begins, R!Put
<1>2. changing'[c] \in R!Change
  BY <1>1 DEF R!Change
<1> QED
  BY <1>1, <1>2 DEF RolesInv, R!Types, ListsGiven

(* A change that goes on to the cache, or ends, sets nothing more.           *)
LEMMA GoesOnWell ==
    ASSUME RolesInv, NEW c \in DOMAIN changing,
           \/ changing' = [changing EXCEPT ![c].at = "invalidate"]
           \/ changing' = R!Drop(changing, c)
    PROVE  /\ ListsGiven' /\ DOMAIN changing' \subseteq Changes
           /\ \A x \in DOMAIN changing' : changing'[x] \in R!Change
<1>1. CASE changing' = [changing EXCEPT ![c].at = "invalidate"]
  <2>1. /\ DOMAIN changing' = DOMAIN changing
        /\ \A x \in DOMAIN changing : x # c => changing'[x] = changing[x]
        /\ changing'[c] = [changing[c] EXCEPT !.at = "invalidate"]
    BY <1>1 DEF RolesInv, R!Types
  <2>2. changing'[c] \in R!Change /\ changing'[c].at = "invalidate"
    BY <2>1 DEF RolesInv, R!Types, R!Change
  <2> QED
    BY <2>1, <2>2 DEF RolesInv, R!Types, ListsGiven
<1>2. CASE changing' = R!Drop(changing, c)
  BY <1>2 DEF R!Drop, RolesInv, R!Types, ListsGiven
<1> QED
  BY <1>1, <1>2

LEMMA CreateRoleKeeps ==
    ASSUME RolesInv, NEW c \in Changes, NEW n \in Nodes, NEW r \in Roles,
           NEW keys \in (SUBSET Perms) \cup {None}, R!CreateRole(c, n, r, keys)
    PROVE  RolesInv'
<1>1. /\ r \notin DOMAIN perms \cup gone /\ R!Begins(c, n, r, R!Then(keys), keys)
      /\ perms' = R!Put(perms, r, {})
      /\ UNCHANGED <<clock, gone, last, held, referenced, cache, resolving>>
  BY DEF R!CreateRole, R!userRows
<1>2. /\ ListsGiven' /\ DOMAIN changing' \subseteq Changes
      /\ \A x \in DOMAIN changing' : changing'[x] \in R!Change
  BY <1>1, BeginsWell DEF R!Then
<1>3. /\ DOMAIN perms' = DOMAIN perms \cup {r} /\ perms'[r] = {}
      /\ \A x \in DOMAIN perms : perms'[x] = perms[x]
      /\ perms' = [x \in DOMAIN perms' |-> perms'[x]]
  BY <1>1 DEF R!Put
<1>4. perms' \in [DOMAIN perms' -> SUBSET Perms]
  BY <1>3 DEF RolesInv, R!Types
<1>5. R!Types'
  BY <1>1, <1>2, <1>3, <1>4 DEF RolesInv, R!Types, R!Entry
<1>6. RowsTrue'
  <2>1. \A x \in DOMAIN perms : R!Granted(x)' = R!Granted(x)
    BY <1>1, <1>3 DEF R!Granted
  <2>2. r \notin AutoRoles
    BY <1>1, RolesAssumption DEF RolesInv, RowsTrue
  <2>3. R!Granted(r)' = {}
    BY <1>3, <2>2 DEF R!Granted
  <2>4. \A x \in DOMAIN perms' : \A k \in R!Granted(x)' :
           <<x, k>> \in DOMAIN last' /\ last'[<<x, k>>] = clock'
    BY <1>1, <1>3, <2>1, <2>3 DEF RolesInv, RowsTrue
  <2> QED
    BY <1>1, <1>3, <2>4 DEF RolesInv, RowsTrue
<1> QED
  BY <1>1, <1>2, <1>5, <1>6, HistoryStays, ChangeKeeps

(* The changes that write no row yet, or no more.                            *)
LEMMA QuietChangeKeeps ==
    ASSUME RolesInv, NEW c \in Changes, NEW n \in Nodes, NEW r \in Roles,
           \/ R!CountUsersWithRole(c, n, r)
           \/ \E keys \in (SUBSET Perms) \cup {None} : R!UpdateRole(c, n, r, keys)
    PROVE  RolesInv'
<1>1. UNCHANGED <<clock, perms, gone, last, held, referenced, cache, resolving>>
  BY DEF R!CountUsersWithRole, R!UpdateRole, R!rows, R!userRows
<1>2. /\ ListsGiven' /\ DOMAIN changing' \subseteq Changes
      /\ \A x \in DOMAIN changing' : changing'[x] \in R!Change
  <2>1. CASE R!CountUsersWithRole(c, n, r)
    <3>1. R!Begins(c, n, r, "delete", None)
      BY <2>1 DEF R!CountUsersWithRole
    <3> QED
      BY <3>1, BeginsWell
  <2>2. ASSUME NEW keys \in (SUBSET Perms) \cup {None}, R!UpdateRole(c, n, r, keys)
        PROVE  /\ ListsGiven' /\ DOMAIN changing' \subseteq Changes
               /\ \A x \in DOMAIN changing' : changing'[x] \in R!Change
    <3>1. R!Begins(c, n, r, R!Then(keys), keys)
      BY <2>2 DEF R!UpdateRole
    <3> QED
      BY <3>1, BeginsWell DEF R!Then
  <2> QED
    BY <2>1, <2>2
<1>3. R!Types' /\ RowsTrue'
  BY <1>1, <1>2 DEF RolesInv, R!Types, R!Entry, RowsTrue, R!Granted
<1> QED
  BY <1>1, <1>2, <1>3, HistoryStays, ChangeKeeps

LEMMA SetRolePermissionsKeeps ==
    ASSUME RolesInv, NEW c \in Changes, R!SetRolePermissions(c)
    PROVE  RolesInv'
<1>a. PICK j \in R!Change : c \in DOMAIN changing /\ changing[c] = j /\ j.at = "set"
  BY DEF R!SetRolePermissions, RolesInv, R!Types
<1>1. /\ UNCHANGED <<clock, gone, held, referenced, cache, resolving>>
      /\ \/ changing' = [changing EXCEPT ![c].at = "invalidate"]
         \/ changing' = R!Drop(changing, c)
      /\ \/ j.role \in DOMAIN perms /\ R!Replaced(j.role, j.keys)
         \/ UNCHANGED <<perms, last>>
  BY <1>a DEF R!SetRolePermissions, R!userRows
<1>2. /\ ListsGiven' /\ DOMAIN changing' \subseteq Changes
      /\ \A x \in DOMAIN changing' : changing'[x] \in R!Change
  BY <1>1, <1>a, GoesOnWell
<1>3. j.keys \in SUBSET Perms /\ j.role \in Roles /\ clock \in Nat
  BY <1>a DEF R!Change, RolesInv, ListsGiven, R!Types
<1>4. CASE UNCHANGED <<perms, last>>
  <2>1. R!Types' /\ RowsTrue'
    BY <1>1, <1>2, <1>4 DEF RolesInv, R!Types, R!Entry, RowsTrue, R!Granted
  <2> QED
    BY <1>1, <1>2, <1>4, <2>1, HistoryStays, ChangeKeeps
<1>5. CASE j.role \in DOMAIN perms /\ R!Replaced(j.role, j.keys)
  <2>b. PICK given : given = {j.role} \X (IF j.role \in AutoRoles THEN Perms ELSE j.keys)
    OBVIOUS
  <2>1. /\ perms' = [perms EXCEPT ![j.role] = j.keys]
        /\ last' = [p \in DOMAIN last \cup given |-> IF p \in given THEN clock ELSE last[p]]
    BY <1>5, <2>b DEF R!Replaced
  <2>2. /\ DOMAIN perms' = DOMAIN perms /\ perms'[j.role] = j.keys
        /\ \A x \in DOMAIN perms : x # j.role => perms'[x] = perms[x]
        /\ perms' \in [DOMAIN perms -> SUBSET Perms]
    BY <1>3, <1>5, <2>1 DEF RolesInv, R!Types
  <2>3. /\ DOMAIN last' = DOMAIN last \cup given
        /\ \A p \in given : last'[p] = clock
        /\ \A p \in DOMAIN last \ given : last'[p] = last[p]
        /\ last' = [p \in DOMAIN last' |-> last'[p]]
    BY <2>1
  <2>4. given \subseteq Roles \X Perms /\ \A p \in given : p[1] = j.role
    BY <1>3, <2>b
  <2>5. clock <= clock
    BY <1>3
  <2>6. Remembered
    <3>1. \A p \in DOMAIN last' : last'[p] \in Nat /\ last'[p] <= clock'
      BY <1>1, <1>3, <2>3, <2>5 DEF RolesInv, RowsTrue
    <3>2. ASSUME NEW p \in DOMAIN last PROVE last[p] <= last'[p]
      <4>1. CASE p \in given
        BY <2>3, <4>1 DEF RolesInv, RowsTrue
      <4>2. CASE p \notin given
        <5>1. last'[p] = last[p] /\ last[p] \in Nat
          BY <2>3, <4>2 DEF RolesInv, RowsTrue
        <5> QED
          BY <5>1
      <4> QED
        BY <4>1, <4>2
    <3> QED
      BY <2>3, <3>1, <3>2 DEF Remembered
  <2>7. R!Types'
    BY <1>1, <1>2, <2>2, <2>3, <2>4 DEF RolesInv, R!Types, R!Entry
  <2>8. RowsTrue'
    <3>1. ASSUME NEW x \in DOMAIN perms', NEW k \in R!Granted(x)'
          PROVE  <<x, k>> \in DOMAIN last' /\ last'[<<x, k>>] = clock
      <4>1. CASE x = j.role
        <5>1. k \in IF j.role \in AutoRoles THEN Perms ELSE j.keys
          BY <1>5, <2>2, <4>1 DEF R!Granted
        <5>2. <<x, k>> \in given
          BY <2>b, <4>1, <5>1
        <5> QED
          BY <2>3, <5>2
      <4>2. CASE x # j.role
        <5>1. x \in DOMAIN perms /\ k \in R!Granted(x)
          BY <2>2, <4>2 DEF R!Granted
        <5>2. <<x, k>> \in DOMAIN last /\ last[<<x, k>>] = clock
          BY <5>1 DEF RolesInv, RowsTrue
        <5> QED
          BY <2>3, <5>2
      <4> QED
        BY <4>1, <4>2
    <3> QED
      BY <1>1, <2>2, <2>6, <3>1 DEF RowsTrue, RolesInv, Remembered
  <2> QED
    BY <1>1, <1>2, <2>6, <2>7, <2>8, ChangeKeeps
<1> QED
  BY <1>1, <1>4, <1>5

LEMMA DeleteRoleKeeps ==
    ASSUME RolesInv, NEW c \in Changes, R!DeleteRole(c)
    PROVE  RolesInv'
<1>a. PICK j \in R!Change : c \in DOMAIN changing /\ changing[c] = j
  BY DEF R!DeleteRole, RolesInv, R!Types
<1>b. PICK r \in Roles : r = j.role
  BY DEF R!Change
<1>1. /\ UNCHANGED <<clock, last, held, referenced, cache, resolving>>
      /\ \/ changing' = [changing EXCEPT ![c].at = "invalidate"]
         \/ changing' = R!Drop(changing, c)
      /\ r \in DOMAIN perms \ (System \cup referenced)
      /\ perms' = R!Drop(perms, r) /\ gone' = gone \cup {r}
  BY <1>a, <1>b DEF R!DeleteRole, R!Deletable, R!userRows
<1>2. /\ ListsGiven' /\ DOMAIN changing' \subseteq Changes
      /\ \A x \in DOMAIN changing' : changing'[x] \in R!Change
  BY <1>1, <1>a, GoesOnWell
<1>3. /\ DOMAIN perms' = DOMAIN perms \ {r}
      /\ \A x \in DOMAIN perms' : perms'[x] = perms[x]
      /\ perms' \in [DOMAIN perms' -> SUBSET Perms]
  BY <1>1 DEF R!Drop, RolesInv, R!Types
<1>4. R!Types'
  BY <1>1, <1>2, <1>3 DEF RolesInv, R!Types, R!Entry
<1>5. RowsTrue'
  <2>1. \A x \in DOMAIN perms' : R!Granted(x)' = R!Granted(x)
    BY <1>3 DEF R!Granted
  <2> QED
    BY <1>1, <1>3, <2>1 DEF RolesInv, R!Types, RowsTrue
<1> QED
  BY <1>1, <1>2, <1>4, <1>5, HistoryStays, ChangeKeeps

LEMMA InvalidateKeeps ==
    ASSUME RolesInv, NEW c \in Changes, R!Invalidate(c)
    PROVE  RolesInv'
<1>a. PICK j \in R!Change : c \in DOMAIN changing /\ changing[c] = j
  BY DEF R!Invalidate, RolesInv, R!Types
<1>1. /\ UNCHANGED <<clock, perms, gone, last, held, referenced, resolving>>
      /\ changing' = R!Drop(changing, c)
      /\ cache' = [cache EXCEPT ![j.replica] = R!Drop(cache[j.replica], j.role)]
  BY <1>a DEF R!Invalidate, R!rows, R!userRows
<1>2. /\ ListsGiven' /\ DOMAIN changing' \subseteq Changes
      /\ \A x \in DOMAIN changing' : changing'[x] \in R!Change
  BY <1>1, <1>a, GoesOnWell
<1>3. /\ DOMAIN cache' = Nodes
      /\ \A n \in Nodes : n # j.replica => cache'[n] = cache[n]
      /\ cache'[j.replica] = R!Drop(cache[j.replica], j.role)
  BY <1>1 DEF R!Change, RolesInv, R!Types
<1>4. /\ DOMAIN cache'[j.replica] = DOMAIN cache[j.replica] \ {j.role}
      /\ \A r \in DOMAIN cache'[j.replica] : cache'[j.replica][r] = cache[j.replica][r]
      /\ cache'[j.replica] = [r \in DOMAIN cache'[j.replica] |-> cache'[j.replica][r]]
  BY <1>3 DEF R!Drop
<1>5. \A n \in Nodes : DOMAIN cache'[n] \subseteq Roles /\ cache'[n] \in [DOMAIN cache'[n] -> R!Entry]
  BY <1>3, <1>4 DEF RolesInv, R!Types, R!Change
<1>6. R!Types' /\ RowsTrue'
  BY <1>1, <1>2, <1>3, <1>5 DEF RolesInv, R!Types, RowsTrue, R!Granted
<1>7. Remembered
  BY <1>1, HistoryStays
<1>8. AnswersExpire'
  BY <1>3, <1>4, <1>6, <1>7, AnswersOld
<1>9. LookupsFresh'
  BY <1>1, <1>6, <1>7, LookupsStay
<1> QED
  BY <1>2, <1>6, <1>8, <1>9 DEF RolesInv

(* Roles are given to users and taken from them.                             *)
LEMMA UsersKeep ==
    ASSUME RolesInv, NEW r \in Roles, R!UserHas(r) \/ R!NobodyHas(r)
    PROVE  RolesInv'
<1>1. /\ UNCHANGED <<clock, perms, gone, last, cache, resolving, changing>>
      /\ held' \subseteq referenced' /\ referenced' \subseteq Roles
      /\ held' \subseteq DOMAIN perms
  <2>1. CASE R!UserHas(r)
    BY <2>1 DEF R!UserHas, R!rows, RolesInv, R!Types, RowsTrue
  <2>2. CASE R!NobodyHas(r)
    BY <2>2 DEF R!NobodyHas, R!rows, RolesInv, R!Types, RowsTrue
  <2> QED
    BY <2>1, <2>2
<1>2. R!Types' /\ RowsTrue' /\ ListsGiven'
  BY <1>1 DEF RolesInv, R!Types, R!Entry, RowsTrue, R!Granted, ListsGiven
<1> QED
  BY <1>1, <1>2, HistoryStays, ChangeKeeps

(* Requests and replicas that stop, and what they kept with them.            *)
LEMMA EndsKeep ==
    ASSUME RolesInv, R!Fails \/ \E n \in Nodes : R!Restart(n)
    PROVE  RolesInv'
<1>1. /\ UNCHANGED <<clock, perms, gone, last, held, referenced>>
      /\ DOMAIN resolving' \subseteq DOMAIN resolving
      /\ \A q \in DOMAIN resolving' : resolving'[q] = resolving[q]
      /\ DOMAIN changing' \subseteq DOMAIN changing
      /\ \A c \in DOMAIN changing' : changing'[c] = changing[c]
  <2>1. CASE R!Fails
    BY <2>1 DEF R!Fails, R!Drop, R!rows, R!userRows
  <2>2. CASE \E n \in Nodes : R!Restart(n)
    BY <2>2 DEF R!Restart, R!Forget, R!rows, R!userRows
  <2> QED
    BY <2>1, <2>2
<1>2. /\ DOMAIN cache' = Nodes
      /\ \A n \in Nodes : /\ DOMAIN cache'[n] \subseteq DOMAIN cache[n]
                          /\ cache'[n] \in [DOMAIN cache'[n] -> R!Entry]
                          /\ \A r \in DOMAIN cache'[n] : cache'[n][r] = cache[n][r]
  <2>1. CASE R!Fails
    BY <2>1 DEF R!Fails, RolesInv, R!Types
  <2>2. ASSUME NEW m \in Nodes, R!Restart(m)
        PROVE  /\ DOMAIN cache' = Nodes
               /\ \A n \in Nodes : n # m => cache'[n] = cache[n]
               /\ cache'[m] = <<>>
    BY <2>2 DEF R!Restart, RolesInv, R!Types
  <2>3. /\ DOMAIN <<>> = {} /\ <<>> \in [{} -> R!Entry]
    OBVIOUS
  <2>4. CASE \E n \in Nodes : R!Restart(n)
    <3> PICK m \in Nodes : R!Restart(m)
      BY <2>4
    <3>1. \A n \in Nodes : n # m => /\ DOMAIN cache'[n] \subseteq DOMAIN cache[n]
                                    /\ cache'[n] \in [DOMAIN cache'[n] -> R!Entry]
      BY <2>2 DEF RolesInv, R!Types
    <3>2. DOMAIN cache'[m] = {} /\ cache'[m] \in [DOMAIN cache'[m] -> R!Entry]
      BY <2>2, <2>3
    <3> QED
      BY <2>2, <3>1, <3>2
  <2> QED
    BY <2>1, <2>4
<1>3. R!Types'
  BY <1>1, <1>2 DEF RolesInv, R!Types
<1>4. RowsTrue' /\ ListsGiven'
  BY <1>1 DEF RolesInv, RowsTrue, ListsGiven, R!Granted
<1>5. Remembered
  BY <1>1, HistoryStays
<1>6. AnswersExpire'
  BY <1>2, <1>3, <1>5, AnswersOld
<1>7. LookupsFresh'
  BY <1>1, <1>3, <1>5, LookupsStay
<1> QED
  BY <1>3, <1>4, <1>6, <1>7 DEF RolesInv

(* A tick: what is had now is remembered at the new time, and no look-up     *)
(* has held its answer for too long.                                         *)
LEMMA TickKeeps ==
    ASSUME RolesInv, R!Tick
    PROVE  RolesInv'
<1>1. /\ UNCHANGED <<perms, gone, held, referenced, cache, resolving, changing>>
      /\ clock' = clock + 1 /\ clock < MaxClock
      /\ \A q \in DOMAIN resolving : resolving[q].at = "fill" => clock - resolving[q].read < Hold
      /\ last' = [p \in DOMAIN last |->
                    IF p[1] \in DOMAIN perms /\ p[2] \in R!Granted(p[1]) THEN clock' ELSE last[p]]
  BY DEF R!Tick, R!userRows
<1>2. /\ clock \in Nat /\ clock' \in Nat /\ clock' \in 0..MaxClock /\ clock <= clock'
      /\ clock' <= clock' /\ Hold \in Nat
  BY <1>1, RolesAssumption DEF RolesInv, R!Types
<1>3. /\ DOMAIN last' = DOMAIN last
      /\ last' = [p \in DOMAIN last' |-> last'[p]]
      /\ \A p \in DOMAIN last : last'[p] = clock' \/ last'[p] = last[p]
      /\ \A p \in DOMAIN last :
            p[1] \in DOMAIN perms /\ p[2] \in R!Granted(p[1]) => last'[p] = clock'
  BY <1>1
<1>4. ASSUME NEW p \in DOMAIN last
      PROVE  last'[p] \in Nat /\ last'[p] <= clock' /\ last[p] <= last'[p] /\ last[p] \in Nat
  <2>1. last[p] \in Nat /\ last[p] <= clock
    BY DEF RolesInv, RowsTrue
  <2>2. last[p] <= clock' /\ last[p] <= last[p]
    BY <1>2, <2>1
  <2> QED
    BY <1>2, <1>3, <2>1, <2>2
<1>5. Remembered
  BY <1>3, <1>4 DEF Remembered
<1>6. R!Types'
  BY <1>1, <1>2, <1>3 DEF RolesInv, R!Types, R!Entry
<1>7. RowsTrue' /\ ListsGiven'
  <2>1. ASSUME NEW r \in DOMAIN perms', NEW k \in R!Granted(r)'
        PROVE  <<r, k>> \in DOMAIN last' /\ last'[<<r, k>>] = clock'
    <3>1. r \in DOMAIN perms /\ k \in R!Granted(r)
      BY <1>1 DEF R!Granted
    <3>2. <<r, k>> \in DOMAIN last
      BY <3>1 DEF RolesInv, RowsTrue
    <3> QED
      BY <1>3, <3>1, <3>2
  <2> QED
    BY <1>1, <1>3, <1>4, <2>1 DEF RolesInv, RowsTrue, ListsGiven
<1>8. AnswersExpire'
  BY <1>1, <1>5, <1>6, AnswersOld
<1>9. LookupsFresh'
  <2> SUFFICES ASSUME NEW q \in DOMAIN resolving, resolving[q].at = "fill"
               PROVE  /\ resolving[q].read <= clock' /\ clock' <= resolving[q].read + Hold
                      /\ \A k \in resolving[q].keys :
                            /\ <<resolving[q].role, k>> \in DOMAIN last'
                            /\ resolving[q].read <= last'[<<resolving[q].role, k>>]
    BY <1>1 DEF LookupsFresh
  <2>a. PICK j \in R!Resolve : j = resolving[q]
    BY DEF RolesInv, R!Types
  <2>1. /\ j.read \in Nat /\ j.read <= clock /\ clock - j.read < Hold
        /\ \A k \in j.keys : <<j.role, k>> \in DOMAIN last /\ j.read <= last[<<j.role, k>>]
    BY <1>1, <2>a DEF R!Resolve, RolesInv, LookupsFresh
  <2>2. j.read <= clock' /\ clock' <= j.read + Hold
    BY <1>1, <1>2, <2>1
  <2>3. ASSUME NEW k \in j.keys
        PROVE  <<j.role, k>> \in DOMAIN last' /\ j.read <= last'[<<j.role, k>>]
    <3> DEFINE p == <<j.role, k>>
    <3>1. p \in DOMAIN last /\ j.read <= last[p]
      BY <2>1
    <3>2. last'[p] \in Nat /\ last[p] <= last'[p] /\ last[p] \in Nat /\ p \in DOMAIN last'
      BY <1>3, <1>4, <3>1
    <3> QED
      BY <2>1, <3>1, <3>2
  <2> QED
    BY <2>2, <2>3, <2>a
<1> QED
  BY <1>6, <1>7, <1>8, <1>9 DEF RolesInv

LEMMA RolesInit == ASSUME R!Init PROVE RolesInv
<1>1. /\ clock = 0 /\ perms \in [System -> SUBSET Perms] /\ gone = {}
      /\ held \subseteq System /\ referenced = held
      /\ cache = [n \in Nodes |-> <<>>] /\ resolving = <<>> /\ changing = <<>>
      /\ last = [p \in {x \in System \X Perms : x[2] \in R!Granted(x[1])} |-> 0]
  BY DEF R!Init
<1>2. DOMAIN <<>> = {} /\ <<>> \in [{} -> R!Entry]
  OBVIOUS
<1>3. /\ DOMAIN cache = Nodes
      /\ \A n \in Nodes : DOMAIN cache[n] = {} /\ cache[n] \in [DOMAIN cache[n] -> R!Entry]
  BY <1>1, <1>2
<1>4. 0 \in 0..MaxClock /\ 0 <= 0
  BY RolesAssumption
<1>5. R!Types
  BY <1>1, <1>2, <1>3, <1>4, RolesAssumption DEF R!Types
<1>6. RowsTrue
  <2>1. \A r \in DOMAIN perms : \A k \in R!Granted(r) : <<r, k>> \in DOMAIN last
    <3> SUFFICES ASSUME NEW r \in DOMAIN perms, NEW k \in R!Granted(r)
                 PROVE  <<r, k>> \in DOMAIN last
      OBVIOUS
    <3>1. r \in System /\ k \in Perms
      BY <1>1 DEF R!Granted
    <3> QED
      BY <1>1, <3>1
  <2>2. \A p \in DOMAIN last : last[p] = 0
    BY <1>1
  <2> QED
    BY <1>1, <1>4, <2>1, <2>2 DEF RowsTrue
<1> QED
  BY <1>1, <1>2, <1>3, <1>5, <1>6 DEF RolesInv, LookupsFresh, AnswersExpire, ListsGiven

LEMMA RolesStep ==
    ASSUME RolesInv, [R!Next]_(R!vars)
    PROVE  RolesInv'
<1>1. CASE UNCHANGED R!vars
  BY <1>1 DEF R!vars, RolesInv, R!Types, R!Entry, RowsTrue, R!Granted, LookupsFresh,
     AnswersExpire, ListsGiven
<1>2. CASE R!Next
  BY <1>2, TickKeeps, EndsKeep, LookupKeeps, CreateRoleKeeps, QuietChangeKeeps,
     SetRolePermissionsKeeps, DeleteRoleKeeps, InvalidateKeeps, UsersKeep
  DEF R!Next
<1> QED
  BY <1>1, <1>2

(* The strengthened invariant, at every moment.                              *)
THEOREM RolesInvariant == R!Spec => []RolesInv
<1>1. R!Init => RolesInv
  BY RolesInit
<1>2. RolesInv /\ [R!Next]_(R!vars) => RolesInv'
  BY RolesStep
<1> QED
  BY <1>1, <1>2, PTL DEF R!Spec

(* On any number of replicas, however look-ups cross changes, an answer that *)
(* is still given permits nothing that was taken away longer ago than the    *)
(* time to live and the look-up; and nobody has a role that is gone          *)
(* (rbac_impl.go, Resolve; rbac_postgres.go, DeleteRole).                    *)
THEOREM TakenAwayIsOver == R!Spec => []PermissionsLapse
<1>1. RolesInv => PermissionsLapse
  <2> SUFFICES ASSUME RolesInv,
                      NEW n \in Nodes, NEW r \in DOMAIN cache[n], R!Valid(cache[n][r]),
                      NEW k \in cache[n][r].keys
               PROVE  /\ <<r, k>> \in DOMAIN last
                      /\ clock - last[<<r, k>>] < CacheTTL + Hold
    BY DEF PermissionsLapse, R!PermissionsLapse, RolesInv, RowsTrue
  <2>1. /\ <<r, k>> \in DOMAIN last
        /\ cache[n][r].exp <= last[<<r, k>>] + Hold + CacheTTL
        /\ clock < cache[n][r].exp
    BY DEF RolesInv, AnswersExpire, R!Valid
  <2>2. last[<<r, k>>] \in Nat /\ cache[n][r].exp \in Nat /\ clock \in Nat
    BY <2>1 DEF RolesInv, RowsTrue, R!Types, R!Entry
  <2> QED
    BY <2>1, <2>2, RolesAssumption
<1> QED
  BY <1>1, RolesInvariant, PTL

-----------------------------------------------------------------------------
(* That an account was earned, for any tokens, requests and identities.  The *)
(* argument: whatever copy of a session overwrites another one, each says    *)
(* only what was shown under its own token, because a token is begun once    *)
(* and for one address, so the code kept for the token was sent there.       *)

BegunTokens == {x \in shown : x[1] = "begun"}

(* Tokens are counted; each is begun for one address.                        *)
TokensCounted ==
    /\ IsFiniteSet(BegunTokens)
    /\ \A x \in BegunTokens : \E t \in 1..Cardinality(BegunTokens), e \in Emails : x = <<"begun", t, e>>
    /\ \A t, d, e : <<"begun", t, d>> \in shown /\ <<"begun", t, e>> \in shown => d = e

(* What a session says of token t was shown.                                 *)
Proven(t, s) ==
    /\ <<"begun", t, s.email>> \in shown
    /\ s.civil # None => <<"eid", t, s.civil>> \in shown
    /\ s.verified => <<"mail", s.email>> \in shown

(* What a request carries was shown, and what it has passed is done.         *)
Honest(q) ==
    /\ Proven(q.token, q.sess)
    /\ q.at = "check" => <<"begun", q.token, q.code>> \in shown
    /\ q.at \in {"upsert", "replace", "accept", "finish"} =>
          O!Complete(q.sess) /\ <<"totp", q.token, q.sess.secret>> \in shown
    /\ q.at \in {"replace", "accept", "finish"} => q.sess.email \in DOMAIN accounts
    /\ q.at \in {"accept", "finish"} => q.sess.email \in codes

SessionsProven == \A t \in DOMAIN wizards : Proven(t, wizards[t])
CodesAddressed == \A t \in DOMAIN otp : <<"begun", t, otp[t]>> \in shown
AllHonest == \A r \in DOMAIN requests : Honest(requests[r])

WizardInv ==
    /\ O!Types /\ TokensCounted /\ SessionsProven /\ CodesAddressed /\ AllHonest
    /\ AccountWasEarned

(* The requests of O!Types.                                                  *)
RequestTypes ==
    DOMAIN requests \subseteq WizardRequests /\ \A r \in DOMAIN requests : requests[r] \in O!Request

(* Nothing that was shown or stored is taken back.                           *)
Grows ==
    /\ shown \subseteq shown' /\ DOMAIN accounts \subseteq DOMAIN accounts' /\ codes \subseteq codes'

LEMMA ProvenStays ==
    ASSUME Grows, NEW t, NEW s, Proven(t, s)
    PROVE  Proven(t, s)'
  BY DEF Grows, Proven

LEMMA HonestStays ==
    ASSUME Grows, NEW q, Honest(q)
    PROVE  Honest(q)'
  BY ProvenStays DEF Grows, Honest

(* The other requests are as honest as they were.                            *)
LEMMA RestHonest ==
    ASSUME AllHonest, Grows, NEW x \in DOMAIN requests, x \in DOMAIN requests',
           requests'[x] = requests[x]
    PROVE  Honest(requests[x])'
<1> PICK q : q = requests[x]
  OBVIOUS
<1>1. Honest(q)'
  BY HonestStays DEF AllHonest
<1> QED
  BY <1>1 DEF Honest, Proven, O!Complete

(* Requests that only end, or go on as they are.                             *)
LEMMA SameRequests ==
    ASSUME WizardInv, Grows,
           \A x \in DOMAIN requests' : x \in DOMAIN requests /\ requests'[x] = requests[x]
    PROVE  AllHonest' /\ RequestTypes'
<1>1. AllHonest'
  BY RestHonest DEF WizardInv, AllHonest
<1> QED
  BY <1>1 DEF WizardInv, O!Types, RequestTypes

(* One request is new or changed.                                            *)
LEMMA OneRequest ==
    ASSUME WizardInv, Grows, NEW r \in WizardRequests, NEW new \in O!Request, Honest(new)',
           DOMAIN requests' \subseteq DOMAIN requests \cup {r},
           r \in DOMAIN requests' => requests'[r] = new,
           \A x \in DOMAIN requests' : x # r => requests'[x] = requests[x]
    PROVE  AllHonest' /\ RequestTypes'
<1>1. \A x \in DOMAIN requests' : x # r => Honest(requests[x])'
  BY RestHonest DEF WizardInv, AllHonest
<1>2. r \in DOMAIN requests' => Honest(requests[r])'
  BY DEF Honest, Proven, O!Complete
<1>3. AllHonest'
  BY <1>1, <1>2 DEF AllHonest
<1> QED
  BY <1>3 DEF WizardInv, O!Types, RequestTypes

(* A request goes on, to a place that it has what is asked for.              *)
LEMMA RequestGoes ==
    ASSUME WizardInv, Grows, NEW r \in WizardRequests, r \in DOMAIN requests,
           NEW place \in O!Places \ {"check"}, O!Goes(r, place),
           place \in {"upsert", "replace", "accept", "finish"} =>
              /\ O!Complete(requests[r].sess)
              /\ <<"totp", requests[r].token, requests[r].sess.secret>> \in shown',
           place \in {"replace", "accept", "finish"} => requests[r].sess.email \in DOMAIN accounts',
           place \in {"accept", "finish"} => requests[r].sess.email \in codes'
    PROVE  AllHonest' /\ RequestTypes'
<1>1. PICK q \in O!Request : q = requests[r]
  BY DEF WizardInv, O!Types
<1>2. PICK new : new = [q EXCEPT !.at = place]
  OBVIOUS
<1>3. /\ new \in O!Request /\ new.kind = q.kind /\ new.token = q.token /\ new.sess = q.sess
      /\ new.code = q.code /\ new.at = place
  BY <1>2 DEF O!Request
<1>4. /\ DOMAIN requests' = DOMAIN requests /\ requests'[r] = new
      /\ \A x \in DOMAIN requests' : x # r => requests'[x] = requests[x]
  BY <1>1, <1>2 DEF O!Goes
<1>5. Proven(q.token, q.sess)
  BY <1>1 DEF WizardInv, AllHonest, Honest
<1>6. Proven(q.token, q.sess)'
  BY <1>5, ProvenStays
<1>7. Proven(new.token, new.sess)'
  BY <1>3, <1>6
<1>8. Honest(new)'
  BY <1>1, <1>3, <1>7 DEF Honest, O!Complete
<1> QED
  BY <1>3, <1>4, <1>8, OneRequest

LEMMA RequestEnds ==
    ASSUME WizardInv, Grows, NEW r, O!Ends(r)
    PROVE  AllHonest' /\ RequestTypes'
<1>1. \A x \in DOMAIN requests' : x \in DOMAIN requests /\ requests'[x] = requests[x]
  BY DEF O!Ends, O!Drop
<1> QED
  BY <1>1, SameRequests

(* What is shown beside the beginnings does not count as one.                *)
LEMMA CountStays ==
    ASSUME TokensCounted,
           \/ shown' = shown
           \/ \E t, v : \E kind \in {"eid", "totp"} : shown' = shown \cup {<<kind, t, v>>}
           \/ \E e : shown' = shown \cup {<<"mail", e>>}
    PROVE  TokensCounted' /\ shown \subseteq shown'
<1>1. shown \subseteq shown' /\ \A x \in shown' : x[1] = "begun" => x \in shown
  <2>1. CASE shown' = shown
    BY <2>1
  <2>2. ASSUME NEW t, NEW v, NEW kind \in {"eid", "totp"}, shown' = shown \cup {<<kind, t, v>>}
        PROVE  shown \subseteq shown' /\ \A x \in shown' : x[1] = "begun" => x \in shown
    BY <2>2
  <2>3. ASSUME NEW e, shown' = shown \cup {<<"mail", e>>}
        PROVE  shown \subseteq shown' /\ \A x \in shown' : x[1] = "begun" => x \in shown
    BY <2>3
  <2> QED
    BY <2>1, <2>2, <2>3
<1>2. \A x : x \in BegunTokens' <=> x \in BegunTokens
  BY <1>1 DEF BegunTokens
<1>3. BegunTokens' = BegunTokens
  BY <1>2
<1>4. \A t, e : <<"begun", t, e>>[1] = "begun"
  OBVIOUS
<1>5. \A t, e : <<"begun", t, e>> \in shown' => <<"begun", t, e>> \in shown
  BY <1>1, <1>4
<1> QED
  BY <1>1, <1>3, <1>5 DEF TokensCounted

(* The sessions and the codes sent, as they were.                            *)
LEMMA SessionsStay ==
    ASSUME SessionsProven, Grows,
           \A t \in DOMAIN wizards' : t \in DOMAIN wizards /\ wizards'[t] = wizards[t]
    PROVE  SessionsProven'
  BY DEF SessionsProven, Proven, Grows

LEMMA CodesStay ==
    ASSUME CodesAddressed, Grows, \A t \in DOMAIN otp' : t \in DOMAIN otp /\ otp'[t] = otp[t]
    PROVE  CodesAddressed'
  BY DEF CodesAddressed, Grows

LEMMA AccountsStay ==
    ASSUME AccountWasEarned, Grows, UNCHANGED <<accounts, invites>>
    PROVE  AccountWasEarned'
  BY DEF AccountWasEarned, O!AccountWasEarned, Grows

(* Only the requests, and what they leave in the cache, change.              *)
LEMMA OnlyRequests ==
    ASSUME WizardInv, Grows, TokensCounted', AllHonest', RequestTypes',
           UNCHANGED <<promoted, invites, wizards, accounts, codes, sent>>,
           secrets' \in 0..MaxSecrets, failures' \in 0..MaxFailures,
           attempts' \in [Tokens -> 0..(OTPMaxAttempts + 1)],
           \A t \in DOMAIN otp' : t \in DOMAIN otp /\ otp'[t] = otp[t]
    PROVE  WizardInv'
<1>1. O!Types'
  BY DEF WizardInv, O!Types, RequestTypes
<1> QED
  BY <1>1, SessionsStay, CodesStay, AccountsStay DEF WizardInv

LEMMA InvitesKeep ==
    ASSUME WizardInv, NEW e \in Emails, O!CreateInvite(e) \/ O!DeleteInvite(e)
    PROVE  WizardInv'
<1>1. /\ UNCHANGED <<promoted, wizards, otp, attempts, requests, accounts, codes, secrets, sent, shown>>
      /\ failures' \in 0..MaxFailures /\ DOMAIN invites' \subseteq Emails
      /\ \A x \in DOMAIN invites' : invites'[x] = "accepted" =>
            x \in DOMAIN invites /\ invites[x] = "accepted"
  <2>1. CASE O!CreateInvite(e)
    BY <2>1 DEF O!CreateInvite, O!Put, WizardInv, O!Types
  <2>2. CASE O!DeleteInvite(e)
    BY <2>2, WizardAssumption DEF O!DeleteInvite, O!Drop, O!Fault, WizardInv, O!Types
  <2> QED
    BY <2>1, <2>2
<1>2. Grows /\ TokensCounted'
  BY <1>1, CountStays DEF Grows, WizardInv
<1>3. AllHonest'
  BY <1>1, <1>2, SameRequests
<1>4. SessionsProven' /\ CodesAddressed'
  BY <1>1, <1>2, SessionsStay, CodesStay DEF WizardInv
<1>5. AccountWasEarned'
  BY <1>1 DEF WizardInv, AccountWasEarned, O!AccountWasEarned
<1>6. O!Types'
  BY <1>1 DEF WizardInv, O!Types
<1> QED
  BY <1>2, <1>3, <1>4, <1>5, <1>6 DEF WizardInv

(* A token that nobody had, for the address that it begins.                  *)
LEMMA StartPendingKeeps ==
    ASSUME WizardInv, NEW t \in Tokens, NEW e \in Emails, O!StartPending(t, e)
    PROVE  WizardInv'
<1>a. O!Cardinality(BegunTokens) = Cardinality(BegunTokens)
  BY DEF O!Cardinality, Cardinality
<1>b. PICK b : b = <<"begun", t, e>>
  OBVIOUS
<1>c. PICK session : session = [email |-> e, civil |-> None, verified |-> FALSE,
                                secret |-> 0, step |-> "eid"]
  OBVIOUS
<1>1. /\ t = Cardinality(BegunTokens) + 1
      /\ wizards' = O!Put(wizards, t, session) /\ shown' = shown \cup {b}
      /\ UNCHANGED <<promoted, invites, otp, attempts, requests, accounts, codes, secrets, sent, failures>>
  BY <1>a, <1>b, <1>c DEF O!StartPending, BegunTokens
<1>2. Grows
  BY <1>1 DEF Grows
<1>3. /\ IsFiniteSet(BegunTokens) /\ Cardinality(BegunTokens) \in Nat
      /\ \A x \in BegunTokens : \E u \in 1..Cardinality(BegunTokens), d \in Emails : x = <<"begun", u, d>>
  BY FS_CardinalityType DEF WizardInv, TokensCounted
<1>4. b \notin BegunTokens /\ \A d : <<"begun", t, d>> \notin shown
  <2>1. \A x \in BegunTokens : x[2] # t
    <3> SUFFICES ASSUME NEW x \in BegunTokens PROVE x[2] # t
      OBVIOUS
    <3>1. PICK u \in 1..Cardinality(BegunTokens), d \in Emails : x = <<"begun", u, d>>
      BY <1>3
    <3>2. u # t
      BY <1>1, <1>3, <3>1
    <3> QED
      BY <3>1, <3>2
  <2>2. \A d : <<"begun", t, d>>[1] = "begun" /\ <<"begun", t, d>>[2] = t
    OBVIOUS
  <2> QED
    BY <1>b, <2>1, <2>2 DEF BegunTokens
<1>5. BegunTokens' = BegunTokens \cup {b}
  <2>1. \A x : x \in BegunTokens' <=> x \in BegunTokens \cup {b}
    BY <1>1, <1>b DEF BegunTokens
  <2> QED
    BY <2>1
<1>6. IsFiniteSet(BegunTokens') /\ Cardinality(BegunTokens') = t
  BY <1>1, <1>3, <1>4, <1>5, FS_AddElement
<1>7. \A x \in BegunTokens' : \E u \in 1..Cardinality(BegunTokens'), d \in Emails : x = <<"begun", u, d>>
  <2>1. t \in 1..t /\ \A u \in 1..Cardinality(BegunTokens) : u \in 1..t
    BY <1>1, <1>3
  <2> QED
    BY <1>3, <1>5, <1>6, <1>b, <2>1
<1>8. \A u, d, f : <<"begun", u, d>> \in shown' /\ <<"begun", u, f>> \in shown' => d = f
  <2> SUFFICES ASSUME NEW u, NEW d, NEW f, <<"begun", u, d>> \in shown', <<"begun", u, f>> \in shown'
               PROVE  d = f
    OBVIOUS
  <2>1. CASE u = t
    BY <1>1, <1>4, <1>b, <2>1
  <2>2. CASE u # t
    <3>1. <<"begun", u, d>> \in shown /\ <<"begun", u, f>> \in shown
      BY <1>1, <1>b, <2>2
    <3> QED
      BY <3>1 DEF WizardInv, TokensCounted
  <2> QED
    BY <2>1, <2>2
<1>9. TokensCounted'
  BY <1>6, <1>7, <1>8 DEF TokensCounted
<1>10. /\ DOMAIN wizards' = DOMAIN wizards \cup {t} /\ wizards'[t] = session
       /\ \A x \in DOMAIN wizards : x # t => wizards'[x] = wizards[x]
  BY <1>1 DEF O!Put
<1>11. SessionsProven'
  <2> SUFFICES ASSUME NEW x \in DOMAIN wizards' PROVE Proven(x, wizards[x])'
    BY DEF SessionsProven
  <2>1. CASE x = t
    BY <1>1, <1>10, <1>b, <1>c, <2>1 DEF Proven
  <2>2. CASE x # t
    BY <1>10, <1>2, <2>2 DEF WizardInv, SessionsProven, Proven, Grows
  <2> QED
    BY <2>1, <2>2
<1>12. session \in O!Sessions
  BY <1>c, WizardAssumption DEF O!Sessions, O!Steps
<1>13. O!Types'
  BY <1>1, <1>10, <1>12 DEF WizardInv, O!Types
<1>14. AllHonest' /\ CodesAddressed' /\ AccountWasEarned'
  BY <1>1, <1>2, SameRequests, CodesStay, AccountsStay DEF WizardInv
<1> QED
  BY <1>9, <1>11, <1>13, <1>14 DEF WizardInv

(* A request begins with what was saved.                                     *)
LEMMA LoadPendingKeeps ==
    ASSUME WizardInv, NEW r \in WizardRequests, NEW t \in Tokens, NEW kind \in O!Kinds,
           O!LoadPending(r, kind, t)
    PROVE  WizardInv'
<1>a. PICK s \in O!Sessions : s = wizards[t] /\ t \in DOMAIN wizards
  BY DEF O!LoadPending, WizardInv, O!Types
<1>b. PICK new : new = [kind |-> kind, token |-> t, at |-> O!First(kind), sess |-> s, code |-> None]
  OBVIOUS
<1>1. /\ requests' = O!Put(requests, r, new) /\ sent' \in 0..MaxRequests
      /\ UNCHANGED <<promoted, invites, wizards, otp, attempts, accounts, codes, secrets, failures, shown>>
  BY <1>a, <1>b, WizardAssumption DEF O!LoadPending, WizardInv, O!Types
<1>2. O!First(kind) \in {"poll", "send", "incr", "new", "validate"}
  BY DEF O!First, O!Kinds
<1>3. new \in O!Request
  BY <1>2, <1>b DEF O!Request, O!Places
<1>4. Grows /\ TokensCounted'
  BY <1>1, CountStays DEF Grows, WizardInv
<1>5. Proven(t, s)
  BY <1>a DEF WizardInv, SessionsProven
<1>6. Proven(t, s)'
  BY <1>4, <1>5, ProvenStays
<1>7. Honest(new)'
  BY <1>2, <1>6, <1>b DEF Honest
<1>8. /\ DOMAIN requests' = DOMAIN requests \cup {r} /\ requests'[r] = new
      /\ \A x \in DOMAIN requests' : x # r => requests'[x] = requests[x]
  BY <1>1 DEF O!Put
<1>9. AllHonest' /\ RequestTypes'
  BY <1>3, <1>4, <1>7, <1>8, OneRequest
<1>10. O!Types'
  BY <1>1, <1>9 DEF WizardInv, O!Types, RequestTypes
<1> QED
  BY <1>1, <1>4, <1>9, <1>10, SessionsStay, CodesStay, AccountsStay DEF WizardInv

(* The identity of the eID becomes part of the copy.                         *)
LEMMA EIDCompleteKeeps ==
    ASSUME WizardInv, NEW r \in WizardRequests, NEW c \in Civils, O!EIDComplete(r, c)
    PROVE  WizardInv'
<1>a. PICK q \in O!Request : q = requests[r] /\ r \in DOMAIN requests
  BY DEF O!EIDComplete, O!At, WizardInv, O!Types
<1>b. PICK s \in O!Sessions : s = q.sess
  BY DEF O!Request
<1>c. PICK s2 : s2 = [s EXCEPT !.civil = c, !.step = "email"]
  OBVIOUS
<1>d. PICK new : new = [q EXCEPT !.at = "save", !.sess = s2]
  OBVIOUS
<1>1. /\ requests' = [requests EXCEPT ![r] = new]
      /\ shown' = shown \cup {<<"eid", q.token, c>>}
      /\ UNCHANGED <<promoted, invites, wizards, otp, attempts, accounts, codes, secrets, sent, failures>>
  BY <1>a, <1>b, <1>c, <1>d DEF O!EIDComplete, O!Mine, O!Request, O!Sessions
<1>2. /\ s2 \in O!Sessions /\ s2.email = s.email /\ s2.verified = s.verified /\ s2.civil = c
  BY <1>c DEF O!Sessions, O!Steps
<1>3. new \in O!Request /\ new.token = q.token /\ new.sess = s2 /\ new.at = "save"
  BY <1>2, <1>d DEF O!Request, O!Places
<1>4. shown \subseteq shown' /\ TokensCounted'
  BY <1>1, CountStays DEF WizardInv
<1>5. Grows
  BY <1>1, <1>4 DEF Grows
<1>6. Proven(q.token, s)
  BY <1>a, <1>b DEF WizardInv, AllHonest, Honest
<1>7. Proven(q.token, s)'
  BY <1>5, <1>6, ProvenStays
<1>8. Proven(q.token, s2)'
  BY <1>1, <1>2, <1>7 DEF Proven
<1>9. Honest(new)'
  BY <1>3, <1>8 DEF Honest
<1>10. AllHonest' /\ RequestTypes'
  BY <1>1, <1>3, <1>5, <1>9, <1>a, OneRequest
<1>11. secrets' \in 0..MaxSecrets /\ failures' \in 0..MaxFailures
       /\ attempts' \in [Tokens -> 0..(OTPMaxAttempts + 1)]
  BY <1>1 DEF WizardInv, O!Types
<1> QED
  BY <1>1, <1>4, <1>5, <1>10, <1>11, OnlyRequests

(* The code was sent to the address that the token was begun for.            *)
LEMMA ApprovedKeeps ==
    ASSUME WizardInv, NEW r \in WizardRequests, O!Approved(r)
    PROVE  WizardInv'
<1>a. PICK q \in O!Request : q = requests[r] /\ r \in DOMAIN requests /\ q.at = "check"
  BY DEF O!Approved, O!At, WizardInv, O!Types
<1>b. PICK s \in O!Sessions : s = q.sess
  BY DEF O!Request
<1>c. PICK s2 : s2 = [s EXCEPT !.verified = TRUE, !.step = "totp"]
  OBVIOUS
<1>d. PICK new : new = [q EXCEPT !.at = "save", !.sess = s2]
  OBVIOUS
<1>1. /\ requests' = [requests EXCEPT ![r] = new]
      /\ shown' = shown \cup {<<"mail", q.code>>}
      /\ UNCHANGED <<promoted, invites, wizards, otp, attempts, accounts, codes, secrets, sent, failures>>
  BY <1>a, <1>b, <1>c, <1>d DEF O!Approved, O!Request, O!Sessions
<1>2. /\ s2 \in O!Sessions /\ s2.email = s.email /\ s2.civil = s.civil
  BY <1>c DEF O!Sessions, O!Steps
<1>3. new \in O!Request /\ new.token = q.token /\ new.sess = s2 /\ new.at = "save"
  BY <1>2, <1>d DEF O!Request, O!Places
<1>4. shown \subseteq shown' /\ TokensCounted'
  BY <1>1, CountStays DEF WizardInv
<1>5. Grows
  BY <1>1, <1>4 DEF Grows
<1>6. Proven(q.token, s) /\ <<"begun", q.token, q.code>> \in shown
  BY <1>a, <1>b DEF WizardInv, AllHonest, Honest
<1>7. q.code = s.email
  BY <1>6 DEF Proven, WizardInv, TokensCounted
<1>8. Proven(q.token, s)'
  BY <1>5, <1>6, ProvenStays
<1>9. Proven(q.token, s2)'
  BY <1>1, <1>2, <1>7, <1>8 DEF Proven
<1>10. Honest(new)'
  BY <1>3, <1>9 DEF Honest
<1>11. AllHonest' /\ RequestTypes'
  BY <1>1, <1>3, <1>5, <1>10, <1>a, OneRequest
<1>12. secrets' \in 0..MaxSecrets /\ failures' \in 0..MaxFailures
       /\ attempts' \in [Tokens -> 0..(OTPMaxAttempts + 1)]
  BY <1>1 DEF WizardInv, O!Types
<1> QED
  BY <1>1, <1>4, <1>5, <1>11, <1>12, OnlyRequests

LEMMA TOTPInitKeeps ==
    ASSUME WizardInv, NEW r \in WizardRequests, O!TOTPInit(r)
    PROVE  WizardInv'
<1>a. PICK q \in O!Request : q = requests[r] /\ r \in DOMAIN requests
  BY DEF O!TOTPInit, O!At, WizardInv, O!Types
<1>b. PICK s \in O!Sessions : s = q.sess
  BY DEF O!Request
<1>c. PICK s2 : s2 = [s EXCEPT !.secret = secrets + 1]
  OBVIOUS
<1>d. PICK new : new = [q EXCEPT !.at = "save", !.sess = s2]
  OBVIOUS
<1>1. /\ requests' = [requests EXCEPT ![r] = new]
      /\ secrets' \in 0..MaxSecrets /\ secrets' = secrets + 1
      /\ UNCHANGED <<promoted, invites, wizards, otp, attempts, accounts, codes, sent, failures, shown>>
  <2>1. secrets' \in 0..MaxSecrets /\ secrets' = secrets + 1
    BY WizardAssumption DEF O!TOTPInit, WizardInv, O!Types
  <2> QED
    BY <1>a, <1>b, <1>c, <1>d, <2>1 DEF O!TOTPInit, O!Request, O!Sessions
<1>2. /\ s2 \in O!Sessions /\ s2.email = s.email /\ s2.civil = s.civil /\ s2.verified = s.verified
  BY <1>1, <1>c DEF O!Sessions
<1>3. new \in O!Request /\ new.token = q.token /\ new.sess = s2 /\ new.at = "save"
  BY <1>2, <1>d DEF O!Request, O!Places
<1>4. Grows /\ TokensCounted'
  BY <1>1, CountStays DEF Grows, WizardInv
<1>5. Proven(q.token, s)
  BY <1>a, <1>b DEF WizardInv, AllHonest, Honest
<1>6. Proven(q.token, s)'
  BY <1>4, <1>5, ProvenStays
<1>7. Proven(q.token, s2)'
  BY <1>2, <1>6 DEF Proven
<1>8. Honest(new)'
  BY <1>3, <1>7 DEF Honest
<1>9. AllHonest' /\ RequestTypes'
  BY <1>1, <1>3, <1>4, <1>8, <1>a, OneRequest
<1>10. failures' \in 0..MaxFailures /\ attempts' \in [Tokens -> 0..(OTPMaxAttempts + 1)]
  BY <1>1 DEF WizardInv, O!Types
<1> QED
  BY <1>1, <1>4, <1>9, <1>10, OnlyRequests

(* The code goes where the copy says, which is where the token was begun.    *)
LEMMA EmailSendKeeps ==
    ASSUME WizardInv, NEW r \in WizardRequests, O!EmailSend(r)
    PROVE  WizardInv'
<1>a. PICK q \in O!Request : q = requests[r] /\ r \in DOMAIN requests
  BY DEF O!EmailSend, O!At, WizardInv, O!Types
<1>1. /\ otp' = O!Put(otp, q.token, q.sess.email) /\ O!Goes(r, "reset")
      /\ UNCHANGED <<promoted, invites, wizards, attempts, accounts, codes, secrets, sent, failures, shown>>
  BY <1>a DEF O!EmailSend, O!OTPKey, O!Mine
<1>2. Grows /\ TokensCounted'
  BY <1>1, CountStays DEF Grows, WizardInv
<1>3. AllHonest' /\ RequestTypes'
  BY <1>1, <1>2, <1>a, RequestGoes DEF O!Places
<1>4. <<"begun", q.token, q.sess.email>> \in shown
  BY <1>a DEF WizardInv, AllHonest, Honest, Proven
<1>5. /\ DOMAIN otp' = DOMAIN otp \cup {q.token} /\ otp'[q.token] = q.sess.email
      /\ \A t \in DOMAIN otp : t # q.token => otp'[t] = otp[t]
  BY <1>1 DEF O!Put
<1>6. CodesAddressed'
  BY <1>1, <1>4, <1>5 DEF WizardInv, CodesAddressed
<1>7. q.token \in Tokens /\ q.sess.email \in Emails
  BY DEF O!Request, O!Sessions
<1>8. O!Types'
  BY <1>1, <1>3, <1>5, <1>7 DEF WizardInv, O!Types, RequestTypes
<1> QED
  BY <1>1, <1>2, <1>3, <1>6, <1>8, SessionsStay, AccountsStay DEF WizardInv

(* The counter, and the requests that stop there.                            *)
LEMMA CountingKeeps ==
    ASSUME WizardInv, NEW r \in WizardRequests,
           O!ResetAttempts(r) \/ O!Incr(r) \/ O!IncrFails(r) \/ O!CleanUp(r) \/ O!Fails(r)
    PROVE  WizardInv'
<1>1. /\ UNCHANGED <<promoted, invites, wizards, accounts, codes, secrets, sent, shown>>
      /\ \A t \in DOMAIN otp' : t \in DOMAIN otp /\ otp'[t] = otp[t]
      /\ r \in DOMAIN requests /\ (O!Ends(r) \/ O!Goes(r, "get"))
  BY DEF O!ResetAttempts, O!Incr, O!IncrFails, O!CleanUp, O!Fails, O!Drop, O!At
<1>2. Grows /\ TokensCounted'
  BY <1>1, CountStays DEF Grows, WizardInv
<1>3. AllHonest' /\ RequestTypes'
  BY <1>1, <1>2, RequestGoes, RequestEnds DEF O!Places
<1>4. failures' \in 0..MaxFailures
  BY WizardAssumption DEF O!ResetAttempts, O!Incr, O!IncrFails, O!CleanUp, O!Fails, O!Fault,
     WizardInv, O!Types
<1>5. attempts' \in [Tokens -> 0..(OTPMaxAttempts + 1)]
  <2>1. CASE UNCHANGED attempts
    BY <2>1 DEF WizardInv, O!Types
  <2>2. CASE attempts' = [attempts EXCEPT ![O!Mine(r)] = 0]
    <3>1. 0 \in 0..(OTPMaxAttempts + 1)
      BY WizardAssumption
    <3>2. attempts \in [Tokens -> 0..(OTPMaxAttempts + 1)]
      BY DEF WizardInv, O!Types
    <3> QED
      BY <2>2, <3>1, <3>2
  <2>3. CASE O!Incr(r)
    <3>1. O!Mine(r) \in Tokens
      BY <1>1 DEF O!Mine, WizardInv, O!Types, O!Request
    <3>2. attempts[O!Mine(r)] \in 0..(OTPMaxAttempts + 1) /\ OTPMaxAttempts \in Nat
      BY <3>1, WizardAssumption DEF WizardInv, O!Types
    <3>3. PICK m : /\ attempts' = [attempts EXCEPT ![O!Mine(r)] = m]
                   /\ m = IF attempts[O!Mine(r)] + 1 > OTPMaxAttempts
                          THEN OTPMaxAttempts + 1 ELSE attempts[O!Mine(r)] + 1
      BY <2>3 DEF O!Incr
    <3>4. m \in 0..(OTPMaxAttempts + 1)
      BY <3>2, <3>3
    <3>5. attempts \in [Tokens -> 0..(OTPMaxAttempts + 1)]
      BY DEF WizardInv, O!Types
    <3> QED
      BY <3>3, <3>4, <3>5
  <2> QED
    BY <2>1, <2>2, <2>3 DEF O!ResetAttempts, O!Incr, O!IncrFails, O!CleanUp, O!Fails
<1>6. secrets' \in 0..MaxSecrets
  BY <1>1 DEF WizardInv, O!Types
<1> QED
  BY <1>1, <1>2, <1>3, <1>4, <1>5, <1>6, OnlyRequests

LEMMA GetRequestIDKeeps ==
    ASSUME WizardInv, NEW r \in WizardRequests, O!GetRequestID(r)
    PROVE  WizardInv'
<1>a. PICK q \in O!Request : q = requests[r] /\ r \in DOMAIN requests
  BY DEF O!GetRequestID, O!At, WizardInv, O!Types
<1>b. PICK e \in Emails : e = otp[q.token] /\ q.token \in DOMAIN otp
  BY <1>a DEF O!GetRequestID, O!OTPKey, O!Mine, WizardInv, O!Types
<1>d. PICK new : new = [q EXCEPT !.at = "check", !.code = e]
  OBVIOUS
<1>1. /\ requests' = [requests EXCEPT ![r] = new]
      /\ UNCHANGED <<promoted, invites, wizards, otp, attempts, accounts, codes, secrets, sent,
                     failures, shown>>
  BY <1>a, <1>b, <1>d DEF O!GetRequestID, O!OTPKey, O!Mine, O!Request
<1>2. /\ new \in O!Request /\ new.token = q.token /\ new.sess = q.sess /\ new.at = "check"
      /\ new.code = e
  BY <1>d DEF O!Request, O!Places
<1>3. Grows /\ TokensCounted'
  BY <1>1, CountStays DEF Grows, WizardInv
<1>4. Proven(q.token, q.sess) /\ <<"begun", q.token, e>> \in shown
  BY <1>a, <1>b DEF WizardInv, AllHonest, Honest, CodesAddressed
<1>5. Proven(q.token, q.sess)'
  BY <1>3, <1>4, ProvenStays
<1>6. Honest(new)'
  BY <1>1, <1>2, <1>4, <1>5 DEF Honest, Proven
<1>7. AllHonest' /\ RequestTypes'
  BY <1>1, <1>2, <1>3, <1>6, <1>a, OneRequest
<1>8. /\ secrets' \in 0..MaxSecrets /\ failures' \in 0..MaxFailures
      /\ attempts' \in [Tokens -> 0..(OTPMaxAttempts + 1)]
  BY <1>1 DEF WizardInv, O!Types
<1> QED
  BY <1>1, <1>3, <1>7, <1>8, OnlyRequests

(* The copy is written back whole.                                           *)
LEMMA SavePendingKeeps ==
    ASSUME WizardInv, NEW r \in WizardRequests, O!SavePending(r)
    PROVE  WizardInv'
<1>a. PICK q \in O!Request : q = requests[r] /\ r \in DOMAIN requests
  BY DEF O!SavePending, O!At, WizardInv, O!Types
<1>1. /\ wizards' = O!Put(wizards, q.token, q.sess) /\ (O!Goes(r, "clean") \/ O!Ends(r))
      /\ UNCHANGED <<promoted, invites, otp, attempts, accounts, codes, secrets, sent, failures, shown>>
  BY <1>a DEF O!SavePending, O!Mine
<1>2. Grows /\ TokensCounted'
  BY <1>1, CountStays DEF Grows, WizardInv
<1>3. AllHonest' /\ RequestTypes'
  BY <1>1, <1>2, <1>a, RequestGoes, RequestEnds DEF O!Places
<1>4. Proven(q.token, q.sess)
  BY <1>a DEF WizardInv, AllHonest, Honest
<1>5. /\ DOMAIN wizards' = DOMAIN wizards \cup {q.token} /\ wizards'[q.token] = q.sess
      /\ \A t \in DOMAIN wizards : t # q.token => wizards'[t] = wizards[t]
  BY <1>1 DEF O!Put
<1>6. SessionsProven'
  BY <1>1, <1>4, <1>5 DEF WizardInv, SessionsProven, Proven
<1>7. q.token \in Tokens /\ q.sess \in O!Sessions
  BY DEF O!Request
<1>8. O!Types'
  BY <1>1, <1>3, <1>5, <1>7 DEF WizardInv, O!Types, RequestTypes
<1> QED
  BY <1>1, <1>2, <1>3, <1>6, <1>8, CodesStay, AccountsStay DEF WizardInv

(* The code of the app, with all the evidence in the copy.                   *)
LEMMA ValidateKeeps ==
    ASSUME WizardInv, NEW r \in WizardRequests, O!Validate(r)
    PROVE  WizardInv'
<1>a. PICK q \in O!Request : q = requests[r] /\ r \in DOMAIN requests
  BY DEF O!Validate, O!At, WizardInv, O!Types
<1>1. /\ O!Complete(requests[r].sess) /\ O!Goes(r, "upsert")
      /\ shown' = shown \cup {<<"totp", q.token, q.sess.secret>>}
      /\ UNCHANGED <<promoted, invites, wizards, otp, attempts, accounts, codes, secrets, sent, failures>>
  BY <1>a DEF O!Validate, O!Mine
<1>2. shown \subseteq shown' /\ TokensCounted'
  BY <1>1, CountStays DEF WizardInv
<1>3. Grows
  BY <1>1, <1>2 DEF Grows
<1>4. AllHonest' /\ RequestTypes'
  BY <1>1, <1>3, <1>a, RequestGoes DEF O!Places
<1>5. /\ secrets' \in 0..MaxSecrets /\ failures' \in 0..MaxFailures
      /\ attempts' \in [Tokens -> 0..(OTPMaxAttempts + 1)]
  BY <1>1 DEF WizardInv, O!Types
<1> QED
  BY <1>1, <1>2, <1>3, <1>4, <1>5, OnlyRequests

(* The account is made from the copy, of which everything was shown.         *)
LEMMA UpsertKeeps ==
    ASSUME WizardInv, NEW r \in WizardRequests, O!UpsertSuperAdmin(r)
    PROVE  WizardInv'
<1>a. PICK q \in O!Request : q = requests[r] /\ r \in DOMAIN requests /\ q.at = "upsert"
  BY DEF O!UpsertSuperAdmin, O!At, WizardInv, O!Types
<1>b. PICK a : a = [token |-> q.token, civil |-> q.sess.civil, secret |-> q.sess.secret]
  OBVIOUS
<1>c. PICK e \in Emails : e = q.sess.email
  BY DEF O!Request, O!Sessions
<1>1. /\ accounts' = O!Put(accounts, e, a) /\ O!Goes(r, "replace")
      /\ UNCHANGED <<promoted, invites, wizards, otp, attempts, codes, secrets, sent, failures, shown>>
  BY <1>a, <1>b, <1>c DEF O!UpsertSuperAdmin, O!Mine
<1>2. /\ DOMAIN accounts' = DOMAIN accounts \cup {e} /\ accounts'[e] = a
      /\ \A d \in DOMAIN accounts : d # e => accounts'[d] = accounts[d]
  BY <1>1 DEF O!Put
<1>3. Grows /\ TokensCounted'
  BY <1>1, <1>2, CountStays DEF Grows, WizardInv
<1>4. Honest(q)
  BY <1>a DEF WizardInv, AllHonest
<1>5. O!Complete(q.sess) /\ <<"totp", q.token, q.sess.secret>> \in shown /\ Proven(q.token, q.sess)
  BY <1>4, <1>a DEF Honest
<1>6. AllHonest' /\ RequestTypes'
  BY <1>1, <1>2, <1>3, <1>5, <1>a, <1>c, RequestGoes DEF O!Places
<1>7. {<<"begun", a.token, e>>, <<"eid", a.token, a.civil>>,
       <<"mail", e>>, <<"totp", a.token, a.secret>>} \subseteq shown
  BY <1>5, <1>b, <1>c DEF Proven, O!Complete
<1>8. AccountWasEarned'
  BY <1>1, <1>2, <1>7 DEF WizardInv, AccountWasEarned, O!AccountWasEarned
<1>9. O!Types'
  BY <1>1, <1>2, <1>6 DEF WizardInv, O!Types, RequestTypes
<1> QED
  BY <1>1, <1>3, <1>6, <1>8, <1>9, SessionsStay, CodesStay DEF WizardInv

(* The recovery codes, for an account that is there.                         *)
LEMMA ReplaceCodesKeeps ==
    ASSUME WizardInv, NEW r \in WizardRequests, O!ReplaceCodes(r)
    PROVE  WizardInv'
<1>a. PICK q \in O!Request : q = requests[r] /\ r \in DOMAIN requests /\ q.at = "replace"
  BY DEF O!ReplaceCodes, O!At, WizardInv, O!Types
<1>1. /\ codes' = codes \cup {q.sess.email} /\ O!Goes(r, "accept")
      /\ UNCHANGED <<promoted, invites, wizards, otp, attempts, accounts, secrets, sent, failures, shown>>
  BY <1>a DEF O!ReplaceCodes
<1>2. Grows /\ TokensCounted'
  BY <1>1, CountStays DEF Grows, WizardInv
<1>3. Honest(q)
  BY <1>a DEF WizardInv, AllHonest
<1>4. /\ O!Complete(q.sess) /\ <<"totp", q.token, q.sess.secret>> \in shown
      /\ q.sess.email \in DOMAIN accounts
  BY <1>3, <1>a DEF Honest
<1>5. AllHonest' /\ RequestTypes'
  BY <1>1, <1>2, <1>4, <1>a, RequestGoes DEF O!Places
<1>6. q.sess.email \in Emails
  BY DEF O!Request, O!Sessions
<1>7. O!Types'
  BY <1>1, <1>5, <1>6 DEF WizardInv, O!Types, RequestTypes
<1> QED
  BY <1>1, <1>2, <1>5, <1>7, SessionsStay, CodesStay, AccountsStay DEF WizardInv

(* The invitation is spent last.                                             *)
LEMMA AcceptKeeps ==
    ASSUME WizardInv, NEW r \in WizardRequests, O!MarkAccepted(r) \/ O!MarkFails(r)
    PROVE  WizardInv'
<1>a. PICK q \in O!Request : q = requests[r] /\ r \in DOMAIN requests /\ q.at = "accept"
  BY DEF O!MarkAccepted, O!MarkFails, O!At, WizardInv, O!Types
<1>b. PICK e : e = q.sess.email
  OBVIOUS
<1>1. /\ UNCHANGED <<promoted, wizards, otp, attempts, accounts, codes, secrets, sent, shown>>
      /\ O!Goes(r, "finish") /\ failures' \in 0..MaxFailures
  BY WizardAssumption DEF O!MarkAccepted, O!MarkFails, O!Fault, WizardInv, O!Types
<1>2. /\ DOMAIN invites' = DOMAIN invites
      /\ \A x \in DOMAIN invites : x # e => invites'[x] = invites[x]
  BY <1>a, <1>b DEF O!MarkAccepted, O!MarkFails, O!Put
<1>3. Grows /\ TokensCounted'
  BY <1>1, CountStays DEF Grows, WizardInv
<1>4. Honest(q)
  BY <1>a DEF WizardInv, AllHonest
<1>5. /\ O!Complete(q.sess) /\ <<"totp", q.token, q.sess.secret>> \in shown
      /\ e \in DOMAIN accounts /\ e \in codes
  BY <1>4, <1>a, <1>b DEF Honest
<1>6. AllHonest' /\ RequestTypes'
  BY <1>1, <1>3, <1>5, <1>a, <1>b, RequestGoes DEF O!Places
<1>7. AccountWasEarned'
  BY <1>1, <1>2, <1>5 DEF WizardInv, AccountWasEarned, O!AccountWasEarned
<1>8. O!Types'
  BY <1>1, <1>2, <1>6 DEF WizardInv, O!Types, RequestTypes
<1> QED
  BY <1>1, <1>3, <1>6, <1>7, <1>8, SessionsStay, CodesStay DEF WizardInv

LEMMA FinishKeeps ==
    ASSUME WizardInv, NEW r \in WizardRequests, O!Finish(r)
    PROVE  WizardInv'
<1>1. /\ O!Ends(r) /\ \A t \in DOMAIN wizards' : t \in DOMAIN wizards /\ wizards'[t] = wizards[t]
      /\ UNCHANGED <<promoted, invites, otp, attempts, accounts, codes, secrets, sent, failures, shown>>
  BY DEF O!Finish, O!Drop
<1>2. Grows /\ TokensCounted'
  BY <1>1, CountStays DEF Grows, WizardInv
<1>3. AllHonest' /\ RequestTypes'
  BY <1>1, <1>2, RequestEnds
<1>4. O!Types'
  BY <1>1, <1>3 DEF WizardInv, O!Types, RequestTypes
<1> QED
  BY <1>1, <1>2, <1>3, <1>4, SessionsStay, CodesStay, AccountsStay DEF WizardInv

(* Keys expire.                                                              *)
LEMMA ExpireKeeps ==
    ASSUME WizardInv, NEW t \in Tokens, O!Expire(t)
    PROVE  WizardInv'
<1>1. /\ UNCHANGED <<promoted, invites, requests, accounts, codes, secrets, sent, shown>>
      /\ \A x \in DOMAIN wizards' : x \in DOMAIN wizards /\ wizards'[x] = wizards[x]
      /\ \A x \in DOMAIN otp' : x \in DOMAIN otp /\ otp'[x] = otp[x]
      /\ attempts' = attempts \/ attempts' = [attempts EXCEPT ![t] = 0]
  BY DEF O!Expire, O!Drop
<1>2. failures' \in 0..MaxFailures
  BY WizardAssumption DEF O!Expire, O!Fault, WizardInv, O!Types
<1>3. Grows /\ TokensCounted'
  BY <1>1, CountStays DEF Grows, WizardInv
<1>4. AllHonest' /\ RequestTypes'
  BY <1>1, <1>3, SameRequests
<1>5. attempts' \in [Tokens -> 0..(OTPMaxAttempts + 1)]
  BY <1>1, WizardAssumption DEF WizardInv, O!Types
<1>6. O!Types'
  BY <1>1, <1>2, <1>4, <1>5 DEF WizardInv, O!Types, RequestTypes
<1> QED
  BY <1>1, <1>3, <1>4, <1>6, SessionsStay, CodesStay, AccountsStay DEF WizardInv

LEMMA WizardInit == ASSUME O!Init PROVE WizardInv
<1>1. /\ promoted \in BOOLEAN /\ invites \in {[e \in Emails |-> "open"], <<>>}
      /\ wizards = <<>> /\ otp = <<>> /\ attempts = [t \in Tokens |-> 0]
      /\ requests = <<>> /\ accounts = <<>> /\ codes = {} /\ secrets = 0 /\ sent = 0
      /\ failures = 0 /\ shown = {}
  BY DEF O!Init
<1>2. DOMAIN <<>> = {}
  OBVIOUS
<1>3. BegunTokens = {}
  BY <1>1 DEF BegunTokens
<1>4. TokensCounted
  BY <1>1, <1>3, FS_EmptySet DEF TokensCounted
<1>5. O!Types
  BY <1>1, <1>2, WizardAssumption DEF O!Types
<1>6. \A e \in DOMAIN invites : invites[e] # "accepted"
  BY <1>1, <1>2
<1>7. AccountWasEarned
  BY <1>1, <1>2, <1>6 DEF AccountWasEarned, O!AccountWasEarned
<1> QED
  BY <1>1, <1>2, <1>4, <1>5, <1>7 DEF WizardInv, SessionsProven, CodesAddressed, AllHonest

LEMMA WizardStep ==
    ASSUME WizardInv, [O!Next]_(O!vars)
    PROVE  WizardInv'
<1>1. CASE UNCHANGED O!vars
  BY <1>1 DEF O!vars, WizardInv, O!Types, TokensCounted, BegunTokens, SessionsProven, CodesAddressed,
     AllHonest, Honest, Proven, O!Complete, AccountWasEarned, O!AccountWasEarned
<1>2. CASE O!Next
  BY <1>2, InvitesKeep, StartPendingKeeps, LoadPendingKeeps, EIDCompleteKeeps, ApprovedKeeps,
     TOTPInitKeeps, EmailSendKeeps, CountingKeeps, GetRequestIDKeeps, SavePendingKeeps,
     ValidateKeeps, UpsertKeeps, ReplaceCodesKeeps, AcceptKeeps, FinishKeeps, ExpireKeeps
  DEF O!Next
<1> QED
  BY <1>1, <1>2

(* The strengthened invariant, at every moment.                              *)
THEOREM WizardInvariant == O!Spec => []WizardInv
<1>1. O!Init => WizardInv
  BY WizardInit
<1>2. WizardInv /\ [O!Next]_(O!vars) => WizardInv'
  BY WizardStep
<1> QED
  BY <1>1, <1>2, PTL DEF O!Spec

(* However the requests of all tokens overwrite one another, behind every    *)
(* account of a super administrator is everything the wizard asks for, shown *)
(* under one token that was begun for its address, and only such accounts    *)
(* spend invitations (onboarding_impl.go, requireStep; onboarding_totp.go,   *)
(* TOTPVerify).                                                              *)
THEOREM AccountsAreEarned == O!Spec => []AccountWasEarned
<1>1. WizardInv => AccountWasEarned
  BY DEF WizardInv
<1> QED
  BY <1>1, WizardInvariant, PTL

-----------------------------------------------------------------------------
(* All parts together: the types of every one of them, at every moment.      *)
THEOREM PlatformTyping ==
    Spec /\ U!Spec /\ M!Spec /\ A!Spec /\ O!Spec /\ F!Spec /\ G!Spec /\ R!Spec => []KernelTypes
<1>1. /\ UpdaterInv => U!TypeOK
      /\ MigrationsInv => M!TypeOK
      /\ AuditInv => A!Types
      /\ WizardInv => O!Types
      /\ MFAInv => F!Types
      /\ RolesInv => R!Types
  BY DEF UpdaterInv, MigrationsInv, AuditInv, WizardInv, MFAInv, RolesInv
<1>2. OrgInv => G!Types
  BY DEF OrgInv
<1>3. TypeOK /\ U!TypeOK /\ M!TypeOK /\ A!Types /\ O!Types /\ F!Types /\ G!Types /\ R!Types
         => KernelTypes
  BY DEF KernelTypes
<1>4. G!Spec => []OrgInv
  <2>1. G!Init => OrgInv
    BY OrgInit
  <2>2. OrgInv /\ [G!Next]_(G!vars) => OrgInv'
    BY OrgStep
  <2> QED
    BY <2>1, <2>2, PTL DEF G!Spec
<1> QED
  BY <1>1, <1>2, <1>3, <1>4, Typing, UpdaterInvariant, MigrationsInvariant, AuditInvariant,
     WizardInvariant, MFAInvariant, RolesInvariant, PTL
=============================================================================
