--------------------------- MODULE LearningProofs ---------------------------
(***************************************************************************)
(* The boot of the backend implements Release, for any releases, whatever  *)
(* boots were cut off and whichever release came before; and so it does    *)
(* with learners on top, for any tabs and requests at a time.  Of what a   *)
(* learner sees of the catalogue: the pages count the same challenges,     *)
(* nobody is charged for a hint that does not exist, and a banner is       *)
(* earned.                                                                 *)
(*                                                                         *)
(* The invariant of the boot says what each of its phases has achieved.    *)
(* Nothing is known of the tables while the process is down but that the   *)
(* names in schema_migrations are those of the files that were committed:  *)
(* every boot has to establish the rest by itself.  A boot, wherever it is *)
(* cut off, only adds: a challenge keeps its category (Stocked), and the   *)
(* hints of a challenge are at all times the first few of some release.    *)
(* The learner's facts are then stable under deployments, so an action has *)
(* only to establish those it writes.                                      *)
(***************************************************************************)
EXTENDS Learning, Sums

-----------------------------------------------------------------------------
(* The boot.                                                               *)

Phases == Booting \cup {"down", "serving"}

Types ==
  /\ release \in Releases
  /\ phase \in Phases
  /\ ran \in [Files -> {0, 1}]
  /\ schema = {f \in Files : ran[f] = 1}
  /\ rows = [s \in Slugs |-> rows[s]]
  /\ hints = [s \in Slugs |-> hints[s]]

\* What is neither committed nor open is still to do; the open file is the
\* first of those.
Migrating ==
  /\ phase = "migrate" =>
       /\ todo \subseteq release.files
       /\ todo \cap schema = {}
       /\ release.files \ todo \subseteq schema
       /\ txn # NoFile => txn \in todo /\ \A g \in todo : txn <= g
  /\ phase # "migrate" => txn = NoFile
  /\ phase \in {"seed", "sync", "reconcile", "serving"} => release.files \subseteq schema

Seeding ==
  /\ phase = "seed" => Known \ seeds \subseteq categories
  /\ phase \in {"sync", "reconcile", "serving"} => Known \subseteq categories

\* The tables hold challenge s as the deployed release has it.
InTables(s) ==
  rows[s] = release.disk[s].category /\ hints[s] = release.disk[s].hints

\* What has been written of the directory the sync is at.
Halfway ==
  dir # NoSlug =>
    /\ dir \in Slugs
    /\ stage \in {"upsert", "delete", "insert"}
    /\ stage \in {"delete", "insert"} => rows[dir] = release.disk[dir].category
    /\ stage = "insert" => /\ left \subseteq release.disk[dir].hints
                           /\ hints[dir] = release.disk[dir].hints \ left

Syncing ==
  /\ phase # "sync" => dir = NoSlug
  /\ phase = "sync" =>
       /\ \A s \in R!Listed(release) : s \in dirs \/ s = dir \/ InTables(s)
       /\ Halfway
  /\ phase \in {"reconcile", "serving"} => \A s \in R!Listed(release) : InTables(s)

BootInv == Types /\ Migrating /\ Seeding /\ Syncing

-----------------------------------------------------------------------------
LEMMA InitBoot == BootInit => BootInv
BY DEF BootInit, BootInv, Types, Phases, Booting, Migrating, Seeding, Syncing

\* The types survive every step.
LEMMA TypesStep ==
  ASSUME BootInv, [BootNext]_bootVars
  PROVE  Types'
<1> USE DEF tables, migrating, syncing
<1> Types /\ Migrating
  BY DEF BootInv
<1>1. ASSUME Deploy \/ StartProcess \/ Connect \/ ReadApplied \/ LogFile \/ Migrated
             \/ Seeded \/ SyncedOne \/ Synced \/ Listen
      PROVE  Types'
  BY <1>1 DEF Types, Phases, Booting, Deploy, StartProcess, Connect, ReadApplied, LogFile,
     Migrated, Seeded, SyncedOne, Synced, Listen
<1>2. ASSUME BootFails \/ ProcessEnds \/ ConnectFails  PROVE Types'
  BY <1>2 DEF Types, Phases, Booting, BootFails, ProcessEnds, ConnectFails, Gone
<1>3. ASSUME NEW f \in Files, BeginFile(f)  PROVE Types'
  BY <1>3 DEF Types, BeginFile
<1>4. ASSUME CommitFile  PROVE Types'
  <2>1. txn \in Files /\ txn \notin schema
    BY <1>4, ReleasesAssumption DEF CommitFile, Types, Migrating
  <2>2. ran[txn] = 0
    BY <2>1 DEF Types
  <2>3. ran' = [ran EXCEPT ![txn] = 1]
    BY <1>4, <2>2 DEF CommitFile
  <2>4. ran' \in [Files -> {0, 1}]
    BY <2>3 DEF Types
  <2>5. schema' = {f \in Files : ran'[f] = 1}
    BY <1>4, <2>1, <2>3 DEF CommitFile, Types
  <2> QED
    BY <1>4, <2>4, <2>5 DEF CommitFile, Types
<1>5. ASSUME NEW c \in Known, SeedCategory(c)  PROVE Types'
  BY <1>5 DEF Types, SeedCategory
<1>6. ASSUME NEW s \in Slugs, LookUp(s)  PROVE Types'
  BY <1>6 DEF Types, LookUp, Visit
<1>7. ASSUME Upsert \/ DeleteHints  PROVE Types'
  BY <1>7 DEF Types, Upsert, DeleteHints
<1>8. ASSUME NEW h \in left, InsertHint(h)  PROVE Types'
  BY <1>8 DEF Types, InsertHint
<1>9. CASE UNCHANGED bootVars
  BY <1>9 DEF Types, bootVars
<1> QED
  BY <1>1, <1>2, <1>3, <1>4, <1>5, <1>6, <1>7, <1>8, <1>9 DEF BootNext

\* Only the phase "migrate" touches the names, and it leaves with all of them.
LEMMA MigratingStep ==
  ASSUME BootInv, [BootNext]_bootVars
  PROVE  Migrating'
<1> USE DEF tables, migrating, syncing
<1> Types /\ Migrating
  BY DEF BootInv
<1>1. ASSUME Deploy \/ StartProcess \/ Connect \/ ReadApplied \/ Migrated
             \/ BootFails \/ ProcessEnds \/ ConnectFails
      PROVE  Migrating'
  BY <1>1 DEF Types, Migrating, Deploy, StartProcess, Connect, ReadApplied, Migrated,
     BootFails, ProcessEnds, ConnectFails, Gone, Booting
<1>2. ASSUME NEW f \in Files, BeginFile(f)  PROVE Migrating'
  BY <1>2 DEF Migrating, BeginFile
<1>3. ASSUME LogFile  PROVE Migrating'
  BY <1>3 DEF Migrating, LogFile
<1>4. ASSUME CommitFile  PROVE Migrating'
  BY <1>4 DEF Migrating, CommitFile
<1>5. ASSUME NEW c \in Known, SeedCategory(c)  PROVE Migrating'
  BY <1>5 DEF Migrating, SeedCategory
<1>6. ASSUME NEW s \in Slugs, LookUp(s)  PROVE Migrating'
  BY <1>6 DEF Migrating, LookUp, Visit
<1>7. ASSUME Seeded \/ Upsert \/ DeleteHints \/ SyncedOne \/ Synced \/ Listen
      PROVE  Migrating'
  BY <1>7 DEF Migrating, Seeded, Upsert, DeleteHints, SyncedOne, Synced, Listen
<1>8. ASSUME NEW h \in left, InsertHint(h)  PROVE Migrating'
  BY <1>8 DEF Migrating, InsertHint
<1>9. CASE UNCHANGED bootVars
  BY <1>9 DEF Migrating, bootVars
<1> QED
  BY <1>1, <1>2, <1>3, <1>4, <1>5, <1>6, <1>7, <1>8, <1>9 DEF BootNext

\* A category, once in the table, stays.
LEMMA SeedingStep ==
  ASSUME BootInv, [BootNext]_bootVars
  PROVE  Seeding'
<1> USE DEF tables, migrating, syncing
<1> Seeding
  BY DEF BootInv
<1>1. ASSUME Deploy \/ StartProcess \/ Connect \/ ReadApplied \/ LogFile \/ CommitFile
             \/ Migrated \/ BootFails \/ ProcessEnds \/ ConnectFails
      PROVE  Seeding'
  BY <1>1 DEF Seeding, Deploy, StartProcess, Connect, ReadApplied, LogFile, CommitFile,
     Migrated, BootFails, ProcessEnds, ConnectFails, Gone
<1>2. ASSUME NEW f \in Files, BeginFile(f)  PROVE Seeding'
  BY <1>2 DEF Seeding, BeginFile
<1>3. ASSUME NEW c \in Known, SeedCategory(c)  PROVE Seeding'
  BY <1>3 DEF Seeding, SeedCategory
<1>4. ASSUME NEW s \in Slugs, LookUp(s)  PROVE Seeding'
  BY <1>4 DEF Seeding, LookUp, Visit
<1>5. ASSUME Seeded \/ Upsert \/ DeleteHints \/ SyncedOne \/ Synced \/ Listen
      PROVE  Seeding'
  BY <1>5 DEF Seeding, Seeded, Upsert, DeleteHints, SyncedOne, Synced, Listen
<1>6. ASSUME NEW h \in left, InsertHint(h)  PROVE Seeding'
  BY <1>6 DEF Seeding, InsertHint
<1>7. CASE UNCHANGED bootVars
  BY <1>7 DEF Seeding, bootVars
<1> QED
  BY <1>1, <1>2, <1>3, <1>4, <1>5, <1>6, <1>7 DEF BootNext

\* Each step of the sync is about the directory it is at; every other listed
\* challenge is in the tables already or still to be visited.
LEMMA SyncingStep ==
  ASSUME BootInv, [BootNext]_bootVars
  PROVE  Syncing'
<1> USE DEF tables, migrating, syncing
<1> Types /\ Seeding /\ Syncing
  BY DEF BootInv
<1>1. ASSUME Deploy \/ StartProcess \/ Connect \/ ReadApplied \/ LogFile \/ CommitFile
             \/ Migrated \/ BootFails \/ ProcessEnds \/ ConnectFails
      PROVE  Syncing'
  BY <1>1 DEF Syncing, Halfway, InTables, R!Listed, Deploy, StartProcess, Connect,
     ReadApplied, LogFile, CommitFile, Migrated, BootFails, ProcessEnds, ConnectFails,
     Gone, Booting
<1>2. ASSUME NEW f \in Files, BeginFile(f)  PROVE Syncing'
  BY <1>2 DEF Syncing, BeginFile
<1>3. ASSUME NEW c \in Known, SeedCategory(c)  PROVE Syncing'
  BY <1>3 DEF Syncing, SeedCategory
<1>4. ASSUME Seeded  PROVE Syncing'
  BY <1>4 DEF Syncing, Halfway, InTables, R!Listed, Seeded
<1>5. ASSUME NEW s \in Slugs, LookUp(s)  PROVE Syncing'
  <2>1. phase = "sync" /\ phase' = "sync" /\ dir = NoSlug /\ dirs' = dirs \ {s}
        /\ UNCHANGED <<release, rows, hints>>
    BY <1>5 DEF LookUp, Visit
  <2>2. R!Listed(release)' = R!Listed(release)
    BY <2>1 DEF R!Listed
  <2>3. ASSUME NEW x \in R!Listed(release)
        PROVE  x \in dirs' \/ x = dir' \/ InTables(x)'
    <3>1. x \in Slugs /\ release.disk[x].category \in Known /\ x # NoSlug
      BY AbsentAssumption DEF R!Listed
    <3>2. x \in dirs \/ InTables(x)
      BY <2>1, <3>1 DEF Syncing
    <3>3. CASE x = s
      BY <1>5, <2>1, <3>1, <3>3 DEF LookUp, Seeding
    <3>4. CASE x # s
      BY <2>1, <3>2, <3>4 DEF InTables
    <3> QED
      BY <3>3, <3>4
  <2>4. Halfway'
    BY <1>5, <2>1 DEF LookUp, Halfway
  <2> QED
    BY <2>1, <2>2, <2>3, <2>4 DEF Syncing
<1>6. ASSUME Upsert  PROVE Syncing'
  <2>1. phase = "sync" /\ phase' = "sync" /\ dir # NoSlug /\ dir \in Slugs
        /\ stage' = "delete" /\ UNCHANGED <<release, hints, dirs, dir>>
    BY <1>6 DEF Upsert, Syncing, Halfway
  <2>2. /\ rows'[dir] = release.disk[dir].category
        /\ \A x \in Slugs : x # dir => rows'[x] = rows[x]
    BY <1>6, <2>1 DEF Upsert, Types
  <2> QED
    BY <2>1, <2>2 DEF Syncing, Halfway, InTables, R!Listed
<1>7. ASSUME DeleteHints  PROVE Syncing'
  <2>1. phase = "sync" /\ phase' = "sync" /\ dir # NoSlug /\ dir \in Slugs
        /\ rows[dir] = release.disk[dir].category
        /\ stage' = "insert" /\ left' = release.disk[dir].hints
        /\ UNCHANGED <<release, rows, dirs, dir>>
    BY <1>7 DEF DeleteHints, Syncing, Halfway
  <2>2. /\ hints'[dir] = {}
        /\ \A x \in Slugs : x # dir => hints'[x] = hints[x]
    BY <1>7, <2>1 DEF DeleteHints, Types
  <2> QED
    BY <2>1, <2>2 DEF Syncing, Halfway, InTables, R!Listed
<1>8. ASSUME NEW h \in left, InsertHint(h)  PROVE Syncing'
  <2>1. phase = "sync" /\ phase' = "sync" /\ dir # NoSlug /\ dir \in Slugs
        /\ rows[dir] = release.disk[dir].category /\ stage = "insert"
        /\ left \subseteq release.disk[dir].hints
        /\ hints[dir] = release.disk[dir].hints \ left
        /\ left' = left \ {h} /\ UNCHANGED <<release, rows, dirs, dir, stage>>
    BY <1>8 DEF InsertHint, Syncing, Halfway
  <2>2. /\ hints'[dir] = hints[dir] \cup {h}
        /\ \A x \in Slugs : x # dir => hints'[x] = hints[x]
    BY <1>8, <2>1 DEF InsertHint, Types
  <2>3. left' \subseteq release.disk[dir].hints
        /\ hints'[dir] = release.disk[dir].hints \ left'
    BY <2>1, <2>2
  <2> QED
    BY <2>1, <2>2, <2>3 DEF Syncing, Halfway, InTables, R!Listed
<1>9. ASSUME SyncedOne  PROVE Syncing'
  <2>1. InTables(dir)
    BY <1>9 DEF SyncedOne, Syncing, Halfway, InTables
  <2> QED
    BY <1>9, <2>1 DEF SyncedOne, Syncing, Halfway, InTables, R!Listed
<1>10. ASSUME Synced  PROVE Syncing'
  <2>1. \A s \in R!Listed(release) : InTables(s)
    BY <1>10, AbsentAssumption DEF Synced, Syncing, R!Listed
  <2> QED
    BY <1>10, <2>1 DEF Synced, Syncing, InTables, R!Listed
<1>11. ASSUME Listen  PROVE Syncing'
  BY <1>11 DEF Listen, Syncing, InTables, R!Listed
<1>12. CASE UNCHANGED bootVars
  BY <1>12 DEF Syncing, Halfway, InTables, R!Listed, bootVars
<1> QED
  BY <1>1, <1>2, <1>3, <1>4, <1>5, <1>6, <1>7, <1>8, <1>9, <1>10, <1>11, <1>12
  DEF BootNext

-----------------------------------------------------------------------------
(* The steps of the boot as steps of Release.                              *)

\* A commit is the migration of the first file that had not run.
LEMMA CommitMigrates ==
  ASSUME BootInv, CommitFile
  PROVE  R!Migrate(txn) /\ txn \in Files
<1>1. /\ txn \in todo /\ txn \in release.files /\ txn \in Files /\ txn \notin schema
      /\ \A g \in todo : txn <= g
      /\ release.files \subseteq Files /\ release.files \ todo \subseteq schema
      /\ phase = "migrate"
  BY ReleasesAssumption DEF BootInv, CommitFile, Types, Migrating
<1>2. ran[txn] = 0
  BY <1>1 DEF BootInv, Types
<1>3. \A g \in release.files : g < txn => ran[g] = 1
  BY <1>1, FilesAssumption DEF BootInv, Types
<1>4. ran' = [ran EXCEPT ![txn] = 1]
  BY <1>2 DEF CommitFile
<1>5. phase' = "migrate" /\ release' = release
  BY <1>1 DEF CommitFile
<1> QED
  BY <1>1, <1>2, <1>3, <1>4, <1>5 DEF R!Migrate

\* Listening publishes the tables, which hold the whole release.
LEMMA ListenPublishes ==
  ASSUME BootInv, Listen
  PROVE  R!Publish
<1>1. phase = "reconcile" /\ phase' = "serving"
      /\ UNCHANGED <<release, ran, rows, hints>>
  BY DEF Listen, tables
<1>2. \A f \in release.files : ran[f] = 1
  BY <1>1, ReleasesAssumption DEF BootInv, Types, Migrating
<1>3. Served' = Served
  BY <1>1 DEF Served, Entry
<1>4. ASSUME NEW s \in R!Listed(release)
      PROVE  Served[s] = release.disk[s]
  <2>1. s \in Slugs /\ release.disk[s] # NoEntry /\ release.disk[s].category \in Known
    BY DEF R!Listed
  <2>2. rows[s] = release.disk[s].category /\ hints[s] = release.disk[s].hints
    BY <1>1 DEF BootInv, Syncing, InTables
  <2>3. rows[s] # NoEntry
    BY <2>1, <2>2, AbsentAssumption
  <2>4. release.disk[s] = [category |-> rows[s], hints |-> hints[s]]
    BY <2>1, <2>2, ReleasesAssumption DEF BootInv, Types
  <2> QED
    BY <2>1, <2>3, <2>4 DEF Served, Entry
<1> QED
  BY <1>1, <1>2, <1>3, <1>4 DEF R!Publish

LEMMA StepImplements ==
  ASSUME BootInv, [BootNext]_bootVars
  PROVE  [R!Next]_(R!vars)
<1> USE DEF tables, migrating, syncing
<1>1. ASSUME Deploy  PROVE R!Deploy
  BY <1>1 DEF Deploy, R!Deploy
<1>2. ASSUME ProcessEnds  PROVE R!Withdraw
  BY <1>2 DEF ProcessEnds, Gone, R!Withdraw
<1>3. ASSUME \/ StartProcess \/ BootFails \/ ConnectFails \/ Connect \/ ReadApplied
             \/ LogFile \/ Migrated \/ Seeded \/ Upsert \/ DeleteHints \/ SyncedOne \/ Synced
             \/ \E f \in Files : BeginFile(f)
             \/ \E c \in Known : SeedCategory(c)
             \/ \E s \in Slugs : LookUp(s)
             \/ \E h \in left : InsertHint(h)
      PROVE  phase # "serving" /\ phase' # "serving" /\ UNCHANGED <<release, ran>>
  BY <1>3 DEF StartProcess, BootFails, ConnectFails, Connect, ReadApplied, LogFile, Migrated,
     Seeded, Upsert, DeleteHints, SyncedOne, Synced, BeginFile, SeedCategory, LookUp, Visit,
     InsertHint, Gone, Booting
<1>4. ASSUME UNCHANGED bootVars  PROVE UNCHANGED R!vars
  BY <1>4 DEF bootVars, R!vars, Served, Entry
<1>5. ASSUME phase # "serving", phase' # "serving", UNCHANGED <<release, ran>>
      PROVE  UNCHANGED R!vars
  BY <1>5 DEF R!vars
<1> QED
  BY <1>1, <1>2, <1>3, <1>4, <1>5, CommitMigrates, ListenPublishes DEF BootNext, R!Next

\* The boot implements Release: whenever requests are served, every migration
\* of the deployed image ran once and in order, and every listed challenge is
\* served with the category and the hints of its directory.
THEOREM ReleaseServedAlways == BootSpec => ReleaseServed
<1>1. BootInit => R!Init
  BY DEF BootInit, R!Init
<1>2. BootInv /\ [BootNext]_bootVars => BootInv'
  BY TypesStep, MigratingStep, SeedingStep, SyncingStep DEF BootInv
<1> QED
  BY <1>1, <1>2, InitBoot, StepImplements, PTL DEF BootSpec, ReleaseServed, R!Spec

-----------------------------------------------------------------------------
(* The learners' invariant.                                                *)

Given(s, h) == \E r \in Releases : r.disk[s] # NoEntry /\ h \in r.disk[s].hints

Occupied(c) == \E s \in Slugs : rows[s] # NoEntry /\ rows[s] = c

\* The tables hold what some release had.
Stocked ==
  /\ categories \subseteq Known /\ seeds \subseteq Known
  /\ phase = "sync" => \A s \in dirs : s \in Slugs /\ release.disk[s] # NoEntry
  /\ dir # NoSlug => dir \in R!Listed(release)
  /\ \A s \in Slugs : rows[s] # NoEntry =>
       \E q \in Releases : s \in R!Listed(q) /\ rows[s] = q.disk[s].category
  /\ \A s \in Slugs : \E n \in Nat : hints[s] = 1..n
  /\ \A s \in Slugs : \A h \in hints[s] : Given(s, h)

\* A session is charged for hints that some release gave its challenge.
Charged ==
  /\ slugOf \in [Sessions -> Slugs \cup {NoSlug}]
  /\ used \in [Sessions -> Nat]
  /\ reveal = [r \in Reveals |-> reveal[r]]
  /\ \A i \in Sessions :
       /\ slugOf[i] # NoSlug => rows[slugOf[i]] # NoEntry
       /\ used[i] > 0 => slugOf[i] # NoSlug /\ Given(slugOf[i], used[i])
  /\ \A r \in Reveals : reveal[r] # None =>
       /\ reveal[r].session \in Sessions /\ slugOf[reveal[r].session] # NoSlug
       /\ reveal[r].next \in Nat
       /\ reveal[r].found => Given(slugOf[reveal[r].session], reveal[r].next)

\* An answer of GET /api/progress tells the truth, of now or of the past.
Truthful(answer) ==
  answer # None =>
    /\ answer.solved = 1 => solved # {}
    /\ \A c \in DOMAIN answer.cats : 0 < answer.cats[c].total =>
         /\ Occupied(c)
         /\ answer.cats[c].solved = answer.cats[c].total => c \in everComplete

\* A snapshot is of an answer that the cache has kept, or has replaced by one
\* in which the category still has a challenge.
Snapshot(b, t) ==
  b # None /\ 0 < b.row.total =>
    /\ Occupied(b.category)
    /\ data[t] # None /\ b.category \in DOMAIN data[t].cats =>
         0 < data[t].cats[b.category].total

Earned ==
  /\ check = [t \in Tabs |-> check[t]] /\ fetch = [t \in Tabs |-> fetch[t]]
  /\ data = [t \in Tabs |-> data[t]] /\ awaiting = [t \in Tabs |-> awaiting[t]]
  /\ banner = [t \in Tabs |-> banner[t]]
  /\ \A t \in Tabs :
       /\ fetch[t] # None /\ fetch[t].solved = 1 => solved # {}
       /\ Truthful(data[t])
       /\ check[t] # None =>
            /\ check[t] = [session |-> check[t].session, before |-> check[t].before,
                           result |-> check[t].result]
            /\ Snapshot(check[t].before, t)
       /\ awaiting[t] # None => Snapshot(awaiting[t].before, t)
  /\ CelebrationEarned

LearnInv == BootInv /\ Stocked /\ Charged /\ Earned

-----------------------------------------------------------------------------
(* The catalogue.                                                          *)

LEMMA InitStocked == BootInit => Stocked
<1> SUFFICES ASSUME BootInit  PROVE Stocked
  OBVIOUS
<1>1. 1..0 = {}
  OBVIOUS
<1>2. \A s \in Slugs : hints[s] = {} /\ rows[s] = NoEntry
  BY DEF BootInit
<1> QED
  BY <1>1, <1>2 DEF BootInit, Stocked

\* A challenge that is in the tables keeps its category whatever is deployed.
LEMMA RowsStay ==
  ASSUME BootInv, Stocked, [BootNext]_bootVars
  PROVE  \A s \in Slugs : rows[s] # NoEntry => rows'[s] = rows[s]
<1> USE DEF tables, migrating, syncing
<1>1. ASSUME Upsert, NEW s \in Slugs, rows[s] # NoEntry
      PROVE  rows'[s] = rows[s]
  <2>1. rows' = [rows EXCEPT ![dir] = release.disk[dir].category]
        /\ dir \in R!Listed(release) /\ release \in Releases
        /\ rows = [x \in Slugs |-> rows[x]]
    BY <1>1 DEF Upsert, Stocked, BootInv, Types
  <2>2. CASE s = dir
    <3>1. PICK q \in Releases : s \in R!Listed(q) /\ rows[s] = q.disk[s].category
      BY <1>1 DEF Stocked
    <3>2. release.disk[s].category = q.disk[s].category
      BY <2>1, <2>2, <3>1, CategoriesAssumption
    <3> QED
      BY <2>1, <2>2, <3>1, <3>2
  <2>3. CASE s # dir
    BY <2>1, <2>3
  <2> QED
    BY <2>2, <2>3
<1>2. ASSUME [BootNext]_bootVars, ~Upsert
      PROVE  UNCHANGED rows
  BY <1>2 DEF bootVars, BootNext, Deploy, StartProcess, BootFails, ProcessEnds, ConnectFails,
     Connect, ReadApplied, BeginFile, LogFile, CommitFile, Migrated, SeedCategory, Seeded,
     LookUp, Visit, DeleteHints, InsertHint, SyncedOne, Synced, Listen, Gone
<1> QED
  BY <1>1, <1>2

LEMMA StockedStep ==
  ASSUME BootInv, Stocked, [BootNext]_bootVars
  PROVE  Stocked'
<1> USE DEF tables, migrating, syncing
<1> Types /\ Syncing
  BY DEF BootInv
<1>1. ASSUME Deploy \/ StartProcess \/ Connect \/ ReadApplied \/ LogFile \/ CommitFile
             \/ BootFails \/ ProcessEnds \/ ConnectFails
      PROVE  Stocked'
  BY <1>1 DEF Stocked, Syncing, Given, Deploy, StartProcess, Connect, ReadApplied, LogFile,
     CommitFile, BootFails, ProcessEnds, ConnectFails, Gone, Booting
<1>2. ASSUME NEW f \in Files, BeginFile(f)  PROVE Stocked'
  BY <1>2 DEF Stocked, Given, BeginFile
<1>3. ASSUME NEW c \in Known, SeedCategory(c)  PROVE Stocked'
  BY <1>3 DEF Stocked, Given, SeedCategory
<1>4. ASSUME NEW s \in Slugs, LookUp(s)  PROVE Stocked'
  <2>1. /\ phase = "sync" /\ s \in dirs /\ dirs' = dirs \ {s} /\ dir = NoSlug
        /\ dir' = NoSlug \/ (dir' = s /\ release.disk[s].category \in categories)
        /\ UNCHANGED <<release, phase, categories, seeds, rows, hints>>
    BY <1>4 DEF LookUp, Visit
  <2>2. dir' # NoSlug => dir' \in R!Listed(release)
    BY <2>1 DEF Stocked, R!Listed
  <2> QED
    BY <2>1, <2>2 DEF Stocked, Given
<1>5. ASSUME Migrated \/ Seeded \/ SyncedOne \/ Synced \/ Listen
      PROVE  Stocked'
  BY <1>5 DEF Stocked, Given, Migrated, Seeded, SyncedOne, Synced, Listen
<1>6. ASSUME Upsert  PROVE Stocked'
  <2>1. /\ rows' = [rows EXCEPT ![dir] = release.disk[dir].category]
        /\ dir \in R!Listed(release) /\ release \in Releases
        /\ UNCHANGED <<release, phase, categories, seeds, dirs, dir, hints>>
    BY <1>6 DEF Upsert, Stocked, Types
  <2>2. ASSUME NEW s \in Slugs, rows'[s] # NoEntry
        PROVE  \E q \in Releases : s \in R!Listed(q) /\ rows'[s] = q.disk[s].category
    BY <2>1, <2>2 DEF Stocked, Types
  <2> QED
    BY <2>1, <2>2 DEF Stocked, Given
<1>7. ASSUME DeleteHints  PROVE Stocked'
  <2>1. /\ hints' = [hints EXCEPT ![dir] = {}]
        /\ UNCHANGED <<release, phase, categories, seeds, dirs, dir, rows>>
    BY <1>7 DEF DeleteHints
  <2>2. \A s \in Slugs : hints'[s] = hints[s] \/ hints'[s] = {}
    BY <2>1 DEF Types
  <2>3. 1..0 = {}
    OBVIOUS
  <2>4. \A s \in Slugs : \E n \in Nat : hints'[s] = 1..n
    BY <2>2, <2>3 DEF Stocked
  <2>5. \A s \in Slugs : \A h \in hints'[s] : Given(s, h)
    BY <2>2 DEF Stocked
  <2> QED
    BY <2>1, <2>4, <2>5 DEF Stocked, Given
<1>8. ASSUME NEW h \in left, InsertHint(h)  PROVE Stocked'
  <2>1. /\ dir # NoSlug /\ phase = "sync" /\ stage = "insert" /\ \A g \in left : h <= g
        /\ hints' = [hints EXCEPT ![dir] = @ \cup {h}]
        /\ UNCHANGED <<release, phase, categories, seeds, dirs, dir, rows>>
    BY <1>8 DEF InsertHint
  <2>2. /\ dir \in Slugs /\ release \in Releases /\ release.disk[dir] # NoEntry
        /\ left \subseteq release.disk[dir].hints
        /\ hints[dir] = release.disk[dir].hints \ left
    BY <2>1 DEF Syncing, Halfway, Stocked, Types, R!Listed
  <2>3. PICK n \in Nat : release.disk[dir].hints = 1..n
    <3> DEFINE all == release.disk[dir].hints
    <3>1. IsFiniteSet(all) /\ all = 1..Cardinality(all)
      BY <2>2, HintsAssumption
    <3>2. Cardinality(all) \in Nat
      BY <3>1, FS_CardinalityType
    <3> QED
      BY <3>1, <3>2
  <2>4. PICK k \in Nat : hints[dir] = 1..k
    BY <2>2 DEF Stocked
  <2>5. h = k + 1
    <3>1. h \in 1..n /\ h \notin 1..k /\ left = (1..n) \ (1..k)
      BY <2>2, <2>3, <2>4
    <3>2. k + 1 \in left
      BY <3>1
    <3> QED
      BY <2>1, <3>1, <3>2
  <2>6. hints[dir] \cup {h} = 1..(k + 1)
    BY <2>4, <2>5
  <2>7. /\ hints'[dir] = hints[dir] \cup {h}
        /\ \A s \in Slugs : s # dir => hints'[s] = hints[s]
    BY <2>1, <2>2 DEF Types
  <2>8. \A s \in Slugs : \E m \in Nat : hints'[s] = 1..m
    <3>1. k + 1 \in Nat /\ hints'[dir] = 1..(k + 1)
      BY <2>6, <2>7
    <3> QED
      BY <2>7, <3>1 DEF Stocked
  <2>9. \A s \in Slugs : \A g \in hints'[s] : Given(s, g)
    BY <2>2, <2>7 DEF Stocked, Given
  <2> QED
    BY <2>1, <2>8, <2>9 DEF Stocked, Given
<1>9. CASE UNCHANGED bootVars
  BY <1>9 DEF Stocked, Given, bootVars
<1> QED
  BY <1>1, <1>2, <1>3, <1>4, <1>5, <1>6, <1>7, <1>8, <1>9 DEF BootNext

-----------------------------------------------------------------------------
(* What a step leaves alone.                                               *)

\* Only Boot touches the tables.
LEMMA BootOrServing ==
  ASSUME Step
  PROVE  (Boot /\ BootNext) \/ (phase = "serving" /\ UNCHANGED bootVars) \/ \E t \in Tabs : Dismiss(t)
BY DEF Step, Boot, Serving, StartSession, RevealReads, RevealWrites, AskCheck, CheckRuns,
   CheckAnswered, FetchTotals, FetchBreakdown, FetchFails

LEMMA StepBoots ==
  ASSUME [Next]_vars
  PROVE  [BootNext]_bootVars
<1>1. ASSUME Step  PROVE [BootNext]_bootVars
  BY <1>1, BootOrServing DEF Dismiss
<1> QED
  BY <1>1 DEF Next, vars

\* Nothing that was once true of the learner or the catalogue is taken back.
LEMMA OnlyMore ==
  ASSUME LearnInv, [Next]_vars
  PROVE  /\ solved \subseteq solved'
         /\ everComplete \subseteq everComplete'
         /\ \A s \in Slugs : rows[s] # NoEntry => rows'[s] = rows[s]
         /\ \A c : Occupied(c) => Occupied(c)'
<1>1. solved \subseteq solved'
  BY DEF Next, vars, learner, Step, Boot, StartSession, RevealReads, RevealWrites, AskCheck,
     CheckRuns, CheckAnswered, FetchTotals, FetchBreakdown, FetchFails, Dismiss
<1>2. everComplete \subseteq everComplete'
  BY DEF Next, vars
<1>3. \A s \in Slugs : rows[s] # NoEntry => rows'[s] = rows[s]
  BY StepBoots, RowsStay DEF LearnInv
<1> QED
  BY <1>1, <1>2, <1>3 DEF Occupied

-----------------------------------------------------------------------------
(* Hints.                                                                  *)

LEMMA ChargedStep ==
  ASSUME LearnInv, [Next]_vars
  PROVE  Charged'
<1> Charged
  BY DEF LearnInv
<1>0. \A s \in Slugs : rows[s] # NoEntry => rows'[s] # NoEntry
  BY OnlyMore
<1> HIDE DEF LearnInv
<1>1. ASSUME UNCHANGED <<slugOf, used>>,
             UNCHANGED reveal \/ reveal' = [r \in Reveals |-> None]
      PROVE  Charged'
  BY <1>0, <1>1 DEF Charged, Given
<1>2. ASSUME Boot \/ UNCHANGED vars \/ \E t \in Tabs : Dismiss(t)
      PROVE  Charged'
  BY <1>1, <1>2 DEF Boot, requests, vars, learner, Dismiss
<1>3. ASSUME NEW s \in Slugs, StartSession(s)  PROVE Charged'
  <2>1. PICK i \in Sessions : slugOf[i] = NoSlug /\ slugOf' = [slugOf EXCEPT ![i] = s]
    BY <1>3 DEF StartSession
  <2>2. s \in Slugs /\ rows'[s] # NoEntry /\ UNCHANGED <<used, reveal>>
    BY <1>0, <1>3 DEF StartSession, Stored, requests
  <2>3. s # NoSlug
    BY AbsentAssumption
  <2>4. \A j \in Sessions : slugOf[j] # NoSlug => slugOf'[j] = slugOf[j]
    BY <2>1 DEF Charged
  <2>5. \A j \in Sessions : slugOf'[j] # NoSlug => rows'[slugOf'[j]] # NoEntry
    BY <1>0, <2>1, <2>2 DEF Charged
  <2>6. slugOf' \in [Sessions -> Slugs \cup {NoSlug}]
    BY <2>1 DEF Charged
  <2>7. \A j \in Sessions : used'[j] > 0 => slugOf'[j] # NoSlug /\ Given(slugOf'[j], used'[j])
    BY <2>2, <2>4 DEF Charged
  <2>8. \A r \in Reveals : reveal'[r] # None =>
          /\ reveal'[r].session \in Sessions /\ slugOf'[reveal'[r].session] # NoSlug
          /\ reveal'[r].next \in Nat
          /\ reveal'[r].found => Given(slugOf'[reveal'[r].session], reveal'[r].next)
    BY <2>2, <2>4 DEF Charged
  <2> QED
    BY <2>2, <2>5, <2>6, <2>7, <2>8 DEF Charged, Given
<1>4. ASSUME NEW r \in Reveals, NEW i \in Sessions, RevealReads(r, i)  PROVE Charged'
  <2>1. /\ reveal' = [reveal EXCEPT ![r] =
             [session |-> i, next |-> used[i] + 1, found |-> used[i] + 1 \in hints[slugOf[i]]]]
        /\ slugOf[i] # NoSlug /\ UNCHANGED <<slugOf, used>>
    BY <1>4 DEF RevealReads
  <2>2. slugOf[i] \in Slugs /\ used[i] + 1 \in Nat
    BY <2>1 DEF Charged
  <2>3. used[i] + 1 \in hints[slugOf[i]] => Given(slugOf[i], used[i] + 1)
    BY <2>2 DEF LearnInv, Stocked
  <2>4. \A q \in Reveals : reveal'[q] # None =>
          /\ reveal'[q].session \in Sessions /\ slugOf[reveal'[q].session] # NoSlug
          /\ reveal'[q].next \in Nat
          /\ reveal'[q].found => Given(slugOf[reveal'[q].session], reveal'[q].next)
    BY <2>1, <2>2, <2>3 DEF Charged
  <2>5. reveal' = [q \in Reveals |-> reveal'[q]]
    BY <2>1 DEF Charged
  <2> QED
    BY <1>0, <2>1, <2>4, <2>5 DEF Charged, Given
<1>5. ASSUME NEW r \in Reveals, RevealWrites(r)  PROVE Charged'
  <2>1. /\ reveal[r] # None /\ reveal' = [reveal EXCEPT ![r] = None] /\ UNCHANGED slugOf
        /\ used' = IF reveal[r].found
                   THEN [used EXCEPT ![reveal[r].session] = reveal[r].next] ELSE used
    BY <1>5 DEF RevealWrites
  <2>2. used' \in [Sessions -> Nat]
    BY <2>1 DEF Charged
  <2>3. \A j \in Sessions : used'[j] > 0 => slugOf[j] # NoSlug /\ Given(slugOf[j], used'[j])
    BY <2>1 DEF Charged
  <2>4. \A q \in Reveals : reveal'[q] # None => reveal'[q] = reveal[q]
    BY <2>1 DEF Charged
  <2>5. reveal' = [q \in Reveals |-> reveal'[q]]
    BY <2>1 DEF Charged
  <2> QED
    BY <1>0, <2>1, <2>2, <2>3, <2>4, <2>5 DEF Charged, Given
<1>6. ASSUME NEW t \in Tabs,
             \/ \E i \in Sessions : AskCheck(t, i)
             \/ \E result \in {"passed", "failed"} : CheckRuns(t, result)
             \/ CheckAnswered(t) \/ FetchTotals(t) \/ FetchBreakdown(t) \/ FetchFails(t)
      PROVE  Charged'
  BY <1>1, <1>6 DEF AskCheck, CheckRuns, CheckAnswered, FetchTotals, FetchBreakdown, FetchFails
<1> QED
  BY <1>2, <1>3, <1>4, <1>5, <1>6 DEF Next, Step

\* The list of hints and the button agree with the index that the session keeps.
LEMMA CountIsIndex ==
  ASSUME NEW n \in Nat, NEW u \in Nat,
         NEW revealed, revealed = {h \in 1..n : Cardinality({g \in 1..n : g < h}) < u}
  PROVE  /\ revealed = {h \in 1..n : h <= u}
         /\ Cardinality(1..n) = n
         /\ Cardinality(revealed) < n <=> u + 1 \in 1..n
<1>1. Cardinality(1..n) = n
  BY FS_Interval
<1>2. ASSUME NEW h \in 1..n
      PROVE  Cardinality({g \in 1..n : g < h}) = h - 1
  <2>1. {g \in 1..n : g < h} = 1..(h - 1)
    OBVIOUS
  <2>2. Cardinality(1..(h - 1)) = h - 1
    BY FS_Interval
  <2> QED
    BY <2>1, <2>2
<1>3. revealed = {h \in 1..n : h <= u}
  <2>1. \A h \in 1..n : (Cardinality({g \in 1..n : g < h}) < u) = (h <= u)
    <3> TAKE h \in 1..n
    <3>1. h \in Int /\ (h - 1 < u) = (h <= u)
      OBVIOUS
    <3> QED
      BY <1>2, <3>1
  <2> QED
    BY <2>1
<1>4. CASE u < n
  <2>1. revealed = 1..u
    BY <1>3, <1>4
  <2>2. Cardinality(1..u) = u
    BY FS_Interval
  <2>3. Cardinality(revealed) = u
    BY <2>1, <2>2
  <2>4. Cardinality(revealed) < n /\ u + 1 \in 1..n
    BY <1>4, <2>3
  <2> QED
    BY <1>1, <1>3, <2>4
<1>5. CASE n <= u
  <2>1. revealed = 1..n
    BY <1>3, <1>5
  <2>2. Cardinality(revealed) = n
    BY <1>1, <2>1
  <2>3. ~(Cardinality(revealed) < n) /\ u + 1 \notin 1..n
    BY <1>5, <2>2
  <2> QED
    BY <1>1, <1>3, <2>3
<1> QED
  BY <1>4, <1>5

LEMMA InvCharged == LearnInv => ChargedExist
<1> SUFFICES ASSUME LearnInv, NEW i \in Sessions, used[i] > 0
             PROVE  /\ \E r \in Releases : /\ r.disk[slugOf[i]] # NoEntry
                                           /\ used[i] \in r.disk[slugOf[i]].hints
                    /\ HintsState(i).revealed = {h \in hints[slugOf[i]] : h <= used[i]}
                    /\ CanReveal(i) = (used[i] + 1 \in hints[slugOf[i]])
  BY DEF ChargedExist
<1>1. slugOf[i] \in Slugs /\ rows[slugOf[i]] # NoEntry /\ used[i] \in Nat
      /\ Given(slugOf[i], used[i])
  BY DEF LearnInv, Charged
<1>2. PICK n \in Nat : hints[slugOf[i]] = 1..n
  BY <1>1 DEF LearnInv, Stocked
<1> DEFINE shown == {h \in 1..n : Cardinality({g \in 1..n : g < h}) < used[i]}
<1>3. HintsState(i) = [revealed |-> shown, total |-> Cardinality(1..n)]
  BY <1>2 DEF HintsState
<1>4. Detail(slugOf[i]).hintCount = Cardinality(1..n)
  BY <1>1, <1>2 DEF Detail, Stored
<1>5. /\ shown = {h \in 1..n : h <= used[i]}
      /\ Cardinality(1..n) = n
      /\ Cardinality(shown) < n <=> used[i] + 1 \in 1..n
  <2> HIDE DEF shown
  <2>1. ASSUME NEW x, x = shown
        PROVE  /\ x = {h \in 1..n : h <= used[i]}
               /\ Cardinality(1..n) = n
               /\ Cardinality(x) < n <=> used[i] + 1 \in 1..n
    BY <1>1, <2>1, CountIsIndex DEF shown
  <2> QED
    BY <2>1
<1> HIDE DEF shown
<1>6. CanReveal(i) <=> Cardinality(shown) < n
  BY <1>3, <1>4, <1>5 DEF CanReveal
<1>7. /\ HintsState(i).revealed = {h \in hints[slugOf[i]] : h <= used[i]}
      /\ CanReveal(i) <=> used[i] + 1 \in hints[slugOf[i]]
  BY <1>2, <1>3, <1>5, <1>6
<1>8. CanReveal(i) \in BOOLEAN
  BY DEF CanReveal
<1> QED
  BY <1>1, <1>7, <1>8 DEF Given

-----------------------------------------------------------------------------
(* Celebrations.                                                           *)

LEMMA CountFacts ==
  ASSUME NEW S, NEW T, S \subseteq Slugs, T \subseteq S
  PROVE  /\ Cardinality(S) \in Nat
         /\ 0 < Cardinality(S) <=> S # {}
         /\ Cardinality(T) = Cardinality(S) => T = S
<1>1. IsFiniteSet(S)
  BY CountsAssumption, FS_Subset
<1>2. Cardinality(S) \in Nat /\ (Cardinality(S) = 0 <=> S = {})
  BY <1>1, FS_CardinalityType, FS_EmptySet
<1>3. Cardinality(T) = Cardinality(S) => T = S
  BY <1>1, FS_Subset
<1> QED
  BY <1>2, <1>3

\* A fresh answer: what it calls complete is complete now, and a category that
\* has a challenge is counted with one.
LEMMA BreakdownFacts ==
  ASSUME NEW c \in categories
  PROVE  /\ 0 < Breakdown[c].total <=> Occupied(c)
         /\ 0 < Breakdown[c].total /\ Breakdown[c].solved = Breakdown[c].total => Complete(c)
<1> DEFINE all == {s \in Stored : rows[s] = c}
           done == {s \in Stored \cap solved : rows[s] = c}
<1>1. /\ 0 < Cardinality(all) <=> all # {}
      /\ Cardinality(done) = Cardinality(all) => done = all
  <2>1. all \subseteq Slugs /\ done \subseteq all
    BY DEF Stored
  <2> QED
    BY <2>1, CountFacts
<1>2. Breakdown[c].total = Cardinality(all) /\ Breakdown[c].solved = Cardinality(done)
  BY DEF Breakdown
<1>3. all # {} <=> Occupied(c)
  BY DEF Stored, Occupied
<1>4. done = all => all \subseteq solved
  BY DEF Stored
<1> QED
  BY <1>1, <1>2, <1>3, <1>4 DEF Complete

LEMMA LinesNat ==
  ASSUME NEW c \in categories
  PROVE  Breakdown[c].total \in Nat /\ Breakdown[c].solved \in Nat
<1> PICK all, done : /\ all = {s \in Stored : rows[s] = c}
                     /\ done = {s \in Stored \cap solved : rows[s] = c}
  OBVIOUS
<1>1. all \subseteq Slugs /\ done \subseteq all
  BY DEF Stored
<1>2. Cardinality(all) \in Nat /\ Cardinality(done) \in Nat
  BY <1>1, CountFacts
<1> QED
  BY <1>2 DEF Breakdown

\* The sums that ViewsAgree takes, as totals of a function.
LEMMA SumOfTotals ==
  ASSUME IsFiniteSet(categories)
  PROVE  MapThenSumSet(LAMBDA c : Breakdown[c].total, categories)
           = Total([c \in categories |-> Breakdown[c].total], categories)
<1> PICK f : f = [c \in categories |-> Breakdown[c].total]
  OBVIOUS
<1>1. \A s \in SUBSET categories :
        s # {} => f[Some(s)] = Breakdown[CHOOSE x \in s : TRUE].total
  BY DEF Some
<1>2. \A v : SumsUp(v, f, categories) <=>
        v = [s \in SUBSET categories |->
               IF s = {} THEN 0
               ELSE Breakdown[CHOOSE x \in s : TRUE].total + v[s \ {CHOOSE x \in s : TRUE}]]
  BY <1>1 DEF SumsUp, Some
<1>3. PICK g : SumsUp(g, f, categories)
  <2>1. NatOn(f, categories)
    BY LinesNat DEF NatOn
  <2> QED
    BY <2>1, BelowSums
<1>4. \A h : SumsUp(h, f, categories) => h = g
  BY <1>3, SumsUnique
<1>5. MapThenSumSet(LAMBDA c : Breakdown[c].total, categories) = g[categories]
  BY <1>2, <1>3, <1>4 DEF MapThenSumSet, MapThenFoldSet
<1>6. Total(f, categories) = g[categories]
  BY <1>3, TotalUnfolds
<1> QED
  BY <1>5, <1>6

LEMMA SumOfSolved ==
  ASSUME IsFiniteSet(categories)
  PROVE  MapThenSumSet(LAMBDA c : Breakdown[c].solved, categories)
           = Total([c \in categories |-> Breakdown[c].solved], categories)
<1> PICK f : f = [c \in categories |-> Breakdown[c].solved]
  OBVIOUS
<1>1. \A s \in SUBSET categories :
        s # {} => f[Some(s)] = Breakdown[CHOOSE x \in s : TRUE].solved
  BY DEF Some
<1>2. \A v : SumsUp(v, f, categories) <=>
        v = [s \in SUBSET categories |->
               IF s = {} THEN 0
               ELSE Breakdown[CHOOSE x \in s : TRUE].solved + v[s \ {CHOOSE x \in s : TRUE}]]
  BY <1>1 DEF SumsUp, Some
<1>3. PICK g : SumsUp(g, f, categories)
  <2>1. NatOn(f, categories)
    BY LinesNat DEF NatOn
  <2> QED
    BY <2>1, BelowSums
<1>4. \A h : SumsUp(h, f, categories) => h = g
  BY <1>3, SumsUnique
<1>5. MapThenSumSet(LAMBDA c : Breakdown[c].solved, categories) = g[categories]
  BY <1>2, <1>3, <1>4 DEF MapThenSumSet, MapThenFoldSet
<1>6. Total(f, categories) = g[categories]
  BY <1>3, TotalUnfolds
<1> QED
  BY <1>5, <1>6

\* While the process serves, the categories are the known ones and the join of
\* the list with them drops no challenge.
LEMMA JoinDropsNone ==
  ASSUME LearnInv, phase = "serving"
  PROVE  /\ categories = Known /\ IsFiniteSet(categories)
         /\ \A s \in Stored : rows[s] \in categories
         /\ Listing = Stored
<1>1. categories = Known
  BY DEF LearnInv, BootInv, Stocked, Seeding
<1>2. \A s \in Stored : rows[s] \in categories
  BY <1>1 DEF LearnInv, Stocked, Stored, R!Listed
<1> QED
  BY <1>1, <1>2, KnownAssumption DEF Listing

\* The lines per category add up to the totals.
LEMMA LinesAddUp ==
  ASSUME IsFiniteSet(categories), \A s \in Stored : rows[s] \in categories
  PROVE  /\ MapThenSumSet(LAMBDA c : Breakdown[c].total, categories) = Totals.total
         /\ MapThenSumSet(LAMBDA c : Breakdown[c].solved, categories) = Totals.solved
<1>1. IsFiniteSet(Stored) /\ IsFiniteSet(Stored \cap solved)
  BY CountsAssumption, FS_Subset DEF Stored
<1>2. /\ Classes(Stored, rows, categories) = Stored
      /\ Classes(Stored \cap solved, rows, categories) = Stored \cap solved
  BY DEF Classes
<1>3. Total([c \in categories |-> Breakdown[c].total], categories) = Cardinality(Stored)
  <2> PICK f : f = [c \in categories |-> Breakdown[c].total]
    OBVIOUS
  <2>1. \A c \in categories : f[c] = Cardinality(Class(Stored, rows, c))
    BY DEF Breakdown, Class
  <2>2. Total(f, categories) = Cardinality(Classes(Stored, rows, categories))
    BY <1>1, <2>1, TotalOfClasses
  <2> QED
    BY <1>2, <2>2
<1>4. Total([c \in categories |-> Breakdown[c].solved], categories)
        = Cardinality(Stored \cap solved)
  <2> PICK f : f = [c \in categories |-> Breakdown[c].solved]
    OBVIOUS
  <2>1. \A c \in categories : f[c] = Cardinality(Class(Stored \cap solved, rows, c))
    BY DEF Breakdown, Class
  <2>2. Total(f, categories) = Cardinality(Classes(Stored \cap solved, rows, categories))
    BY <1>1, <2>1, TotalOfClasses
  <2> QED
    BY <1>2, <2>2
<1> QED
  BY <1>3, <1>4, SumOfTotals, SumOfSolved DEF Totals

\* The progress page shows every category that has a challenge as complete just
\* if the dashboard has nothing unsolved left to recommend.
LEMMA NothingLeft ==
  ASSUME \A s \in Stored : rows[s] \in categories, Listing = Stored
  PROVE  CategoriesComplete = {c \in categories : CategoryStatus(Breakdown[c]) # "none"}
           <=> Recommended \subseteq solved
<1> DEFINE begun == {c \in categories : CategoryStatus(Breakdown[c]) # "none"}
<1>1. ASSUME NEW c \in categories
      PROVE  /\ c \in begun <=> Occupied(c)
             /\ c \in CategoriesComplete <=> Complete(c)
  <2> PICK all, done : /\ all = {s \in Stored : rows[s] = c}
                       /\ done = {s \in Stored \cap solved : rows[s] = c}
    OBVIOUS
  <2>1. Breakdown[c] = [total |-> Cardinality(all), solved |-> Cardinality(done)]
    BY DEF Breakdown
  <2>2. /\ Cardinality(all) \in Nat /\ Cardinality(done) \in Nat
        /\ 0 < Cardinality(all) <=> all # {}
        /\ Cardinality(done) = Cardinality(all) => done = all
    <3>1. all \subseteq Slugs /\ done \subseteq all /\ done \subseteq Slugs
      BY DEF Stored
    <3> QED
      BY <3>1, CountFacts
  <2>3. /\ all # {} <=> Occupied(c)
        /\ done = all <=> all \subseteq solved
    BY DEF Stored, Occupied
  <2> PICK n, m : n = Cardinality(all) /\ m = Cardinality(done)
    OBVIOUS
  <2>4. Breakdown[c].total = n /\ Breakdown[c].solved = m /\ n \in Nat /\ m \in Nat
    BY <2>1, <2>2
  <2>5. CategoryStatus(Breakdown[c]) = "none" <=> ~(0 < n)
    BY <2>4 DEF CategoryStatus
  <2>6. c \in begun <=> 0 < n
    BY <2>5
  <2>7. c \in CategoriesComplete <=> 0 < n /\ m = n
    BY <2>4 DEF CategoriesComplete
  <2>8. 0 < n <=> all # {}
    BY <2>2
  <2>9. m = n <=> done = all
    BY <2>2
  <2>10. Complete(c) <=> all # {} /\ all \subseteq solved
    BY DEF Complete
  <2> QED
    BY <2>3, <2>6, <2>7, <2>8, <2>9, <2>10
<1> HIDE DEF begun
<1>2. CategoriesComplete \subseteq categories /\ begun \subseteq categories
  BY DEF CategoriesComplete, begun
<1>3. CategoriesComplete = begun <=> \A c \in categories : Occupied(c) => Complete(c)
  <2>1. \A c \in categories : Complete(c) => Occupied(c)
    BY DEF Complete, Occupied, Stored
  <2> QED
    BY <1>1, <1>2, <2>1
<1>4. (\A c \in categories : Occupied(c) => Complete(c)) <=> Stored \subseteq solved
  BY DEF Occupied, Complete, Stored
<1>5. Recommended \subseteq solved <=> Stored \subseteq solved
  BY DEF Recommended
<1> QED
  BY <1>3, <1>4, <1>5 DEF begun

LEMMA InvViews == LearnInv => ViewsAgree
<1> SUFFICES ASSUME LearnInv, phase = "serving"
             PROVE  ViewsAgree
  BY DEF ViewsAgree
<1>1. /\ categories = Known /\ IsFiniteSet(categories) /\ Listing = Stored
      /\ \A s \in Stored : rows[s] \in categories
  BY JoinDropsNone
<1> HIDE DEF LearnInv
<1>2. {s \in Listing : s \in solved} = Stored \cap solved
  BY <1>1
<1>3. Totals = [total |-> Cardinality(Listing),
                solved |-> Cardinality({s \in Listing : s \in solved})]
  BY <1>1, <1>2 DEF Totals
<1>4. PublicStats.challenges = Totals.total
  BY DEF PublicStats, Totals
<1>5. UNION {Filtered(c, "all") : c \in Offered \ {"all"}} = Listing
  <2>1. Offered \ {"all"} = categories
    BY <1>1, KnownAssumption DEF Offered, CategoryList
  <2>2. \A c \in categories : Filtered(c, "all") = {s \in Listing : rows[s] = c}
    BY <1>1, KnownAssumption DEF Filtered
  <2> QED
    BY <1>1, <2>1, <2>2
<1>6. (CategoriesComplete = {c \in categories : CategoryStatus(Breakdown[c]) # "none"})
        = (Recommended \subseteq solved)
  BY <1>1, NothingLeft
<1> QED
  BY <1>1, <1>3, <1>4, <1>5, <1>6, LinesAddUp DEF ViewsAgree

LEMMA TotalsFacts == Totals.solved = 1 => solved # {}
<1>1. Cardinality({}) = 0
  BY FS_EmptySet
<1>2. solved = {} => Stored \cap solved = {}
  OBVIOUS
<1> QED
  BY <1>1, <1>2 DEF Totals

\* What a snapshot holds is what the answer it was taken of holds.
LEMMA SnapshotTaken ==
  ASSUME NEW t, NEW c, Truthful(data[t])
  PROVE  Snapshot(SnapshotProgress(data[t], c), t)
BY DEF Truthful, SnapshotProgress, Snapshot

\* The facts that the tabs keep while others act.
LEMMA TabKept ==
  ASSUME LearnInv, [Next]_vars, NEW t \in Tabs
  PROVE  /\ fetch[t] # None /\ fetch[t].solved = 1 => solved' # {}
         /\ data'[t] = data[t] => Truthful(data[t])'
         /\ data'[t] = data[t] => \A b : Snapshot(b, t) => Snapshot(b, t)'
<1>1. /\ fetch[t] # None /\ fetch[t].solved = 1 => solved # {}
      /\ Truthful(data[t])
  BY DEF LearnInv, Earned
<1> HIDE DEF LearnInv
<1>2. /\ solved \subseteq solved' /\ everComplete \subseteq everComplete'
      /\ \A c : Occupied(c) => Occupied(c)'
  BY OnlyMore
<1>3. ASSUME data'[t] = data[t]
      PROVE  Truthful(data[t])'
  BY <1>1, <1>2, <1>3 DEF Truthful
<1>4. ASSUME data'[t] = data[t], NEW b, Snapshot(b, t)
      PROVE  Snapshot(b, t)'
  BY <1>2, <1>4 DEF Snapshot
<1> QED
  BY <1>1, <1>2, <1>3, <1>4

\* A banner that stands was earned; one that comes up is, if the two answers
\* it compares are a snapshot and a truthful answer.
LEMMA CelebrateEarns ==
  ASSUME LearnInv, [Next]_vars, NEW t \in Tabs, NEW before, NEW after,
         Celebrate(t, before, after),
         after # None =>
           /\ after.solved = 1 => solved' # {}
           /\ before # None /\ 0 < before.row.total /\ before.category \in DOMAIN after.cats
              /\ after.cats[before.category].solved = after.cats[before.category].total
              => before.category \in everComplete'
  PROVE  CelebrationEarned' /\ banner' = [u \in Tabs |-> banner'[u]]
<1>1. CelebrationEarned /\ banner = [u \in Tabs |-> banner[u]]
  BY DEF LearnInv, Earned
<1> HIDE DEF LearnInv
<1>2. solved \subseteq solved' /\ everComplete \subseteq everComplete'
  BY OnlyMore
<1> DEFINE outcome == DetectCelebration(before, after)
<1>3. banner' = [banner EXCEPT ![t] = IF outcome = None THEN @ ELSE outcome]
  BY DEF Celebrate
<1>4. outcome # None =>
        IF outcome.kind = "first-solve" THEN solved' # {}
        ELSE outcome.category \in everComplete'
  BY DEF DetectCelebration
<1> HIDE DEF outcome
<1>5. ASSUME NEW u \in Tabs, banner'[u] # None
      PROVE  IF banner'[u].kind = "first-solve" THEN solved' # {}
             ELSE banner'[u].category \in everComplete'
  BY <1>1, <1>2, <1>3, <1>4, <1>5 DEF CelebrationEarned
<1>6. banner' = [u \in Tabs |-> banner'[u]]
  BY <1>1, <1>3
<1> QED
  BY <1>5, <1>6 DEF CelebrationEarned

\* A celebration with what the cache holds.
LEMMA CelebrateCached ==
  ASSUME LearnInv, [Next]_vars, NEW t \in Tabs, awaiting[t] # None,
         Celebrate(t, awaiting[t].before, data[t])
  PROVE  CelebrationEarned' /\ banner' = [u \in Tabs |-> banner'[u]]
<1>1. Truthful(data[t]) /\ Snapshot(awaiting[t].before, t)
  BY DEF LearnInv, Earned
<1> HIDE DEF LearnInv
<1>2. solved \subseteq solved' /\ everComplete \subseteq everComplete'
  BY OnlyMore
<1> DEFINE before == awaiting[t].before
           after == data[t]
<1>3. after # None =>
        /\ after.solved = 1 => solved' # {}
        /\ before # None /\ 0 < before.row.total /\ before.category \in DOMAIN after.cats
           /\ after.cats[before.category].solved = after.cats[before.category].total
           => before.category \in everComplete'
  BY <1>1, <1>2 DEF Truthful, Snapshot
<1> QED
  BY <1>3, CelebrateEarns

LEMMA EarnedStep ==
  ASSUME LearnInv, [Next]_vars
  PROVE  Earned'
<1> Earned
  BY DEF LearnInv
<1> HIDE DEF LearnInv
<1>0. /\ solved \subseteq solved' /\ everComplete \subseteq everComplete'
      /\ \A c : Occupied(c) => Occupied(c)'
  BY OnlyMore
<1> DEFINE
     Fetched(t) == fetch[t] # None /\ fetch[t].solved = 1 => solved # {}
     Checked(t) == check[t] # None =>
                     /\ check[t] = [session |-> check[t].session, before |-> check[t].before,
                                    result |-> check[t].result]
                     /\ Snapshot(check[t].before, t)
     Awaited(t) == awaiting[t] # None => Snapshot(awaiting[t].before, t)
     Shaped == /\ check' = [t \in Tabs |-> check'[t]] /\ fetch' = [t \in Tabs |-> fetch'[t]]
               /\ data' = [t \in Tabs |-> data'[t]] /\ awaiting' = [t \in Tabs |-> awaiting'[t]]
\* What is left to show of a step.
<1>1. ASSUME Shaped, CelebrationEarned', banner' = [t \in Tabs |-> banner'[t]],
             \A t \in Tabs : Fetched(t)' /\ Truthful(data[t])' /\ Checked(t)' /\ Awaited(t)'
      PROVE  Earned'
  BY <1>1 DEF Earned
\* What holds of a tab whose part of the state is as it was, or is gone.
<1>2. ASSUME NEW t \in Tabs
      PROVE  /\ fetch'[t] \in {fetch[t], None} => Fetched(t)'
             /\ data'[t] = data[t] => Truthful(data[t])'
             /\ data'[t] = data[t] /\ check'[t] \in {check[t], None} => Checked(t)'
             /\ data'[t] = data[t] /\ awaiting'[t] \in {awaiting[t], None} => Awaited(t)'
  BY TabKept DEF Earned
\* A banner that stays, or comes down, is no less earned.
<1>3. ASSUME \A t \in Tabs : banner'[t] \in {banner[t], None}
      PROVE  CelebrationEarned'
  BY <1>0, <1>3 DEF Earned, CelebrationEarned
<1>4. ASSUME Boot  PROVE Earned'
  <2>1. /\ UNCHANGED <<data, banner>>
        /\ \/ UNCHANGED <<check, fetch, awaiting>>
           \/ /\ check' = [t \in Tabs |-> None] /\ fetch' = [t \in Tabs |-> None]
              /\ awaiting' = [t \in Tabs |-> None]
    BY <1>4 DEF Boot, requests
  <2>2. Shaped /\ banner' = [t \in Tabs |-> banner'[t]]
    BY <2>1 DEF Earned
  <2>3. \A t \in Tabs : /\ data'[t] = data[t] /\ banner'[t] = banner[t]
                        /\ fetch'[t] \in {fetch[t], None} /\ check'[t] \in {check[t], None}
                        /\ awaiting'[t] \in {awaiting[t], None}
    BY <2>1
  <2> QED
    BY <1>1, <1>2, <1>3, <2>2, <2>3
<1>5. ASSUME UNCHANGED <<check, fetch, data, awaiting, banner>>  PROVE Earned'
  <2>1. Shaped /\ banner' = [t \in Tabs |-> banner'[t]]
    BY <1>5 DEF Earned
  <2> QED
    BY <1>1, <1>2, <1>3, <1>5, <2>1
<1>6. ASSUME NEW t \in Tabs, Dismiss(t)  PROVE Earned'
  <2>1. UNCHANGED <<check, fetch, data, awaiting>> /\ banner' = [banner EXCEPT ![t] = None]
    BY <1>6 DEF Dismiss, requests
  <2>2. Shaped /\ banner' = [u \in Tabs |-> banner'[u]]
    BY <2>1 DEF Earned
  <2>3. \A u \in Tabs : banner'[u] \in {banner[u], None}
    BY <2>1 DEF Earned
  <2> QED
    BY <1>1, <1>2, <1>3, <2>1, <2>2, <2>3
<1>7. ASSUME NEW t \in Tabs, NEW i \in Sessions, AskCheck(t, i)  PROVE Earned'
  <2> DEFINE before == SnapshotProgress(data[t], Detail(slugOf[i]).category)
  <2>1. /\ check' = [check EXCEPT ![t] = [session |-> i, before |-> before, result |-> None]]
        /\ UNCHANGED <<fetch, data, awaiting, banner>>
    BY <1>7 DEF AskCheck, browser
  <2>2. Snapshot(before, t)
    BY SnapshotTaken DEF Earned
  <2> HIDE DEF before
  <2>3. PICK b : b = before
    OBVIOUS
  <2>4. Shaped /\ banner' = [u \in Tabs |-> banner'[u]]
    BY <2>1 DEF Earned
  <2>5. Snapshot(b, t)'
    BY <2>1, <2>2, <2>3, TabKept
  <2>6. check'[t] = [session |-> i, before |-> b, result |-> None]
        /\ \A u \in Tabs : u # t => check'[u] = check[u]
    BY <2>1, <2>3 DEF Earned
  <2>7. Checked(t)'
    BY <2>5, <2>6 DEF Snapshot
  <2> QED
    BY <1>1, <1>2, <1>3, <2>1, <2>4, <2>6, <2>7
<1>8. ASSUME NEW t \in Tabs, NEW result, CheckRuns(t, result)  PROVE Earned'
  <2>1. /\ check' = [check EXCEPT ![t].result = result] /\ check[t] # None
        /\ UNCHANGED <<fetch, data, awaiting, banner>>
    BY <1>8 DEF CheckRuns, browser
  <2>2. Shaped /\ banner' = [u \in Tabs |-> banner'[u]]
    BY <2>1 DEF Earned
  <2>3. PICK b : b = check[t].before
    OBVIOUS
  <2>4. Snapshot(b, t)'
    BY <2>1, <2>3, TabKept DEF Earned
  <2>5. check'[t] = [session |-> check[t].session, before |-> b, result |-> result]
        /\ \A u \in Tabs : u # t => check'[u] = check[u]
    BY <2>1, <2>3 DEF Earned
  <2>6. Checked(t)'
    BY <2>4, <2>5 DEF Snapshot
  <2> QED
    BY <1>1, <1>2, <1>3, <2>1, <2>2, <2>5, <2>6
<1>9. ASSUME NEW t \in Tabs, FetchTotals(t)  PROVE Earned'
  <2>1. /\ fetch' = [fetch EXCEPT ![t] = Totals]
        /\ UNCHANGED <<solved, check, data, awaiting, banner>>
    BY <1>9 DEF FetchTotals, browser
  <2>2. Shaped /\ banner' = [u \in Tabs |-> banner'[u]]
    BY <2>1 DEF Earned
  <2>3. ASSUME NEW u \in Tabs  PROVE Fetched(u)'
    BY <1>2, <2>1, TotalsFacts DEF Earned
  <2> QED
    BY <1>1, <1>2, <1>3, <2>1, <2>2, <2>3
<1>10. ASSUME NEW t \in Tabs, FetchFails(t)  PROVE Earned'
  <2>1. /\ fetch' = [fetch EXCEPT ![t] = None] /\ awaiting' = [awaiting EXCEPT ![t] = None]
        /\ UNCHANGED <<check, data>>
    BY <1>10 DEF FetchFails
  <2>2. CelebrationEarned' /\ banner' = [u \in Tabs |-> banner'[u]]
    BY <1>10, CelebrateCached DEF FetchFails
  <2>3. Shaped
    BY <2>1 DEF Earned
  <2>4. \A u \in Tabs : fetch'[u] \in {fetch[u], None} /\ awaiting'[u] \in {awaiting[u], None}
    BY <2>1 DEF Earned
  <2> QED
    BY <1>1, <1>2, <2>1, <2>2, <2>3, <2>4
<1>11. ASSUME NEW t \in Tabs, CheckAnswered(t)  PROVE Earned'
  <2>1. /\ check[t] # None /\ check' = [check EXCEPT ![t] = None]
        /\ fetch' \in {fetch, [fetch EXCEPT ![t] = None]} /\ UNCHANGED data
    BY <1>11 DEF CheckAnswered, Invalidated
  <2>2. PICK b : b = check[t].before
    OBVIOUS
  <2>3. awaiting' \in {[awaiting EXCEPT ![t] = [before |-> b]], [awaiting EXCEPT ![t] = None]}
    BY <1>11, <2>2 DEF CheckAnswered
  <2>4. CelebrationEarned' /\ banner' = [u \in Tabs |-> banner'[u]]
    <3>1. CASE awaiting[t] = None
      BY <1>3, <1>11, <3>1 DEF CheckAnswered, Earned
    <3>2. CASE awaiting[t] # None
      BY <1>11, <3>2, CelebrateCached DEF CheckAnswered
    <3> QED
      BY <3>1, <3>2
  <2>5. Shaped
    BY <2>1, <2>3 DEF Earned
  <2>6. \A u \in Tabs : fetch'[u] \in {fetch[u], None} /\ check'[u] \in {check[u], None}
    BY <2>1 DEF Earned
  <2>7. ASSUME NEW u \in Tabs  PROVE Awaited(u)'
    <3>1. Snapshot(b, t)'
      BY <2>1, <2>2, TabKept DEF Earned
    <3>2. awaiting'[u] = awaiting[u] \/ awaiting'[u] = None
          \/ (u = t /\ awaiting'[t].before = b)
      BY <2>3 DEF Earned
    <3>3. CASE u = t /\ awaiting'[t].before = b
      BY <3>1, <3>3 DEF Snapshot
    <3> QED
      BY <1>2, <2>1, <3>2, <3>3
  <2> QED
    BY <1>1, <1>2, <2>1, <2>4, <2>5, <2>6, <2>7
<1>12. ASSUME NEW t \in Tabs, FetchBreakdown(t)  PROVE Earned'
  <2> DEFINE fresh == [solved |-> fetch[t].solved, total |-> fetch[t].total, cats |-> Breakdown]
  <2>1. /\ fetch[t] # None /\ data' = [data EXCEPT ![t] = fresh]
        /\ IF awaiting[t] = None THEN UNCHANGED banner
           ELSE Celebrate(t, awaiting[t].before, fresh)
        /\ fetch' = [fetch EXCEPT ![t] = None] /\ awaiting' = [awaiting EXCEPT ![t] = None]
        /\ UNCHANGED <<check, solved, bootVars>>
    BY <1>12 DEF FetchBreakdown, Serving
  <2>2. UNCHANGED <<rows, categories>>
    BY <2>1 DEF bootVars, tables
  <2>3. /\ DOMAIN fresh.cats = categories
        /\ \A c \in categories :
             /\ 0 < fresh.cats[c].total <=> Occupied(c)
             /\ 0 < fresh.cats[c].total /\ fresh.cats[c].solved = fresh.cats[c].total
                => c \in everComplete'
    <3>1. fresh.cats = Breakdown /\ DOMAIN Breakdown = categories
      BY DEF Breakdown
    <3>2. \A c \in categories : Complete(c) => c \in everComplete'
      <4>1. \A c : Complete(c)' = Complete(c)
        BY <2>1, <2>2 DEF Complete, Stored
      <4>2. everComplete' = everComplete \cup {c \in Known : Complete(c)'}
        <5>1. fetch'[t] # fetch[t]
          BY <2>1 DEF Earned
        <5> QED
          BY <5>1 DEF Next, vars, learner, requests
      <4> QED
        BY <4>1, <4>2 DEF LearnInv, Stocked
    <3> QED
      BY <3>1, <3>2, BreakdownFacts
  <2>4. fresh.solved = 1 => solved' # {}
    BY <2>1 DEF Earned
  <2> HIDE DEF fresh
  <2>5. CelebrationEarned' /\ banner' = [u \in Tabs |-> banner'[u]]
    <3>1. CASE awaiting[t] = None
      BY <1>3, <2>1, <3>1 DEF Earned
    <3>2. CASE awaiting[t] # None
      <4>1. Snapshot(awaiting[t].before, t)
        BY <3>2 DEF Earned
      <4> DEFINE before == awaiting[t].before
      <4>2. /\ before # None /\ 0 < before.row.total /\ before.category \in DOMAIN fresh.cats
               /\ fresh.cats[before.category].solved = fresh.cats[before.category].total
               => before.category \in everComplete'
        BY <2>3, <4>1 DEF Snapshot
      <4> QED
        BY <2>1, <2>4, <3>2, <4>2, CelebrateEarns
    <3> QED
      BY <3>1, <3>2
  <2>6. Shaped
    BY <2>1 DEF Earned
  <2>7. data'[t] = fresh /\ \A u \in Tabs : u # t => data'[u] = data[u]
    BY <2>1 DEF Earned
  <2>8. Truthful(data[t])'
    BY <1>0, <2>3, <2>4, <2>7 DEF Truthful
  <2>9. \A u \in Tabs : /\ fetch'[u] \in {fetch[u], None} /\ check'[u] = check[u]
                        /\ awaiting'[u] \in {awaiting[u], None}
    BY <2>1 DEF Earned
  <2>10. ASSUME NEW b, Snapshot(b, t)  PROVE Snapshot(b, t)'
    BY <1>0, <2>3, <2>7, <2>10 DEF Snapshot
  <2>11. Checked(t)' /\ Awaited(t)'
    <3>1. check'[t] = check[t] /\ awaiting'[t] = None
      BY <2>1 DEF Earned
    <3>2. PICK b : b = check[t].before
      OBVIOUS
    <3>3. check[t] # None => Snapshot(b, t)'
      BY <2>10, <3>2 DEF Earned
    <3>4. Checked(t)'
      BY <3>1, <3>2, <3>3 DEF Earned, Snapshot
    <3> QED
      BY <3>1, <3>4
  <2> QED
    BY <1>1, <1>2, <2>5, <2>6, <2>7, <2>8, <2>9, <2>11
<1>13. ASSUME \/ \E s \in Slugs : StartSession(s)
              \/ \E r \in Reveals : RevealWrites(r) \/ (\E i \in Sessions : RevealReads(r, i))
              \/ UNCHANGED vars
       PROVE  Earned'
  BY <1>5, <1>13 DEF StartSession, RevealWrites, RevealReads, requests, browser, vars, learner
<1> QED
  BY <1>4, <1>6, <1>7, <1>8, <1>9, <1>10, <1>11, <1>12, <1>13 DEF Next, Step

-----------------------------------------------------------------------------
LEMMA InitLearn == Init => LearnInv
<1> SUFFICES ASSUME Init  PROVE LearnInv
  OBVIOUS
<1>1. BootInv /\ Stocked
  BY InitBoot, InitStocked DEF Init
<1>2. Charged /\ Earned
  BY DEF Init, Charged, Earned, CelebrationEarned, Truthful
<1> QED
  BY <1>1, <1>2 DEF LearnInv

LEMMA LearnStep == LearnInv /\ [Next]_vars => LearnInv'
<1> SUFFICES ASSUME LearnInv, [Next]_vars  PROVE LearnInv'
  OBVIOUS
<1>1. BootInv'
  BY StepBoots, TypesStep, MigratingStep, SeedingStep, SyncingStep DEF LearnInv, BootInv
<1>2. Stocked'
  BY StepBoots, StockedStep DEF LearnInv
<1> QED
  BY <1>1, <1>2, ChargedStep, EarnedStep DEF LearnInv

LEMMA LearnAlways == Spec => []LearnInv
BY InitLearn, LearnStep, PTL DEF Spec

\* With learners on top, the boots still implement Release.
THEOREM ReleaseServedToLearners == Spec => ReleaseServed
<1>1. Init => R!Init
  BY DEF Init, BootInit, R!Init
<1>2. LearnInv /\ [Next]_vars => [R!Next]_(R!vars)
  BY StepBoots, StepImplements DEF LearnInv
<1> QED
  BY <1>1, <1>2, LearnAlways, PTL DEF Spec, ReleaseServed, R!Spec

\* No number of reveals at a time, and no deployment between two of them,
\* charges a session for a hint that its challenge never had, and the count the
\* pages show agrees with the index the session keeps.
THEOREM ChargedExistAlways == Spec => []ChargedExist
BY InvCharged, LearnAlways, PTL

\* Whatever was deployed and wherever boots were cut off, the list, the totals,
\* the lines per category and the public statistics count the same challenges
\* while the process serves.
THEOREM ViewsAgreeAlways == Spec => []ViewsAgree
BY InvViews, LearnAlways, PTL

\* No banner comes up that the learner did not earn.
THEOREM CelebrationEarnedAlways == Spec => []CelebrationEarned
<1>1. LearnInv => CelebrationEarned
  BY DEF LearnInv, Earned
<1> QED
  BY <1>1, LearnAlways, PTL
=============================================================================
