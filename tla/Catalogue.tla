----------------------------- MODULE Catalogue -----------------------------
(***************************************************************************)
(* The boot of the backend up to the listening socket: the wait for the    *)
(* database, the migrations, the seeded categories and the challenges that *)
(* are read from disk into the tables.  Only a migration is a transaction: *)
(* every other query stands alone, and the process may end between any two *)
(* of them.  Another release may be deployed whenever the process is down. *)
(***************************************************************************)
EXTENDS FiniteSets, Integers

CONSTANTS
  Slugs, Files, Releases, Known, NoEntry,  \* as in Release
  NoSlug, NoFile,                          \* no directory, no transaction
  MaxAttempts                              \* waitForDatabase's maxAttempts

ASSUME FilesAssumption == Files \subseteq Nat
ASSUME AttemptsAssumption == MaxAttempts \in Nat \ {0}
ASSUME AbsentAssumption == NoSlug \notin Slugs /\ NoEntry \notin Known
ASSUME ReleasesAssumption ==
  \A r \in Releases :
    /\ r.files \subseteq Files
    /\ \A s \in Slugs :
         \/ r.disk[s] = NoEntry
         \/ r.disk[s] = [category |-> r.disk[s].category, hints |-> r.disk[s].hints]

VARIABLES
  release,     \* the migrations and challenge directories of the image
  phase,       \* where bootstrap is
  attempt,     \* of waitForDatabase
  schema,      \* names in schema_migrations
  ran,         \* how often the SQL of each file was committed
  todo,        \* files of the image that were not in schema_migrations
  txn,         \* the file whose transaction is open, or NoFile
  logged,      \* the transaction has inserted the file's name
  categories,  \* rows of categories
  seeds,       \* categories seedCategories has still to write
  rows,        \* the category of each row of challenges, or NoEntry
  hints,       \* the order_index values in hints, by challenge
  dirs,        \* directories syncChallengesFromDisk has still to visit
  dir,         \* the one it is at, or NoSlug
  stage,       \* the query it comes to there
  left         \* hints of that directory it has still to insert

tables == <<schema, ran, categories, rows, hints>>
migrating == <<todo, txn, logged>>
syncing == <<dirs, dir, stage, left>>
bootVars == <<release, phase, attempt, tables, migrating, seeds, syncing>>

Booting == {"connect", "read", "migrate", "seed", "sync", "reconcile"}

BootInit ==
  /\ release \in Releases
  /\ phase = "down" /\ attempt = 0
  /\ schema = {} /\ ran = [f \in Files |-> 0]
  /\ todo = {} /\ txn = NoFile /\ logged = FALSE
  /\ categories = {} /\ seeds = {}
  /\ rows = [s \in Slugs |-> NoEntry] /\ hints = [s \in Slugs |-> {}]
  /\ dirs = {} /\ dir = NoSlug /\ stage = "lookup" /\ left = {}

\* The image of another release replaces the stopped one.
Deploy ==
  /\ phase = "down"
  /\ release' \in Releases
  /\ UNCHANGED <<phase, attempt, tables, migrating, seeds, syncing>>

StartProcess ==
  /\ phase = "down"
  /\ phase' = "connect" /\ attempt' = 1
  /\ UNCHANGED <<release, tables, migrating, seeds, syncing>>

\* The end of the process: an uncommitted transaction is gone, and so is
\* everything it held in memory.
Gone ==
  /\ phase' = "down" /\ attempt' = 0
  /\ todo' = {} /\ txn' = NoFile /\ logged' = FALSE /\ seeds' = {}
  /\ dirs' = {} /\ dir' = NoSlug /\ stage' = "lookup" /\ left' = {}
  /\ UNCHANGED <<release, tables>>

\* Any query of the boot may fail, a migration's after its ROLLBACK.  The
\* database's refusals are retried, see ConnectFails.
BootFails == phase \in Booting \ {"connect"} /\ Gone

ProcessEnds == phase = "serving" /\ Gone

ConnectFails ==
  /\ phase = "connect"
  /\ \/ attempt < MaxAttempts
        /\ attempt' = attempt + 1
        /\ UNCHANGED <<release, phase, tables, migrating, seeds, syncing>>
     \/ attempt = MaxAttempts /\ Gone

Connect ==
  /\ phase = "connect"
  /\ phase' = "read"
  /\ UNCHANGED <<release, attempt, tables, migrating, seeds, syncing>>

ReadApplied ==
  /\ phase = "read"
  /\ phase' = "migrate"
  /\ todo' = release.files \ schema
  /\ UNCHANGED <<release, attempt, tables, txn, logged, seeds, syncing>>

BeginFile(f) ==
  /\ phase = "migrate" /\ txn = NoFile
  /\ f \in todo /\ \A g \in todo : f <= g
  /\ txn' = f /\ logged' = FALSE
  /\ UNCHANGED <<release, phase, attempt, tables, todo, seeds, syncing>>

LogFile ==
  /\ phase = "migrate" /\ txn # NoFile /\ ~logged
  /\ logged' = TRUE
  /\ UNCHANGED <<release, phase, attempt, tables, todo, txn, seeds, syncing>>

CommitFile ==
  /\ phase = "migrate" /\ txn # NoFile /\ logged
  /\ schema' = schema \cup {txn}
  /\ ran' = [ran EXCEPT ![txn] = @ + 1]
  /\ todo' = todo \ {txn} /\ txn' = NoFile /\ logged' = FALSE
  /\ UNCHANGED <<release, phase, attempt, categories, rows, hints, seeds,
                 syncing>>

Migrated ==
  /\ phase = "migrate" /\ txn = NoFile /\ todo = {}
  /\ phase' = "seed" /\ seeds' = Known
  /\ UNCHANGED <<release, attempt, tables, migrating, syncing>>

SeedCategory(c) ==
  /\ phase = "seed" /\ c \in seeds
  /\ categories' = categories \cup {c} /\ seeds' = seeds \ {c}
  /\ UNCHANGED <<release, phase, attempt, schema, ran, migrating, rows, hints,
                 syncing>>

\* Directories that lack challenge.json or solution.md are passed over.
Seeded ==
  /\ phase = "seed" /\ seeds = {}
  /\ phase' = "sync"
  /\ dirs' = {s \in Slugs : release.disk[s] # NoEntry}
  /\ UNCHANGED <<release, attempt, tables, migrating, seeds, dir, stage, left>>

Visit(s) ==
  /\ phase = "sync" /\ dir = NoSlug
  /\ s \in dirs /\ dirs' = dirs \ {s}
  /\ UNCHANGED <<release, phase, attempt, tables, migrating, seeds, left>>

\* Mutant: a challenge whose category is not seeded is stored without one.
LookUpNoSkip(s) == Visit(s) /\ dir' = s /\ stage' = "upsert"

\* A challenge of an unknown category is skipped with a warning.
LookUp(s) ==
  /\ Visit(s)
  /\ \/ release.disk[s].category \in categories /\ dir' = s /\ stage' = "upsert"
     \/ release.disk[s].category \notin categories /\ UNCHANGED <<dir, stage>>

\* Mutant: a challenge that is in the table already is taken to be synced.
UpsertOnce ==
  /\ phase = "sync" /\ dir # NoSlug /\ stage = "upsert"
  /\ rows' = [rows EXCEPT ![dir] = release.disk[dir].category]
  /\ IF rows[dir] = release.disk[dir].category
     THEN dir' = NoSlug /\ stage' = "lookup"
     ELSE stage' = "delete" /\ UNCHANGED dir
  /\ UNCHANGED <<release, phase, attempt, schema, ran, migrating, categories,
                 seeds, hints, dirs, left>>

Upsert ==
  /\ phase = "sync" /\ dir # NoSlug /\ stage = "upsert"
  /\ rows' = [rows EXCEPT ![dir] = release.disk[dir].category]
  /\ stage' = "delete"
  /\ UNCHANGED <<release, phase, attempt, schema, ran, migrating, categories,
                 seeds, hints, dirs, dir, left>>

DeleteHints ==
  /\ phase = "sync" /\ dir # NoSlug /\ stage = "delete"
  /\ hints' = [hints EXCEPT ![dir] = {}]
  /\ stage' = "insert" /\ left' = release.disk[dir].hints
  /\ UNCHANGED <<release, phase, attempt, schema, ran, migrating, categories,
                 seeds, rows, dirs, dir>>

\* In the order of hints.json.
InsertHint(h) ==
  /\ phase = "sync" /\ dir # NoSlug /\ stage = "insert"
  /\ h \in left /\ (\A g \in left : h <= g) /\ left' = left \ {h}
  /\ hints' = [hints EXCEPT ![dir] = @ \cup {h}]
  /\ UNCHANGED <<release, phase, attempt, schema, ran, migrating, categories,
                 seeds, rows, dirs, dir, stage>>

SyncedOne ==
  /\ phase = "sync" /\ dir # NoSlug /\ stage = "insert" /\ left = {}
  /\ dir' = NoSlug /\ stage' = "lookup"
  /\ UNCHANGED <<release, phase, attempt, tables, migrating, seeds, dirs, left>>

Synced ==
  /\ phase = "sync" /\ dir = NoSlug /\ dirs = {}
  /\ phase' = "reconcile"
  /\ UNCHANGED <<release, attempt, tables, migrating, seeds, syncing>>

\* The sweeps of orphans come first, see SessionService.
Listen ==
  /\ phase = "reconcile"
  /\ phase' = "serving"
  /\ UNCHANGED <<release, attempt, tables, migrating, seeds, syncing>>

BootNext ==
  \/ Deploy \/ StartProcess \/ BootFails \/ ProcessEnds
  \/ ConnectFails \/ Connect \/ ReadApplied
  \/ (\E f \in Files : BeginFile(f)) \/ LogFile \/ CommitFile \/ Migrated
  \/ (\E c \in Known : SeedCategory(c)) \/ Seeded
  \/ (\E s \in Slugs : LookUp(s)) \/ Upsert \/ DeleteHints
  \/ (\E h \in left : InsertHint(h)) \/ SyncedOne \/ Synced \/ Listen

BootSpec == BootInit /\ [][BootNext]_bootVars

\* A challenge as requests see it: its category and its hints.
Entry(s) ==
  IF rows[s] = NoEntry THEN NoEntry
  ELSE [category |-> rows[s], hints |-> hints[s]]

Served == [s \in Slugs |-> Entry(s)]

R == INSTANCE Release
       WITH published <- IF phase = "serving" THEN {Served} ELSE {}

\* Whenever the process serves, every migration of its image has run once, in
\* order, and every listed challenge has the category and exactly the hints
\* of its directory, wherever earlier boots were cut off.
ReleaseServed == R!Spec
=============================================================================
