# A TLA+ verification of EZ-KEA

EZ-KEA is a web front end for the ISC Kea DHCP servers. It edits Kea's JSON
configuration files in place, backs them up before it does, asks Kea to reload
them, and keeps two SQLite indexes of what Kea writes (its logs, its leases) so
that they can be searched. It is one threaded process beside other programs that
touch the same files: Kea itself, logrotate, an operator's editor.

This directory holds TLA+ modules translated from that code, TLC
configurations that check them on small instances, and TLAPS proofs of the
properties that matter most, for every value of the constants. Paths below are
relative to the repository; `PROJECT.json` maps each definition to the lines it
stands for.

    tlc -workers 2 -config MCSubnetConfig_routes.cfg MCSubnetConfig
    tlapm SubnetConfigProofs.tla

## 1. The system

| part | state it keeps | operations | where |
|---|---|---|---|
| Configuration files | the JSON file of each daemon, the backup directory, a lock per resolved path, the pointer to the current file | load, save (backup, prune, truncate, write), explicit backup, restore, repoint, bootstrap | `core/config_manager.py`, the routes |
| Content of a configuration | shared networks, subnets, reservations, options | about thirty routes: new, edit and delete of each, for DHCPv4 and DHCPv6 | `routes/dhcp4.py`, `dhcp6.py`, `options.py`, `core/validation.py` |
| Log index | `log_sources`, `log_entries`, `log_terms`, FTS, all in one SQLite file | ingest of live log and rotated siblings, prune, rebuild, search | `core/log_index.py` |
| State index | one table each of v4/v6 leases and reservations, a fingerprint per source | replace a source's rows when its fingerprint changed, nudge after a save, search | `core/state_index.py` |
| Settings | `ez-kea-settings.json` and `app.config` | load, save, discovery at start-up | `core/settings_manager.py`, `core/discovery.py`, `routes/system.py` |
| Test and apply | none of its own; Kea's running configuration | `kea-dhcpX -t`, reload by keactrl, `docker kill -s HUP` or control socket | `routes/system.py`, `core/kea_ctrl.py`, `core/security.py` |
| High availability | one hook entry in the configuration | configure, remove | `routes/ha.py`, `core/ha_manager.py` |
| Accounts | user rows, session states of a login under way, failure counters in memory | login, second factor, recovery codes, reset, administration | `auth.py`, `models.py` |
| The rest | | license reminder, mailer, version probe, pages, CSV, demo data | see `components` in PROJECT.json |

**How they interact.** Every request runs on a thread of its own (waitress).
Routes that change a configuration hold `config_lock` of the file from before
their load until after their save; pages and the state indexer read the same
file without it. The settings form changes the settings file, `app.config` and
possibly which configuration file everything else uses. Two background threads
(log and state indexer) poll, and requests start further indexers
(`logs_reindex`, `reindex_now`); these meet in SQLite's write lock. Kea appends
to its logs and leases and logrotate renames and compresses them, knowing
nothing of EZ-KEA.

**What is hard.** A lock that is chosen before it is waited for. Writes that
truncate first and can be cut short by an error or by the loss of the process.
Backup names with whole seconds. Files that change between the stat, the hash,
the read and the second hash of one ingest. Errors of a kind that an `except`
does not name. Long sequences of edits, with stale forms, that have to keep a
configuration Kea accepts. One settings file under two locks. A reload that is
asked of a program which may answer late or never. Database rows that are read
when a request starts and written, column by column, when it ends.
`PROJECT.json` lists forty such hazards at their lines, with the properties that
would notice, or why there is none yet.

**What makes each part correct.** Configuration files: an edit is atomic, its
predecessor can be restored, answered edits are not lost, files do not mix, every
request is answered. Content: subnets apart, ids and names unique, an edit
changes what it names and nothing else. Log index: no line twice, none skipped,
no stale offset, and it catches up. State index: what a search answers was in
the file at some moment after the last save. Settings: saving one daemon's
settings keeps the other's. Apply: what Kea loads is what was tested. Accounts:
someone can always administer; a recovery code works once.

## 2. The modules

| module | what it is |
|---|---|
| `AtomicConfig` | what the configuration files promise: atomic edits, backups, rollbacks, and files created when missing |
| `ConfigStore` | requests, locks, backups, the write in its steps, failures and restarts |
| `ConfigStoreProofs` | theorems about `ConfigStore`: types, locks, files that do not mix, backups |
| `ConfigPromiseProofs` | what `ConfigStore` promises over time: edits and versions that last, and that it implements `AtomicConfig` |
| `LogIndex` | the two kinds of ingester, Kea and logrotate |
| `LogIndexProofs` | theorems about `LogIndex` |
| `StateIndex` | the ingesters of leases and reservations, savers, Kea |
| `StateIndexProofs` | theorems about `StateIndex` |
| `KeaControl` | test and apply on top of `ConfigStore`, with Kea beside it |
| `KeaControlProofs` | theorems about `KeaControl` |
| `Settings` | the settings file, discovery, saves and repoints of both versions, restarts |
| `SettingsProofs` | theorems about `Settings` |
| `Accounts` | logins, administration and the second factor as reads and commits |
| `AccountsProofs` | theorems about `Accounts` |
| `SubnetConfig` | the routes that change the content of a configuration |
| `SubnetConfigProofs` | theorems about `SubnetConfig` |
| `MC...` | instances for TLC: finite constants, symmetry |

`ConfigStore` treats a configuration as the set of edits in it; `SubnetConfig`
treats a request as one step. The second is justified by the first: as long as a
repoint is alone while it switches, the load-to-save cycles of one file never
interleave (theorem `NoInterleaving`), so every request sees the file its
predecessor left.

### ConfigStore

| in the module | in the code |
|---|---|
| `file[p]`: absent, empty, partial or whole, and its edits | the bytes at a path; `load_json` reads absent and empty as a skeleton and refuses partial |
| `backups`: path, stamp, content | `BACKUP_DIR/<name>.<identity>.bak.<seconds>` |
| `saved`, `conf` | the settings file's path, `app.config[...]`, per DHCP version |
| `owner` | `_file_locks` |
| `Arrive`, `Acquire`, `Finish` | `with_config_lock`: path chosen, lock waited for, `finally` |
| `Load`, `Refuse`, `BeginSave` | a route: `load_json`, early return with errors, `save_kea_config` |
| `CopyBackup`, `CopyFails`, `Prune` | `copy_file`, its exceptions (with or without a torn file), `prune_backups` |
| `SaveOpen`, `SaveDump`, `SaveClose`, `SaveFails` | `open("w")` truncates, `json.dump` fills and may spill the buffer, leaving the `with` flushes; an OSError at any of them |
| `Respond` | the view returns its answer and the lock is released |
| `RestorePick` | `copy_file(restore=True)` |
| `RepointCheck`, `RepointPersist`, `RepointPersistFails`, `RepointSwitch`, `Bootstrap` | the repoint branch of `_save_app_settings_impl`: a target that cannot be read or is no plain configuration is refused; `save_settings`, which may raise and leave the settings damaged; a bootstrap that may not write says nothing |
| `View` | a page that loads without the lock |
| `Crash` | the process is lost; `create_app` reads the settings back and bootstraps |

The file is closed some time before the request is answered, and the process can be
lost in between: such a request ends as `cut`, and its edit counts as written
(`Written`) but not as answered. A torn backup left by a process lost inside `copy2`
is the same state as one left by an exception (`CopyFails`) followed by a crash.

### KeaControl

It EXTENDS `ConfigStore`: an apply takes no lock, so each of its steps interleaves
with each step of every save, restore and repoint. Kea re-reads the file it was
started with (`KeaFile`), which is not EZ-KEA's once somebody has repointed.

| in the module | in the code |
|---|---|
| `ArriveApply`, `Test` | `apply_config`, `_test_config_impl`: `kea-dhcpX -t` on EZ-KEA's path |
| `Signal` | `keactrl reload`, `docker kill -s HUP`: answered when delivered |
| `FindSocket` | `load_json` without the lock and `find_unix_socket_path` |
| `SendReload`, `Answer`, `TimeOut` | `send_command` and the reading of its result |
| `Reload` | Kea (external) executes a command, possibly long after the answer |
| `Edit`, `LoseProcess` | any step of `ConfigStore`; the loss of the process, but not of Kea |

`touched[a]` is history: Kea's file or EZ-KEA's pointer changed while `a` was under way.

### Settings

A setting is who set it: `"default"`, `"found"` by discovery, or a request. There
is one field of each sort: per version its configuration's path, a command and the
paths of the leases and the log, and one that both versions save.

| in the module | in the code |
|---|---|
| `sfile`: absent, empty, torn or whole, and its fields | `ez-kea-settings.json` |
| `live` | `app.config` |
| `LoadSettings`, `Discovered`, `StartUp` | `load_settings`, `discover_environment(6)`, `create_app` |
| `Acquire`, `cur` | the lock of the version's own configuration file, and the pointer as the handler finds it |
| `Compose`, `SeedOther`; `ComposeRepoint` | the two branches of `_save_app_settings_impl` |
| `SettingsOpen`, `SettingsWrite`, `SettingsFail` | `save_settings`: truncate, dump, an OSError |
| `Apply`, `Configure` | the assignments to `app.config`; `save_kea_config` or bootstrap |
| `Restart` | the process ends and starts again |

`spoiled` and `astray` are history: which requests have overlapped, and whether one
read a file that was not there or not whole. The leases and log paths are saved with
the command, but every start puts those that go with the configuration's path in
their place (`Placed`, `Beside`; `__init__.py:66-87`), so file and application differ
in them after a restart; `SerialSavesAgree` says exactly that. The path a repoint is
given is taken to lie outside the sandbox. Environment overrides and the fields for
containers are left out.

### Accounts

| in the module | in the code |
|---|---|
| `rows` | the `users` table: rights, whose password, `must_change_*`, second factor, recovery codes |
| `sess` | a browser's cookie: account, `pending_setup_uid`, `pending_2fa_uid` |
| `Handle`, `req` | what a handler loaded and what it will commit |
| `Answer` | a handler that changes only its session |
| `Update`, `Merge` | SQLAlchemy writes the columns whose values changed; `Insert`, `Remove` the rest |
| `CommitFails` | the row is gone, or the name taken, since it was read |
| `Restart` | handlers in flight are lost; `_seed_admin` |

A secret is verified when the handler has checked a code of it; wrong passwords and
codes change nothing and are left out with the counters that delay them. No code
sets `totp_required`, so `login_2fa_setup` and `login_recovery_codes` are not
reached. A new row gets the id after the largest (`NextIds`: `models.py:18` has no
AUTOINCREMENT), so the id of a deleted account comes back, and with it the sessions
and the handlers in flight that name it. `raced` is history: which of the overlaps of
`Races` have happened, and whether an id was given again while a handler that had
loaded its former account was in flight (`reuse`).

### LogIndex

A line is a number, in the order of writing, and all lines have one length, so
that an offset is a number of lines and a hash is the lines hashed. Sizes count
half lines, for a log may end in the middle of one. `sources[i]` is a row of
`log_sources` together with the entries that carry its id, and their own ids, which
go on from the largest in the table and so come back after a rebuild. One worker is the
background thread, the others are `logs_reindex` threads with one pass each. The
size that the stat found is forgotten once it has been compared, since nothing reads
it afterwards.

| in the module | in the code |
|---|---|
| `Stat` | `isfile` and `stat`, before the transaction |
| `Resume`, `SameFile` | `BEGIN IMMEDIATE` and `_resume_point`: inode, size, head hash |
| `Read`, `WholeLines` | open, seek, read; a trailing fragment held back, a batch at most |
| `Commit` | `_insert_lines`, offset and hash (from the path, once more), `COMMIT` |
| `BeginGz`, `ReadGz` | an archive, read once in full; `EOFError` ends the pass |
| `Rollback`, `NextFile` | the exceptions that `ingest_all` catches, and its loops |
| `Pick`, `Delete`, `Sweep` | `prune`: ids of expired entries looked up without a lock, what has these ids by then deleted in a transaction, again until none is found; then the emptied archives |
| `Reindex` | `logs_reindex`: `rebuild`, then a thread |
| `Outside` | Kea and logrotate (external): write, rename, reopen, copytruncate, expire; compress, whose archive is empty (`Compress`), then without its end (`Fill`), then complete (`Compressed`) |

Three pieces of history name what the code does not guard against: `swapped`, the
workers whose file was emptied, or its inode given to another log, between their stat
and their commit; `mixed`, the rows such a worker stored; and `lost`, the lines that a
prune deleted by an id that had been given again, or that were due in an archive read
while it was empty. The cut-off of a prune is taken at each look-up and not once,
and SQLite's wait for its lock never times out.

### StateIndex

A configuration is the number of the save that wrote it, and a lease row the
number of the transaction it records, so that a table can be compared with what
its sources say. Fingerprints are pairs of a clock tick and a size.

| in the module | in the code |
|---|---|
| `Stat`, `StatConf`, `Compare` | `_fingerprint` of each source, compared with the stored one before `BEGIN` |
| `Begin` | `BEGIN IMMEDIATE` (or its timeout), `load_json` without `config_lock` |
| `ReadLeases`, `Rows` | `parse_lease4/6`: the last row of each address |
| `Commit` | `_replace_rows` and the fingerprint taken before, `COMMIT` |
| `GoOn`, `EndPass` | `ingest_all`'s order of tables, what it raises, who called it |
| `Load`, `SaveOpen`, `SaveDump`, `SaveClose`, `SaveFails` | a route that saves; the routes that create or delete a reservation (`Nudgers`) then call `reindex_now` under the lock. Editing one does not, although the module docstring (`state_index.py:41-44`) lists it |
| `Grant`, `Compact` | Kea (external): a row per transaction; the cleanup, which writes the last row of each address in an order of its own |

A pass of a page over its own table has the background thread's steps. The loss
of the process is, to each worker, one of the failures it can have anyway: SQLite
undoes its transaction and a file stays as far as it was written.

### SubnetConfig

One daemon's file. A CIDR is the set of its addresses; a shared network is a
slot with a name, since nothing but the routes keeps names different. The
parameters of a request are anything a form can hold, stale ones included, so
refused requests are stuttering steps. DHCPv4 and DHCPv6 routes that do the same
are one action; those that differ (`EditSubnet4`/`EditSubnet6`,
`NewSubnet4`/`NewSubnet6`, `DeleteReservations4`) are two. The forms that add and edit
a subnet strip the network's name and the one that makes a network does not, so one
of the two names of the run is the other with a blank after it (`Strip`).

## 3. The runs

| run | instance | checks |
|---|---|---|
| `config_two_daemons` | 3 requests, 2 daemons, every failure, 1 backup kept, clock may repeat | `TypeOK`, `CyclesNeverInterleave`, `Recoverable`, `FilesNeverMix`, `ImplementsAtomicConfig` |
| `config_survive` | 4 edits, backups or repoints of one daemon, every failure, `RepointsAlone` | `AnsweredEditsSurvive`, `EveryReplacedVersionKept` |
| `kea_apply` | an apply beside 2 requests, repoints too, every failure, fair | `KeaTypeOK`, `OnlyWrittenEditsRun`, `EveryRequestAnswered`, `AppliedMeansRunning`, `EveryApplyAnswered` |
| `log_rotation` | background and one reindex thread, 2 lines, rotations of both sorts, 3 inodes, a crash, an expiry, fair | `TypeOK`, `ResumesWhereItStopped`, `EachSourceInOrder`, `ReadOnceAlone`, `AlwaysCatchesUp` |
| `subnet_routes` | both families, 2 networks, 3 CIDRs, 3 ids, 2 clients | `TypeOK`, `NoOverlaps`, `IdsDiffer`, `NamesDiffer`, `IdentityKept`, `ReservationsKept`, `SubnetsGoOneByOne`, `OptionsKept6` |
| `settings_saves` | 3 saves or repoints, 2 versions, failing writes, restarts | `TypeOK`, `PointersPersisted`, `SerialSavesAgree`, `NeverDemotedBySaves` |
| `accounts_rights` | 2 browsers, 2 accounts, 8 requests, restarts | `TypeOK`, `SomeoneAdministers`, `EnabledIsConfirmed`, `SpentCodesStaySpent`, `AssignedMustChange`, `RightsFollowToggles` |
| `state_sources` | background thread, 2 saves of which one reindexes, 2 transactions of a lease, fair | `TypeOK`, `FreshIfUnchanged`, `RowsNeverGoBack`, `AnsweredSaveIsShown`, `IndexSettles` |
| `config_stale_lock` | 3 requests, a repoint | violates `CyclesNeverInterleave` |
| `log_indexed_twice` | two workers, a log that only grows | violates `ReadOncePerFile` |
| `log_torn_archive` | gzip may die, fair | violates `AlwaysCatchesUp` |
| `settings_first_repoint` | one request, a restart | violates `NeverDemoted` |

**The passing runs.** `config_two_daemons` says that, without repoints, what a
thread can see between the steps of a save never matters to another edit: the
files behave as if each edit and restore happened at one instant (the refinement
to `AtomicConfig`, under which a half-written file counts as its old content
until its writer closes it or fails), and that while it is half-written the
newest backup is exactly what was there. `config_survive` follows four requests
of a daemon through torn writes and restarts, and through repoints to another file and
back, which may not be there yet; restores are left out of it because they discard edits
on purpose, and its CONSTRAINT `RepointsAlone` leaves a repoint alone while it switches:
what happens otherwise is the first violation. `log_rotation` is about one path whose log is
renamed or copied and truncated, and compressed, while two workers ingest it, with
inodes and row ids that are given again: where the code goes wrong is only where the
history variables above say. `state_sources` lets
the two ingesters overlap with a save and with each other in every way: an older
fingerprint can be stored beside newer rows, which costs a parse, but never newer
beside older, and the empty file of a save under way, which does empty a table for
a moment, does not outlast a save that succeeds. `subnet_routes` sends any sequence of
requests. `kea_apply` reads the file at every moment of a save, for the test and
again for the reload: Kea may run another version than the one that was tested, and an
edit that nobody was answered, but never one that was not written in full, and a reload
that is answered over the control socket is true of a file nobody touched. It is also
the run in which each request is answered, on every early return and error path.
`subnet_routes` joins a subnet before and after a request on its id and on its CIDR, so
that neither can be given another, and counts each client's reservations. `settings_saves` lets
saves of the two versions overlap in every step, each under its own lock: the
pointers, which later decide what file everything edits, always come from the
running application, while a command field may be put back by the later writer (which
is why `SerialSavesAgree` is about requests that do not overlap). `accounts_rights`
separates what handlers read from what they commit: its properties name the few
overlaps that break them (`Races`) and the reuse of an id, and hold with every other
one, deletions and restarts in between included. They say nothing of the overlaps they
except; the hazards list these as what no property covers.

**Why the bounds are enough.** Three requests suffice for one to hold the lock,
one to wait with a stale view and one to come after; a fourth, in
`config_survive`, is a torn write between two answered edits followed by another
edit. `Keep = 1` makes pruning delete at every second backup. Two lines let a
batch of one leave the rest for the next pass; one rotation gives a live log, a
sibling and an archive, which is what three inodes are for, and a second one makes
an inode come back. Of rotations, an expiry, the crash and the reindex, any two
happen in one behaviour (`MaxIncidents`): two rotations, or one and whatever meets it,
or a prune and a reindex, which is what an id takes to be given again. A prune's batch of one makes it look up
twice. Two networks and two disjoint CIDRs with one around both are the overlaps and name
clashes there are; with two disjoint CIDRs two subnets are the most that coexist,
and the third id shows what happens after a deletion. In `kea_apply` one request may be
in the middle of a save while the other has repointed EZ-KEA, and either may happen
before, between and after the apply's two reads. Two settings requests overlap and
a third comes after. Eight requests of two browsers are a login, an enrolment and a
second login that redeems a code, with two to spare for the other browser; the initial
states include an installation in use, so that an administrator can act at once. The
named bounds are `Requests`, `Applies` and `Savers` (each served once), `MaxLines`,
`MaxRotations`, `MaxExpired`,
`MaxIncidents`, `MaxGrants`, `MaxCrashes`, `Slots`, `MaxId`, `MaxRes`, `Users` (the row
ids there are) and `MaxRequests`; an action whose bound is reached is disabled. `Forms`
bounds which fields a settings form fills in: none, the paths, the others, or all.

In `StateIndex` a save takes no time on the file's clock (`Advance = {0}`), which
makes its three moments as alike as they can be, but two saves are a tick
apart, and so are a lease file and its cleaned-up successor. Two transactions of
one address are what the cleanup needs to drop a row and the parser to choose one.

**Symmetry** is used in safety runs only, over requests, browsers, names, clients and
slots, none of which any definition tells apart.

**Fairness.** `ConfigStore`: a thread that can take a step takes one in the end
(weak fairness of `Serve(r)`); a lock that is free is a step for each of those
waiting, and with finitely many requests none can be passed over for ever.
Clients need not send anything, and crashes and failures are never required.
`KeaControl` adds weak fairness of each apply's own steps: its thread runs, and the
commands it starts are assumed to end (`subprocess.run` has no timeout). Kea owes
nothing: not to reload, and not to answer.
`LogIndex`: weak fairness of each worker's steps, for the background thread
loops for ever and a reindex thread runs; and gzip (`Fill \/ Compressed`), unless it
dies, finishes.
Kea need not write, logs need not rotate.
`StateIndex`: weak fairness of each worker's pass or save once it has begun; requests
need not arrive and Kea need not lease.

## 4. What the violations show

1. `config_stale_lock`: `with_config_lock` picks the lock before waiting
   (`config_manager.py:307`) and the view reads the path after. A request that
   waited through a repoint edits the new file under the old file's lock. (With a target
   that does not exist yet there is a second way, which the run leaves aside by starting
   with files: the repoint writes the skeleton of its target without the target's lock,
   `system.py:1046-1058`.)
2. `log_indexed_twice`: the stat before `BEGIN IMMEDIATE` (`log_index.py:468`) makes a
   second ingester take a log that grew for one that shrank, open a second row for it and
   index it twice, though "a second worker [...] finds the offset already advanced and
   does nothing" (`log_index.py:461-463`). `EachSourceInOrder` is of one row, and
   `ReadOnceAlone` of one ingester, for that reason.
3. `log_torn_archive`: `EOFError` escapes `ingest_all` (`log_index.py:561`), so one
   archive without its end keeps the live log from being indexed.
4. `settings_first_repoint`: on an installation whose settings were never saved, the
   repoint of one version persists the defaults for the other (`system.py:1030`), and
   the next start takes them for the operator's choice. The save branch seeds the
   other version from the running application, as its comment explains.

Also met while modelling, in the modules but without a run of their own:

- A restore overwrites the file without a backup (`config_manager.py:530`), though
  the feature list says that every write has one.
- The stored head hash is of the path at the end of the transaction
  (`log_index.py:538`): a log that is truncated in place, or whose inode another log
  gets, since the ingester's stat is resumed past lines nobody indexed. Such rows are
  `mixed`, the first exception of `ResumesWhereItStopped`.
- A prune looks up ids without a lock (`log_index.py:600`) and deletes by them
  (`607`): if a rebuild (`640`) comes between, the ids are those of fresh lines, which
  go, past a stored offset and for good. These lines are `lost`.
- An archive read before gzip has written to it is an archive of no lines, which is
  stored as complete and never looked at again (`log_index.py:489-495`).
- The leases and log paths a user saves are read back by no start
  (`__init__.py:66-87`), though the settings are there to "survive restarts"
  (`settings_manager.py:7-8`).
- Two toggles of an account's rights that overlap may undo each other, a committed
  revocation included; and a toggle or a confirmation in flight for a deleted account
  changes the new account that took its id (`models.py:18`).
- Editing a DHCPv4 subnet replaces its `option-data` by the router (`dhcp4.py:304`),
  which drops what the options page had set; `OptionsKept6` is about the other route.
- Two overlapping saves of the settings put back each other's command and log fields,
  against the comment at `system.py:1067-1069`.
- A confirmation of the second factor writes `totp_enabled` alone, and a new setup, a
  disabling or a reset that started before it writes the secret alone (`auth.py:533`):
  together they enable a secret nobody confirmed, the exception of
  `EnabledIsConfirmed`, though `models.py:26-27` says that an enrolment that is not
  finished can never lock anyone out.
- A password reset that overlaps the account's own setup loses `must_change_password`
  (`auth.py:445`), the exception of `AssignedMustChange`.

## 5. The proofs

All from the named assumptions on the constants (`ConfigStoreAssumption`,
`KeaControlAssumption`, `SubnetConfigAssumption`, `AccountsAssumption`,
`SettingsAssumption`, `StateIndexAssumption`, `LogIndexAssumption`), which the runs
evaluate; a theorem that needs more says so as its ASSUME, and the text below says
which run satisfies it. Each candidate for an inductive invariant was checked by TLC
on a small instance before it was proved.

**ConfigStoreProofs.** `TypeCorrect`: the type invariant. `LocksExclude`: a request
past its wait owns the lock it asked for (`LockHeld`), for any kinds and failures.
It is inductive because a lock is taken only when free and only its owner's
`Finish` or a crash, which ends everybody, frees it (lemma `ServeShape` reduces
the sixteen steps of a request to those three shapes). That is not yet
exclusion on files, since the path a request works on may not be the one it
locked: a request that waited through a repoint works on another, which is the first
violation. The next three theorems are therefore about the behaviours in which
`RepointsAlone` holds: from the moment a repoint persists its path until it is
answered, no other request for that daemon is under way. The code does not see to it;
a single operator does. Then every request in flight works on the file its daemon's
pointer names, and has that file locked unless it is a repoint that bootstraps it
(`Pinned`, inductive with `TypeOK` in those behaviours). `NoInterleaving` concludes
`CyclesNeverInterleave`: of two requests on one file neither is switching, so both
would own one lock.
`NoMixing` carries along what a request has read: files, backups
and what a request in its cycle has in its hands only have edits made for that path
(`OnlyOwnEdits`), and one that has read nothing has nothing to write
(`UnreadIsSkeleton`). `UndoPossible` needs the clock too (`NeverSetBack`): from its
copy to the end of its write, what an edit replaces is the newest backup of the file,
and no stamp lies in the future (`BackedUp`); pruning respects that because it deletes
the oldest. The corollaries `NoInterleavingWithoutRepoints`, `NoMixingWithoutRepoints`
and `UndoPossibleWithoutRepoints` are of the specification itself, for kinds of requests
without a repoint (`NoRepoint`), which run `config_two_daemons` satisfies.
`KeepsTheMostRecent` is the retention the README of EZ-KEA promises, with no hypothesis:
a backup goes only when a backup of the same file and second replaces it, or when a prune
leaves `Keep` later ones of that file. It rests on the directory being finite: among the
backups that a prune deletes there is a latest, and its later ones all remain.

**ConfigPromiseProofs.** `AnsweredEditsLast` and `ReplacedVersionsLast` are one
induction (`Lasting`): every answered edit is in the file or in a backup of it, and
every version an answered edit replaced is among the backups.
Both are about a file that nothing takes back on purpose and backups that are not
overwritten or pruned: `NoRestore`, `ClockAdvances` (no two backups in
one second) and `KeepsAll` (as many are kept as there are requests, or all), which
run `config_survive` satisfies, and `RepointsAlone` as above. A repoint takes nothing
back, since it writes only to a file that is missing. Losing the process and every
failing write are allowed. That `KeepsAll` is enough is a count: each backup is the only
one of a request that has got past its copy (`CountedBackups`). `AtomicEdits` is the
refinement, repoints and bootstraps included, in the behaviours with `RepointsAlone`: the
lock's exclusion leaves a file that is being written with one writer, whose content is
what it replaces and its own edit, or a backup for a restore, or nothing
(`WritesInPlace`), so that every step maps to a stutter or to a step of `AtomicConfig`:
the close of the file to the edit, the restore or the creation, a failure or a loss of
the process to nothing or to a torn file. `LastingWithoutRepoints` and
`AtomicEditsWithoutRepoints` are again of the specification itself, under `NoRepoint`.
The run of the refinement has no repoints; that it holds of those that are alone, files
that are created included, is what the theorem adds to it.

**KeaControlProofs.** Repoints, crashes and late answers are all allowed here; no
theorem has a hypothesis. `ReloadedMeansRunning`: until its command is sent, an apply
has no verdict and nothing queued at Kea (`Unsent`), and from Kea's load for it on,
Kea runs its file for as long as nobody touches it (`LoadedRuns`).
`RunsOnlyWritten`: at every moment, also in the middle of a save, files and backups
have written edits only, and a request's own configuration those and its own edit
(`StoredWritten`), because an edit counts as written from the step that closes the
file; so Kea, whatever it reads and however late, runs written edits only
(`RunsWritten`). An edit may be closed and never answered, so nothing can be said of
answered ones.

**SubnetConfigProofs.** `EveryStep` shows that each of the routes does one of four
things: names a network that no other has the name of, drops subnets and
networks, adds a subnet, or rewrites subnets in place with id, CIDR and place
kept. Every theorem is then an induction with four cases: `TypeCorrect`,
`SubnetsNeverOverlap`, `IdsTellSubnetsApart`, `NamesTellNetworksApart` and, as an
action property, `IdentityIsLocked`. Overlap and ids are proved together (`Apart`):
rewriting is a function of the old subnet, so two subnets that the rewriting
brings together need both facts to be told apart. `IdentityIsLocked` needs them as
well: it says of a subnet before and one after a step that having the id or the CIDR
in common they have both, and the place, and `Apart` makes the one that the fourth
case puts there the only candidate. `ReservationsStay` and
`OptionsStay6` refine the fourth case: what each rewriting does to reservations and
options (`Gentle`). `SubnetsStay` refines the second: what is dropped has one CIDR, or
the network around it goes too, and with `Apart` one CIDR is one subnet.

**SettingsProofs.** No theorem has a hypothesis. `PersistedPointers`: unless a repoint
overlapped with another request or found no settings to keep (`astray`), a save in flight carries the pointers of the
running application, a repoint in flight is the only request and replaces its own, and
the file, when whole, holds the pointers in use or those about to be (`PointersCarried`).
`FoundStaysFound` is an
action property: a start demotes a found daemon only by a file written out of
defaults, and until the first settings are saved the application runs with what was
found (`NothingSavedYet`), from which a save takes the other version; a repoint sets
its pointer to the path it was given (`RepointsToItself`). `SerialAgreement` follows a
lone request through its steps: what it composed is what the application will run
with, and the file agrees with the application before the write and with the request
after it (`OneAtATime`); what a start does to the leases and log paths depends on the
configuration's path alone, in which the two agree.

**AccountsProofs.** `RequestShape` shows that each handler's first half changes a
session only, or loads a row and keeps a proper one to commit: one that differs from
the row it loaded only where the operation may (`Proper`), about an account the
operation may touch (`Allowed`). Whatever was committed in between, the columns that
`Merge` then writes are those. `Rights` (the type invariant,
`SomeoneAdministers` and that every handler in flight is proper) is inductive, and
gives `SomeoneAlwaysAdministers` and the first half of `RightsOnlyByToggle`: only a
toggle writes the rights. Its second half, that a toggle turns the rights it finds, is
an induction of its own (`Toggles`): a toggle in flight still finds the rights it
loaded, because whoever changes them meanwhile is another toggle, which is a recorded
overlap (`TogglesAreRaces`), or the insertion of a new account with that id, which is
recorded too.
`AssignedAlwaysMustChange` needs more, since a reset of an account whose password has
to be changed already does not write that column: a reset in flight that loaded it
set finds it set (`ResetsFindMust`), because the one handler that clears it is a
setup, and a setup in flight beside a reset is a recorded overlap (`SetupsAreRaces`).
`EnabledAlwaysConfirmed` likewise (`Factor`): a confirmation loaded a secret that was
verified, a handler in flight that clears the factor and found none still finds none,
and a confirmation beside one that clears is a recorded overlap; a new account that
takes the id of one that a handler has loaded is recorded as `reuse`.
`UsedCodesAreGone` (`Codes`): two redemptions at once are a recorded overlap, so the
codes a redemption loaded are still unused (`RedeemsUnspent`), and the fresh codes that
a confirmation will store are nobody's yet (`Apart`); only the break-glass account has
codes (`CodesOfBreakGlass`).

**StateIndexProofs.** No theorem has a hypothesis; the clock may stand still between
the moments of one save. `NeverStaleUnnoticed` rests on `Fresh`: each change of a
source moves its fingerprint forward in the lexicographic order of time and size
(`Moved`; the cleanup of leases included), a fingerprint that was taken is not a later
one than the source's, and if it is the source's, what was parsed or stored with it is
what the source says (`Prints`, `Tables`). `TablesGoForward` adds that what a pass has
parsed is no older than the table it will replace (`Forward`), because nobody but the
holder of SQLite's lock commits. `SavedThenFound`: the route reindexes under
`config_lock`, so the file is still what it was when the route took the fingerprint
and when it parsed it (`Shown`).

**LogIndexProofs.** No theorem has a hypothesis: workers, lines, batches, the length
of fingerprints, rotations of both sorts, inodes and row ids that are given again, dying
gzips, reindexing, prunes and losses of the process are arbitrary. `IndexOK` is what
everything needs: the directory is in order (every file holds lines in the order of
writing, those of the renamed log come before those of the live one, and Kea writes to
one of the two), whoever is inside a transaction holds the write lock, and the row and
the offset that a worker resumes are still those of the database. `Lossy` adds the types
of what prunes have picked and lost.
`TypeCorrect` follows. `NoLineTwice` needs to say what
will be read (`Ordered`): what a source's path holds after the source's offset, now or
after any rotation, comes after every line the source has (`InLine`), and the same of a
batch in hand (`BatchInLine`). "Or after any rotation" is what makes it inductive
(`Beyond`): a path's file can be replaced between the stat and the read, and what may
come there is what Kea writes later or what is renamed from the live log, whose lines
are later still.
`GrowthIsNoRotation` (`Single`): with one ingester and no rotation there is one row,
the size the worker saw reaches the row's offset, and the head hash agrees, since it is
of the part that was consumed, which growing does not change.

`NeverAStaleOffset` says of every row that is not `mixed` and every line that is not
`lost` what the code promises of all. A row keeps its promise (`Faithful`): its hash
begins with a line that its path's file can only begin with while it is still that file,
and as long as it is, all that precedes the offset has been indexed, has expired or is
lost. What a worker has in hand, unless its file was swapped, is what its path holds at
the place it read, for as long as the path has the inode it saw (`InHand`). A commit
turns the second into the first, a prune takes away only what has expired or is then
`lost` (`WithoutRow`, `FaithfulLater`), and a swap is noted in the step that makes it
(`Swaps`), whatever the rotation. The two together (`AllRead`) are inductive.

**Only model-checked** is what TLAPS cannot prove here, liveness under fairness:
`EveryRequestAnswered`, `EveryApplyAnswered`, `AlwaysCatchesUp`, `IndexSettles`.

## 6. What is not modelled

Password-reset links and the counters of failed logins; forced enrolment, which
nothing requests. Settings fields beyond one of each sort. The content of HA hooks, global parameters and loggers (an edit like any other
for `ConfigStore`); addresses of reservations, option values, gateways and
delegated prefixes; the order of lists; hand-edited configurations that already
break a property; a shared network named like a URL part of `options.py`; parsing
of log lines and leases; search, rendering and CSV; license, mailer and version
probe, which are pure or plain I/O. Processes that write a Kea file without
EZ-KEA's lock are left out, since nothing in the code could coordinate with them.
The legacy control-socket rewrite of a bootstrapped skeleton is content.

## 7. The plan

Every safety property of the passing runs is a theorem. What is left is a finer model of
`LogIndex`, in which two prunes meet in the FTS index and a log line may be longer than a
batch, and properties of the overlaps that those of `Accounts` except: what an account
is left as by two handlers that race, hazards no property covers yet.
